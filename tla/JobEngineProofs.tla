--------------------------- MODULE JobEngineProofs ---------------------------
(***************************************************************************)
(* Theorems about JobEngine for any number of jobs, workers, slots and     *)
(* requests and any budget of events.                                      *)
(***************************************************************************)
EXTENDS JobEngine, FiniteSetTheorems, TLAPS


-----------------------------------------------------------------------------
(* The statements keep the rows typed. *)
LEMMA FreshTyped == Table!Absent \in Table!Row /\ Table!Fresh \in Table!Row
BY DEF Table!Absent, Table!Fresh, Table!Row, Table!Status, Table!Pending, Table!Terminal

LEMMA ClaimJobTyped ==
    ASSUME RowsTyped, NEW j \in Jobs, NEW w \in Workers, Table!ClaimJob(j, w)
    PROVE  RowsTyped'
<1>1. rows[j] \in Table!Row /\ rows[j].attempt + 1 \in Nat
  BY DEF RowsTyped, Table!Row
<1>2. [rows[j] EXCEPT !.status = "RUNNING", !.worker = w, !.attempt = @ + 1] \in Table!Row
  BY <1>1 DEF Table!Row, Table!Status, Table!Pending
<1>3. rows' = [rows EXCEPT ![j] = [rows[j] EXCEPT !.status = "RUNNING", !.worker = w,
                                                  !.attempt = @ + 1]]
  BY DEF Table!ClaimJob, Table!Running, RowsTyped
<1>4. QED BY <1>2, <1>3 DEF RowsTyped

LEMMA RecordFailureTyped ==
    ASSUME RowsTyped, NEW j \in Jobs, Table!RecordFailure(j)
    PROVE  RowsTyped'
<1>1. rows[j] \in Table!Row
  BY DEF RowsTyped
<1>2. CASE rows[j].attempt < MaxAttempts[j]
  <2>1. rows' = [rows EXCEPT ![j] =
                   [rows[j] EXCEPT !.status = "RETRYING", !.due = FALSE,
                      !.completed = FALSE, !.error = TRUE, !.worker = NoWorker]]
    BY <1>1, <1>2 DEF Table!RecordFailure, Table!Row, RowsTyped
  <2>2. QED BY <1>1, <2>1 DEF RowsTyped, Table!Row, Table!Status, Table!Pending
<1>3. CASE ~(rows[j].attempt < MaxAttempts[j])
  <2>1. rows' = [rows EXCEPT ![j] =
                   [rows[j] EXCEPT !.status = "DEAD_LETTER", !.completed = TRUE,
                      !.error = TRUE, !.worker = NoWorker]]
    BY <1>1, <1>3 DEF Table!RecordFailure, Table!Row, RowsTyped
  <2>2. QED BY <1>1, <2>1 DEF RowsTyped, Table!Row, Table!Status, Table!Terminal
<1>4. QED BY <1>2, <1>3

LEMMA OtherStatementsTyped ==
    ASSUME RowsTyped, NEW j \in Jobs,
           \/ Table!Insert(j) \/ Table!ManualRetry(j) \/ Table!MarkSucceeded(j)
           \/ Table!MarkFailed(j) \/ Table!Cancel(j) \/ Table!TimePasses(j)
    PROVE  RowsTyped'
<1>1. rows[j] \in Table!Row
  BY DEF RowsTyped
<1>2. ASSUME NEW row \in Table!Row, rows' = [rows EXCEPT ![j] = row]
      PROVE  RowsTyped'
  BY <1>2 DEF RowsTyped
<1>3. CASE Table!Insert(j)
  BY <1>2, <1>3, FreshTyped DEF Table!Insert
<1>4. CASE Table!ManualRetry(j)
  BY <1>2, <1>4, FreshTyped DEF Table!ManualRetry
<1>5. CASE Table!MarkSucceeded(j)
  <2>1. [rows[j] EXCEPT !.status = "SUCCEEDED", !.completed = TRUE, !.error = FALSE] \in Table!Row
    BY <1>1 DEF Table!Row, Table!Status, Table!Terminal
  <2>2. QED BY <1>2, <1>5, <2>1 DEF Table!MarkSucceeded, RowsTyped
<1>6. CASE Table!MarkFailed(j)
  <2>1. [rows[j] EXCEPT !.status = "FAILED", !.completed = TRUE, !.error = TRUE] \in Table!Row
    BY <1>1 DEF Table!Row, Table!Status, Table!Terminal
  <2>2. QED BY <1>2, <1>6, <2>1 DEF Table!MarkFailed, RowsTyped
<1>7. CASE Table!Cancel(j)
  <2>1. [rows[j] EXCEPT !.status = "CANCELLED", !.completed = TRUE] \in Table!Row
    BY <1>1 DEF Table!Row, Table!Status, Table!Terminal
  <2>2. QED BY <1>2, <1>7, <2>1 DEF Table!Cancel, RowsTyped
<1>8. CASE Table!TimePasses(j)
  <2>1. [rows[j] EXCEPT !.due = TRUE] \in Table!Row
    BY <1>1 DEF Table!Row
  <2>2. QED BY <1>2, <1>8, <2>1 DEF Table!TimePasses, RowsTyped
<1>9. QED BY <1>3, <1>4, <1>5, <1>6, <1>7, <1>8

LEMMA BatchStatementsTyped ==
    ASSUME RowsTyped
    PROVE  /\ \A S : Table!RequeueDueRetries(S) => RowsTyped'
           /\ \A w : Table!RecoverDeadWorkerJobs(w) => RowsTyped'
<1> USE DEF RowsTyped, Table!Row, Table!Status, Table!Pending
<1>1. \A j \in Jobs : [rows[j] EXCEPT !.status = "QUEUED"] \in Table!Row
  OBVIOUS
<1>2. \A j \in Jobs : [rows[j] EXCEPT !.status = "QUEUED", !.worker = NoWorker] \in Table!Row
  OBVIOUS
<1>3. ASSUME NEW S, Table!RequeueDueRetries(S) PROVE RowsTyped'
  BY <1>1, <1>3 DEF Table!RequeueDueRetries
<1>4. ASSUME NEW w, Table!RecoverDeadWorkerJobs(w) PROVE RowsTyped'
  BY <1>2, <1>4 DEF Table!RecoverDeadWorkerJobs
<1>5. QED BY <1>3, <1>4

(* The queue operations keep the queue typed. *)
LEMMA QueueStepTyped ==
    ASSUME Q!TypeOK, NEW j \in Jobs, NEW p \in Tiers
    PROVE  /\ Q!Enqueue(j, p) => Q!TypeOK'
           /\ Q!Claim(j) => Q!TypeOK'
           /\ Q!Ack(j) => Q!TypeOK'
           /\ \A S : Q!RequeueStale(S, p) => Q!TypeOK'
BY DEF Q!TypeOK, Q!Enqueue, Q!Claim, Q!ClaimFrom, Q!Ack, Q!RequeueStale

(* So does every step of the engine, for each variable it changes. *)
LEMMA SpendTyped ==
    ASSUME budget \in [Kinds -> Nat], NEW k \in Kinds, Spend(k)
    PROVE  budget' \in [Kinds -> Nat]
BY DEF Spend

LEMMA SpendAndWriteTyped ==
    ASSUME budget \in [Kinds -> Nat], WorkersTyped, NEW k \in Kinds, NEW w \in Workers,
           NEW st \in {"ACTIVE", "DRAINING"}, SpendAndWrite(k, w, st)
    PROVE  /\ budget' \in [Kinds -> Nat]
           /\ wstat' \in [Workers -> {"ACTIVE", "DRAINING", "OFFLINE"}]
BY DEF SpendAndWrite, Spend, WorkersTyped, Kinds

LEMMA SlotGoesTyped ==
    ASSUME SlotTyped, NEW s \in Slots, NEW j \in Jobs, NEW pc \in {"claimed", "running", "ack"},
           SlotGoes(s, pc, j)
    PROVE  SlotTyped'
BY JobEngineAssumption DEF SlotTyped, SlotGoes, Task

LEMMA SlotFreesTyped ==
    ASSUME SlotTyped, NEW s \in Slots, SlotFrees(s)
    PROVE  SlotTyped'
BY DEF SlotTyped, SlotFrees, Idle, Task

LEMMA ReqGoesTyped ==
    ASSUME ReqTyped, NEW r \in Reqs, NEW j \in Jobs, NEW pc \in {"enqueue", "ack"},
           ReqGoes(r, pc, j)
    PROVE  ReqTyped'
BY JobEngineAssumption DEF ReqTyped, ReqGoes, Task

LEMMA ReqEndsTyped ==
    ASSUME ReqTyped, NEW r \in Reqs, ReqEnds(r)
    PROVE  ReqTyped'
BY DEF ReqTyped, ReqEnds, Idle, Task

LEMMA EnqueuingTyped ==
    ASSUME SupTyped, sup.pc # "idle", NEW B \in SUBSET Jobs, Enqueuing(B)
    PROVE  SupTyped'
BY JobEngineAssumption DEF SupTyped, Enqueuing, NoPass

LEMMA EngineTypeInit == Init => TypeOK
<1> SUFFICES ASSUME Init PROVE TypeOK
  OBVIOUS
<1>1. RowsTyped
  BY FreshTyped DEF Init, InitWith, Table!Init, RowsTyped
<1>2. Q!TypeOK
  BY DEF Init, InitWith, Q!Init, Q!TypeOK
<1>3. SlotTyped /\ ReqTyped
  BY DEF Init, InitWith, SlotTyped, ReqTyped, Idle, Task
<1>4. WorkersTyped /\ SupTyped /\ sched \subseteq Jobs /\ budget \in [Kinds -> Nat]
  BY JobEngineAssumption DEF Init, InitWith, WorkersTyped, SupTyped, NoPass
<1>5. QED BY <1>1, <1>2, <1>3, <1>4 DEF TypeOK

(* The job of a busy slot, of a busy request and of a pass are real ones.  *)
LEMMA BusyHoldsJob ==
    ASSUME TypeOK
    PROVE  /\ \A s \in Slots : slot[s].pc # "idle" => slot[s].job \in Jobs
           /\ \A r \in Reqs : req[r].pc # "idle" => req[r].job \in Jobs
           /\ sup.pc # "idle" => sup.cur \in Workers
           /\ \A s \in Slots : Owner[s] \in Workers
BY JobEngineAssumption DEF TypeOK, SlotTyped, ReqTyped, SupTyped, Task

LEMMA SlotStepTyped ==
    ASSUME TypeOK, NEW s \in Slots, SlotStep(s)
    PROVE  TypeOK'
<1> USE BusyHoldsJob DEF At, TypeOK
<1>1. ASSUME NEW j \in Jobs, ClaimEntry(s, j) PROVE TypeOK'
  <2>1. Q!TypeOK'
    BY <1>1, QueueStepTyped DEF ClaimEntry, Tiers
  <2>2. SlotTyped'
    BY <1>1, SlotGoesTyped DEF ClaimEntry
  <2>3. QED BY <1>1, <2>1, <2>2
            DEF ClaimEntry, RowsTyped, WorkersTyped, ReqTyped, SupTyped
<1>2. CASE ClaimReplyLost(s)
  <2>1. Q!TypeOK'
    BY <1>2, QueueStepTyped DEF ClaimReplyLost, Tiers
  <2>2. budget' \in [Kinds -> Nat]
    BY <1>2, SpendTyped DEF ClaimReplyLost, Kinds
  <2>3. QED BY <1>2, <2>1, <2>2
            DEF ClaimReplyLost, RowsTyped, WorkersTyped, SlotTyped, ReqTyped, SupTyped
<1>3. CASE StartJob(s)
  <2>1. slot[s].job \in Jobs /\ Owner[s] \in Workers
    BY <1>3 DEF StartJob
  <2>2. RowsTyped'
    BY <1>3, <2>1, ClaimJobTyped DEF StartJob, RowsTyped
  <2>3. SlotTyped'
    BY <1>3, <2>1, SlotGoesTyped DEF StartJob
  <2>4. QED BY <1>3, <2>2, <2>3
            DEF StartJob, Q!TypeOK, WorkersTyped, ReqTyped, SupTyped
<1>4. CASE StartJobFails(s)
  <2>1. slot[s].job \in Jobs /\ Owner[s] \in Workers
    BY <1>4 DEF StartJobFails
  <2>2. RowsTyped'
    BY <1>4, <2>1, ClaimJobTyped DEF StartJobFails, RowsTyped
  <2>3. SlotTyped' /\ budget' \in [Kinds -> Nat]
    BY <1>4, SlotFreesTyped, SpendTyped DEF StartJobFails, Kinds
  <2>4. QED BY <1>4, <2>2, <2>3
            DEF StartJobFails, Q!TypeOK, WorkersTyped, ReqTyped, SupTyped
<1>5. CASE Report(s)
  <2>1. slot[s].job \in Jobs
    BY <1>5 DEF Report
  <2>2. RowsTyped'
    BY <1>5, <2>1, RecordFailureTyped, OtherStatementsTyped DEF Report
  <2>3. SlotTyped'
    BY <1>5, <2>1, SlotGoesTyped DEF Report
  <2>4. QED BY <1>5, <2>2, <2>3
            DEF Report, Q!TypeOK, WorkersTyped, ReqTyped, SupTyped
<1>6. CASE ReportFails(s)
  <2>1. slot[s].job \in Jobs
    BY <1>6 DEF ReportFails
  <2>2. SlotTyped' /\ budget' \in [Kinds -> Nat]
    BY <1>6, <2>1, SlotGoesTyped, SpendTyped DEF ReportFails, Kinds
  <2>3. QED BY <1>6, <2>2
            DEF ReportFails, storeVars, RowsTyped, Q!TypeOK, WorkersTyped, ReqTyped, SupTyped
<1>7. CASE AckEntry(s)
  <2>1. slot[s].job \in Jobs /\ 1 \in Tiers
    BY <1>7 DEF AckEntry, Tiers
  <2>2. Q!TypeOK'
    BY <1>7, <2>1, QueueStepTyped DEF AckEntry
  <2>3. SlotTyped'
    BY <1>7, SlotFreesTyped DEF AckEntry
  <2>4. QED BY <1>7, <2>2, <2>3
            DEF AckEntry, RowsTyped, WorkersTyped, ReqTyped, SupTyped
<1>8. CASE AckFails(s)
  <2>1. SlotTyped' /\ budget' \in [Kinds -> Nat]
    BY <1>8, SlotFreesTyped, SpendTyped DEF AckFails, Kinds
  <2>2. QED BY <1>8, <2>1
            DEF AckFails, storeVars, RowsTyped, Q!TypeOK, WorkersTyped, ReqTyped, SupTyped
<1>9. CASE Abandon(s)
  <2>1. SlotTyped'
    BY <1>9, SlotFreesTyped DEF Abandon
  <2>2. QED BY <1>9, <2>1
            DEF Abandon, storeVars, RowsTyped, Q!TypeOK, WorkersTyped, ReqTyped, SupTyped
<1>10. QED BY <1>1, <1>2, <1>3, <1>4, <1>5, <1>6, <1>7, <1>8, <1>9 DEF SlotStep

LEMMA WorkerStepTyped ==
    ASSUME TypeOK, NEW w \in Workers, WorkerStep(w)
    PROVE  TypeOK'
<1> USE DEF TypeOK, WorkersTyped
<1>1. CASE Shutdown(w)
  <2>1. budget' \in [Kinds -> Nat] /\ wstat' \in [Workers -> {"ACTIVE", "DRAINING", "OFFLINE"}]
    BY <1>1, SpendAndWriteTyped DEF Shutdown, Kinds
  <2>2. QED BY <1>1, <2>1 DEF Shutdown, RowsTyped, Q!TypeOK, SlotTyped, ReqTyped, SupTyped
<1>2. CASE Stop(w)
  <2>1. budget' \in [Kinds -> Nat]
    BY <1>2, SpendTyped DEF Stop, Kinds
  <2>2. QED BY <1>2, <2>1 DEF Stop, RowsTyped, Q!TypeOK, SlotTyped, ReqTyped, SupTyped
<1>3. CASE Crash(w)
  <2>1. budget' \in [Kinds -> Nat]
    BY <1>3, SpendTyped DEF Crash, Kinds
  <2>2. SlotTyped'
    BY <1>3 DEF Crash, SlotTyped, Idle, Task
  <2>3. QED BY <1>3, <2>1, <2>2 DEF Crash, storeVars, RowsTyped, Q!TypeOK, ReqTyped, SupTyped
<1>4. CASE Restart(w)
  <2>1. budget' \in [Kinds -> Nat] /\ wstat' \in [Workers -> {"ACTIVE", "DRAINING", "OFFLINE"}]
    BY <1>4, SpendAndWriteTyped DEF Restart, Kinds
  <2>2. QED BY <1>4, <2>1 DEF Restart, RowsTyped, Q!TypeOK, SlotTyped, ReqTyped, SupTyped
<1>5. CASE FallSilent(w)
  <2>1. budget' \in [Kinds -> Nat]
    BY <1>5, SpendTyped DEF FallSilent, Kinds
  <2>2. QED BY <1>5, <2>1
            DEF FallSilent, storeVars, RowsTyped, Q!TypeOK, SlotTyped, ReqTyped, SupTyped
<1>6. CASE Heartbeat(w)
  BY <1>6 DEF Heartbeat, storeVars, RowsTyped, Q!TypeOK, SlotTyped, ReqTyped, SupTyped
<1>7. QED BY <1>1, <1>2, <1>3, <1>4, <1>5, <1>6 DEF WorkerStep

LEMMA SchedulerStepTyped ==
    ASSUME TypeOK, SchedulerStep
    PROVE  TypeOK'
<1> USE JobEngineAssumption DEF TypeOK
<1>1. ASSUME NEW S \in SUBSET Table!DueRetries, PollRetries(S) PROVE TypeOK'
  <2>1. RowsTyped' /\ sched' \subseteq Jobs
    BY <1>1, BatchStatementsTyped DEF PollRetries, Table!DueRetries, Table!HasStatus
  <2>2. QED BY <1>1, <2>1
            DEF PollRetries, Q!TypeOK, WorkersTyped, SlotTyped, ReqTyped, SupTyped
<1>2. ASSUME NEW j \in Jobs, BackoffEnds(j) PROVE TypeOK'
  <2>1. RowsTyped'
    BY <1>2, OtherStatementsTyped DEF BackoffEnds
  <2>2. QED BY <1>2, <2>1
            DEF BackoffEnds, Q!TypeOK, WorkersTyped, SlotTyped, ReqTyped, SupTyped
<1>3. ASSUME NEW j \in Jobs, EnqueueRetry(j) PROVE TypeOK'
  <2>1. Q!TypeOK'
    BY <1>3, QueueStepTyped DEF EnqueueRetry
  <2>2. QED BY <1>3, <2>1
            DEF EnqueueRetry, RowsTyped, WorkersTyped, SlotTyped, ReqTyped, SupTyped
<1>4. ASSUME NEW j \in Jobs, EnqueueRetryFails(j) PROVE TypeOK'
  <2>1. budget' \in [Kinds -> Nat]
    BY <1>4, SpendTyped DEF EnqueueRetryFails, Kinds
  <2>2. QED BY <1>4, <2>1
            DEF EnqueueRetryFails, storeVars, RowsTyped, Q!TypeOK, WorkersTyped,
                SlotTyped, ReqTyped, SupTyped
<1>5. ASSUME NEW S \in SUBSET Table!DueRetries, PollRetriesBreaksOff(S) PROVE TypeOK'
  <2>1. RowsTyped' /\ sched' \subseteq Jobs
    BY <1>5, BatchStatementsTyped DEF PollRetriesBreaksOff, Table!DueRetries, Table!HasStatus
  <2>2. budget' \in [Kinds -> Nat]
    BY <1>5, SpendTyped DEF PollRetriesBreaksOff, Kinds
  <2>3. QED BY <1>5, <2>1, <2>2
            DEF PollRetriesBreaksOff, Q!TypeOK, WorkersTyped, SlotTyped, ReqTyped, SupTyped
<1>6. QED BY <1>1, <1>2, <1>3, <1>4, <1>5 DEF SchedulerStep

LEMMA SupervisorStepTyped ==
    ASSUME TypeOK, SupervisorStep
    PROVE  TypeOK'
<1> USE JobEngineAssumption DEF TypeOK
<1>1. CASE FindDeadWorkers
  <2>1. SupTyped'
    BY <1>1 DEF FindDeadWorkers, SupTyped, WorkersTyped
  <2>2. QED BY <1>1, <2>1
            DEF FindDeadWorkers, storeVars, RowsTyped, Q!TypeOK, WorkersTyped, SlotTyped, ReqTyped
<1>2. ASSUME NEW w \in Workers, MarkOffline(w) PROVE TypeOK'
  <2>1. SupTyped'
    BY <1>2 DEF MarkOffline, SupTyped
  <2>2. budget' \in [Kinds -> Nat]
    BY <1>2, SpendTyped DEF MarkOffline, Kinds
  <2>3. QED BY <1>2, <2>1, <2>2
            DEF MarkOffline, RowsTyped, Q!TypeOK, WorkersTyped, SlotTyped, ReqTyped
<1>3. CASE RecoverJobs
  <2>1. Table!RunningOn(sup.cur) \in SUBSET Jobs
    BY DEF Table!RunningOn, Table!HasStatus
  <2>2. SupTyped' /\ RowsTyped'
    BY <1>3, <2>1, EnqueuingTyped, BatchStatementsTyped DEF RecoverJobs
  <2>3. QED BY <1>3, <2>2
            DEF RecoverJobs, Q!TypeOK, WorkersTyped, SlotTyped, ReqTyped
<1>4. CASE RecoverJobsFails
  <2>1. \E B \in SUBSET Jobs : Enqueuing(B)
    BY <1>4 DEF RecoverJobsFails, Table!RunningOn, Table!HasStatus
  <2>2. SupTyped'
    BY <1>4, <2>1, EnqueuingTyped DEF RecoverJobsFails
  <2>3. RowsTyped'
    BY <1>4, BatchStatementsTyped DEF RecoverJobsFails, RowsTyped
  <2>4. budget' \in [Kinds -> Nat]
    BY <1>4, SpendTyped DEF RecoverJobsFails, Kinds
  <2>5. QED BY <1>4, <2>2, <2>3, <2>4
            DEF RecoverJobsFails, Q!TypeOK, WorkersTyped, SlotTyped, ReqTyped
<1>5. ASSUME NEW j \in Jobs, EnqueueRecovered(j) PROVE TypeOK'
  <2>1. sup.batch \ {j} \in SUBSET Jobs
    BY DEF SupTyped
  <2>2. SupTyped' /\ Q!TypeOK'
    BY <1>5, <2>1, EnqueuingTyped, QueueStepTyped DEF EnqueueRecovered
  <2>3. QED BY <1>5, <2>2
            DEF EnqueueRecovered, RowsTyped, WorkersTyped, SlotTyped, ReqTyped
<1>6. ASSUME NEW j \in Jobs, EnqueueRecoveredFails(j) PROVE TypeOK'
  <2>1. sup.batch \ {j} \in SUBSET Jobs
    BY DEF SupTyped
  <2>2. SupTyped' /\ budget' \in [Kinds -> Nat]
    BY <1>6, <2>1, EnqueuingTyped, SpendTyped DEF EnqueueRecoveredFails, Kinds
  <2>3. QED BY <1>6, <2>2
            DEF EnqueueRecoveredFails, storeVars, RowsTyped, Q!TypeOK, WorkersTyped,
                SlotTyped, ReqTyped
<1>7. QED BY <1>1, <1>2, <1>3, <1>4, <1>5, <1>6 DEF SupervisorStep

LEMMA RequestStepTyped ==
    ASSUME TypeOK, NEW r \in Reqs, RequestStep(r)
    PROVE  TypeOK'
<1> USE JobEngineAssumption DEF ReqAt, TypeOK
<1>1. ASSUME NEW j \in Jobs, CreateJob(r, j) PROVE TypeOK'
  <2>1. RowsTyped' /\ ReqTyped'
    BY <1>1, OtherStatementsTyped, ReqGoesTyped DEF CreateJob
  <2>2. QED BY <1>1, <2>1 DEF CreateJob, Q!TypeOK, WorkersTyped, SlotTyped, SupTyped
<1>2. ASSUME NEW j \in Jobs, RetryJob(r, j) PROVE TypeOK'
  <2>1. RowsTyped' /\ ReqTyped' /\ budget' \in [Kinds -> Nat]
    BY <1>2, OtherStatementsTyped, ReqGoesTyped, SpendTyped DEF RetryJob, Kinds
  <2>2. QED BY <1>2, <2>1 DEF RetryJob, Q!TypeOK, WorkersTyped, SlotTyped, SupTyped
<1>3. ASSUME NEW j \in Jobs, CancelJob(r, j) PROVE TypeOK'
  <2>1. RowsTyped' /\ ReqTyped' /\ budget' \in [Kinds -> Nat]
    BY <1>3, OtherStatementsTyped, ReqGoesTyped, SpendTyped DEF CancelJob, Kinds
  <2>2. QED BY <1>3, <2>1 DEF CancelJob, Q!TypeOK, WorkersTyped, SlotTyped, SupTyped
<1>4. CASE EnqueueRequested(r)
  <2>1. req[r].job \in Jobs /\ Prio[req[r].job] \in Tiers
    BY <1>4, BusyHoldsJob DEF EnqueueRequested
  <2>2. Q!TypeOK' /\ ReqTyped'
    BY <1>4, <2>1, QueueStepTyped, ReqEndsTyped DEF EnqueueRequested
  <2>3. QED BY <1>4, <2>2 DEF EnqueueRequested, RowsTyped, WorkersTyped, SlotTyped, SupTyped
<1>5. CASE AckCancelled(r)
  <2>1. req[r].job \in Jobs /\ 1 \in Tiers
    BY <1>5, BusyHoldsJob DEF AckCancelled, Tiers
  <2>2. Q!TypeOK' /\ ReqTyped'
    BY <1>5, <2>1, QueueStepTyped, ReqEndsTyped DEF AckCancelled
  <2>3. QED BY <1>5, <2>2 DEF AckCancelled, RowsTyped, WorkersTyped, SlotTyped, SupTyped
<1>6. CASE RequestFails(r)
  <2>1. ReqTyped' /\ budget' \in [Kinds -> Nat]
    BY <1>6, ReqEndsTyped, SpendTyped DEF RequestFails, Kinds
  <2>2. QED BY <1>6, <2>1
            DEF RequestFails, storeVars, RowsTyped, Q!TypeOK, WorkersTyped, SlotTyped, SupTyped
<1>7. QED BY <1>1, <1>2, <1>3, <1>4, <1>5, <1>6 DEF RequestStep

LEMMA EngineTypeStep == TypeOK /\ [Next]_vars => TypeOK'
<1> SUFFICES ASSUME TypeOK, [Next]_vars PROVE TypeOK'
  OBVIOUS
<1> USE DEF TypeOK
<1>1. ASSUME NEW S \in SUBSET leased, RecoverLeases(S) PROVE TypeOK'
  <2>1. DefaultPriority \in Tiers
    BY DEF DefaultPriority, Tiers
  <2>2. Q!TypeOK'
    BY <1>1, <2>1 DEF RecoverLeases, Q!TypeOK, Q!RequeueStale
  <2>3. QED BY <1>1, <2>2
            DEF RecoverLeases, RowsTyped, WorkersTyped, SlotTyped, ReqTyped, SupTyped
<1>2. CASE CrashApi
  <2>1. budget' \in [Kinds -> Nat]
    BY <1>2, SpendTyped DEF CrashApi, Kinds
  <2>2. ReqTyped' /\ SupTyped' /\ sched' \subseteq Jobs
    BY <1>2, JobEngineAssumption DEF CrashApi, ReqTyped, SupTyped, NoPass, Idle, Task
  <2>3. QED BY <1>2, <2>1, <2>2
            DEF CrashApi, storeVars, RowsTyped, Q!TypeOK, WorkersTyped, SlotTyped
<1>3. CASE UNCHANGED vars
  BY <1>3 DEF vars, RowsTyped, Q!TypeOK, WorkersTyped, SlotTyped, ReqTyped, SupTyped
<1>4. QED BY <1>1, <1>2, <1>3, SlotStepTyped, WorkerStepTyped, SchedulerStepTyped,
             SupervisorStepTyped, RequestStepTyped DEF Next

(* Every part of the engine's state keeps its type, for any instance. *)
THEOREM EngineTyped == Spec => []TypeOK
<1>1. QED BY EngineTypeInit, EngineTypeStep, PTL DEF Spec

-----------------------------------------------------------------------------
(* At most one execution.  First the supervisor's part: as long as no      *)
(* event is left that can have a live worker held for dead, it deals with  *)
(* dead processes only, and those have no busy slot.                       *)
LEMMA SpendKeeps ==
    ASSUME budget \in [Kinds -> Nat], NEW k \in Kinds, Spend(k),
           NoFalseDeaths(budget)
    PROVE  /\ k # "suspect" /\ NoFalseDeaths(budget')
           /\ budget'["restart"] > 0 => budget["restart"] > 0
BY DEF Spend, Kinds, NoFalseDeaths

LEMMA SpendAndWriteKeeps ==
    ASSUME budget \in [Kinds -> Nat], NEW k \in Kinds \ {"statusErr"}, NEW w, NEW st,
           SpendAndWrite(k, w, st), NoFalseDeaths(budget)
    PROVE  NoFalseDeaths(budget')
<1>1. CASE Spend(k)
  BY <1>1, SpendKeeps
<1>2. CASE /\ budget[k] > 0 /\ budget["statusErr"] > 0
           /\ budget' = [budget EXCEPT ![k] = @ - 1, !["statusErr"] = @ - 1]
  <2>1. \A i \in Kinds : budget[i] = 0 => budget'[i] = 0
    BY <1>2
  <2>2. {"suspect", "restart", "crash", "statusErr", "shutdown"} \subseteq Kinds
    BY DEF Kinds
  <2>3. QED BY <2>1, <2>2 DEF NoFalseDeaths
<1>3. QED BY <1>1, <1>2 DEF SpendAndWrite

LEMMA ReapInit ==
    ASSUME NoFalseDeaths(Budget), Init
    PROVE  OnlyDeadAreReaped
BY DEF Init, InitWith, OnlyDeadAreReaped, NobodyDied, NoPass, At, Idle

(* Whatever else was spent, a restart is left only if one was before. *)
LEMMA RestartLeft ==
    ASSUME TypeOK, OnlyDeadAreReaped,
           UNCHANGED budget \/ \E k \in Kinds : Spend(k)
    PROVE  /\ NoFalseDeaths(budget')
           /\ budget'["restart"] > 0 => budget["restart"] > 0 /\ NobodyDied
BY SpendKeeps DEF TypeOK, OnlyDeadAreReaped

LEMMA ReapSlotStep ==
    ASSUME TypeOK, OnlyDeadAreReaped, NEW s \in Slots, SlotStep(s)
    PROVE  OnlyDeadAreReaped'
<1> USE DEF OnlyDeadAreReaped
<1>1. /\ UNCHANGED <<wstat, silent, proc, sup>>
      /\ UNCHANGED budget \/ Spend("storeErr")
  BY DEF SlotStep, ClaimEntry, ClaimReplyLost, StartJob, StartJobFails, Report,
         ReportFails, AckEntry, AckFails, Abandon, storeVars
<1>2. NoFalseDeaths(budget') /\ (budget'["restart"] > 0 => NobodyDied')
  BY <1>1, RestartLeft DEF Kinds, NobodyDied
<1>3. ASSUME NEW t \in Slots, proc[Owner[t]] = "down" PROVE At("idle", t)'
  <2>1. At("idle", t)
    BY <1>3
  <2>2. CASE proc[Owner[s]] # "down"
    <3>1. t # s /\ slot'[t] = slot[t]
      BY <1>3, <2>2 DEF SlotStep, ClaimEntry, ClaimReplyLost, StartJob, StartJobFails,
                  Report, ReportFails, AckEntry, AckFails, Abandon, storeVars,
                  SlotGoes, SlotFrees, TypeOK, SlotTyped
    <3>2. QED BY <2>1, <3>1 DEF At
  <2>3. CASE proc[Owner[s]] = "down"
    BY <2>3 DEF SlotStep, ClaimEntry, ClaimReplyLost, StartJob, StartJobFails, Report,
                ReportFails, AckEntry, AckFails, Abandon, Alive
  <2>4. QED BY <2>2, <2>3
<1>4. QED BY <1>1, <1>2, <1>3

LEMMA ReapWorkerStep ==
    ASSUME TypeOK, OnlyDeadAreReaped, NEW w \in Workers, WorkerStep(w)
    PROVE  OnlyDeadAreReaped'
<1> USE JobEngineAssumption DEF OnlyDeadAreReaped, TypeOK, WorkersTyped, SlotTyped, SupTyped
<1>1. CASE Shutdown(w)
  <2>1. Spend("shutdown") /\ wstat' = [wstat EXCEPT ![w] = "DRAINING"]
    BY <1>1 DEF Shutdown, SpendAndWrite, NoFalseDeaths
  <2>2. NoFalseDeaths(budget') /\ (budget'["restart"] > 0 => NobodyDied)
    BY <2>1, RestartLeft DEF Kinds
  <2>3. NobodyDied => NobodyDied'
    BY <1>1, <2>1 DEF Shutdown, NobodyDied
  <2>4. QED BY <1>1, <2>1, <2>2, <2>3 DEF Shutdown, At
<1>2. CASE Stop(w)
  <2>1. /\ NoFalseDeaths(budget') /\ (budget'["restart"] > 0 => NobodyDied)
        /\ wstat' = [wstat EXCEPT ![w] = "OFFLINE"] \/ UNCHANGED wstat
    BY <1>2, RestartLeft DEF Stop, Kinds
  <2>2. wstat[w] # "ACTIVE" /\ proc' = [proc EXCEPT ![w] = "down"]
    BY <1>2 DEF Stop
  <2>3. \A v \in Workers : wstat'[v] = "ACTIVE" => wstat[v] = "ACTIVE" /\ v # w
    BY <2>1, <2>2
  <2>4. NobodyDied => NobodyDied'
    BY <1>2, <2>2, <2>3 DEF Stop, NobodyDied
  <2>5. \A s \in Slots : proc'[Owner[s]] = "down" => At("idle", s)'
    BY <1>2, <2>2 DEF Stop, At, SlotsOf
  <2>6. \A v \in Workers : proc'[v] = "draining" => proc[v] = "draining"
    BY <2>2
  <2>7. \A v \in Workers : proc[v] = "down" => proc'[v] = "down"
    BY <2>2
  <2>8. QED BY <1>2, <2>1, <2>3, <2>4, <2>5, <2>6, <2>7 DEF Stop
<1>3. CASE Crash(w)
  <2>1. NoFalseDeaths(budget') /\ ~(budget'["restart"] > 0)
    BY <1>3, RestartLeft DEF Crash, Spend, Kinds, NoFalseDeaths
  <2>2. \A s \in Slots : proc'[Owner[s]] = "down" => At("idle", s)'
    BY <1>3 DEF Crash, At, Idle
  <2>3. QED BY <1>3, <2>1, <2>2 DEF Crash, storeVars
<1>4. CASE Restart(w)
  <2>1. budget["restart"] > 0 /\ NobodyDied
    BY <1>4 DEF Restart, SpendAndWrite, Spend
  <2>2. NoFalseDeaths(budget')
    BY <1>4, SpendAndWriteKeeps DEF Restart, Kinds
  <2>3. /\ proc' = [proc EXCEPT ![w] = "up"] /\ silent' = silent \ {w}
        /\ wstat' = [wstat EXCEPT ![w] = "ACTIVE"] \/ UNCHANGED wstat
        /\ UNCHANGED <<slot, sup>>
    BY <1>4 DEF Restart, SpendAndWrite
  <2>4. NobodyDied'
    BY <2>1, <2>3 DEF NobodyDied
  <2>5. \A v \in silent' : wstat'[v] = "ACTIVE" => proc'[v] = "down"
    BY <2>3
  <2>6. \A v \in Workers : proc'[v] = "draining" => wstat'[v] # "ACTIVE"
    BY <2>3
  <2>7. \A s \in Slots : proc'[Owner[s]] = "down" => At("idle", s)'
    BY <2>3 DEF At
  <2>8. sup'.dead = {} /\ sup'.pc = "idle"
    BY <2>4 DEF NobodyDied
  <2>9. QED BY <2>2, <2>4, <2>5, <2>6, <2>7, <2>8
<1>5. CASE FallSilent(w)
  <2>1. proc[w] # "up" /\ UNCHANGED budget
    BY <1>5, SpendKeeps DEF FallSilent, Kinds
  <2>2. wstat[w] = "ACTIVE" => proc[w] = "down"
    BY <2>1
  <2>3. QED BY <1>5, <2>1, <2>2 DEF FallSilent, storeVars, At, NobodyDied
<1>6. CASE Heartbeat(w)
  BY <1>6 DEF Heartbeat, storeVars, At, NobodyDied
<1>7. QED BY <1>1, <1>2, <1>3, <1>4, <1>5, <1>6 DEF WorkerStep

(* A pass begins with a dead worker, so nobody restarts while one is on. *)
LEMMA ReapSupervisorStep ==
    ASSUME TypeOK, OnlyDeadAreReaped, SupervisorStep
    PROVE  OnlyDeadAreReaped'
<1> USE JobEngineAssumption DEF OnlyDeadAreReaped, TypeOK, WorkersTyped, SupTyped
<1>1. CASE FindDeadWorkers
  <2>1. ~(budget["restart"] > 0)
    BY <1>1 DEF FindDeadWorkers, NobodyDied
  <2>2. QED BY <1>1, <2>1 DEF FindDeadWorkers, storeVars, At
<1>2. ASSUME NEW w \in Workers, MarkOffline(w) PROVE OnlyDeadAreReaped'
  <2>1. NoFalseDeaths(budget') /\ ~(budget'["restart"] > 0)
    BY <1>2, RestartLeft DEF MarkOffline, Kinds, NobodyDied
  <2>2. \A v \in Workers : wstat'[v] \in {wstat[v], "OFFLINE"}
    BY <1>2 DEF MarkOffline
  <2>3. QED BY <1>2, <2>1, <2>2 DEF MarkOffline, At
<1>3. ASSUME NEW B, Enqueuing(B), sup.pc # "idle",
             UNCHANGED <<wstat, silent, proc, slot>>,
             UNCHANGED budget \/ Spend("storeErr")
      PROVE  OnlyDeadAreReaped'
  <2>1. NoFalseDeaths(budget') /\ ~(budget'["restart"] > 0)
    BY <1>3, RestartLeft DEF Kinds, NobodyDied
  <2>2. sup'.dead = sup.dead /\ (sup'.pc # "idle" => sup'.cur = sup.cur)
    BY <1>3 DEF Enqueuing, NoPass
  <2>3. QED BY <1>3, <2>1, <2>2 DEF At
<1>4. CASE RecoverJobs
  BY <1>3, <1>4 DEF RecoverJobs
<1>5. CASE RecoverJobsFails
  BY <1>3, <1>5 DEF RecoverJobsFails
<1>6. ASSUME NEW j \in Jobs, EnqueueRecovered(j) PROVE OnlyDeadAreReaped'
  BY <1>3, <1>6 DEF EnqueueRecovered
<1>7. ASSUME NEW j \in Jobs, EnqueueRecoveredFails(j) PROVE OnlyDeadAreReaped'
  BY <1>3, <1>7 DEF EnqueueRecoveredFails, storeVars
<1>8. QED BY <1>1, <1>2, <1>4, <1>5, <1>6, <1>7 DEF SupervisorStep

LEMMA ReapStep ==
    TypeOK /\ OnlyDeadAreReaped /\ [Next]_vars => OnlyDeadAreReaped'
<1> SUFFICES ASSUME TypeOK, OnlyDeadAreReaped, [Next]_vars PROVE OnlyDeadAreReaped'
  OBVIOUS
<1>1. ASSUME UNCHANGED <<wstat, silent, proc, slot, sup>>,
             \/ UNCHANGED budget
             \/ \E k \in {"storeErr", "cancel", "retry"} : Spend(k)
      PROVE  OnlyDeadAreReaped'
  <2>1. NoFalseDeaths(budget') /\ (budget'["restart"] > 0 => NobodyDied)
    BY <1>1, RestartLeft DEF Kinds
  <2>2. QED BY <1>1, <2>1 DEF OnlyDeadAreReaped, NobodyDied, At
<1>2. ASSUME NEW S \in SUBSET leased, RecoverLeases(S) PROVE OnlyDeadAreReaped'
  BY <1>1, <1>2 DEF RecoverLeases
<1>3. CASE SchedulerStep
  BY <1>1, <1>3 DEF SchedulerStep, PollRetries, PollRetriesBreaksOff, BackoffEnds, EnqueueRetry,
                    EnqueueRetryFails, storeVars
<1>4. ASSUME NEW r \in Reqs, RequestStep(r) PROVE OnlyDeadAreReaped'
  BY <1>1, <1>4 DEF RequestStep, CreateJob, RetryJob, CancelJob, EnqueueRequested,
                    AckCancelled, RequestFails, storeVars
<1>5. CASE CrashApi
  <2>1. NoFalseDeaths(budget') /\ (budget'["restart"] > 0 => NobodyDied)
    BY <1>5, RestartLeft DEF CrashApi, Kinds
  <2>2. QED BY <1>5, <2>1 DEF CrashApi, storeVars, OnlyDeadAreReaped, NobodyDied, NoPass, At
<1>6. CASE UNCHANGED vars
  BY <1>1, <1>6 DEF vars
<1>7. QED BY <1>2, <1>3, <1>4, <1>5, <1>6, ReapSlotStep, ReapWorkerStep,
             ReapSupervisorStep DEF Next

(* Then the slots' part.  A slot gets a job to execute only from a row     *)
(* that no other slot executes, since those rows are RUNNING or CANCELLED. *)
ExecInv == TypeOK /\ OnlyDeadAreReaped /\ ExecutorOwnsRow /\ AtMostOneExecution

(* A step that starts no execution and leaves the executed rows RUNNING or *)
(* CANCELLED under their worker keeps both.                                *)
LEMMA ExecutionsShrink ==
    ASSUME ExecutorOwnsRow, AtMostOneExecution,
           \A s \in Slots : At("running", s)' => slot'[s] = slot[s],
           \A s \in Slots : At("running", s)' =>
               /\ rows'[slot[s].job].status \in {"RUNNING", "CANCELLED"}
               /\ rows'[slot[s].job].worker = rows[slot[s].job].worker
    PROVE  ExecutorOwnsRow' /\ AtMostOneExecution'
BY DEF ExecutorOwnsRow, AtMostOneExecution, At

LEMMA ExecSlotStep ==
    ASSUME ExecInv, NEW s \in Slots, SlotStep(s)
    PROVE  ExecutorOwnsRow' /\ AtMostOneExecution'
<1> USE DEF ExecInv, TypeOK, SlotTyped, RowsTyped
<1>1. CASE UNCHANGED rows /\ \E pc \in {"claimed", "ack"}, j \in Jobs : SlotGoes(s, pc, j)
  BY <1>1, ExecutionsShrink DEF SlotGoes, At, ExecutorOwnsRow
<1>2. CASE UNCHANGED rows /\ (SlotFrees(s) \/ UNCHANGED slot)
  BY <1>2, ExecutionsShrink DEF SlotFrees, Idle, At, ExecutorOwnsRow
<1>3. CASE StartJob(s)
  <2>1. slot[s].job \in Jobs /\ Owner[s] \in Workers
    BY <1>3, BusyHoldsJob DEF StartJob, At
  <2> DEFINE j == slot[s].job
  <2>2. CASE Table!ClaimJob(j, Owner[s]) /\ SlotGoes(s, "running", j)
    <3>1. rows[j].status \in {"QUEUED", "RETRYING"}
      BY <2>2 DEF Table!ClaimJob, Table!Claimable
    <3>2. \A t \in Slots : At("running", t) => slot[t].job # j
      BY <3>1 DEF ExecutorOwnsRow
    <3>3. /\ rows'[j].status = "RUNNING" /\ rows'[j].worker = Owner[s]
          /\ \A i \in Jobs : i # j => rows'[i] = rows[i]
      BY <2>1, <2>2 DEF Table!ClaimJob, Table!Running, Table!Row
    <3>4. /\ slot'[s] = [pc |-> "running", job |-> j]
          /\ \A t \in Slots : t # s => slot'[t] = slot[t]
      BY <2>2 DEF SlotGoes
    <3>5. \A t \in Slots : t # s /\ At("running", t) =>
             slot[t].job \in Jobs /\ slot[t].job # j
      BY <3>2, BusyHoldsJob DEF At
    <3>6. ExecutorOwnsRow'
      BY <3>3, <3>4, <3>5 DEF ExecutorOwnsRow, At
    <3>7. AtMostOneExecution'
      BY <3>4, <3>5 DEF AtMostOneExecution, At
    <3>8. QED BY <3>6, <3>7
  <2>3. CASE SlotGoes(s, "ack", j) /\ UNCHANGED rows
    BY <1>1, <2>1, <2>3
  <2>4. QED BY <1>3, <2>2, <2>3 DEF StartJob
<1>4. CASE StartJobFails(s)
  <2>1. slot[s].job \in Jobs /\ Owner[s] \in Workers
    BY <1>4, BusyHoldsJob DEF StartJobFails, At
  <2>2. CASE Table!ClaimJob(slot[s].job, Owner[s])
    <3>1. rows[slot[s].job].status \in {"QUEUED", "RETRYING"}
      BY <2>2 DEF Table!ClaimJob, Table!Claimable
    <3>2. \A i \in Jobs : i # slot[s].job => rows'[i] = rows[i]
      BY <2>2 DEF Table!ClaimJob, Table!Running
    <3>3. \A t \in Slots : At("running", t)' => At("running", t) /\ slot'[t] = slot[t]
      BY <1>4 DEF StartJobFails, SlotFrees, Idle, At
    <3>4. \A t \in Slots : At("running", t)' =>
             slot[t].job \in Jobs /\ slot[t].job # slot[s].job
      BY <3>1, <3>3, BusyHoldsJob DEF ExecutorOwnsRow, At
    <3>5. QED BY <3>2, <3>3, <3>4, ExecutionsShrink DEF ExecutorOwnsRow
  <2>3. QED BY <1>2, <1>4, <2>2 DEF StartJobFails
<1>5. CASE Report(s)
  <2>1. slot[s].job \in Jobs
    BY <1>5, BusyHoldsJob DEF Report, At
  <2>2. \A i \in Jobs : i # slot[s].job => rows'[i] = rows[i]
    BY <1>5 DEF Report, Table!MarkSucceeded, Table!RecordFailure, Table!MarkFailed
  <2>3. \A t \in Slots : At("running", t)' => t # s /\ At("running", t) /\ slot'[t] = slot[t]
    BY <1>5 DEF Report, SlotGoes, At
  <2>4. \A t \in Slots : At("running", t)' =>
           slot[t].job \in Jobs /\ slot[t].job # slot[s].job
    BY <1>5, <2>3, BusyHoldsJob DEF Report, AtMostOneExecution, At
  <2>5. QED BY <2>2, <2>3, <2>4, ExecutionsShrink DEF ExecutorOwnsRow
<1>6. CASE ReportFails(s)
  BY <1>1, <1>6, BusyHoldsJob DEF ReportFails, storeVars, At
<1>7. QED BY <1>1, <1>2, <1>3, <1>4, <1>5, <1>6
          DEF SlotStep, ClaimEntry, ClaimReplyLost, AckEntry, AckFails, Abandon, storeVars

(* Statements that run on behalf of no slot leave executed rows alone, but *)
(* for a Cancel.                                                           *)
LEMMA ExecOtherSteps ==
    ASSUME ExecInv, UNCHANGED slot,
           \A j \in Jobs : rows[j].status \in {"RUNNING", "CANCELLED"} =>
               \/ rows'[j].status \in {"RUNNING", "CANCELLED"} /\ rows'[j].worker = rows[j].worker
               \/ ~\E s \in Slots : At("running", s) /\ rows[j].worker = Owner[s]
    PROVE  ExecutorOwnsRow' /\ AtMostOneExecution'
<1>1. \A s \in Slots : At("running", s) => slot[s].job \in Jobs
  BY BusyHoldsJob DEF ExecInv, At
<1>2. QED BY <1>1, ExecutionsShrink DEF ExecInv, ExecutorOwnsRow, At

LEMMA ExecWorkerStep ==
    ASSUME ExecInv, NEW w \in Workers, WorkerStep(w)
    PROVE  ExecutorOwnsRow' /\ AtMostOneExecution'
<1>1. UNCHANGED rows
  BY DEF WorkerStep, Shutdown, Stop, Crash, Restart, FallSilent, Heartbeat, storeVars
<1>2. \A s \in Slots : At("running", s)' => slot'[s] = slot[s]
  BY DEF WorkerStep, Shutdown, Stop, Crash, Restart, FallSilent, Heartbeat, Idle, At
<1>3. QED BY <1>1, <1>2, ExecutionsShrink DEF ExecInv, ExecutorOwnsRow, At

LEMMA ExecSchedulerStep ==
    ASSUME ExecInv, SchedulerStep
    PROVE  ExecutorOwnsRow' /\ AtMostOneExecution'
<1>1. UNCHANGED slot
  BY DEF SchedulerStep, PollRetries, PollRetriesBreaksOff, BackoffEnds, EnqueueRetry, EnqueueRetryFails
<1>2. \A j \in Jobs : rows[j].status # "RETRYING" => rows'[j] = rows[j]
  <2>1. ASSUME NEW S \in SUBSET Table!DueRetries, PollRetries(S) \/ PollRetriesBreaksOff(S)
        PROVE  \A j \in Jobs : rows[j].status # "RETRYING" => rows'[j] = rows[j]
    BY <2>1 DEF PollRetries, PollRetriesBreaksOff, Table!RequeueDueRetries, Table!DueRetries, Table!HasStatus
  <2>2. ASSUME NEW i \in Jobs, BackoffEnds(i)
        PROVE  \A j \in Jobs : rows[j].status # "RETRYING" => rows'[j] = rows[j]
    BY <2>2 DEF BackoffEnds, Table!TimePasses, ExecInv, TypeOK, RowsTyped
  <2>3. QED BY <2>1, <2>2 DEF SchedulerStep, EnqueueRetry, EnqueueRetryFails, storeVars
<1>3. QED BY <1>1, <1>2, ExecOtherSteps

LEMMA ExecSupervisorStep ==
    ASSUME ExecInv, SupervisorStep
    PROVE  ExecutorOwnsRow' /\ AtMostOneExecution'
<1>1. UNCHANGED slot
  BY DEF SupervisorStep, FindDeadWorkers, MarkOffline, RecoverJobs, RecoverJobsFails,
         EnqueueRecovered, EnqueueRecoveredFails
<1>2. CASE UNCHANGED rows
  BY <1>1, <1>2, ExecOtherSteps
<1>3. CASE sup.pc = "recover" /\ Table!RecoverDeadWorkerJobs(sup.cur)
  <2>1. \A s \in Slots : At("running", s) => Owner[s] # sup.cur
    BY <1>3 DEF ExecInv, OnlyDeadAreReaped, At
  <2>2. \A j \in Jobs : \/ rows[j].status = "RUNNING" /\ rows[j].worker = sup.cur
                        \/ rows'[j] = rows[j]
    BY <1>3 DEF Table!RecoverDeadWorkerJobs, Table!RunningOn, Table!HasStatus,
                ExecInv, TypeOK, RowsTyped
  <2>3. QED BY <1>1, <2>1, <2>2, ExecOtherSteps
<1>4. QED BY <1>2, <1>3
          DEF SupervisorStep, FindDeadWorkers, MarkOffline, RecoverJobs, RecoverJobsFails,
              EnqueueRecovered, EnqueueRecoveredFails, storeVars

LEMMA ExecRequestStep ==
    ASSUME ExecInv, NEW r \in Reqs, RequestStep(r)
    PROVE  ExecutorOwnsRow' /\ AtMostOneExecution'
<1> USE DEF ExecInv, TypeOK, RowsTyped
<1>1. UNCHANGED slot
  BY DEF RequestStep, CreateJob, RetryJob, CancelJob, EnqueueRequested, AckCancelled,
         RequestFails
<1>2. CASE UNCHANGED rows
  BY <1>1, <1>2, ExecOtherSteps
<1>3. ASSUME NEW j \in Jobs, Table!Insert(j) \/ Table!ManualRetry(j)
      PROVE  ExecutorOwnsRow' /\ AtMostOneExecution'
  <2>1. \A i \in Jobs : rows[i].status \in {"RUNNING", "CANCELLED"} => rows'[i] = rows[i]
    BY <1>3 DEF Table!Insert, Table!ManualRetry
  <2>2. QED BY <1>1, <2>1, ExecOtherSteps
<1>4. ASSUME NEW j \in Jobs, Table!Cancel(j)
      PROVE  ExecutorOwnsRow' /\ AtMostOneExecution'
  <2>1. rows'[j].status = "CANCELLED" /\ rows'[j].worker = rows[j].worker
    BY <1>4 DEF Table!Cancel, Table!Row
  <2>2. \A i \in Jobs : i # j => rows'[i] = rows[i]
    BY <1>4 DEF Table!Cancel
  <2>3. QED BY <1>1, <2>1, <2>2, ExecOtherSteps
<1>5. QED BY <1>2, <1>3, <1>4
          DEF RequestStep, CreateJob, RetryJob, CancelJob, EnqueueRequested,
              AckCancelled, RequestFails, storeVars

LEMMA ExecStep == ExecInv /\ [Next]_vars => ExecInv'
<1> SUFFICES ASSUME ExecInv, [Next]_vars PROVE ExecInv'
  OBVIOUS
<1>1. TypeOK' /\ OnlyDeadAreReaped'
  BY EngineTypeStep, ReapStep DEF ExecInv
<1>2. ASSUME UNCHANGED <<rows, slot>> PROVE ExecutorOwnsRow' /\ AtMostOneExecution'
  BY <1>2 DEF ExecInv, ExecutorOwnsRow, AtMostOneExecution, At
<1>3. ExecutorOwnsRow' /\ AtMostOneExecution'
  BY <1>2, ExecSlotStep, ExecWorkerStep, ExecSchedulerStep, ExecSupervisorStep,
     ExecRequestStep DEF Next, RecoverLeases, CrashApi, storeVars, vars
<1>4. QED BY <1>1, <1>3 DEF ExecInv

LEMMA ExecInit ==
    ASSUME NoFalseDeaths(Budget), Init
    PROVE  ExecInv
<1>1. TypeOK /\ OnlyDeadAreReaped
  BY EngineTypeInit, ReapInit
<1>2. ExecutorOwnsRow /\ AtMostOneExecution
  BY DEF Init, InitWith, ExecutorOwnsRow, AtMostOneExecution, At, Idle
<1>3. QED BY <1>1, <1>2 DEF ExecInv

THEOREM ExecInvariance ==
    ASSUME NoFalseDeaths(Budget)
    PROVE  Spec => []ExecInv
<1>1. Init => ExecInv
  BY ExecInit
<1>2. QED BY <1>1, ExecStep, PTL DEF Spec

(* OneExecution: no two slots execute one job at a time, under any number  *)
(* of crashes, store errors, stale leases, cancellations and retries, and  *)
(* of stops and restarts where nobody crashes, as long as no live worker   *)
(* is held for dead.                                                       *)
THEOREM OneExecution ==
    ASSUME NoFalseDeaths(Budget)
    PROVE  Spec => []AtMostOneExecution
<1>1. ExecInv => AtMostOneExecution
  BY DEF ExecInv
<1>2. QED BY <1>1, ExecInvariance, PTL

-----------------------------------------------------------------------------
(* What a step of the engine can make of one row, and where the step that  *)
(* does it stands.                                                         *)
Made(j) ==
    /\ rows[j].status \in {"ABSENT", "FAILED", "DEAD_LETTER"}
    /\ rows'[j] = Table!Fresh
    /\ IF rows[j].status = "ABSENT" THEN rows'[j].status = "QUEUED" ELSE Spend("retry")
Taken(j) ==
    /\ rows[j].status \in {"QUEUED", "RETRYING"} /\ rows'[j].status = "RUNNING"
    /\ rows'[j].attempt = rows[j].attempt + 1
    /\ \E s \in Slots : Alive(s) /\ rows'[j].worker = Owner[s]
Reported(j) ==
    /\ \E s \in Slots : Executes(s, j) /\ ~Executes(s, j)'
    /\ rows'[j].attempt = rows[j].attempt
    /\ \/ rows'[j].status \in {"SUCCEEDED", "FAILED", "DEAD_LETTER"}
       \/ rows'[j].status = "RETRYING" /\ rows[j].attempt < MaxAttempts[j]
Waited(j) ==
    /\ rows[j].status = "RETRYING" /\ rows'[j].status \in {"RETRYING", "QUEUED"}
    /\ rows'[j].attempt = rows[j].attempt
Recovered(j) ==
    /\ rows[j].status = "RUNNING" /\ rows'[j].status = "QUEUED"
    /\ sup.pc = "recover" /\ rows[j].worker = sup.cur /\ sup'.pc # "recover"
    /\ rows'[j].attempt = rows[j].attempt
Cancelled(j) ==
    /\ rows[j].status \in {"QUEUED", "RUNNING"} /\ rows'[j].status = "CANCELLED"
    /\ rows'[j].attempt = rows[j].attempt /\ rows'[j].worker = rows[j].worker

RowChange(j) ==
    \/ rows'[j] = rows[j] \/ Made(j) \/ Taken(j) \/ Reported(j)
    \/ Waited(j) \/ Recovered(j) \/ Cancelled(j)

LEMMA RowFields ==
    ASSUME RowsTyped, NEW j \in Jobs
    PROVE  /\ rows[j] \in Table!Row /\ rows[j].attempt \in Nat
           /\ rows[j] = [status |-> rows[j].status, attempt |-> rows[j].attempt,
                         worker |-> rows[j].worker, due |-> rows[j].due,
                         completed |-> rows[j].completed, error |-> rows[j].error]
BY DEF RowsTyped, Table!Row

LEMMA SlotRowChange ==
    ASSUME TypeOK, NEW s \in Slots, SlotStep(s), NEW j \in Jobs
    PROVE  RowChange(j)
<1>1. CASE UNCHANGED rows
  BY <1>1 DEF RowChange
<1>2. CASE /\ Alive(s) /\ At("claimed", s)
           /\ Table!ClaimJob(slot[s].job, Owner[s])
  <2>1. slot[s].job \in Jobs
    BY <1>2, BusyHoldsJob DEF At
  <2>2. CASE slot[s].job = j
    <3>1. Taken(j)
      BY <1>2, <2>2, RowFields DEF Taken, Table!ClaimJob, Table!Claimable, Table!Running,
         TypeOK, RowsTyped
    <3>2. QED BY <3>1 DEF RowChange
  <2>3. CASE slot[s].job # j
    BY <1>2, <2>3 DEF Table!ClaimJob, Table!Running, TypeOK, RowsTyped, RowChange
  <2>4. QED BY <2>2, <2>3
<1>3. CASE Report(s)
  <2>1. slot[s].job \in Jobs
    BY <1>3, BusyHoldsJob DEF Report, At
  <2>2. CASE slot[s].job = j
    <3>1. Executes(s, j) /\ ~Executes(s, j)'
      BY <1>3, <2>2 DEF Report, Executes, Holds, At, SlotGoes, TypeOK, SlotTyped
    <3>2. Table!MarkSucceeded(j) \/ Table!RecordFailure(j) \/ Table!MarkFailed(j)
      BY <1>3, <2>2 DEF Report
    <3>3. Reported(j)
      <4>1. CASE Table!MarkSucceeded(j) \/ Table!MarkFailed(j)
        BY <3>1, <4>1, RowFields DEF Reported, Table!MarkSucceeded, Table!MarkFailed,
           TypeOK, RowsTyped
      <4>2. CASE Table!RecordFailure(j) /\ rows[j].attempt < MaxAttempts[j]
        <5>1. rows'[j].status = "RETRYING" /\ rows'[j].attempt = rows[j].attempt
          BY <4>2, RowFields DEF Table!RecordFailure, TypeOK, RowsTyped
        <5>2. QED BY <3>1, <4>2, <5>1 DEF Reported
      <4>3. CASE Table!RecordFailure(j) /\ ~(rows[j].attempt < MaxAttempts[j])
        <5>1. rows'[j].status = "DEAD_LETTER" /\ rows'[j].attempt = rows[j].attempt
          BY <4>3, RowFields DEF Table!RecordFailure, TypeOK, RowsTyped
        <5>2. QED BY <3>1, <5>1 DEF Reported
      <4>4. QED BY <3>2, <4>1, <4>2, <4>3
    <3>4. QED BY <3>3 DEF RowChange
  <2>3. CASE slot[s].job # j
    BY <1>3, <2>1, <2>3 DEF Report, Table!MarkSucceeded, Table!RecordFailure, Table!MarkFailed,
       TypeOK, RowsTyped, RowChange
  <2>4. QED BY <2>2, <2>3
<1>4. QED BY <1>1, <1>2, <1>3
          DEF SlotStep, ClaimEntry, ClaimReplyLost, StartJob, StartJobFails, ReportFails,
              AckEntry, AckFails, Abandon, storeVars

LEMMA OtherRowChange ==
    ASSUME TypeOK, NEW j \in Jobs,
           SchedulerStep \/ SupervisorStep \/ \E r \in Reqs : RequestStep(r)
    PROVE  RowChange(j)
<1>1. CASE UNCHANGED rows
  BY <1>1 DEF RowChange
<1>2. ASSUME NEW S \in SUBSET Table!DueRetries, Table!RequeueDueRetries(S) PROVE RowChange(j)
  <2>1. CASE j \in S
    <3>1. Waited(j)
      BY <1>2, <2>1, RowFields DEF Waited, Table!RequeueDueRetries, Table!DueRetries,
         Table!HasStatus, TypeOK, RowsTyped
    <3>2. QED BY <3>1 DEF RowChange
  <2>2. CASE j \notin S
    BY <1>2, <2>2 DEF Table!RequeueDueRetries, RowChange
  <2>3. QED BY <2>1, <2>2
<1>3. ASSUME NEW i \in Jobs, Table!TimePasses(i) PROVE RowChange(j)
  <2>1. i = j => Waited(j)
    BY <1>3, RowFields DEF Waited, Table!TimePasses, TypeOK, RowsTyped
  <2>2. i # j => rows'[j] = rows[j]
    BY <1>3 DEF Table!TimePasses, TypeOK, RowsTyped
  <2>3. QED BY <2>1, <2>2 DEF RowChange
<1>4. CASE sup.pc = "recover" /\ Table!RecoverDeadWorkerJobs(sup.cur) /\ sup'.pc # "recover"
  <2>1. CASE j \in Table!RunningOn(sup.cur)
    <3>1. Recovered(j)
      <4>1. rows[j].status = "RUNNING" /\ rows[j].worker = sup.cur
        BY <2>1 DEF Table!RunningOn, Table!HasStatus
      <4>2. rows'[j] = [rows[j] EXCEPT !.status = "QUEUED", !.worker = NoWorker]
        BY <1>4, <2>1 DEF Table!RecoverDeadWorkerJobs
      <4>3. rows'[j].status = "QUEUED" /\ rows'[j].attempt = rows[j].attempt
        BY <4>2, RowFields DEF TypeOK
      <4>4. QED BY <1>4, <4>1, <4>3 DEF Recovered
    <3>2. QED BY <3>1 DEF RowChange
  <2>2. CASE j \notin Table!RunningOn(sup.cur)
    BY <1>4, <2>2 DEF Table!RecoverDeadWorkerJobs, RowChange
  <2>3. QED BY <2>1, <2>2
<1>5. ASSUME NEW i \in Jobs, Table!Insert(i) \/ (Table!ManualRetry(i) /\ Spend("retry"))
      PROVE  RowChange(j)
  <2>1. i = j => Made(j)
    BY <1>5 DEF Made, Table!Insert, Table!ManualRetry, Table!Fresh, Table!Absent, TypeOK, RowsTyped
  <2>2. i # j => rows'[j] = rows[j]
    BY <1>5 DEF Table!Insert, Table!ManualRetry, TypeOK, RowsTyped
  <2>3. QED BY <2>1, <2>2 DEF RowChange
<1>6. ASSUME NEW i \in Jobs, Table!Cancel(i) PROVE RowChange(j)
  <2>1. i = j => Cancelled(j)
    BY <1>6, RowFields DEF Cancelled, Table!Cancel, Table!Cancellable, TypeOK, RowsTyped
  <2>2. i # j => rows'[j] = rows[j]
    BY <1>6 DEF Table!Cancel, TypeOK, RowsTyped
  <2>3. QED BY <2>1, <2>2 DEF RowChange
<1>7. CASE SchedulerStep
  BY <1>1, <1>2, <1>3, <1>7
     DEF SchedulerStep, PollRetries, PollRetriesBreaksOff, BackoffEnds, EnqueueRetry,
         EnqueueRetryFails, storeVars
<1>8. CASE SupervisorStep
  <2>1. ASSUME NEW B, Enqueuing(B) PROVE sup'.pc # "recover"
    BY <2>1 DEF Enqueuing, NoPass, TypeOK, SupTyped
  <2>2. CASE RecoverJobs \/ RecoverJobsFails
    BY <1>1, <1>4, <2>1, <2>2 DEF RecoverJobs, RecoverJobsFails
  <2>3. CASE UNCHANGED rows
    BY <1>1, <2>3
  <2>4. QED BY <1>8, <2>2, <2>3
               DEF SupervisorStep, FindDeadWorkers, MarkOffline, EnqueueRecovered,
                   EnqueueRecoveredFails, storeVars
<1>9. ASSUME NEW r \in Reqs, RequestStep(r) PROVE RowChange(j)
  <2>1. ASSUME NEW i \in Jobs, CreateJob(r, i) \/ RetryJob(r, i) PROVE RowChange(j)
    <3>1. Table!Insert(i) \/ (Table!ManualRetry(i) /\ Spend("retry"))
      BY <2>1 DEF CreateJob, RetryJob
    <3>2. QED BY <1>5, <3>1
  <2>2. ASSUME NEW i \in Jobs, CancelJob(r, i) PROVE RowChange(j)
    BY <1>6, <2>2 DEF CancelJob
  <2>3. QED BY <1>1, <1>9, <2>1, <2>2
            DEF RequestStep, EnqueueRequested, AckCancelled, RequestFails, storeVars
<1>10. QED BY <1>7, <1>8, <1>9

LEMMA RowChanges ==
    ASSUME TypeOK, [Next]_vars
    PROVE  \A j \in Jobs : RowChange(j)
<1> SUFFICES ASSUME NEW j \in Jobs PROVE RowChange(j)
  OBVIOUS
<1>1. CASE UNCHANGED rows
  BY <1>1 DEF RowChange
<1>2. ASSUME NEW w \in Workers, WorkerStep(w) PROVE UNCHANGED rows
  BY <1>2 DEF WorkerStep, Shutdown, Stop, Crash, Restart, FallSilent, Heartbeat, storeVars
<1>3. QED BY <1>1, <1>2, SlotRowChange, OtherRowChange
          DEF Next, RecoverLeases, CrashApi, storeVars, vars

(* ResultsStay: with no live worker held for dead, no late report, stale   *)
(* claim or recovery changes the row of a job that has succeeded, nor, but *)
(* for an operator's retry, of one that has failed for good.               *)
THEOREM ResultsStay ==
    ASSUME NoFalseDeaths(Budget)
    PROVE  Spec => ResultIsFinal
<1> DEFINE Stays ==
      \A j \in Jobs :
         /\ rows[j].status = "SUCCEEDED" => rows'[j] = rows[j]
         /\ rows[j].status \in {"FAILED", "DEAD_LETTER"}
              => rows'[j] \in {rows[j], Table!Fresh}
<1>1. ASSUME ExecInv, [Next]_vars PROVE Stays
  <2> SUFFICES ASSUME NEW j \in Jobs, rows[j].status \in {"SUCCEEDED", "FAILED", "DEAD_LETTER"}
               PROVE  rows'[j] = rows[j] \/ Made(j)
    BY DEF Made
  <2>1. ~InExecution(j)
    BY <1>1 DEF ExecInv, ExecutorOwnsRow, InExecution, Executes, Holds
  <2>2. RowChange(j)
    BY <1>1, RowChanges DEF ExecInv
  <2>3. QED BY <2>1, <2>2 DEF RowChange, Taken, Reported, Waited, Recovered, Cancelled,
         InExecution
<1>2. ExecInv /\ [Next]_vars => [Stays]_vars
  BY <1>1
<1>3. QED BY <1>2, ExecInvariance, PTL DEF Spec, ResultIsFinal

(* CancelledStay: nothing revives a job that was cancelled while no slot   *)
(* executed it; this needs no assumption on who is held for dead.          *)
THEOREM CancelledStay == Spec => CancelBeforeStartIsFinal
<1> DEFINE Stays ==
      \A j \in Jobs : rows[j].status = "CANCELLED" /\ ~InExecution(j)
                          => rows'[j].status = "CANCELLED"
<1>1. ASSUME TypeOK, [Next]_vars PROVE Stays
  <2>1. \A j \in Jobs : RowChange(j)
    BY <1>1, RowChanges
  <2>2. QED BY <2>1 DEF RowChange, Made, Taken, Reported, Waited, Recovered, Cancelled,
         InExecution
<1>2. TypeOK /\ [Next]_vars => [Stays]_vars
  BY <1>1
<1>3. QED BY <1>2, EngineTyped, PTL DEF Spec, CancelBeforeStartIsFinal

-----------------------------------------------------------------------------
(* Attempts beyond max_attempts.  A row waits with an attempt to spare,    *)
(* and so does one that the supervisor will take from a dead worker: the   *)
(* crash that left it there has paid for it.                               *)
Crashes == Budget["crash"] - budget["crash"]

Resumable(j) ==
    \/ rows[j].status \in {"QUEUED", "RETRYING"}
    \/ rows[j].status = "RUNNING" /\ Reapable(rows[j].worker)

AttemptsInv ==
    /\ ExecInv
    /\ budget["crash"] <= Budget["crash"]
    /\ \A j \in Jobs :
         /\ rows[j].status = "RUNNING" => rows[j].worker \in Workers
         /\ rows[j].attempt <= MaxAttempts[j] + Crashes
         /\ Resumable(j) => rows[j].attempt < MaxAttempts[j] + Crashes

LEMMA AttemptsInit ==
    ASSUME NoFalseDeaths(Budget), Init
    PROVE  AttemptsInv
<1>1. \A j \in Jobs : rows[j].status = "ABSENT" /\ rows[j].attempt = 0
  BY DEF Init, InitWith, Table!Init, Table!Absent
<1>2. budget = Budget /\ Budget["crash"] \in Nat
  BY JobEngineAssumption DEF Init, InitWith, Kinds
<1>3. \A j \in Jobs : MaxAttempts[j] \in Nat
  BY JobEngineAssumption
<1>4. QED BY <1>1, <1>2, <1>3, ExecInit DEF AttemptsInv, Crashes, Resumable

LEMMA SpendOther ==
    ASSUME TypeOK, NEW k \in Kinds \ {"crash"}, Spend(k)
    PROVE  budget'["crash"] = budget["crash"]
BY DEF Spend, TypeOK, Kinds

(* Only a crash makes a worker one that the supervisor will reap. *)
LEMMA ReapableStep ==
    ASSUME ExecInv, [Next]_vars
    PROVE  \/ /\ budget'["crash"] = budget["crash"]
              /\ \A w \in Workers : Reapable(w)' => Reapable(w)
           \/ budget'["crash"] = budget["crash"] - 1 /\ UNCHANGED rows
<1> DEFINE Fewer == /\ budget'["crash"] = budget["crash"]
                    /\ \A w \in Workers : Reapable(w)' => Reapable(w)
<1> USE DEF ExecInv
<1>1. ASSUME UNCHANGED <<wstat, proc>>, sup' = sup \/ sup' = NoPass,
             UNCHANGED budget \/ \E k \in Kinds \ {"crash"} : Spend(k)
      PROVE  Fewer
  <2>1. budget'["crash"] = budget["crash"]
    BY <1>1, SpendOther
  <2>2. \A w \in Workers : Reapable(w)' => Reapable(w)
    BY <1>1 DEF Reapable, NoPass
  <2>3. QED BY <2>1, <2>2
<1>2. ASSUME NEW s \in Slots, SlotStep(s) PROVE Fewer
  BY <1>1, <1>2 DEF SlotStep, ClaimEntry, ClaimReplyLost, StartJob, StartJobFails, Report,
     ReportFails, AckEntry, AckFails, Abandon, storeVars, Kinds
<1>3. ASSUME NEW S \in SUBSET leased, RecoverLeases(S) PROVE Fewer
  BY <1>1, <1>3 DEF RecoverLeases
<1>4. CASE SchedulerStep
  <2>1. Fewer
    BY <1>1, <1>4 DEF SchedulerStep, PollRetries, PollRetriesBreaksOff, BackoffEnds,
       EnqueueRetry, EnqueueRetryFails, storeVars, Kinds
  <2>2. QED BY <2>1
<1>5. ASSUME NEW r \in Reqs, RequestStep(r) PROVE Fewer
  BY <1>1, <1>5 DEF RequestStep, CreateJob, RetryJob, CancelJob, EnqueueRequested,
     AckCancelled, RequestFails, storeVars, Kinds
<1>6. CASE CrashApi
  <2>1. Fewer
    BY <1>1, <1>6 DEF CrashApi, storeVars, Kinds
  <2>2. QED BY <2>1
<1>7. CASE SupervisorStep
  <2>1. ASSUME NEW B, Enqueuing(B), UNCHANGED <<wstat, proc>>,
               UNCHANGED budget \/ Spend("storeErr")
        PROVE  Fewer
    <3>1. budget'["crash"] = budget["crash"]
      BY <2>1, SpendOther DEF Kinds
    <3>2. sup'.dead = sup.dead /\ sup'.pc # "recover"
      BY <2>1 DEF Enqueuing, NoPass, TypeOK, SupTyped
    <3>3. QED BY <2>1, <3>1, <3>2 DEF Reapable
  <2>2. CASE FindDeadWorkers
    <3>1. \A w \in sup'.dead : wstat[w] = "ACTIVE"
      BY <2>2 DEF FindDeadWorkers, TypeOK, SupTyped
    <3>2. UNCHANGED <<wstat, proc, budget>> /\ sup'.pc # "recover"
      BY <2>2 DEF FindDeadWorkers, storeVars, TypeOK, SupTyped
    <3>3. QED BY <3>1, <3>2 DEF Reapable
  <2>3. ASSUME NEW w \in Workers, MarkOffline(w) PROVE Fewer
    <3>1. budget'["crash"] = budget["crash"]
      BY <2>3, SpendOther DEF MarkOffline, Kinds
    <3>2. /\ sup'.dead = sup.dead \ {w} /\ sup'.cur = w /\ w \in sup.dead /\ UNCHANGED proc
          /\ \A v \in Workers : wstat'[v] = "ACTIVE" => wstat[v] = "ACTIVE"
      BY <2>3 DEF MarkOffline, TypeOK, SupTyped, WorkersTyped
    <3>3. QED BY <3>1, <3>2 DEF Reapable
  <2>4. QED BY <1>7, <2>1, <2>2, <2>3 DEF SupervisorStep, RecoverJobs, RecoverJobsFails,
              EnqueueRecovered, EnqueueRecoveredFails, storeVars
<1>8. ASSUME NEW w \in Workers, WorkerStep(w)
      PROVE  Fewer \/ (budget'["crash"] = budget["crash"] - 1 /\ UNCHANGED rows)
  <2>1. CASE Crash(w)
    <3>1. budget'["crash"] = budget["crash"] - 1 /\ UNCHANGED rows
      BY <2>1 DEF Crash, Spend, TypeOK, Kinds, storeVars
    <3>2. QED BY <3>1
  <2>2. CASE Shutdown(w)
    <3>1. Spend("shutdown") /\ wstat' = [wstat EXCEPT ![w] = "DRAINING"]
      BY <2>2 DEF Shutdown, SpendAndWrite, OnlyDeadAreReaped, NoFalseDeaths
    <3>2. budget'["crash"] = budget["crash"]
      BY <3>1, SpendOther DEF Kinds
    <3>3. UNCHANGED sup /\ \A v \in Workers : proc'[v] = "down" => proc[v] = "down"
      BY <2>2 DEF Shutdown, TypeOK, WorkersTyped
    <3>4. QED BY <3>1, <3>2, <3>3 DEF Reapable, TypeOK, WorkersTyped
  <2>3. CASE Stop(w)
    <3>1. /\ wstat' = [wstat EXCEPT ![w] = "OFFLINE"] \/ UNCHANGED wstat
          /\ UNCHANGED budget \/ Spend("statusErr")
          /\ proc' = [proc EXCEPT ![w] = "down"] /\ proc[w] = "draining" /\ UNCHANGED sup
      BY <2>3 DEF Stop
    <3>2. w \notin sup.dead /\ ~(sup.pc = "recover" /\ sup.cur = w) /\ wstat[w] # "ACTIVE"
      BY <3>1 DEF OnlyDeadAreReaped
    <3>3. budget'["crash"] = budget["crash"]
      BY <3>1, SpendOther DEF Kinds
    <3>4. QED BY <3>1, <3>2, <3>3 DEF Reapable, TypeOK, WorkersTyped
  <2>4. CASE Restart(w)
    <3>1. budget'["crash"] = budget["crash"]
      BY <2>4 DEF Restart, SpendAndWrite, Spend, TypeOK, Kinds
    <3>2. /\ proc' = [proc EXCEPT ![w] = "up"] /\ UNCHANGED sup
          /\ wstat' = [wstat EXCEPT ![w] = "ACTIVE"] \/ UNCHANGED wstat
      BY <2>4 DEF Restart, SpendAndWrite
    <3>3. QED BY <3>1, <3>2 DEF Reapable, TypeOK, WorkersTyped
  <2>5. CASE FallSilent(w)
    <3>1. UNCHANGED budget \/ Spend("suspect")
      BY <2>5 DEF FallSilent
    <3>2. QED BY <1>1, <2>5, <3>1 DEF FallSilent, storeVars, Kinds
  <2>6. CASE Heartbeat(w)
    BY <1>1, <2>6 DEF Heartbeat, storeVars
  <2>7. QED BY <1>8, <2>1, <2>2, <2>3, <2>4, <2>5, <2>6 DEF WorkerStep
<1>9. CASE UNCHANGED vars
  BY <1>1, <1>9 DEF vars
<1>10. QED BY <1>2, <1>3, <1>4, <1>5, <1>6, <1>7, <1>8, <1>9 DEF Next

LEMMA AttemptsStep == AttemptsInv /\ [Next]_vars => AttemptsInv'
<1> SUFFICES ASSUME AttemptsInv, [Next]_vars PROVE AttemptsInv'
  OBVIOUS
<1>1. ExecInv /\ ExecInv'
  BY ExecStep DEF AttemptsInv
<1>2. Budget["crash"] \in Nat /\ budget["crash"] \in Nat /\ budget'["crash"] \in Nat
  BY <1>1, JobEngineAssumption DEF ExecInv, TypeOK, Kinds
<1>3. CASE budget'["crash"] = budget["crash"] - 1 /\ UNCHANGED rows
  <2>1. \A j \in Jobs : rows[j].attempt \in Nat /\ MaxAttempts[j] \in Nat
    BY <1>1, RowFields, JobEngineAssumption DEF ExecInv, TypeOK
  <2>2. QED BY <1>1, <1>2, <1>3, <2>1 DEF AttemptsInv, Crashes, Resumable, Reapable
<1>4. CASE /\ budget'["crash"] = budget["crash"]
           /\ \A w \in Workers : Reapable(w)' => Reapable(w)
  <2>1. ASSUME NEW j \in Jobs
        PROVE  /\ rows'[j].status = "RUNNING" => rows'[j].worker \in Workers
               /\ rows'[j].attempt <= MaxAttempts[j] + Crashes
               /\ Resumable(j)' => rows'[j].attempt < MaxAttempts[j] + Crashes
    <3>0. Crashes \in Nat
      BY <1>2 DEF AttemptsInv, Crashes
    <3>1. /\ rows[j].attempt \in Nat /\ MaxAttempts[j] \in Nat \ {0} /\ Crashes \in Nat
          /\ rows[j].status = "RUNNING" => rows[j].worker \in Workers
          /\ rows[j].attempt <= MaxAttempts[j] + Crashes
          /\ Resumable(j) => rows[j].attempt < MaxAttempts[j] + Crashes
      BY <1>1, <3>0, RowFields, JobEngineAssumption DEF AttemptsInv, ExecInv, TypeOK
    <3>2. RowChange(j)
      BY <1>1, RowChanges DEF ExecInv
    <3>3. CASE rows'[j] = rows[j]
      <4>1. ASSUME rows[j].status = "RUNNING", Reapable(rows[j].worker)'
            PROVE  Reapable(rows[j].worker)
        <5>1. PICK w \in Workers : w = rows[j].worker
          BY <3>1, <4>1
        <5>2. Reapable(w)'
          BY <3>3, <4>1, <5>1 DEF Reapable
        <5>3. QED BY <1>4, <5>1, <5>2
      <4>2. QED BY <3>1, <3>3, <4>1 DEF Resumable
    <3>4. CASE Made(j)
      BY <3>1, <3>4 DEF Made, Table!Fresh, Table!Absent, Resumable
    <3>5. CASE Taken(j)
      <4>1. PICK s \in Slots : Alive(s) /\ rows'[j].worker = Owner[s]
        BY <3>5 DEF Taken
      <4>2. Owner[s] \in Workers /\ ~Reapable(Owner[s])
        BY <4>1, JobEngineAssumption DEF Alive, Reapable
      <4>3. ~Reapable(Owner[s])'
        BY <1>4, <4>2
      <4>4. ~Reapable(rows[j].worker)'
        BY <4>1, <4>3 DEF Reapable
      <4>5. rows[j].attempt + 1 <= MaxAttempts[j] + Crashes
        BY <3>1, <3>5 DEF Taken, Resumable
      <4>6. QED BY <3>5, <4>1, <4>2, <4>4, <4>5 DEF Taken, Resumable
    <3>6. CASE Reported(j)
      BY <3>1, <3>6 DEF Reported, Resumable
    <3>7. CASE Waited(j)
      BY <3>1, <3>7 DEF Waited, Resumable
    <3>8. CASE Recovered(j)
      <4>1. Reapable(rows[j].worker)
        BY <1>1, <3>8 DEF Recovered, Reapable, ExecInv, OnlyDeadAreReaped
      <4>2. QED BY <3>1, <3>8, <4>1 DEF Recovered, Resumable
    <3>9. CASE Cancelled(j)
      BY <3>1, <3>9 DEF Cancelled, Resumable
    <3>10. QED BY <3>2, <3>3, <3>4, <3>5, <3>6, <3>7, <3>8, <3>9 DEF RowChange
  <2>2. Crashes' = Crashes /\ budget'["crash"] <= Budget["crash"]
    BY <1>4 DEF Crashes, AttemptsInv
  <2>3. QED BY <1>1, <2>1, <2>2 DEF AttemptsInv
<1>5. QED BY <1>1, <1>3, <1>4, ReapableStep

(* AttemptsPaid: with no live worker held for dead, a job gets no more     *)
(* attempts than max_attempts and one for each crash, whatever store       *)
(* errors, stale leases, operators and further crashes do to it.           *)
THEOREM AttemptsPaid ==
    ASSUME NoFalseDeaths(Budget)
    PROVE  Spec => []AttemptsPaidByCrashes
<1>1. Init => AttemptsInv
  BY AttemptsInit
<1>2. AttemptsInv => AttemptsPaidByCrashes
  BY DEF AttemptsInv, AttemptsPaidByCrashes, Crashes
<1>3. QED BY <1>1, <1>2, AttemptsStep, PTL DEF Spec

-----------------------------------------------------------------------------
(* Lost jobs.  A queued job need not rely on its lease: it waits in Redis, *)
(* or somebody has it in hand to put it there or to start it.  What a step *)
(* does to that, and to the slot that executes a running job:              *)
HandInv ==
    /\ TypeOK
    /\ sup.pc # "enqueue" => sup.batch = {}
    /\ \A s \in Slots : proc[Owner[s]] = "down" => At("idle", s)
    /\ \A j \in Jobs : rows[j].status = "RUNNING" => rows[j].worker \in Workers

Kept(j) ==
    /\ rows'[j].status = "QUEUED" /\ ~InHand(j)' =>
         \/ rows[j].status = "QUEUED" /\ ~InHand(j)
         \/ \E s \in Slots : EndsWith(s, "claimed", j)
         \/ CallFails
    /\ rows'[j].status = "RUNNING" /\ ~InExecution(j)' =>
         \/ rows[j].status = "RUNNING" /\ ~InExecution(j)
         \/ \E s \in Slots : EndsWith(s, "running", j)
         \/ CallFails

LEMMA FailedCall ==
    ASSUME TypeOK, Spend("storeErr") \/ Spend("apiCrash"), NEW j
    PROVE  CallFails /\ Kept(j)
<1>1. CallFails
  BY DEF TypeOK, Spend, CallFails, Kinds
<1>2. QED BY <1>1 DEF Kept

(* What a step leaves in hand of a job that stays queued. *)
LEMMA QueueGrows ==
    ASSUME Q!TypeOK, NEW j \in Jobs, NEW i \in Jobs, NEW p \in Tiers,
           Q!Enqueue(i, p)
    PROVE  /\ j \in Q!AllWaiting => j \in Q!AllWaiting'
           /\ i \in Q!AllWaiting'
BY DEF Q!Enqueue, Q!AllWaiting, Q!TypeOK

LEMMA KeptSlotStep ==
    ASSUME HandInv, NEW s \in Slots, SlotStep(s), NEW j \in Jobs
    PROVE  Kept(j)
<1> USE DEF HandInv, TypeOK
<1>1. CASE ReportFails(s) \/ AckFails(s) \/ StartJobFails(s) \/ ClaimReplyLost(s)
  BY <1>1, FailedCall DEF ReportFails, AckFails, StartJobFails, ClaimReplyLost
<1>2. ASSUME NEW i \in Jobs, ClaimEntry(s, i) PROVE Kept(j)
  <2>1. slot' = [slot EXCEPT ![s] = [pc |-> "claimed", job |-> i]] /\ At("idle", s)
        /\ UNCHANGED <<rows, sched, sup, req>>
    BY <1>2 DEF ClaimEntry, SlotGoes
  <2>2. j # i /\ j \in Q!AllWaiting => j \in Q!AllWaiting'
    BY <1>2 DEF ClaimEntry, Q!Claim, Q!ClaimFrom, Q!AllWaiting, Q!TypeOK
  <2>3. \A t \in Slots : ~At("idle", t) => slot'[t] = slot[t]
    BY <2>1 DEF At, SlotTyped
  <2>4. j = i => \E t \in Slots : At("claimed", t)' /\ Holds(t, j)'
    BY <2>1 DEF At, Holds, SlotTyped
  <2>5. InHand(j) => InHand(j)'
    BY <2>1, <2>2, <2>3, <2>4 DEF InHand, At, Holds, ReqAt
  <2>6. InExecution(j) => InExecution(j)'
    BY <2>3 DEF InExecution, Executes, At, Holds
  <2>7. QED BY <2>1, <2>5, <2>6 DEF Kept
<1>3. CASE StartJob(s)
  <2>1. UNCHANGED <<waiting, sched, sup, req>> /\ At("claimed", s) /\ slot[s].job \in Jobs
    BY <1>3, BusyHoldsJob DEF StartJob, At
  <2>2. \A t \in Slots \ {s} : slot'[t] = slot[t]
    BY <1>3 DEF StartJob, SlotGoes, SlotTyped
  <2>3. CASE slot[s].job # j
    <3>1. rows'[j] = rows[j]
      BY <1>3, <2>1, <2>3 DEF StartJob, Table!ClaimJob, Table!Running, RowsTyped
    <3>2. InHand(j) => InHand(j)'
      BY <2>1, <2>2, <2>3 DEF InHand, At, Holds, ReqAt, Q!AllWaiting
    <3>3. InExecution(j) => InExecution(j)'
      BY <2>1, <2>2 DEF InExecution, Executes, At, Holds
    <3>4. QED BY <3>1, <3>2, <3>3 DEF Kept
  <2>4. CASE slot[s].job = j /\ Table!ClaimJob(j, Owner[s]) /\ SlotGoes(s, "running", j)
    <3>1. rows'[j].status = "RUNNING"
      BY <2>4 DEF Table!ClaimJob, Table!Running, RowsTyped, Table!Row
    <3>2. InExecution(j)'
      BY <2>4 DEF SlotGoes, InExecution, Executes, At, Holds, SlotTyped
    <3>3. QED BY <3>1, <3>2 DEF Kept
  <2>5. CASE slot[s].job = j /\ ~Table!Claimable(j) /\ UNCHANGED rows
    <3>1. rows[j].status # "QUEUED"
      BY <2>5 DEF Table!Claimable
    <3>2. InExecution(j) => InExecution(j)'
      BY <2>1, <2>2 DEF InExecution, Executes, At, Holds
    <3>3. QED BY <2>5, <3>1, <3>2 DEF Kept
  <2>6. QED BY <1>3, <2>3, <2>4, <2>5 DEF StartJob
<1>4. CASE Report(s)
  <2>1. UNCHANGED <<waiting, sched, sup, req>> /\ At("running", s) /\ slot[s].job \in Jobs
        /\ slot' = [slot EXCEPT ![s] = [pc |-> "ack", job |-> slot[s].job]]
    BY <1>4, BusyHoldsJob DEF Report, SlotGoes, At
  <2>2. CASE slot[s].job = j
    <3>1. ASSUME Table!MarkSucceeded(j) \/ Table!MarkFailed(j)
          PROVE  rows'[j].status \notin {"QUEUED", "RUNNING"}
      BY <3>1, RowFields DEF Table!MarkSucceeded, Table!MarkFailed, RowsTyped, Table!Row
    <3>2. ASSUME Table!RecordFailure(j)
          PROVE  rows'[j].status \notin {"QUEUED", "RUNNING"}
      BY <3>2, RowFields DEF Table!RecordFailure, RowsTyped, Table!Row
    <3>3. rows'[j].status \notin {"QUEUED", "RUNNING"}
      BY <1>4, <2>2, <3>1, <3>2 DEF Report
    <3>4. QED BY <3>3 DEF Kept
  <2>3. CASE slot[s].job # j
    <3>1. rows'[j] = rows[j]
      BY <1>4, <2>1, <2>3 DEF Report, Table!MarkSucceeded, Table!RecordFailure, Table!MarkFailed,
         RowsTyped
    <3>2. InHand(j) => InHand(j)'
      BY <2>1 DEF InHand, At, Holds, ReqAt, Q!AllWaiting, SlotTyped
    <3>3. InExecution(j) => InExecution(j)'
      BY <2>1, <2>3 DEF InExecution, Executes, At, Holds, SlotTyped
    <3>4. QED BY <3>1, <3>2, <3>3 DEF Kept
  <2>4. QED BY <2>2, <2>3
<1>5. CASE AckEntry(s)
  <2>1. UNCHANGED <<rows, waiting, sched, sup, req>> /\ At("ack", s) /\ slot' = [slot EXCEPT ![s] = Idle]
    BY <1>5 DEF AckEntry, SlotFrees, Q!Ack
  <2>2. InHand(j) => InHand(j)'
    BY <2>1 DEF InHand, At, Holds, ReqAt, Q!AllWaiting, SlotTyped
  <2>3. InExecution(j) => InExecution(j)'
    BY <2>1 DEF InExecution, Executes, At, Holds, SlotTyped
  <2>4. QED BY <2>1, <2>2, <2>3 DEF Kept
<1>6. CASE Abandon(s)
  <2>1. /\ UNCHANGED <<rows, waiting, sched, sup, req>> /\ slot' = [slot EXCEPT ![s] = Idle]
        /\ proc'[Owner[s]] # "up"
    BY <1>6 DEF Abandon, SlotFrees, storeVars
  <2>2. At("idle", s)' /\ \A t \in Slots \ {s} : slot'[t] = slot[t]
    BY <2>1 DEF At, Idle, SlotTyped
  <2>3. InHand(j) /\ ~InHand(j)' => EndsWith(s, "claimed", j)
    BY <2>1, <2>2 DEF InHand, EndsWith, At, Holds, ReqAt, Q!AllWaiting
  <2>4. InExecution(j) /\ ~InExecution(j)' => EndsWith(s, "running", j)
    BY <2>1, <2>2 DEF InExecution, Executes, EndsWith, At, Holds
  <2>5. QED BY <2>1, <2>3, <2>4 DEF Kept
<1>7. QED BY <1>1, <1>2, <1>3, <1>4, <1>5, <1>6 DEF SlotStep

LEMMA KeptSchedulerStep ==
    ASSUME HandInv, SchedulerStep, NEW j \in Jobs
    PROVE  Kept(j)
<1> USE DEF HandInv, TypeOK
<1>1. ASSUME UNCHANGED <<slot, req, sup>>, InHand(j) => InHand(j)', rows'[j] = rows[j]
      PROVE  Kept(j)
  BY <1>1 DEF Kept, InExecution, Executes, At, Holds
<1>2. ASSUME NEW S \in SUBSET Table!DueRetries, PollRetries(S) PROVE Kept(j)
  <2>1. UNCHANGED <<waiting, slot, req, sup>> /\ sched = {} /\ sched' = S
    BY <1>2 DEF PollRetries
  <2>2. CASE j \in S
    <3>0. rows'[j] = [rows[j] EXCEPT !.status = "QUEUED"] /\ rows[j] \in Table!Row
      BY <1>2, <2>2, RowFields DEF PollRetries, Table!RequeueDueRetries
    <3>1. rows'[j].status = "QUEUED"
      BY <3>0 DEF Table!Row
    <3>2. QED BY <2>1, <2>2, <3>1 DEF Kept, InHand
  <2>3. CASE j \notin S
    <3>1. rows'[j] = rows[j]
      BY <1>2, <2>3 DEF PollRetries, Table!RequeueDueRetries
    <3>2. InHand(j) => InHand(j)'
      BY <2>1 DEF InHand, At, Holds, ReqAt, Q!AllWaiting
    <3>3. QED BY <1>1, <2>1, <3>1, <3>2
  <2>4. QED BY <2>2, <2>3
<1>3. ASSUME NEW i \in Jobs, BackoffEnds(i) PROVE Kept(j)
  <2>1. UNCHANGED <<waiting, slot, req, sup, sched>> /\ Table!TimePasses(i)
    BY <1>3 DEF BackoffEnds
  <2>2. InHand(j) => InHand(j)'
    BY <2>1 DEF InHand, At, Holds, ReqAt, Q!AllWaiting
  <2>3. i = j => rows'[j].status = "RETRYING"
    BY <2>1, RowFields DEF Table!TimePasses, RowsTyped
  <2>4. i # j => rows'[j] = rows[j]
    BY <2>1 DEF Table!TimePasses, RowsTyped
  <2>5. QED BY <1>1, <2>1, <2>2, <2>3, <2>4 DEF Kept
<1>4. ASSUME NEW i \in Jobs, EnqueueRetry(i) PROVE Kept(j)
  <2>1. UNCHANGED <<rows, slot, req, sup>> /\ sched' = sched \ {i} /\ Q!Enqueue(i, Prio[i])
    BY <1>4 DEF EnqueueRetry
  <2>2. /\ j \in Q!AllWaiting => j \in Q!AllWaiting'
        /\ i \in Q!AllWaiting'
    BY <2>1, QueueGrows, JobEngineAssumption
  <2>3. InHand(j) => InHand(j)'
    BY <2>1, <2>2 DEF InHand, At, Holds, ReqAt
  <2>4. QED BY <1>1, <2>1, <2>3
<1>5. QED BY <1>2, <1>3, <1>4, FailedCall DEF SchedulerStep, PollRetriesBreaksOff, EnqueueRetryFails

LEMMA KeptSupervisorStep ==
    ASSUME HandInv, SupervisorStep, NEW j \in Jobs
    PROVE  Kept(j)
<1> USE DEF HandInv, TypeOK
<1>1. ASSUME UNCHANGED <<slot, req, sched>>, InHand(j) => InHand(j)', rows'[j] = rows[j]
      PROVE  Kept(j)
  BY <1>1 DEF Kept, InExecution, Executes, At, Holds
<1>2. CASE FindDeadWorkers
  <2>1. UNCHANGED <<rows, waiting, slot, req, sched>> /\ sup'.batch = sup.batch
    BY <1>2 DEF FindDeadWorkers, storeVars, SupTyped
  <2>2. QED BY <1>1, <2>1 DEF InHand, At, Holds, ReqAt, Q!AllWaiting
<1>3. ASSUME NEW w \in Workers, MarkOffline(w) PROVE Kept(j)
  <2>1. UNCHANGED <<rows, waiting, slot, req, sched>> /\ sup'.batch = sup.batch
    BY <1>3 DEF MarkOffline, SupTyped
  <2>2. QED BY <1>1, <2>1 DEF InHand, At, Holds, ReqAt, Q!AllWaiting
<1>4. CASE RecoverJobs
  <2>1. UNCHANGED <<waiting, slot, req, sched>> /\ Enqueuing(Table!RunningOn(sup.cur))
        /\ Table!RecoverDeadWorkerJobs(sup.cur)
    BY <1>4 DEF RecoverJobs
  <2>2. CASE j \in Table!RunningOn(sup.cur)
    <3>0. /\ rows'[j] = [rows[j] EXCEPT !.status = "QUEUED", !.worker = NoWorker]
          /\ rows[j] \in Table!Row
      BY <2>1, <2>2, RowFields DEF Table!RecoverDeadWorkerJobs
    <3>1. rows'[j].status = "QUEUED"
      BY <3>0 DEF Table!Row
    <3>2. j \in sup'.batch
      BY <2>1, <2>2 DEF Enqueuing, SupTyped
    <3>3. QED BY <3>1, <3>2 DEF Kept, InHand
  <2>3. CASE j \notin Table!RunningOn(sup.cur)
    <3>1. rows'[j] = rows[j]
      BY <2>1, <2>3 DEF Table!RecoverDeadWorkerJobs
    <3>2. j \notin sup.batch
      BY <1>4 DEF RecoverJobs
    <3>3. QED BY <1>1, <2>1, <3>1, <3>2 DEF InHand, At, Holds, ReqAt, Q!AllWaiting
  <2>4. QED BY <2>2, <2>3
<1>5. ASSUME NEW i \in Jobs, EnqueueRecovered(i) PROVE Kept(j)
  <2>1. UNCHANGED <<rows, slot, req, sched>> /\ Q!Enqueue(i, Prio[i]) /\ Enqueuing(sup.batch \ {i})
    BY <1>5 DEF EnqueueRecovered
  <2>2. /\ j \in Q!AllWaiting => j \in Q!AllWaiting'
        /\ i \in Q!AllWaiting'
    BY <2>1, QueueGrows, JobEngineAssumption
  <2>3. j \in sup.batch \ {i} => j \in sup'.batch
    BY <2>1 DEF Enqueuing, SupTyped
  <2>4. InHand(j) => InHand(j)'
    BY <2>1, <2>2, <2>3 DEF InHand, At, Holds, ReqAt
  <2>5. QED BY <1>1, <2>1, <2>4
<1>6. QED BY <1>2, <1>3, <1>4, <1>5, FailedCall
          DEF SupervisorStep, RecoverJobsFails, EnqueueRecoveredFails

LEMMA KeptRequestStep ==
    ASSUME HandInv, NEW r \in Reqs, RequestStep(r), NEW j \in Jobs
    PROVE  Kept(j)
<1> USE DEF HandInv, TypeOK
<1>1. ASSUME UNCHANGED <<slot, sched, sup>>, InHand(j) => InHand(j)', rows'[j] = rows[j]
      PROVE  Kept(j)
  BY <1>1 DEF Kept, InExecution, Executes, At, Holds
<1>2. ASSUME ReqAt("idle", r), NEW pc, NEW i \in Jobs, ReqGoes(r, pc, i), UNCHANGED <<waiting, slot, sched, sup>>
      PROVE  InHand(j) => InHand(j)'
  <2>1. \A q \in Reqs : ReqAt("enqueue", q) => req'[q] = req[q]
    BY <1>2 DEF ReqGoes, ReqAt, ReqTyped
  <2>2. QED BY <1>2, <2>1 DEF InHand, At, Holds, ReqAt, Q!AllWaiting
<1>3. ASSUME NEW i \in Jobs, CreateJob(r, i) \/ RetryJob(r, i) PROVE Kept(j)
  <2>1. /\ ReqAt("idle", r) /\ ReqGoes(r, "enqueue", i) /\ UNCHANGED <<waiting, slot, sched, sup>>
        /\ Table!Insert(i) \/ Table!ManualRetry(i)
    BY <1>3 DEF CreateJob, RetryJob
  <2>2. CASE i = j
    <3>1. rows'[j] = Table!Fresh
      BY <2>1, <2>2 DEF Table!Insert, Table!ManualRetry, RowsTyped
    <3>2. rows'[j].status = "QUEUED"
      BY <3>1 DEF Table!Fresh, Table!Absent
    <3>3. req'[r] = [pc |-> "enqueue", job |-> j]
      BY <2>1, <2>2 DEF ReqGoes, ReqTyped
    <3>4. InHand(j)'
      BY <3>3 DEF InHand, ReqAt
    <3>5. QED BY <3>2, <3>4 DEF Kept
  <2>3. CASE i # j
    <3>1. rows'[j] = rows[j]
      BY <2>1, <2>3 DEF Table!Insert, Table!ManualRetry, RowsTyped
    <3>2. QED BY <1>1, <1>2, <2>1, <3>1
  <2>4. QED BY <2>2, <2>3
<1>4. ASSUME NEW i \in Jobs, CancelJob(r, i) PROVE Kept(j)
  <2>1. /\ ReqAt("idle", r) /\ ReqGoes(r, "ack", i) /\ UNCHANGED <<waiting, slot, sched, sup>>
        /\ Table!Cancel(i)
    BY <1>4 DEF CancelJob
  <2>2. i = j => rows'[j].status = "CANCELLED"
    BY <2>1, RowFields DEF Table!Cancel, RowsTyped
  <2>3. i # j => rows'[j] = rows[j]
    BY <2>1 DEF Table!Cancel, RowsTyped
  <2>4. QED BY <1>1, <1>2, <2>1, <2>2, <2>3 DEF Kept
<1>5. CASE EnqueueRequested(r)
  <2>1. UNCHANGED <<rows, slot, sched, sup>> /\ Q!Enqueue(req[r].job, Prio[req[r].job])
        /\ req' = [req EXCEPT ![r] = Idle] /\ ReqAt("enqueue", r)
    BY <1>5 DEF EnqueueRequested, ReqEnds
  <2>2. req[r].job \in Jobs
    BY <2>1 DEF ReqAt, ReqTyped, Task
  <2>3. /\ j \in Q!AllWaiting => j \in Q!AllWaiting'
        /\ req[r].job \in Q!AllWaiting'
    BY <2>1, <2>2, QueueGrows, JobEngineAssumption
  <2>4. InHand(j) => InHand(j)'
    BY <2>1, <2>3 DEF InHand, At, Holds, ReqAt, ReqTyped
  <2>5. QED BY <1>1, <2>1, <2>4
<1>6. CASE AckCancelled(r)
  <2>1. UNCHANGED <<rows, waiting, slot, sched, sup>> /\ req' = [req EXCEPT ![r] = Idle] /\ ReqAt("ack", r)
    BY <1>6 DEF AckCancelled, ReqEnds, Q!Ack
  <2>2. InHand(j) => InHand(j)'
    BY <2>1 DEF InHand, At, Holds, ReqAt, ReqTyped, Q!AllWaiting
  <2>3. QED BY <1>1, <2>1, <2>2
<1>7. QED BY <1>3, <1>4, <1>5, <1>6, FailedCall DEF RequestStep, RequestFails

LEMMA KeptWorkerStep ==
    ASSUME HandInv, NEW w \in Workers, WorkerStep(w), NEW j \in Jobs
    PROVE  Kept(j)
<1> USE DEF HandInv, TypeOK
<1>1. CASE Crash(w)
  <2>1. /\ UNCHANGED <<rows, waiting, sched, sup, req>>
        /\ \A s \in Slots : slot'[s] = IF Owner[s] = w THEN Idle ELSE slot[s]
        /\ proc'[w] = "down"
    BY <1>1 DEF Crash, storeVars, WorkersTyped
  <2>2. \A s \in Slots : slot'[s] # slot[s] => At("idle", s)' /\ proc'[Owner[s]] # "up"
    BY <2>1 DEF At, Idle
  <2>3. InHand(j) /\ ~InHand(j)' => \E s \in Slots : EndsWith(s, "claimed", j)
    BY <2>1, <2>2 DEF InHand, EndsWith, At, Holds, ReqAt, Q!AllWaiting
  <2>4. InExecution(j) /\ ~InExecution(j)' => \E s \in Slots : EndsWith(s, "running", j)
    BY <2>2 DEF InExecution, Executes, EndsWith, At, Holds
  <2>5. QED BY <2>1, <2>3, <2>4 DEF Kept
<1>2. CASE ~Crash(w)
  <2>1. UNCHANGED <<rows, waiting, slot, req, sched, sup>>
    BY <1>2 DEF WorkerStep, Shutdown, Stop, Restart, FallSilent, Heartbeat, storeVars
  <2>2. QED BY <2>1 DEF Kept, InHand, InExecution, Executes, At, Holds, ReqAt, Q!AllWaiting
<1>3. QED BY <1>1, <1>2

LEMMA KeptStep ==
    ASSUME HandInv, [Next]_vars, NEW j \in Jobs
    PROVE  Kept(j)
<1>1. ASSUME UNCHANGED <<rows, slot, req, sched, sup>>, j \in Q!AllWaiting => j \in Q!AllWaiting'
      PROVE  Kept(j)
  BY <1>1 DEF Kept, InHand, InExecution, Executes, At, Holds, ReqAt
<1>2. ASSUME NEW S \in SUBSET leased, RecoverLeases(S) PROVE Kept(j)
  BY <1>1, <1>2 DEF RecoverLeases, Q!RequeueStale, Q!AllWaiting, Q!TypeOK, HandInv, TypeOK
<1>3. CASE CrashApi
  BY <1>3, FailedCall DEF HandInv, CrashApi
<1>4. CASE UNCHANGED vars
  BY <1>1, <1>4 DEF vars, Q!AllWaiting
<1>5. QED BY <1>2, <1>3, <1>4, KeptSlotStep, KeptWorkerStep, KeptSchedulerStep,
             KeptSupervisorStep, KeptRequestStep DEF Next

(* A budget that has run out of one kind of event stays so. *)
LEMMA BudgetShrinks ==
    ASSUME TypeOK, [Next]_vars, NEW k \in Kinds
    PROVE  budget'[k] <= budget[k]
<1> USE DEF TypeOK
<1>1. ASSUME NEW i \in Kinds, Spend(i) PROVE budget'[k] <= budget[k]
  BY <1>1 DEF Spend
<1>2. ASSUME NEW i \in Kinds, NEW w, NEW st, SpendAndWrite(i, w, st) PROVE budget'[k] <= budget[k]
  BY <1>2 DEF SpendAndWrite, Spend, Kinds
<1>3. ASSUME UNCHANGED budget PROVE budget'[k] <= budget[k]
  BY <1>3
<1>4. ASSUME NEW s \in Slots, SlotStep(s) PROVE budget'[k] <= budget[k]
  BY <1>1, <1>3, <1>4 DEF SlotStep, ClaimEntry, ClaimReplyLost, StartJob, StartJobFails, Report,
     ReportFails, AckEntry, AckFails, Abandon, Kinds
<1>5. ASSUME NEW w \in Workers, WorkerStep(w) PROVE budget'[k] <= budget[k]
  BY <1>1, <1>2, <1>3, <1>5 DEF WorkerStep, Shutdown, Stop, Crash, Restart, FallSilent,
     Heartbeat, Kinds
<1>6. CASE SchedulerStep
  BY <1>1, <1>3, <1>6 DEF SchedulerStep, PollRetries, PollRetriesBreaksOff, BackoffEnds,
     EnqueueRetry, EnqueueRetryFails, Kinds
<1>7. CASE SupervisorStep
  BY <1>1, <1>3, <1>7 DEF SupervisorStep, FindDeadWorkers, MarkOffline, RecoverJobs,
     RecoverJobsFails, EnqueueRecovered, EnqueueRecoveredFails, Kinds
<1>8. ASSUME NEW r \in Reqs, RequestStep(r) PROVE budget'[k] <= budget[k]
  BY <1>1, <1>3, <1>8 DEF RequestStep, CreateJob, RetryJob, CancelJob, EnqueueRequested,
     AckCancelled, RequestFails, Kinds
<1>9. ASSUME CrashApi \/ \E S \in SUBSET leased : RecoverLeases(S) PROVE budget'[k] <= budget[k]
  BY <1>1, <1>3, <1>9 DEF CrashApi, RecoverLeases, Kinds
<1>10. QED BY <1>3, <1>4, <1>5, <1>6, <1>7, <1>8, <1>9 DEF Next, vars

LEMMA NoneLeft ==
    ASSUME TypeOK, [Next]_vars, NEW k \in Kinds, budget[k] = 0
    PROVE  budget'[k] = 0
BY BudgetShrinks, EngineTypeStep DEF TypeOK

LEMMA ProcessesStay ==
    ASSUME TypeOK, [Next]_vars, ~(\E w \in Workers : Shutdown(w) \/ Stop(w) \/ Crash(w) \/ Restart(w))
    PROVE  UNCHANGED proc
BY DEF Next, SlotStep, ClaimEntry, ClaimReplyLost, StartJob, StartJobFails, Report, ReportFails,
   AckEntry, AckFails, Abandon, WorkerStep, FallSilent, Heartbeat, RecoverLeases, SchedulerStep,
   PollRetries, PollRetriesBreaksOff, BackoffEnds, EnqueueRetry, EnqueueRetryFails, SupervisorStep,
   FindDeadWorkers, MarkOffline, RecoverJobs, RecoverJobsFails, EnqueueRecovered,
   EnqueueRecoveredFails, RequestStep, CreateJob, RetryJob, CancelJob, EnqueueRequested,
   AckCancelled, RequestFails, CrashApi, vars

LEMMA DownIsIdle ==
    ASSUME HandInv, [Next]_vars, NEW s \in Slots, proc'[Owner[s]] = "down"
    PROVE  At("idle", s)'
<1> USE JobEngineAssumption DEF HandInv, TypeOK, WorkersTyped
<1>1. ASSUME NEW t \in Slots, SlotStep(t) PROVE At("idle", s)'
  <2>1. UNCHANGED proc /\ proc[Owner[t]] # "down"
    BY <1>1 DEF SlotStep, ClaimEntry, ClaimReplyLost, StartJob, StartJobFails, Report, ReportFails,
       AckEntry, AckFails, Abandon, Alive, At
  <2>2. s # t => slot'[s] = slot[s]
    BY <1>1 DEF SlotStep, ClaimEntry, ClaimReplyLost, StartJob, StartJobFails, Report, ReportFails,
       AckEntry, AckFails, Abandon, SlotGoes, SlotFrees, SlotTyped
  <2>3. QED BY <2>1, <2>2 DEF At
<1>2. ASSUME NEW w \in Workers, WorkerStep(w) PROVE At("idle", s)'
  <2>1. CASE Crash(w)
    BY <2>1 DEF Crash, At, Idle
  <2>2. CASE Stop(w)
    BY <2>2 DEF Stop, At, SlotsOf
  <2>3. CASE ~Crash(w) /\ ~Stop(w)
    BY <1>2, <2>3 DEF WorkerStep, Shutdown, Restart, FallSilent, Heartbeat, At
  <2>4. QED BY <2>1, <2>2, <2>3
<1>3. ASSUME UNCHANGED <<slot, proc>> PROVE At("idle", s)'
  BY <1>3 DEF At
<1>4. CASE SchedulerStep
  BY <1>3, <1>4 DEF SchedulerStep, PollRetries, PollRetriesBreaksOff, BackoffEnds, EnqueueRetry,
     EnqueueRetryFails
<1>5. CASE SupervisorStep
  BY <1>3, <1>5 DEF SupervisorStep, FindDeadWorkers, MarkOffline, RecoverJobs, RecoverJobsFails,
     EnqueueRecovered, EnqueueRecoveredFails
<1>6. ASSUME NEW r \in Reqs, RequestStep(r) PROVE UNCHANGED <<slot, proc>>
  BY <1>6 DEF RequestStep, CreateJob, RetryJob, CancelJob, EnqueueRequested, AckCancelled,
     RequestFails
<1>7. QED BY <1>1, <1>2, <1>3, <1>4, <1>5, <1>6 DEF Next, RecoverLeases, CrashApi, vars

LEMMA HandStep == HandInv /\ [Next]_vars => HandInv'
<1> SUFFICES ASSUME HandInv, [Next]_vars PROVE HandInv'
  OBVIOUS
<1>1. TypeOK'
  BY EngineTypeStep DEF HandInv
<1>2. (sup.pc # "enqueue" => sup.batch = {})'
  <2>1. CASE SupervisorStep
    BY <2>1 DEF HandInv, TypeOK, SupTyped, SupervisorStep, FindDeadWorkers, MarkOffline,
       RecoverJobs, RecoverJobsFails, EnqueueRecovered, EnqueueRecoveredFails, Enqueuing, NoPass
  <2>2. ASSUME UNCHANGED sup PROVE (sup.pc # "enqueue" => sup.batch = {})'
    BY <2>2 DEF HandInv
  <2>3. ASSUME NEW s \in Slots, SlotStep(s) PROVE UNCHANGED sup
    BY <2>3 DEF SlotStep, ClaimEntry, ClaimReplyLost, StartJob, StartJobFails, Report, ReportFails,
       AckEntry, AckFails, Abandon
  <2>4. ASSUME NEW w \in Workers, WorkerStep(w) PROVE UNCHANGED sup
    BY <2>4 DEF WorkerStep, Shutdown, Stop, Crash, Restart, FallSilent, Heartbeat
  <2>5. ASSUME NEW S \in SUBSET leased, RecoverLeases(S) PROVE UNCHANGED sup
    BY <2>5 DEF RecoverLeases
  <2>6. CASE SchedulerStep
    BY <2>2, <2>6 DEF SchedulerStep, PollRetries, PollRetriesBreaksOff, BackoffEnds, EnqueueRetry,
       EnqueueRetryFails
  <2>7. ASSUME NEW r \in Reqs, RequestStep(r) PROVE UNCHANGED sup
    BY <2>7 DEF RequestStep, CreateJob, RetryJob, CancelJob, EnqueueRequested, AckCancelled,
       RequestFails
  <2>8. CASE CrashApi
    BY <2>8 DEF CrashApi, NoPass
  <2>9. CASE UNCHANGED vars
    BY <2>2, <2>9 DEF vars
  <2>10. QED BY <2>1, <2>2, <2>3, <2>4, <2>5, <2>6, <2>7, <2>8, <2>9 DEF Next
<1>3. \A s \in Slots : proc'[Owner[s]] = "down" => At("idle", s)'
  BY DownIsIdle
<1>4. \A j \in Jobs : rows'[j].status = "RUNNING" => rows'[j].worker \in Workers
  BY RowChanges, JobEngineAssumption
     DEF HandInv, RowChange, Made, Taken, Reported, Waited, Recovered, Cancelled, Table!Fresh,
         Table!Absent
<1>5. QED BY <1>1, <1>2, <1>3, <1>4 DEF HandInv

LEMMA HandInit == Init => HandInv
BY EngineTypeInit
   DEF Init, InitWith, HandInv, NoPass, Table!Init, Table!Absent, At, Idle

(* A dead worker leaves the supervisor's hands by its jobs being taken, by *)
(* coming back, or because a call failed.                                  *)
LEMMA ReapableStays ==
    ASSUME TypeOK, [Next]_vars, NEW w \in Workers, Reapable(w)
    PROVE  \/ Reapable(w)'
           \/ sup.cur = w /\ Table!RecoverDeadWorkerJobs(w)
           \/ Returns(w) \/ CallFails
<1> USE DEF TypeOK, WorkersTyped, SupTyped
<1>1. CASE proc'[w] # "down"
  <2>1. \E v \in Workers : Shutdown(v) \/ Stop(v) \/ Crash(v) \/ Restart(v)
    BY <1>1, ProcessesStay DEF Reapable
  <2>2. Restart(w)
    BY <1>1, <2>1 DEF Shutdown, Stop, Crash, Restart, Reapable
  <2>3. QED BY <2>2 DEF Restart, Returns
<1>2. CASE proc'[w] = "down"
  <2>1. ASSUME sup' = sup, wstat'[w] = wstat[w] PROVE Reapable(w)'
    BY <1>2, <2>1 DEF Reapable
  <2>2. CASE FindDeadWorkers
    BY <1>2, <2>2 DEF FindDeadWorkers, storeVars, Reapable
  <2>3. ASSUME NEW v \in Workers, MarkOffline(v) PROVE Reapable(w)'
    BY <1>2, <2>3 DEF MarkOffline, Reapable
  <2>4. ASSUME NEW B, Enqueuing(B), UNCHANGED wstat, sup.pc = "recover" => sup.cur # w
        PROVE  Reapable(w)'
    BY <1>2, <2>4 DEF Enqueuing, NoPass, Reapable
  <2>5. CASE RecoverJobs
    <3>1. CASE sup.cur = w
      BY <2>5, <3>1 DEF RecoverJobs
    <3>2. CASE sup.cur # w
      BY <2>4, <2>5, <3>2 DEF RecoverJobs
    <3>3. QED BY <3>1, <3>2
  <2>6. ASSUME NEW j \in Jobs, EnqueueRecovered(j) PROVE Reapable(w)'
    BY <2>4, <2>6 DEF EnqueueRecovered
  <2>7. CASE SupervisorStep
    BY <2>2, <2>3, <2>5, <2>6, <2>7, FailedCall
       DEF SupervisorStep, RecoverJobsFails, EnqueueRecoveredFails
  <2>8. CASE CrashApi
    BY <2>8, FailedCall DEF CrashApi
  <2>9. ASSUME NEW v \in Workers, WorkerStep(v) PROVE sup' = sup /\ wstat'[w] = wstat[w]
    <3>1. Shutdown(v) \/ Stop(v) => v # w
      BY DEF Shutdown, Stop, Reapable
    <3>2. Restart(v) => v # w
      BY <1>2 DEF Restart
    <3>3. QED BY <2>9, <3>1, <3>2 DEF WorkerStep, Shutdown, Stop, Crash, Restart, FallSilent,
              Heartbeat, SpendAndWrite, storeVars
  <2>10. ASSUME NEW s \in Slots, SlotStep(s) PROVE UNCHANGED <<sup, wstat>>
    BY <2>10 DEF SlotStep, ClaimEntry, ClaimReplyLost, StartJob, StartJobFails, Report, ReportFails,
       AckEntry, AckFails, Abandon, storeVars
  <2>11. CASE SchedulerStep
    BY <2>1, <2>11 DEF SchedulerStep, PollRetries, PollRetriesBreaksOff, BackoffEnds, EnqueueRetry,
       EnqueueRetryFails, storeVars
  <2>12. ASSUME NEW r \in Reqs, RequestStep(r) PROVE UNCHANGED <<sup, wstat>>
    BY <2>12 DEF RequestStep, CreateJob, RetryJob, CancelJob, EnqueueRequested, AckCancelled,
       RequestFails, storeVars
  <2>13. QED BY <2>1, <2>7, <2>8, <2>9, <2>10, <2>11, <2>12 DEF Next, RecoverLeases, vars
<1>3. QED BY <1>1, <1>2

HeldOn(j) ==
    rows'[j].status = "RUNNING" /\ ~Held(j)' =>
         \/ rows[j].status = "RUNNING" /\ (~Held(j) \/ Returns(rows[j].worker))
         \/ \E s \in Slots : EndsWith(s, "running", j) /\ ~KilledInPlace(s, j)
         \/ CallFails

LEMMA HeldOnStep ==
    ASSUME HandInv, [Next]_vars, NEW j \in Jobs
    PROVE  HeldOn(j)
<1> SUFFICES ASSUME rows'[j].status = "RUNNING", ~Held(j)', ~CallFails
             PROVE  \/ rows[j].status = "RUNNING" /\ (~Held(j) \/ Returns(rows[j].worker))
                    \/ \E s \in Slots : EndsWith(s, "running", j) /\ ~KilledInPlace(s, j)
  BY DEF HeldOn
<1> USE DEF HandInv
<1>1. \/ rows[j].status = "RUNNING" /\ ~InExecution(j)
      \/ \E s \in Slots : EndsWith(s, "running", j)
  BY KeptStep DEF Kept, Held
<1>2. CASE rows[j].status = "RUNNING" /\ ~InExecution(j) /\ Held(j)
  <2>1. rows'[j] = rows[j]
    BY <1>2, RowChanges DEF RowChange, Made, Taken, Reported, Waited, Recovered, Cancelled
  <2>2. PICK w \in Workers : w = rows[j].worker /\ Reapable(w)
    BY <1>2 DEF Held
  <2>3. ~Table!RecoverDeadWorkerJobs(w)
    <3>1. SUFFICES ASSUME Table!RecoverDeadWorkerJobs(w) PROVE FALSE
      OBVIOUS
    <3>2. rows'[j] = [rows[j] EXCEPT !.status = "QUEUED", !.worker = NoWorker]
      BY <1>2, <2>2, <3>1 DEF Table!RecoverDeadWorkerJobs, Table!RunningOn, Table!HasStatus
    <3>3. QED BY <3>2, RowFields DEF TypeOK
  <2>4. ~Reapable(w)'
    BY <2>1, <2>2 DEF Held, Reapable
  <2>5. QED BY <1>2, <2>2, <2>3, <2>4, ReapableStays
<1>3. ASSUME NEW s \in Slots, EndsWith(s, "running", j), KilledInPlace(s, j) PROVE FALSE
  <2>1. Owner[s] \in Workers /\ proc[Owner[s]] # "down" /\ proc'[Owner[s]] = "down"
    BY <1>3, JobEngineAssumption DEF EndsWith, KilledInPlace, At
  <2>2. \E v \in Workers : Shutdown(v) \/ Stop(v) \/ Crash(v) \/ Restart(v)
    BY <2>1, ProcessesStay
  <2>3. Crash(Owner[s])
    BY <1>3, <2>1, <2>2 DEF Shutdown, Stop, Crash, Restart, SlotsOf, EndsWith, At, TypeOK,
       WorkersTyped
  <2>4. Reapable(Owner[s])' /\ UNCHANGED rows
    BY <1>3, <2>1, <2>3 DEF Crash, storeVars, Reapable, KilledInPlace
  <2>5. QED BY <1>3, <2>4 DEF Held, Reapable, KilledInPlace
<1>4. QED BY <1>1, <1>2, <1>3

(* A lease goes back to a tier at its deadline, or it is acked.            *)
LEMMA LeaseGoes ==
    ASSUME TypeOK, [Next]_vars, NEW j \in Jobs, j \in leased, j \notin leased'
    PROVE  Acks(j) \/ j \in Q!AllWaiting'
<1>1. \A i : Q!Claim(i) => leased' = leased \cup {i}
  BY DEF Q!Claim, Q!ClaimFrom
<1>2. \A i, p : Q!Enqueue(i, p) => UNCHANGED leased
  BY DEF Q!Enqueue
<1>3. ASSUME NEW s \in Slots, SlotStep(s) PROVE Acks(j)
  <2>1. AckEntry(s)
    BY <1>1, <1>3 DEF SlotStep, ClaimEntry, ClaimReplyLost, StartJob, StartJobFails, Report,
                      ReportFails, AckFails, Abandon, storeVars
  <2>2. QED BY <2>1 DEF AckEntry, Q!Ack, Acks, Holds
<1>4. ASSUME NEW r \in Reqs, RequestStep(r) PROVE Acks(j)
  <2>1. AckCancelled(r)
    BY <1>2, <1>4 DEF RequestStep, CreateJob, RetryJob, CancelJob, EnqueueRequested,
                      RequestFails, storeVars
  <2>2. QED BY <2>1 DEF AckCancelled, Q!Ack, Acks
<1>5. ASSUME NEW S \in SUBSET leased, RecoverLeases(S) PROVE j \in Q!AllWaiting'
  BY <1>5 DEF RecoverLeases, Q!RequeueStale, DefaultPriority, Tiers, Q!AllWaiting, Q!TypeOK, TypeOK
<1>6. SchedulerStep \/ SupervisorStep => UNCHANGED leased
  BY <1>2 DEF SchedulerStep, PollRetries, PollRetriesBreaksOff, BackoffEnds, EnqueueRetry,
              EnqueueRetryFails, SupervisorStep, FindDeadWorkers, MarkOffline, RecoverJobs,
              RecoverJobsFails, EnqueueRecovered, EnqueueRecoveredFails, storeVars
<1>7. ASSUME NEW w \in Workers, WorkerStep(w) PROVE UNCHANGED leased
  BY <1>7 DEF WorkerStep, Shutdown, Stop, Crash, Restart, FallSilent, Heartbeat, storeVars
<1>8. QED BY <1>3, <1>4, <1>5, <1>6, <1>7 DEF Next, CrashApi, storeVars, vars

(* Who ends with a job claimed acks nothing.                               *)
LEMMA EndsWithoutAck ==
    ASSUME TypeOK, NEW s \in Slots, NEW j \in Jobs, EndsWith(s, "claimed", j)
    PROVE  ~Acks(j)
<1>1. SUFFICES ASSUME Acks(j) PROVE FALSE
  OBVIOUS
<1>2. ~(\E t \in Slots : AckEntry(t))
  BY DEF EndsWith, AckEntry, SlotFrees, At, Idle, TypeOK, SlotTyped
<1>3. ~(\E r \in Reqs : AckCancelled(r))
  BY DEF EndsWith, AckCancelled, At
<1>4. QED BY <1>1, <1>2, <1>3 DEF Acks

(* A queued job nobody has in hand falls back on its lease. *)
LastHope(j) ==
    rows'[j].status = "QUEUED" /\ ~Dispatchable(j)' =>
      \/ rows[j].status = "QUEUED" /\ ~InHand(j) /\ (j \in leased => Acks(j))
      \/ j \notin leased /\ \E s \in Slots : EndsWith(s, "claimed", j)
      \/ CallFails

LEMMA LastHopeStep ==
    ASSUME HandInv, [Next]_vars, NEW j \in Jobs
    PROVE  LastHope(j)
<1> SUFFICES ASSUME rows'[j].status = "QUEUED", ~InHand(j)', j \notin leased', ~CallFails
             PROVE  \/ rows[j].status = "QUEUED" /\ ~InHand(j) /\ (j \in leased => Acks(j))
                    \/ j \notin leased /\ \E s \in Slots : EndsWith(s, "claimed", j)
  BY DEF LastHope, Dispatchable
<1>1. j \in leased => Acks(j)
  BY LeaseGoes DEF HandInv, InHand
<1>2. \/ rows[j].status = "QUEUED" /\ ~InHand(j)
      \/ \E s \in Slots : EndsWith(s, "claimed", j)
  BY KeptStep DEF Kept
<1>3. QED BY <1>1, <1>2, EndsWithoutAck DEF HandInv

(* OnlyHoldersDrop: under any budget of events, false deaths included, no  *)
(* race of claims, acks, polls, expired leases, recoveries and requests    *)
(* drops a job somebody has in hand; a job is dropped by the end of the    *)
(* worker that has it, by its dead worker's return under the same id, or   *)
(* by a call that fails, and a dropped one that is queued loses its lease  *)
(* only to an ack.                                                         *)
THEOREM OnlyHoldersDrop == Spec => OnlyItsHolderDropsIt
<1> DEFINE Drops(j) == CallFails \/
         /\ rows'[j].status = "QUEUED" /\ ~InHand(j)' =>
              \/ rows[j].status = "QUEUED" /\ ~InHand(j)
              \/ \E s \in Slots : EndsWith(s, "claimed", j)
         /\ rows'[j].status = "QUEUED" /\ ~Dispatchable(j)' =>
              \/ rows[j].status = "QUEUED" /\ ~InHand(j) /\ (j \in leased => Acks(j))
              \/ j \notin leased /\ \E s \in Slots : EndsWith(s, "claimed", j)
         /\ rows'[j].status = "RUNNING" /\ ~Held(j)' =>
              \/ rows[j].status = "RUNNING" /\ (~Held(j) \/ Returns(rows[j].worker))
              \/ \E s \in Slots : EndsWith(s, "running", j) /\ ~KilledInPlace(s, j)
<1>1. ASSUME HandInv, [Next]_vars, NEW j \in Jobs PROVE Drops(j)
  BY <1>1, KeptStep, LastHopeStep, HeldOnStep DEF Kept, LastHope, HeldOn
<1>2. HandInv /\ [Next]_vars => [\A j \in Jobs : Drops(j)]_vars
  BY <1>1
<1>3. QED BY <1>2, HandInit, HandStep, PTL DEF Spec, OnlyItsHolderDropsIt

(* Where no process ends, the workers are up for ever, so none of them     *)
(* drops a job.                                                            *)
Undisturbed(b) ==
    \A k \in {"crash", "shutdown", "restart", "apiCrash", "storeErr", "statusErr"} : b[k] = 0

KeptInv ==
    /\ HandInv
    /\ Undisturbed(budget)
    /\ \A w \in Workers : proc[w] = "up"
    /\ \A j \in Jobs : /\ rows[j].status = "QUEUED" => InHand(j)
                       /\ rows[j].status = "RUNNING" => InExecution(j)

LEMMA KeptInvStep == KeptInv /\ [Next]_vars => KeptInv'
<1> SUFFICES ASSUME KeptInv, [Next]_vars PROVE KeptInv'
  OBVIOUS
<1>1. HandInv' /\ \A j \in Jobs : Kept(j)
  BY HandStep, KeptStep DEF KeptInv
<1>2. Undisturbed(budget')
  BY NoneLeft DEF KeptInv, HandInv, Undisturbed, Kinds
<1>3. \A w \in Workers : proc'[w] = "up"
  <2>1. ~(\E w \in Workers : Shutdown(w) \/ Stop(w) \/ Crash(w) \/ Restart(w))
    BY DEF KeptInv, Undisturbed, Shutdown, Stop, Crash, Restart, SpendAndWrite, Spend
  <2>2. QED BY <2>1, ProcessesStay DEF KeptInv, HandInv
<1>4. ~CallFails /\ \A s \in Slots : \A pc, j : ~EndsWith(s, pc, j)
  BY <1>2, <1>3, JobEngineAssumption DEF EndsWith, CallFails, KeptInv, Undisturbed
<1>5. QED BY <1>1, <1>2, <1>3, <1>4 DEF KeptInv, Kept

(* RacesLoseNothing: while no call fails and no process ends, no race of   *)
(* claims, late acks, expiring leases, retries, cancellations and the      *)
(* supervisor, not even with live workers held for dead, leaves a queued   *)
(* job with nobody to bring it to a worker or a running one with nobody    *)
(* executing it.                                                           *)
THEOREM RacesLoseNothing ==
    ASSUME Undisturbed(Budget)
    PROVE  Spec => []NoJobIsLost
<1>1. Init => KeptInv
  BY HandInit DEF Init, InitWith, KeptInv, Table!Init, Table!Absent
<1>2. KeptInv => NoJobIsLost
  BY DEF KeptInv, NoJobIsLost, QueuedIsDispatchable, RunningIsHeld, Held, Dispatchable
<1>3. QED BY <1>1, <1>2, KeptInvStep, PTL DEF Spec

-----------------------------------------------------------------------------
(* Crashes.  A worker that is up says ACTIVE while nobody holds it for     *)
(* dead, so the jobs it was running when it was killed are the             *)
(* supervisor's, and stay so until it takes them.                          *)
OnlyCrashes(b) ==
    \A k \in {"suspect", "shutdown", "restart", "apiCrash", "storeErr"} : b[k] = 0

HeldInv ==
    /\ ExecInv
    /\ HandInv
    /\ OnlyCrashes(budget)
    /\ \A w \in Workers : proc[w] # "draining" /\ (proc[w] = "up" => wstat[w] = "ACTIVE")
    /\ RunningIsHeld

LEMMA OnlyCrashesEnd ==
    ASSUME HeldInv, [Next]_vars
    PROVE  UNCHANGED proc \/ \E w \in Workers : Crash(w)
<1>1. ~(\E w \in Workers : Shutdown(w) \/ Stop(w) \/ Restart(w))
  BY DEF HeldInv, OnlyCrashes, Shutdown, Stop, Restart, SpendAndWrite, Spend
<1>2. QED BY <1>1, ProcessesStay DEF HeldInv, HandInv

LEMMA UpIsActiveStep ==
    ASSUME HeldInv, [Next]_vars
    PROVE  \A w \in Workers : proc'[w] # "draining" /\ (proc'[w] = "up" => wstat'[w] = "ACTIVE")
<1> USE DEF HeldInv, ExecInv, TypeOK, WorkersTyped
<1>1. CASE \E w \in Workers : Crash(w)
  BY <1>1 DEF Crash, storeVars
<1>2. CASE UNCHANGED <<proc, wstat>>
  BY <1>2
<1>3. ASSUME NEW w \in Workers, MarkOffline(w)
      PROVE  UNCHANGED proc /\ \A v \in Workers : proc[v] = "up" => wstat'[v] = "ACTIVE"
  <2>1. proc[w] = "down"
    BY <1>3 DEF MarkOffline, OnlyDeadAreReaped
  <2>2. QED BY <1>3, <2>1 DEF MarkOffline
<1>4. ~(\E w \in Workers : Shutdown(w) \/ Stop(w) \/ Restart(w))
  BY DEF OnlyCrashes, Shutdown, Stop, Restart, SpendAndWrite, Spend
<1>5. ASSUME ~(\E w \in Workers : MarkOffline(w) \/ Crash(w))
      PROVE  UNCHANGED <<proc, wstat>>
  BY <1>4, <1>5 DEF Next, SlotStep, ClaimEntry, ClaimReplyLost, StartJob, StartJobFails, Report,
     ReportFails, AckEntry, AckFails, Abandon, WorkerStep, FallSilent, Heartbeat, RecoverLeases,
     SchedulerStep, PollRetries, PollRetriesBreaksOff, BackoffEnds, EnqueueRetry,
     EnqueueRetryFails, SupervisorStep, FindDeadWorkers, RecoverJobs, RecoverJobsFails,
     EnqueueRecovered, EnqueueRecoveredFails, RequestStep, CreateJob, RetryJob, CancelJob,
     EnqueueRequested, AckCancelled, RequestFails, CrashApi, storeVars, vars
<1>6. QED BY <1>1, <1>2, <1>3, <1>5

LEMMA HeldStep == HeldInv /\ [Next]_vars => HeldInv'
<1> SUFFICES ASSUME HeldInv, [Next]_vars PROVE HeldInv'
  OBVIOUS
<1>1. ExecInv' /\ HandInv' /\ TypeOK
  BY ExecStep, HandStep DEF HeldInv, ExecInv
<1>2. OnlyCrashes(budget')
  BY <1>1, NoneLeft DEF HeldInv, OnlyCrashes, Kinds
<1>3. ~CallFails /\ \A w \in Workers : ~Returns(w)
  BY <1>1, <1>2, OnlyCrashesEnd DEF CallFails, Returns, Crash, HeldInv, OnlyCrashes, TypeOK, WorkersTyped
<1>4. ASSUME NEW j \in Jobs, NEW s \in Slots, EndsWith(s, "running", j)
      PROVE  KilledInPlace(s, j)
  <2>1. Owner[s] \in Workers /\ rows[j].worker = Owner[s] /\ proc[Owner[s]] = "up"
    <3>1. Owner[s] \in Workers /\ rows[j].worker = Owner[s] /\ ~At("idle", s)
      BY <1>4, JobEngineAssumption DEF EndsWith, Holds, At, HeldInv, ExecInv, ExecutorOwnsRow
    <3>2. proc[Owner[s]] # "down" /\ proc[Owner[s]] # "draining"
      BY <3>1 DEF HeldInv, HandInv
    <3>3. QED BY <1>1, <3>1, <3>2 DEF TypeOK, WorkersTyped
  <2>2. proc'[Owner[s]] = "down"
    BY <1>1, <1>4, <2>1, OnlyCrashesEnd DEF EndsWith, Crash, TypeOK, WorkersTyped
  <2>3. QED BY <2>1, <2>2 DEF KilledInPlace, HeldInv
<1>5. RunningIsHeld'
  <2> SUFFICES ASSUME NEW j \in Jobs, rows'[j].status = "RUNNING" PROVE Held(j)'
    BY DEF RunningIsHeld
  <2>1. HeldOn(j)
    BY HeldOnStep DEF HeldInv
  <2>2. rows[j].status = "RUNNING" => Held(j) /\ ~Returns(rows[j].worker)
    BY <1>3 DEF HeldInv, HandInv, RunningIsHeld
  <2>3. QED BY <1>3, <1>4, <2>1, <2>2 DEF HeldOn
<1>6. QED BY <1>1, <1>2, <1>5, UpIsActiveStep DEF HeldInv

(* CrashesOrphanNothing: however many workers are killed, wherever in an   *)
(* attempt or in the supervisor's pass, a running job is executed by a     *)
(* slot or is still to be taken from a dead worker.  What it needs is that *)
(* calls succeed, workers come back under new ids, and are not held for    *)
(* dead while they live.                                                   *)
THEOREM CrashesOrphanNothing ==
    ASSUME OnlyCrashes(Budget)
    PROVE  Spec => []RunningIsHeld
<1>1. Init => HeldInv
  <2>1. NoFalseDeaths(Budget)
    BY DEF OnlyCrashes, NoFalseDeaths
  <2>2. QED BY <2>1, ExecInit, HandInit
            DEF Init, InitWith, HeldInv, RunningIsHeld, Table!Init, Table!Absent
<1>2. HeldInv => RunningIsHeld
  BY DEF HeldInv
<1>3. QED BY <1>1, <1>2, HeldStep, PTL DEF Spec

-----------------------------------------------------------------------------
(* Executors beyond the first.  A live worker costs a job its row only     *)
(* after it came under suspicion, and every way to that is paid for.       *)
Suspects ==
    {w \in Workers : /\ proc[w] # "down"
                     /\ \/ w \in sup.dead
                        \/ wstat[w] = "ACTIVE" /\ (w \in silent \/ proc[w] = "draining")}

(* The supervisor is about to take the jobs of a live worker. *)
Taking == IF sup.pc = "recover" /\ proc[sup.cur] # "down" THEN 1 ELSE 0

(* One of the executors is the worker the row names. *)
HasOwner(j) ==
    /\ rows[j].status \in {"RUNNING", "CANCELLED"}
    /\ \E s \in Executors(j) : Owner[s] = rows[j].worker

Owned(j) == IF HasOwner(j) THEN 1 ELSE 0

Paid == Spent("suspect") + Spent("restart") + Spent("statusErr") + Spent("storeErr")

Payments == {"suspect", "restart", "statusErr", "storeErr"}

(* Executors, suspects and a taking under way are paid for, but for the    *)
(* executor that owns the row.                                             *)
PaidInv ==
    /\ HandInv
    /\ sup.pc # "idle" => sup.cur \notin sup.dead
    /\ IsFiniteSet(Suspects)
    /\ \A j \in Jobs :
          /\ IsFiniteSet(Executors(j))
          /\ Cardinality(Executors(j)) + Cardinality(Suspects) + Taking <= Owned(j) + Paid

LEMMA PaidGrows ==
    ASSUME TypeOK, [Next]_vars
    PROVE  /\ Paid \in Int /\ Paid' \in Int /\ Paid <= Paid'
           /\ (\E k \in Payments : budget'[k] < budget[k]) => Paid < Paid'
<1>1. budget \in [Kinds -> Nat] /\ budget' \in [Kinds -> Nat]
  BY EngineTypeStep DEF TypeOK
<1>2. \A k \in Kinds : budget'[k] <= budget[k]
  BY BudgetShrinks
<1>3. Payments \subseteq Kinds
  BY DEF Payments, Kinds
<1> DEFINE b(k) == Budget[k] - budget[k]
<1>4. \A k \in Payments : b(k) \in Int /\ b(k)' \in Int /\ b(k) <= b(k)'
                            /\ (budget'[k] < budget[k] => b(k) < b(k)')
  BY <1>1, <1>2, <1>3, JobEngineAssumption
<1>5. Paid = b("suspect") + b("restart") + b("statusErr") + b("storeErr")
      /\ Paid' = b("suspect")' + b("restart")' + b("statusErr")' + b("storeErr")'
  BY DEF Paid, Spent
<1> HIDE DEF b
<1>6. QED BY <1>4, <1>5 DEF Payments

(* A step keeps the suspects and the taking as they are, frees itself of   *)
(* a suspect by taking its jobs, or pays for one suspect or taking more.   *)
SuspectsKept ==
    /\ Suspects' \subseteq Suspects
    /\ Taking' <= Taking

SuspectTaken ==
    /\ \E w \in Suspects : Suspects' \subseteq Suspects \ {w}
    /\ Taking = 0
    /\ ~ \E j \in Jobs : Recovered(j)

SuspicionPaid ==
    /\ \E k \in Payments : budget'[k] < budget[k]
    /\ \/ (\E w \in Workers : Suspects' \subseteq Suspects \cup {w}) /\ Taking' = Taking
       \/ Suspects' \subseteq Suspects /\ Taking' <= Taking + 1
    /\ ~ \E j \in Jobs : Recovered(j)

SuspectsStep == SuspectsKept \/ SuspectTaken \/ SuspicionPaid

LEMMA NoneRecovered ==
    ASSUME UNCHANGED rows
    PROVE  ~ \E j \in Jobs : Recovered(j)
BY DEF Recovered

LEMMA TakingType == Taking \in {0, 1}
BY DEF Taking

LEMMA SuspectsWorkerStep ==
    ASSUME PaidInv, NEW w \in Workers, WorkerStep(w)
    PROVE  SuspectsStep
<1> USE DEF PaidInv, HandInv, TypeOK, WorkersTyped, SupTyped
<1>1. UNCHANGED <<rows, sup>> /\ ~ \E j \in Jobs : Recovered(j)
  BY NoneRecovered
     DEF WorkerStep, Shutdown, Stop, Crash, Restart, FallSilent, Heartbeat, storeVars
<1>2. CASE Shutdown(w)
  <2>1. Taking' = Taking
    BY <1>1, <1>2 DEF Shutdown, Taking
  <2>2. CASE wstat' = [wstat EXCEPT ![w] = "DRAINING"]
    <3>1. Suspects' \subseteq Suspects
      BY <1>1, <1>2, <2>2 DEF Shutdown, Suspects
    <3>2. QED BY <1>1, <2>1, <3>1, TakingType DEF SuspectsStep, SuspectsKept
  <2>3. CASE budget'["statusErr"] < budget["statusErr"] /\ UNCHANGED wstat
    <3>1. Suspects' \subseteq Suspects \cup {w}
      BY <1>1, <1>2, <2>3 DEF Shutdown, Suspects
    <3>2. QED BY <1>1, <2>1, <2>3, <3>1 DEF SuspectsStep, SuspicionPaid, Payments
  <2>4. QED BY <1>2, <2>2, <2>3 DEF Shutdown, SpendAndWrite, Kinds
<1>3. CASE Stop(w) \/ Crash(w)
  <2>1. Suspects' \subseteq Suspects
    BY <1>1, <1>3 DEF Stop, Crash, storeVars, Suspects
  <2>2. Taking' <= Taking
    BY <1>1, <1>3 DEF Stop, Crash, Taking
  <2>3. QED BY <1>1, <2>1, <2>2 DEF SuspectsStep, SuspectsKept
<1>4. CASE Restart(w)
  <2>1. budget'["restart"] < budget["restart"]
    BY <1>4 DEF Restart, SpendAndWrite, Spend, Kinds
  <2>2. CASE sup.pc = "recover" /\ sup.cur = w
    <3>1. Suspects' \subseteq Suspects
      BY <1>1, <1>4, <2>2 DEF Restart, Suspects, SpendAndWrite
    <3>2. Taking' <= Taking + 1
      BY DEF Taking
    <3>3. QED BY <1>1, <2>1, <3>1, <3>2 DEF SuspectsStep, SuspicionPaid, Payments
  <2>3. CASE ~(sup.pc = "recover" /\ sup.cur = w)
    <3>1. Suspects' \subseteq Suspects \cup {w}
      BY <1>1, <1>4 DEF Restart, Suspects, SpendAndWrite
    <3>2. Taking' = Taking
      BY <1>1, <1>4, <2>3 DEF Restart, Taking
    <3>3. QED BY <1>1, <2>1, <3>1, <3>2 DEF SuspectsStep, SuspicionPaid, Payments
  <2>4. QED BY <2>2, <2>3
<1>5. CASE FallSilent(w)
  <2>1. Taking' = Taking
    BY <1>1, <1>5 DEF FallSilent, Taking
  <2>2. CASE proc[w] = "up"
    <3>1. Suspects' \subseteq Suspects \cup {w}
      BY <1>1, <1>5 DEF FallSilent, storeVars, Suspects
    <3>2. budget'["suspect"] < budget["suspect"]
      BY <1>5, <2>2 DEF FallSilent, Spend, Kinds
    <3>3. QED BY <1>1, <2>1, <3>1, <3>2 DEF SuspectsStep, SuspicionPaid, Payments
  <2>3. CASE proc[w] # "up"
    <3>1. Suspects' \subseteq Suspects
      BY <1>1, <1>5, <2>3 DEF FallSilent, storeVars, Suspects
    <3>2. QED BY <1>1, <2>1, <3>1, TakingType DEF SuspectsStep, SuspectsKept
  <2>4. QED BY <2>2, <2>3
<1>6. CASE Heartbeat(w)
  <2>1. Suspects' \subseteq Suspects /\ Taking' = Taking
    BY <1>1, <1>6 DEF Heartbeat, storeVars, Suspects, Taking
  <2>2. QED BY <1>1, <2>1, TakingType DEF SuspectsStep, SuspectsKept
<1>7. QED BY <1>2, <1>3, <1>4, <1>5, <1>6 DEF WorkerStep

LEMMA SuspectsSupervisorStep ==
    ASSUME PaidInv, SupervisorStep
    PROVE  SuspectsStep /\ (sup.pc # "idle" => sup.cur \notin sup.dead)'
<1> USE DEF PaidInv, HandInv, TypeOK, WorkersTyped, SupTyped
<1>1. CASE FindDeadWorkers
  <2>1. Suspects' \subseteq Suspects /\ Taking' = 0 /\ sup'.pc = "idle"
    BY <1>1 DEF FindDeadWorkers, storeVars, Suspects, Taking
  <2>2. QED BY <2>1, TakingType DEF SuspectsStep, SuspectsKept
<1>2. ASSUME NEW w \in Workers, MarkOffline(w)
      PROVE  SuspectsStep /\ (sup.pc # "idle" => sup.cur \notin sup.dead)'
  <2>1. sup'.cur = w /\ sup'.pc = "recover" /\ sup'.dead = sup.dead \ {w}
        /\ sup.pc = "idle" /\ w \in sup.dead /\ UNCHANGED <<rows, silent, proc>>
    BY <1>2 DEF MarkOffline
  <2>2. ~(\E j \in Jobs : Recovered(j)) /\ Taking = 0 /\ Taking' <= 1
    BY <2>1, NoneRecovered, TakingType DEF Taking
  <2>3. CASE wstat' = [wstat EXCEPT ![w] = "OFFLINE"] /\ proc[w] # "down"
    <3>1. Suspects' \subseteq Suspects \ {w} /\ w \in Suspects
      BY <2>1, <2>3 DEF Suspects
    <3>2. QED BY <2>1, <2>2, <3>1 DEF SuspectsStep, SuspectTaken
  <2>4. CASE wstat' = [wstat EXCEPT ![w] = "OFFLINE"] /\ proc[w] = "down"
    <3>1. Suspects' \subseteq Suspects /\ Taking' = 0
      BY <2>1, <2>4 DEF Suspects, Taking
    <3>2. QED BY <2>1, <2>2, <3>1 DEF SuspectsStep, SuspectsKept
  <2>5. CASE Spend("storeErr") /\ UNCHANGED wstat
    <3>1. Suspects' \subseteq Suspects
      BY <2>1, <2>5 DEF Suspects
    <3>2. budget'["storeErr"] < budget["storeErr"]
      BY <2>5 DEF Spend, Kinds
    <3>3. QED BY <2>1, <2>2, <3>1, <3>2 DEF SuspectsStep, SuspicionPaid, Payments
  <2>6. QED BY <1>2, <2>3, <2>4, <2>5 DEF MarkOffline
<1>3. ASSUME UNCHANGED <<wstat, silent, proc>>, sup'.pc # "recover", sup'.dead = sup.dead,
             sup'.pc # "idle" => sup'.cur = sup.cur /\ sup.pc # "idle"
      PROVE  SuspectsStep /\ (sup.pc # "idle" => sup.cur \notin sup.dead)'
  <2>1. Suspects' = Suspects /\ Taking' = 0
    BY <1>3 DEF Suspects, Taking
  <2>2. QED BY <1>3, <2>1, TakingType DEF SuspectsStep, SuspectsKept
<1>4. ASSUME NEW B, sup.pc # "idle", Enqueuing(B)
      PROVE  /\ sup'.pc # "recover" /\ sup'.dead = sup.dead
             /\ sup'.pc # "idle" => sup'.cur = sup.cur /\ sup.pc # "idle"
  BY <1>4 DEF Enqueuing, NoPass
<1>5. CASE RecoverJobs \/ RecoverJobsFails
  <2>1. UNCHANGED <<wstat, silent, proc>> /\ sup.pc # "idle" /\ \E B : Enqueuing(B)
    BY <1>5 DEF RecoverJobs, RecoverJobsFails
  <2>2. QED BY <1>3, <1>4, <2>1
<1>6. ASSUME NEW j \in Jobs, EnqueueRecovered(j) \/ EnqueueRecoveredFails(j)
      PROVE  SuspectsStep /\ (sup.pc # "idle" => sup.cur \notin sup.dead)'
  <2>1. UNCHANGED <<wstat, silent, proc>> /\ sup.pc # "idle" /\ \E B : Enqueuing(B)
    BY <1>6 DEF EnqueueRecovered, EnqueueRecoveredFails, storeVars
  <2>2. QED BY <1>3, <1>4, <2>1
<1>7. QED BY <1>1, <1>2, <1>5, <1>6 DEF SupervisorStep

LEMMA SuspectsAnyStep ==
    ASSUME PaidInv, [Next]_vars
    PROVE  SuspectsStep /\ (sup.pc # "idle" => sup.cur \notin sup.dead)'
<1>1. CASE UNCHANGED <<wstat, silent, proc, sup>>
  <2>1. Suspects' = Suspects /\ Taking' = Taking
    BY <1>1 DEF Suspects, Taking
  <2>2. QED BY <1>1, <2>1, TakingType DEF SuspectsStep, SuspectsKept, PaidInv
<1>2. CASE CrashApi
  <2>1. Suspects' \subseteq Suspects /\ Taking' = 0 /\ sup'.pc = "idle"
    BY <1>2 DEF CrashApi, storeVars, NoPass, Suspects, Taking
  <2>2. QED BY <2>1, TakingType DEF SuspectsStep, SuspectsKept
<1>3. ASSUME NEW w \in Workers, WorkerStep(w)
      PROVE  SuspectsStep /\ (sup.pc # "idle" => sup.cur \notin sup.dead)'
  <2>1. UNCHANGED sup
    BY <1>3 DEF WorkerStep, Shutdown, Stop, Crash, Restart, FallSilent, Heartbeat
  <2>2. QED BY <1>3, <2>1, SuspectsWorkerStep DEF PaidInv
<1>4. ASSUME NEW s \in Slots, SlotStep(s) PROVE UNCHANGED <<wstat, silent, proc, sup>>
  BY <1>4 DEF SlotStep, ClaimEntry, ClaimReplyLost, StartJob, StartJobFails, Report, ReportFails,
     AckEntry, AckFails, Abandon, storeVars
<1>5. ASSUME NEW r \in Reqs, RequestStep(r) PROVE UNCHANGED <<wstat, silent, proc, sup>>
  BY <1>5 DEF RequestStep, CreateJob, RetryJob, CancelJob, EnqueueRequested, AckCancelled,
     RequestFails, storeVars
<1>6. CASE SchedulerStep
  BY <1>1, <1>6 DEF SchedulerStep, PollRetries, PollRetriesBreaksOff, BackoffEnds, EnqueueRetry,
     EnqueueRetryFails, storeVars
<1>7. QED BY <1>1, <1>2, <1>3, <1>4, <1>5, <1>6, SuspectsSupervisorStep
          DEF Next, RecoverLeases, vars

(* What a job loses when its row is taken from a live worker. *)
Loss(j) == IF Recovered(j) THEN Taking ELSE 0

LEMMA SuspectsPaid ==
    ASSUME PaidInv, [Next]_vars, NEW j \in Jobs
    PROVE  /\ IsFiniteSet(Suspects')
           /\ Cardinality(Suspects') + Taking' + Loss(j) + Paid
                <= Cardinality(Suspects) + Taking + Paid'
<1> DEFINE old == Cardinality(Suspects)
           new == Cardinality(Suspects')
<1>1. IsFiniteSet(Suspects) /\ old \in Nat
  BY FS_CardinalityType DEF PaidInv
<1>2. Paid \in Int /\ Paid' \in Int /\ Paid <= Paid'
      /\ ((\E k \in Payments : budget'[k] < budget[k]) => Paid + 1 <= Paid')
  BY PaidGrows DEF PaidInv, HandInv
<1>3. Taking \in {0, 1} /\ Taking' \in {0, 1} /\ Loss(j) \in {0, Taking}
  BY TakingType DEF Taking, Loss
<1>4. ASSUME Suspects' \subseteq Suspects PROVE IsFiniteSet(Suspects') /\ new \in Nat /\ new <= old
  BY <1>1, <1>4, FS_Subset, FS_CardinalityType
<1>5. CASE SuspectsKept
  <2>1. Loss(j) + Taking' <= Taking
    BY <1>3, <1>5 DEF Loss, Recovered, SuspectsKept, Taking
  <2>2. QED BY <1>1, <1>2, <1>3, <1>4, <1>5, <2>1 DEF SuspectsKept
<1>6. CASE SuspectTaken
  <2>1. PICK w \in Suspects : Suspects' \subseteq Suspects \ {w}
    BY <1>6 DEF SuspectTaken
  <2>2. IsFiniteSet(Suspects \ {w}) /\ Cardinality(Suspects \ {w}) = old - 1
    BY <1>1, FS_RemoveElement
  <2>3. IsFiniteSet(Suspects') /\ new \in Nat /\ new <= old - 1
    BY <2>1, <2>2, FS_Subset, FS_CardinalityType
  <2>4. Loss(j) = 0 /\ Taking = 0
    BY <1>6 DEF SuspectTaken, Loss
  <2>5. QED BY <1>1, <1>2, <1>3, <2>3, <2>4
<1>7. CASE SuspicionPaid
  <2>1. Loss(j) = 0 /\ Paid + 1 <= Paid'
    BY <1>2, <1>7 DEF SuspicionPaid, Loss
  <2>2. CASE (\E w \in Workers : Suspects' \subseteq Suspects \cup {w}) /\ Taking' = Taking
    <3>1. PICK w \in Workers : Suspects' \subseteq Suspects \cup {w}
      BY <2>2
    <3>2. IsFiniteSet(Suspects \cup {w}) /\ Cardinality(Suspects \cup {w}) \in {old, old + 1}
      BY <1>1, FS_AddElement
    <3>3. IsFiniteSet(Suspects') /\ new \in Nat /\ new <= Cardinality(Suspects \cup {w})
      BY <3>1, <3>2, FS_Subset, FS_CardinalityType
    <3>4. new <= old + 1
      BY <1>1, <3>2, <3>3
    <3>5. QED BY <1>1, <1>2, <1>3, <2>1, <2>2, <3>3, <3>4
  <2>3. CASE Suspects' \subseteq Suspects /\ Taking' <= Taking + 1
    BY <1>1, <1>2, <1>3, <1>4, <2>1, <2>3
  <2>4. QED BY <1>7, <2>2, <2>3 DEF SuspicionPaid
<1>8. QED BY <1>5, <1>6, <1>7, SuspectsAnyStep DEF SuspectsStep

(* An executor is added by the start that makes it the owner of the row. *)
LEMMA ExecutorsStep ==
    ASSUME HandInv, [Next]_vars, NEW j \in Jobs
    PROVE  \/ Executors(j)' \subseteq Executors(j)
           \/ \E s \in Slots : /\ Executors(j)' \subseteq Executors(j) \cup {s}
                               /\ s \in Executors(j)'
                               /\ rows[j].status \in {"QUEUED", "RETRYING"}
                               /\ rows'[j].status = "RUNNING" /\ rows'[j].worker = Owner[s]
<1> USE DEF HandInv, TypeOK, SlotTyped
<1>1. CASE UNCHANGED slot
  BY <1>1 DEF Executors, Executes, At, Holds
<1>2. ASSUME NEW s \in Slots, SlotStep(s), ~StartJob(s)
      PROVE  Executors(j)' \subseteq Executors(j)
  <2>1. \A t \in Slots : t # s => slot'[t] = slot[t]
    BY <1>2 DEF SlotStep, ClaimEntry, ClaimReplyLost, StartJobFails, Report, ReportFails,
       AckEntry, AckFails, Abandon, SlotGoes, SlotFrees
  <2>2. slot'[s].pc # "running" \/ slot'[s] = slot[s]
    BY <1>2 DEF SlotStep, ClaimEntry, ClaimReplyLost, StartJobFails, Report, ReportFails,
       AckEntry, AckFails, Abandon, SlotGoes, SlotFrees, Idle
  <2>3. QED BY <2>1, <2>2 DEF Executors, Executes, At, Holds
<1>3. ASSUME NEW s \in Slots, StartJob(s)
      PROVE  \/ Executors(j)' \subseteq Executors(j)
             \/ /\ Executors(j)' \subseteq Executors(j) \cup {s}
                /\ s \in Executors(j)'
                /\ rows[j].status \in {"QUEUED", "RETRYING"}
                /\ rows'[j].status = "RUNNING" /\ rows'[j].worker = Owner[s]
  <2>1. slot[s].job \in Jobs /\ Owner[s] \in Workers
    BY <1>3, BusyHoldsJob DEF StartJob, At
  <2>2. \A t \in Slots : t # s => slot'[t] = slot[t]
    BY <1>3 DEF StartJob, SlotGoes
  <2>3. CASE SlotGoes(s, "ack", slot[s].job) \/ slot[s].job # j
    <3>1. slot'[s].pc # "running" \/ slot'[s].job # j
      BY <1>3, <2>3 DEF StartJob, SlotGoes
    <3>2. QED BY <2>2, <3>1 DEF Executors, Executes, At, Holds
  <2>4. CASE Table!ClaimJob(j, Owner[s]) /\ SlotGoes(s, "running", j)
    <3>1. s \in Executors(j)' /\ Executors(j)' \subseteq Executors(j) \cup {s}
      BY <2>2, <2>4 DEF Executors, Executes, At, Holds, SlotGoes
    <3>2. rows[j].status \in {"QUEUED", "RETRYING"}
      BY <2>4 DEF Table!ClaimJob, Table!Claimable
    <3>3. rows'[j].status = "RUNNING" /\ rows'[j].worker = Owner[s]
      BY <2>1, <2>4 DEF Table!ClaimJob, Table!Running, RowsTyped, Table!Row
    <3>4. QED BY <3>1, <3>2, <3>3
  <2>5. QED BY <1>3, <2>3, <2>4 DEF StartJob
<1>4. ASSUME NEW w \in Workers, WorkerStep(w) PROVE Executors(j)' \subseteq Executors(j)
  BY <1>4 DEF WorkerStep, Shutdown, Stop, Crash, Restart, FallSilent, Heartbeat, Executors,
     Executes, At, Holds, Idle
<1>5. CASE SchedulerStep
  BY <1>1, <1>5 DEF SchedulerStep, PollRetries, PollRetriesBreaksOff, BackoffEnds, EnqueueRetry,
     EnqueueRetryFails
<1>6. CASE SupervisorStep
  BY <1>1, <1>6 DEF SupervisorStep, FindDeadWorkers, MarkOffline, RecoverJobs, RecoverJobsFails,
     EnqueueRecovered, EnqueueRecoveredFails
<1>7. ASSUME NEW r \in Reqs, RequestStep(r) PROVE UNCHANGED slot
  BY <1>7 DEF RequestStep, CreateJob, RetryJob, CancelJob, EnqueueRequested, AckCancelled,
     RequestFails
<1>8. QED BY <1>1, <1>2, <1>3, <1>4, <1>5, <1>6, <1>7 DEF Next, RecoverLeases, CrashApi, vars

(* A row loses its owner with an executor, or to the supervisor. *)
LEMMA OwnerStep ==
    ASSUME HandInv, [Next]_vars, NEW j \in Jobs, HasOwner(j)
    PROVE  \/ HasOwner(j)'
           \/ \E t \in Executors(j) : t \notin Executors(j)'
           \/ Recovered(j) /\ Taking = 1
<1>1. PICK s \in Executors(j) : Owner[s] = rows[j].worker
  BY DEF HasOwner
<1>2. RowChange(j)
  BY RowChanges DEF HandInv
<1>3. CASE rows'[j] = rows[j] \/ Cancelled(j)
  <2>1. rows'[j].status \in {"RUNNING", "CANCELLED"} /\ rows'[j].worker = rows[j].worker
    BY <1>3 DEF Cancelled, HasOwner
  <2>2. QED BY <1>1, <2>1 DEF HasOwner
<1>4. CASE Reported(j)
  BY <1>4 DEF Reported, Executors
<1>5. CASE Recovered(j)
  <2>1. sup.cur = Owner[s] /\ sup.pc = "recover"
    BY <1>1, <1>5 DEF Recovered
  <2>2. proc[Owner[s]] # "down"
    BY <1>1 DEF HandInv, Executors, Executes, At
  <2>3. QED BY <1>5, <2>1, <2>2 DEF Taking
<1>6. ~(Made(j) \/ Taken(j) \/ Waited(j))
  BY DEF HasOwner, Made, Taken, Waited
<1>7. QED BY <1>2, <1>3, <1>4, <1>5, <1>6 DEF RowChange

LEMMA ExecutorsPaid ==
    ASSUME PaidInv, [Next]_vars, NEW j \in Jobs
    PROVE  /\ IsFiniteSet(Executors(j)')
           /\ Cardinality(Executors(j)') + Owned(j) <= Cardinality(Executors(j)) + Owned(j)' + Loss(j)
<1> DEFINE old == Cardinality(Executors(j))
           new == Cardinality(Executors(j)')
<1>1. IsFiniteSet(Executors(j)) /\ old \in Nat
  BY FS_CardinalityType DEF PaidInv
<1>2. Loss(j) \in {0, 1} /\ Owned(j) \in {0, 1} /\ Owned(j)' \in {0, 1}
  BY DEF Loss, Taking, Owned
<1>3. CASE Executors(j)' \subseteq Executors(j)
  <2>1. IsFiniteSet(Executors(j)') /\ new \in Nat /\ new <= old
    BY <1>1, <1>3, FS_Subset, FS_CardinalityType
  <2>2. CASE ~HasOwner(j) \/ HasOwner(j)'
    <3>1. Owned(j) <= Owned(j)'
      BY <2>2 DEF Owned
    <3>2. QED BY <1>1, <1>2, <2>1, <3>1
  <2>3. CASE \E t \in Executors(j) : t \notin Executors(j)'
    <3>1. PICK t \in Executors(j) : t \notin Executors(j)'
      BY <2>3
    <3>2. IsFiniteSet(Executors(j) \ {t}) /\ Cardinality(Executors(j) \ {t}) = old - 1
      BY <1>1, FS_RemoveElement
    <3>3. new <= old - 1
      BY <1>3, <3>1, <3>2, FS_Subset
    <3>4. QED BY <1>1, <1>2, <2>1, <3>3
  <2>4. CASE Recovered(j) /\ Taking = 1
    <3>1. Loss(j) = 1
      BY <2>4 DEF Loss
    <3>2. QED BY <1>1, <1>2, <2>1, <3>1
  <2>5. QED BY <2>2, <2>3, <2>4, OwnerStep DEF PaidInv
<1>4. ASSUME NEW s \in Slots, Executors(j)' \subseteq Executors(j) \cup {s},
             s \in Executors(j)', rows[j].status \in {"QUEUED", "RETRYING"},
             rows'[j].status = "RUNNING", rows'[j].worker = Owner[s]
      PROVE  IsFiniteSet(Executors(j)') /\ new + Owned(j) <= old + Owned(j)' + Loss(j)
  <2>1. IsFiniteSet(Executors(j) \cup {s}) /\ Cardinality(Executors(j) \cup {s}) \in {old, old + 1}
    BY <1>1, FS_AddElement
  <2>2. IsFiniteSet(Executors(j)') /\ new \in Nat /\ new <= Cardinality(Executors(j) \cup {s})
    BY <1>4, <2>1, FS_Subset, FS_CardinalityType
  <2>3. new <= old + 1
    BY <1>1, <2>1, <2>2
  <2>4. Owned(j) = 0 /\ Owned(j)' = 1
    BY <1>4 DEF Owned, HasOwner
  <2>5. QED BY <1>1, <1>2, <2>2, <2>3, <2>4
<1>5. QED BY <1>3, <1>4, ExecutorsStep DEF PaidInv

LEMMA PaidStep == PaidInv /\ [Next]_vars => PaidInv'
<1> SUFFICES ASSUME PaidInv, [Next]_vars PROVE PaidInv'
  OBVIOUS
<1>1. HandInv' /\ (sup.pc # "idle" => sup.cur \notin sup.dead)'
  BY HandStep, SuspectsAnyStep DEF PaidInv
<1>2. IsFiniteSet(Suspects)'
  <2>1. CASE SuspectsKept
    BY <2>1, FS_Subset DEF PaidInv, SuspectsKept
  <2>2. CASE SuspectTaken
    BY <2>2, FS_Subset DEF PaidInv, SuspectTaken
  <2>3. CASE SuspicionPaid
    BY <2>3, FS_Subset, FS_AddElement DEF PaidInv, SuspicionPaid
  <2>4. QED BY <2>1, <2>2, <2>3, SuspectsAnyStep DEF SuspectsStep
<1>3. ASSUME NEW j \in Jobs
      PROVE  /\ IsFiniteSet(Executors(j)')
             /\ Cardinality(Executors(j)') + Cardinality(Suspects') + Taking' <= Owned(j)' + Paid'
  <2>1. /\ IsFiniteSet(Suspects) /\ IsFiniteSet(Suspects')
        /\ IsFiniteSet(Executors(j)) /\ IsFiniteSet(Executors(j)')
    BY SuspectsPaid, ExecutorsPaid DEF PaidInv
  <2>2. /\ Cardinality(Suspects) \in Nat /\ Cardinality(Suspects') \in Nat
        /\ Cardinality(Executors(j)) \in Nat /\ Cardinality(Executors(j)') \in Nat
    BY <2>1, FS_CardinalityType
  <2>3. Paid \in Int /\ Paid' \in Int
    BY PaidGrows DEF PaidInv, HandInv
  <2>4. /\ Taking \in Int /\ Taking' \in Int /\ Loss(j) \in Int
        /\ Owned(j) \in Int /\ Owned(j)' \in Int
    BY DEF Taking, Loss, Owned
  <2>5. /\ Cardinality(Suspects') + Taking' + Loss(j) + Paid
             <= Cardinality(Suspects) + Taking + Paid'
        /\ Cardinality(Executors(j)') + Owned(j)
             <= Cardinality(Executors(j)) + Owned(j)' + Loss(j)
        /\ Cardinality(Executors(j)) + Cardinality(Suspects) + Taking <= Owned(j) + Paid
    BY SuspectsPaid, ExecutorsPaid DEF PaidInv
  <2>6. QED BY <2>1, <2>2, <2>3, <2>4, <2>5
<1>4. QED BY <1>1, <1>2, <1>3 DEF PaidInv

LEMMA PaidInit == Init => PaidInv
<1> SUFFICES ASSUME Init PROVE PaidInv
  OBVIOUS
<1>1. HandInv
  BY HandInit
<1>2. sup.pc = "idle" /\ sup.dead = {} /\ Taking = 0
  BY DEF Init, InitWith, NoPass, Taking
<1>3. Suspects = {} /\ \A j \in Jobs : Executors(j) = {} /\ Owned(j) = 0
  BY DEF Init, InitWith, NoPass, Idle, Suspects, Executors, Executes, At, Owned, HasOwner,
     Table!Init, Table!Absent
<1>4. Paid = 0
  BY JobEngineAssumption DEF Init, InitWith, Paid, Spent, Kinds
<1>5. QED BY <1>1, <1>2, <1>3, <1>4, FS_EmptySet DEF PaidInv

(* PaidExecutions: under every fault, and with live workers held for dead, *)
(* a job has no more executors than one and one for each heartbeat outage, *)
(* return of a process, unwritten status or failed call: no interleaving   *)
(* of claims, recoveries and retries starts one more.                      *)
THEOREM PaidExecutions == Spec => []ExecutionsArePaid
<1>1. ASSUME PaidInv, NEW j \in Jobs
      PROVE  Cardinality(Executors(j)) <= 1 + Spent("suspect") + Spent("restart")
                                            + Spent("statusErr") + Spent("storeErr")
  <2>1. Cardinality(Executors(j)) \in Nat /\ Cardinality(Suspects) \in Nat
    BY <1>1, FS_CardinalityType DEF PaidInv
  <2>2. Taking \in {0, 1} /\ Owned(j) \in {0, 1}
    BY DEF Taking, Owned
  <2>3. \A k \in Payments : Spent(k) \in Int
    BY <1>1, JobEngineAssumption DEF PaidInv, HandInv, TypeOK, Spent, Payments, Kinds
  <2>4. Cardinality(Executors(j)) + Cardinality(Suspects) + Taking
          <= Owned(j) + (Spent("suspect") + Spent("restart") + Spent("statusErr") + Spent("storeErr"))
    BY <1>1 DEF PaidInv, Paid
  <2>5. QED BY <2>1, <2>2, <2>3, <2>4 DEF Payments
<1>2. PaidInv => ExecutionsArePaid
  BY <1>1 DEF ExecutionsArePaid
<1>3. QED BY <1>2, PaidInit, PaidStep, PTL DEF Spec

-----------------------------------------------------------------------------
(* The engine implements JobLifecycle: every step is one of its steps, or  *)
(* changes neither an outcome nor who is executed.                         *)
SameOutcome(j)   == Outcome(rows'[j].status) = Outcome(rows[j].status)
SameExecution(j) == InExecution(j)' <=> InExecution(j)

LEMMA LifeStutters ==
    ASSUME \A j \in Jobs : SameOutcome(j) /\ SameExecution(j)
    PROVE  UNCHANGED Life!vars
BY DEF Life!vars, SameOutcome, SameExecution

LEMMA LifeBecomes ==
    ASSUME NEW j \in Jobs, NEW o, Outcome(rows'[j].status) = o,
           \A i \in Jobs \ {j} : SameOutcome(i)
    PROVE  Life!Becomes(j, o)
BY DEF Life!Becomes, SameOutcome

(* A report leaves the row with an outcome or waiting for a retry. *)
LEMMA ReportedStatus ==
    ASSUME RowsTyped, NEW j \in Jobs,
           Table!MarkSucceeded(j) \/ Table!RecordFailure(j) \/ Table!MarkFailed(j)
    PROVE  rows'[j].status \in {"SUCCEEDED", "FAILED", "DEAD_LETTER", "RETRYING"}
<1>1. rows \in [Jobs -> Table!Row] /\ "status" \in DOMAIN rows[j]
  BY RowFields DEF RowsTyped
<1>2. CASE Table!MarkSucceeded(j)
  <2>1. rows'[j] = [rows[j] EXCEPT !.status = "SUCCEEDED", !.completed = TRUE, !.error = FALSE]
    BY <1>1, <1>2 DEF Table!MarkSucceeded
  <2>2. QED BY <2>1, RowFields
<1>3. CASE Table!MarkFailed(j)
  <2>1. rows'[j] = [rows[j] EXCEPT !.status = "FAILED", !.completed = TRUE, !.error = TRUE]
    BY <1>1, <1>3 DEF Table!MarkFailed
  <2>2. QED BY <2>1, RowFields
<1>4. CASE Table!RecordFailure(j)
  <2> DEFINE again == rows[j].attempt < MaxAttempts[j]
  <2>1. rows'[j] = [rows[j] EXCEPT !.status    = IF again THEN "RETRYING" ELSE "DEAD_LETTER",
                                   !.due       = IF again THEN FALSE ELSE @,
                                   !.completed = ~again,
                                   !.error     = TRUE,
                                   !.worker    = NoWorker]
    BY <1>1, <1>4 DEF Table!RecordFailure
  <2>2. rows'[j].status = IF again THEN "RETRYING" ELSE "DEAD_LETTER"
    BY <2>1, RowFields
  <2>3. QED BY <2>2
<1>5. QED BY <1>2, <1>3, <1>4

(* What a slot executes is its own: nobody else executes it. *)
LEMMA ExecutedByOne ==
    ASSUME ExecInv, NEW s \in Slots, At("running", s)
    PROVE  /\ slot[s].job \in Jobs /\ InExecution(slot[s].job)
           /\ \A t \in Slots \ {s} : ~Executes(t, slot[s].job)
<1>1. slot[s].job \in Jobs
  BY BusyHoldsJob DEF ExecInv, At
<1>2. InExecution(slot[s].job)
  BY DEF InExecution, Executes, Holds
<1>3. \A t \in Slots \ {s} : ~Executes(t, slot[s].job)
  BY DEF ExecInv, AtMostOneExecution, Executes, Holds
<1>4. QED BY <1>1, <1>2, <1>3

(* A slot that gives up its job, and no other slot gets or loses one. *)
LEMMA ExecutionEnds ==
    ASSUME ExecInv, NEW s \in Slots, At("running", s), ~At("running", s)',
           \A t \in Slots \ {s} : slot'[t] = slot[t]
    PROVE  {j \in Jobs : InExecution(j)}' = {j \in Jobs : InExecution(j)} \ {slot[s].job}
<1> SUFFICES ASSUME NEW j \in Jobs
             PROVE  InExecution(j)' <=> InExecution(j) /\ j # slot[s].job
  OBVIOUS
<1>1. \A t \in Slots \ {s} : Executes(t, j)' <=> Executes(t, j)
  BY DEF Executes, At, Holds
<1>2. ~Executes(s, j)'
  BY DEF Executes
<1>3. CASE j = slot[s].job
  BY <1>1, <1>2, <1>3, ExecutedByOne DEF InExecution
<1>4. CASE j # slot[s].job
  <2>1. ~Executes(s, j)
    BY <1>4 DEF Executes, Holds
  <2>2. QED BY <1>1, <1>2, <1>4, <2>1 DEF InExecution
<1>5. QED BY <1>3, <1>4

LEMMA SlotLife ==
    ASSUME ExecInv, NEW s \in Slots, SlotStep(s)
    PROVE  Life!Next \/ UNCHANGED Life!vars
<1> USE DEF ExecInv, TypeOK
<1>1. \A t \in Slots \ {s} : slot'[t] = slot[t]
  BY DEF SlotStep, ClaimEntry, ClaimReplyLost, StartJob, StartJobFails, Report, ReportFails,
     AckEntry, AckFails, Abandon, SlotGoes, SlotFrees, SlotTyped
<1>2. ASSUME ~At("running", s), ~At("running", s)', \A j \in Jobs : SameOutcome(j)
      PROVE  UNCHANGED Life!vars
  <2>1. \A j \in Jobs, t \in Slots : Executes(t, j)' <=> Executes(t, j)
    BY <1>1, <1>2 DEF Executes, At, Holds
  <2>2. \A j \in Jobs : SameExecution(j)
    BY <2>1 DEF SameExecution, InExecution
  <2>3. QED BY <1>2, <2>2, LifeStutters
<1>3. ASSUME UNCHANGED rows PROVE \A j \in Jobs : SameOutcome(j)
  BY <1>3 DEF SameOutcome
<1>4. ASSUME At("claimed", s), Table!ClaimJob(slot[s].job, Owner[s])
      PROVE  /\ slot[s].job \in Jobs
             /\ \A j \in Jobs : SameOutcome(j)
             /\ Outcome(rows[slot[s].job].status) = "PENDING"
             /\ rows[slot[s].job].status \notin {"RUNNING", "CANCELLED"}
  <2>1. slot[s].job \in Jobs
    BY <1>4, BusyHoldsJob DEF At
  <2>2. \A j \in Jobs \ {slot[s].job} : rows'[j] = rows[j]
    BY <1>4, <2>1 DEF Table!ClaimJob, Table!Running, RowsTyped
  <2>3. /\ rows[slot[s].job].status \in {"QUEUED", "RETRYING"}
        /\ rows'[slot[s].job].status = "RUNNING"
    BY <1>4, <2>1, RowFields DEF Table!ClaimJob, Table!Claimable, Table!Running, RowsTyped
  <2>4. QED BY <2>1, <2>2, <2>3 DEF SameOutcome, Outcome, Table!Pending
<1>5. ASSUME At("running", s), ~At("running", s)', UNCHANGED rows
      PROVE  Life!Next
  <2> DEFINE j == slot[s].job
  <2>1. j \in Jobs /\ InExecution(j)
    BY <1>5, ExecutedByOne
  <2>2. Life!BreakOff({j})
    BY <1>1, <1>3, <1>5, <2>1, ExecutionEnds DEF Life!BreakOff, SameOutcome
  <2>3. QED BY <2>1, <2>2 DEF Life!Next
<1>6. CASE Report(s)
  <2> DEFINE j == slot[s].job
  <2>1. At("running", s) /\ ~At("running", s)'
    BY <1>6 DEF Report, SlotGoes, At, SlotTyped
  <2>2. j \in Jobs /\ InExecution(j)
    BY <2>1, ExecutedByOne
  <2>3. \A i \in Jobs \ {j} : SameOutcome(i)
    BY <1>6, <2>2 DEF Report, Table!MarkSucceeded, Table!RecordFailure, Table!MarkFailed,
       RowsTyped, SameOutcome
  <2>4. rows'[j].status \in {"SUCCEEDED", "FAILED", "DEAD_LETTER", "RETRYING"}
    <3>1. Table!MarkSucceeded(j) \/ Table!RecordFailure(j) \/ Table!MarkFailed(j)
      BY <1>6 DEF Report
    <3> HIDE DEF j
    <3>2. QED BY <2>2, <3>1, ReportedStatus
  <2>5. Outcome(rows'[j].status) \in {"SUCCEEDED", "FAILED", "PENDING"}
    BY <2>4 DEF Outcome, Table!Pending
  <2>6. Life!Becomes(j, Outcome(rows'[j].status))
    BY <2>2, <2>3, LifeBecomes
  <2>7. Life!End(j)
    BY <1>1, <2>1, <2>2, <2>5, <2>6, ExecutionEnds DEF Life!End
  <2>8. QED BY <2>2, <2>7 DEF Life!Next
<1>7. CASE StartJob(s)
  <2> DEFINE j == slot[s].job
  <2>1. CASE Table!ClaimJob(j, Owner[s]) /\ SlotGoes(s, "running", j)
    <3>1. At("claimed", s)
      BY <1>7 DEF StartJob
    <3>2. /\ j \in Jobs /\ \A i \in Jobs : SameOutcome(i)
          /\ Outcome(rows[j].status) = "PENDING"
          /\ rows[j].status \notin {"RUNNING", "CANCELLED"}
      BY <1>4, <2>1, <3>1
    <3>3. ~InExecution(j)
      BY <3>2 DEF ExecutorOwnsRow, InExecution, Executes, Holds
    <3>4. \A i \in Jobs : InExecution(i)' <=> InExecution(i) \/ i = j
      <4>1. \A i \in Jobs, t \in Slots \ {s} : Executes(t, i)' <=> Executes(t, i)
        BY <1>1 DEF Executes, At, Holds
      <4>2. \A i \in Jobs : Executes(s, i)' <=> i = j
        BY <2>1 DEF SlotGoes, SlotTyped, Executes, At, Holds
      <4>3. \A i \in Jobs : ~Executes(s, i)
        BY <3>1 DEF Executes, At
      <4>4. QED BY <4>1, <4>2, <4>3 DEF InExecution
    <3>5. Life!Begin(j)
      BY <3>2, <3>3, <3>4 DEF Life!Begin, SameOutcome
    <3>6. QED BY <3>2, <3>5 DEF Life!Next
  <2>2. CASE SlotGoes(s, "ack", j) /\ UNCHANGED rows
    BY <1>2, <1>3, <1>7, <2>2 DEF StartJob, SlotGoes, SlotTyped, At
  <2>3. QED BY <1>7, <2>1, <2>2 DEF StartJob
<1>8. CASE StartJobFails(s)
  <2>1. ~At("running", s) /\ ~At("running", s)'
    BY <1>8 DEF StartJobFails, SlotFrees, SlotTyped, At, Idle
  <2>2. \A j \in Jobs : SameOutcome(j)
    BY <1>3, <1>4, <1>8 DEF StartJobFails
  <2>3. QED BY <1>2, <2>1, <2>2
<1>9. CASE UNCHANGED rows
  <2>1. CASE At("running", s)
    <3>1. ~At("running", s)' \/ UNCHANGED slot
      BY <2>1 DEF SlotStep, ClaimEntry, ClaimReplyLost, StartJob, StartJobFails, Report,
         ReportFails, AckEntry, AckFails, Abandon, SlotGoes, SlotFrees, SlotTyped, At, Idle
    <3>2. CASE UNCHANGED slot
      <4>1. \A j \in Jobs : SameExecution(j)
        BY <3>2 DEF SameExecution, InExecution, Executes, At, Holds
      <4>2. QED BY <1>3, <1>9, <4>1, LifeStutters
    <3>3. QED BY <1>5, <1>9, <2>1, <3>1, <3>2
  <2>2. CASE ~At("running", s) /\ ~StartJob(s)
    <3>1. ~At("running", s)'
      BY <2>2 DEF SlotStep, ClaimEntry, ClaimReplyLost, StartJobFails, Report,
         ReportFails, AckEntry, AckFails, Abandon, SlotGoes, SlotFrees, SlotTyped, At, Idle
    <3>2. QED BY <1>2, <1>3, <1>9, <2>2, <3>1
  <2>3. QED BY <1>7, <2>1, <2>2
<1>10. QED BY <1>6, <1>7, <1>8, <1>9
           DEF SlotStep, ClaimEntry, ClaimReplyLost, ReportFails, AckEntry, AckFails, Abandon,
               storeVars

(* Outside the slots nothing is executed or stops being executed, but by a *)
(* crash, and one row at most is made, retried or cancelled.               *)
LEMMA OthersLife ==
    ASSUME ExecInv, UNCHANGED slot,
           SchedulerStep \/ SupervisorStep \/ \E r \in Reqs : RequestStep(r)
    PROVE  Life!Next \/ UNCHANGED Life!vars
<1> USE DEF ExecInv, TypeOK
<1>1. \A j \in Jobs : SameExecution(j)
  BY DEF SameExecution, InExecution, Executes, At, Holds
<1>2. {j \in Jobs : InExecution(j)}' = {j \in Jobs : InExecution(j)}
  BY <1>1 DEF SameExecution
<1>3. ASSUME \A j \in Jobs : SameOutcome(j) PROVE UNCHANGED Life!vars
  BY <1>1, <1>3, LifeStutters
<1>4. CASE UNCHANGED rows
  BY <1>3, <1>4 DEF SameOutcome
<1>5. ASSUME NEW j \in Jobs, Table!Insert(j) PROVE Life!Next
  <2>1. /\ Outcome(rows[j].status) = "ABSENT" /\ Outcome(rows'[j].status) = "PENDING"
        /\ \A i \in Jobs \ {j} : SameOutcome(i)
    BY <1>5 DEF Table!Insert, Table!Fresh, Table!Absent, RowsTyped, Outcome, Table!Pending,
       SameOutcome
  <2>2. Life!Submit(j)
    BY <1>2, <2>1, LifeBecomes DEF Life!Submit
  <2>3. QED BY <2>2 DEF Life!Next
<1>6. ASSUME NEW j \in Jobs, Table!ManualRetry(j) PROVE Life!Next
  <2>1. /\ Outcome(rows[j].status) = "FAILED" /\ Outcome(rows'[j].status) = "PENDING"
        /\ \A i \in Jobs \ {j} : SameOutcome(i)
    BY <1>6 DEF Table!ManualRetry, Table!Fresh, Table!Absent, RowsTyped, Outcome, Table!Pending,
       SameOutcome
  <2>2. ~InExecution(j)
    BY <1>6 DEF Table!ManualRetry, ExecutorOwnsRow, InExecution, Executes, Holds
  <2>3. Life!Retry(j)
    BY <1>2, <2>1, <2>2, LifeBecomes DEF Life!Retry
  <2>4. QED BY <2>3 DEF Life!Next
<1>7. ASSUME NEW j \in Jobs, Table!Cancel(j) PROVE Life!Next
  <2>1. rows[j].status \in {"QUEUED", "RUNNING"} /\ rows'[j].status = "CANCELLED"
    BY <1>7, RowFields DEF Table!Cancel, Table!Cancellable, RowsTyped
  <2>2. \A i \in Jobs \ {j} : SameOutcome(i)
    BY <1>7 DEF Table!Cancel, RowsTyped, SameOutcome
  <2>3. Outcome(rows[j].status) = "PENDING" /\ Outcome(rows'[j].status) = "CANCELLED"
    BY <2>1 DEF Outcome, Table!Pending
  <2>4. Life!Cancel(j)
    BY <1>2, <2>2, <2>3, LifeBecomes DEF Life!Cancel
  <2>5. QED BY <2>4 DEF Life!Next
<1>8. ASSUME NEW S \in SUBSET Table!DueRetries, Table!RequeueDueRetries(S)
      PROVE  \A j \in Jobs : SameOutcome(j)
  <2> SUFFICES ASSUME NEW j \in Jobs PROVE SameOutcome(j)
    OBVIOUS
  <2>1. CASE j \in S
    BY <1>8, <2>1, RowFields DEF Table!RequeueDueRetries, Table!DueRetries, Table!HasStatus,
       SameOutcome, Outcome, Table!Pending
  <2>2. QED BY <1>8, <2>1 DEF Table!RequeueDueRetries, SameOutcome
<1>9. ASSUME NEW i \in Jobs, Table!TimePasses(i) PROVE \A j \in Jobs : SameOutcome(j)
  BY <1>9, RowFields DEF Table!TimePasses, RowsTyped, SameOutcome
<1>10. ASSUME Table!RecoverDeadWorkerJobs(sup.cur) PROVE \A j \in Jobs : SameOutcome(j)
  <2> SUFFICES ASSUME NEW j \in Jobs PROVE SameOutcome(j)
    OBVIOUS
  <2>1. CASE j \in Table!RunningOn(sup.cur)
    <3>1. rows[j].status = "RUNNING" /\ rows'[j].status = "QUEUED"
      <4>1. rows'[j] = [rows[j] EXCEPT !.status = "QUEUED", !.worker = NoWorker]
        BY <1>10, <2>1 DEF Table!RecoverDeadWorkerJobs
      <4>2. rows'[j].status = "QUEUED"
        BY <4>1, RowFields
      <4>3. QED BY <2>1, <4>2 DEF Table!RunningOn, Table!HasStatus
    <3>2. QED BY <3>1 DEF SameOutcome, Outcome, Table!Pending
  <2>2. QED BY <1>10, <2>1 DEF Table!RecoverDeadWorkerJobs, SameOutcome
<1>11. CASE SchedulerStep
  BY <1>3, <1>4, <1>8, <1>9, <1>11
     DEF SchedulerStep, PollRetries, PollRetriesBreaksOff, BackoffEnds, EnqueueRetry,
         EnqueueRetryFails, storeVars
<1>12. CASE SupervisorStep
  BY <1>3, <1>4, <1>10, <1>12
     DEF SupervisorStep, FindDeadWorkers, MarkOffline, RecoverJobs, RecoverJobsFails,
         EnqueueRecovered, EnqueueRecoveredFails, storeVars
<1>13. ASSUME NEW r \in Reqs, RequestStep(r) PROVE Life!Next \/ UNCHANGED Life!vars
  BY <1>3, <1>4, <1>5, <1>6, <1>7, <1>13
     DEF RequestStep, CreateJob, RetryJob, CancelJob, EnqueueRequested, AckCancelled,
         RequestFails, storeVars
<1>14. QED BY <1>11, <1>12, <1>13

LEMMA CrashLife ==
    ASSUME ExecInv, NEW w \in Workers, Crash(w)
    PROVE  Life!Next \/ UNCHANGED Life!vars
<1> DEFINE S == {j \in Jobs : \E s \in SlotsOf(w) : Executes(s, j)}
<1>1. \A j \in Jobs : SameOutcome(j)
  BY DEF Crash, storeVars, SameOutcome
<1>2. \A j \in Jobs, s \in Slots : Executes(s, j)' <=> Executes(s, j) /\ s \notin SlotsOf(w)
  BY DEF Crash, SlotsOf, Executes, At, Holds, Idle
<1>3. ASSUME NEW j \in Jobs PROVE InExecution(j)' <=> InExecution(j) /\ j \notin S
  <2>1. \A s, t \in Slots : Executes(s, j) /\ Executes(t, j) => s = t
    BY DEF ExecInv, AtMostOneExecution, Executes, Holds
  <2>2. SlotsOf(w) \subseteq Slots
    BY DEF SlotsOf
  <2>3. QED BY <1>2, <2>1, <2>2 DEF InExecution
<1>4. CASE S = {}
  BY <1>1, <1>3, <1>4, LifeStutters DEF SameExecution
<1>5. CASE S # {}
  <2>1. S \subseteq {j \in Jobs : InExecution(j)}
    BY DEF InExecution, SlotsOf
  <2>2. {j \in Jobs : InExecution(j)}' = {j \in Jobs : InExecution(j)} \ S
    BY <1>3
  <2>3. UNCHANGED [j \in Jobs |-> Outcome(rows[j].status)]
    BY <1>1 DEF SameOutcome
  <2>4. Life!BreakOff(S)
    BY <1>5, <2>1, <2>2, <2>3 DEF Life!BreakOff
  <2>5. QED BY <2>4 DEF Life!Next
<1>6. QED BY <1>4, <1>5

LEMMA LifeStep ==
    ASSUME ExecInv, [Next]_vars
    PROVE  [Life!Next]_(Life!vars)
<1>1. ASSUME UNCHANGED <<rows, slot>> PROVE UNCHANGED Life!vars
  BY <1>1, LifeStutters DEF SameOutcome, SameExecution, InExecution, Executes, At, Holds
<1>2. ASSUME NEW w \in Workers, WorkerStep(w), ~Crash(w) PROVE UNCHANGED <<rows, slot>>
  BY <1>2 DEF WorkerStep, Shutdown, Stop, Restart, FallSilent, Heartbeat, storeVars
<1>3. ASSUME SchedulerStep \/ SupervisorStep \/ \E r \in Reqs : RequestStep(r)
      PROVE  UNCHANGED slot
  BY <1>3 DEF SchedulerStep, PollRetries, PollRetriesBreaksOff, BackoffEnds, EnqueueRetry,
     EnqueueRetryFails, SupervisorStep, FindDeadWorkers, MarkOffline, RecoverJobs,
     RecoverJobsFails, EnqueueRecovered, EnqueueRecoveredFails, RequestStep, CreateJob, RetryJob,
     CancelJob, EnqueueRequested, AckCancelled, RequestFails, storeVars
<1>4. (\E S \in SUBSET leased : RecoverLeases(S)) \/ CrashApi \/ UNCHANGED vars
        => UNCHANGED <<rows, slot>>
  BY DEF RecoverLeases, CrashApi, storeVars, vars
<1>5. QED BY <1>1, <1>2, <1>3, <1>4, SlotLife, OthersLife, CrashLife DEF Next

(* EngineImplementsLifecycle: while no live worker can be held for dead,   *)
(* whatever the processes, the stores and the operators do, a job only     *)
(* goes through the steps of JobLifecycle.                                 *)
THEOREM EngineImplementsLifecycle ==
    ASSUME NoFalseDeaths(Budget)
    PROVE  Spec => ImplementsJobLifecycle
<1>1. Init => Life!Init
  BY DEF Init, InitWith, Table!Init, Table!Absent, Life!Init, Outcome, Table!Pending,
     InExecution, Executes, At, Idle
<1>2. ExecInv /\ [Next]_vars => [Life!Next]_(Life!vars)
  BY LifeStep
<1>3. QED BY <1>1, <1>2, ExecInvariance, PTL DEF Spec, ImplementsJobLifecycle, Life!Spec
-----------------------------------------------------------------------------
(* The modules the engine is built on and the one that is built on it.  No *)
(* step of the engine is more than one statement of JobTable and one       *)
(* operation of LeaseQueue, so what is proved of these modules holds in    *)
(* the engine; and a job moves as WorkflowLifecycle supposes.              *)

(* Every call of a process to PostgreSQL is one statement of JobTable.     *)
LEMMA EngineIssues ==
    ASSUME TypeOK, [Next]_vars
    PROVE  [Table!Issue]_rows
<1> USE DEF Table!Issue, Table!Batch, Table!Statement, Table!Claiming
<1>1. ASSUME NEW s \in Slots, SlotStep(s) PROVE [Table!Issue]_rows
  <2>1. At("claimed", s) \/ At("running", s) => slot[s].job \in Jobs
    BY BusyHoldsJob DEF At
  <2>2. Owner[s] \in Workers
    BY BusyHoldsJob
  <2>3. CASE StartJob(s) \/ StartJobFails(s)
    BY <2>1, <2>2, <2>3 DEF StartJob, StartJobFails
  <2>4. CASE Report(s)
    BY <2>1, <2>4 DEF Report
  <2>5. CASE UNCHANGED rows
    BY <2>5
  <2>6. QED BY <1>1, <2>3, <2>4, <2>5
               DEF SlotStep, ClaimEntry, ClaimReplyLost, ReportFails, AckEntry, AckFails,
                   Abandon, storeVars
<1>2. CASE SchedulerStep
  BY <1>2 DEF SchedulerStep, PollRetries, PollRetriesBreaksOff, BackoffEnds, EnqueueRetry,
              EnqueueRetryFails, storeVars, Table!DueRetries, Table!HasStatus
<1>3. CASE SupervisorStep
  BY <1>3, BusyHoldsJob DEF SupervisorStep, FindDeadWorkers, MarkOffline, RecoverJobs, RecoverJobsFails,
              EnqueueRecovered, EnqueueRecoveredFails, storeVars
<1>4. ASSUME NEW r \in Reqs, RequestStep(r) PROVE [Table!Issue]_rows
  BY <1>4 DEF RequestStep, CreateJob, RetryJob, CancelJob, EnqueueRequested, AckCancelled,
              RequestFails, storeVars
<1>5. ASSUME NEW w \in Workers, WorkerStep(w) PROVE UNCHANGED rows
  BY <1>5 DEF WorkerStep, Shutdown, Stop, Crash, Restart, FallSilent, Heartbeat, storeVars
<1>6. QED BY <1>1, <1>2, <1>3, <1>4, <1>5 DEF Next, RecoverLeases, CrashApi, storeVars, vars

(* EngineIsTable: whatever the processes, crashes and failed calls do, the *)
(* jobs table only goes through the statements of JobTable, each of them   *)
(* complete.                                                               *)
THEOREM EngineIsTable == Spec => Table!IssueSpec
<1>1. Init => Table!Init
  BY DEF Init, InitWith
<1>2. TypeOK /\ [Next]_vars => [Table!Issue]_rows
  BY EngineIssues
<1>3. QED BY <1>1, <1>2, EngineTyped, PTL DEF Spec, Table!IssueSpec

(* Every call of a process to Redis is one operation of LeaseQueue. *)
LEMMA EngineQueues ==
    ASSUME TypeOK, [Next]_vars
    PROVE  [Q!Next]_Q!vars
<1> USE DEF Q!Next, Q!vars, Tiers
<1>1. ASSUME NEW s \in Slots, SlotStep(s) PROVE [Q!Next]_Q!vars
  <2>1. At("ack", s) => slot[s].job \in Jobs
    BY BusyHoldsJob DEF At
  <2>2. QED BY <1>1, <2>1
               DEF SlotStep, ClaimEntry, ClaimReplyLost, StartJob, StartJobFails, Report,
                   ReportFails, AckEntry, AckFails, Abandon, storeVars
<1>2. ASSUME NEW j \in Jobs, Q!Enqueue(j, Prio[j]) PROVE Q!Next
  BY <1>2, JobEngineAssumption
<1>3. CASE SchedulerStep
  BY <1>2, <1>3 DEF SchedulerStep, PollRetries, PollRetriesBreaksOff, BackoffEnds, EnqueueRetry,
                    EnqueueRetryFails, storeVars
<1>4. CASE SupervisorStep
  BY <1>2, <1>4 DEF SupervisorStep, FindDeadWorkers, MarkOffline, RecoverJobs, RecoverJobsFails,
                    EnqueueRecovered, EnqueueRecoveredFails, storeVars
<1>5. ASSUME NEW r \in Reqs, RequestStep(r) PROVE [Q!Next]_Q!vars
  <2>1. ~ReqAt("idle", r) => req[r].job \in Jobs
    BY BusyHoldsJob DEF ReqAt
  <2>2. CASE EnqueueRequested(r) \/ AckCancelled(r)
    BY <1>2, <2>1, <2>2 DEF EnqueueRequested, AckCancelled, ReqAt
  <2>3. CASE UNCHANGED Q!vars
    BY <2>3
  <2>4. QED BY <1>5, <2>2, <2>3
               DEF RequestStep, CreateJob, RetryJob, CancelJob, RequestFails, storeVars
<1>6. ASSUME NEW w \in Workers, WorkerStep(w) PROVE UNCHANGED Q!vars
  BY <1>6 DEF WorkerStep, Shutdown, Stop, Crash, Restart, FallSilent, Heartbeat, storeVars
<1>7. ASSUME NEW S \in SUBSET leased, RecoverLeases(S) PROVE Q!Next
  BY <1>7 DEF RecoverLeases, DefaultPriority, TypeOK, Q!TypeOK
<1>8. QED BY <1>1, <1>3, <1>4, <1>5, <1>6, <1>7 DEF Next, CrashApi, storeVars, vars

(* EngineIsQueue: and the queue only through the operations of LeaseQueue, *)
(* which RedisQueue implements: the engine relies on no more of Redis.     *)
THEOREM EngineIsQueue == Spec => Q!Spec
<1>1. Init => Q!Init
  BY DEF Init, InitWith
<1>2. TypeOK /\ [Next]_vars => [Q!Next]_Q!vars
  BY EngineQueues
<1>3. QED BY <1>1, <1>2, EngineTyped, PTL DEF Spec, Q!Spec

(* A job as the workflow whose task it is sees it. *)
AsTask(j) ==
    IF Outcome(rows[j].status) = "PENDING" THEN "QUEUED" ELSE Outcome(rows[j].status)

Flow == INSTANCE WorkflowLifecycle
    WITH Tasks <- Jobs, Deps <- [j \in Jobs |-> {}], wf <- "RUNNING",
         job <- [j \in Jobs |-> AsTask(j)]

FlowStep == \E j \in Jobs : Flow!Schedule(j) \/ Flow!JobMoves(j) \/ Life!Retry(j)

(* One job becomes something else to its workflow, the others do not.      *)
LEMMA TaskBecomes ==
    ASSUME NEW j \in Jobs, NEW o, Life!Becomes(j, o)
    PROVE  [i \in Jobs |-> AsTask(i)]'
             = [[i \in Jobs |-> AsTask(i)] EXCEPT ![j] = IF o = "PENDING" THEN "QUEUED" ELSE o]
BY DEF Life!Becomes, AsTask

LEMMA ExecutedIsOpen ==
    ASSUME ExecInv, NEW j \in Jobs, InExecution(j)
    PROVE  Outcome(rows[j].status) \in {"PENDING", "CANCELLED"}
BY DEF ExecInv, ExecutorOwnsRow, InExecution, Executes, Holds, Outcome, Table!Pending

LEMMA LifeIsFlow ==
    ASSUME ExecInv, [Life!Next]_(Life!vars)
    PROVE  [FlowStep]_(Flow!vars)
<1>1. ASSUME UNCHANGED [j \in Jobs |-> Outcome(rows[j].status)]
      PROVE  UNCHANGED Flow!vars
  BY <1>1 DEF Flow!vars, AsTask
<1>2. ASSUME NEW j \in Jobs, Life!Submit(j) PROVE FlowStep
  BY <1>2, TaskBecomes DEF Life!Submit, FlowStep, Flow!Schedule, AsTask
<1>3. ASSUME NEW j \in Jobs, NEW o, Life!Becomes(j, o),
             o \in {"SUCCEEDED", "FAILED", "CANCELLED"}, Outcome(rows[j].status) = "PENDING"
      PROVE  FlowStep
  <2> DEFINE s == IF o = "PENDING" THEN "QUEUED" ELSE o
  <2>1. /\ s \in {"SUCCEEDED", "FAILED", "CANCELLED"}
        /\ [i \in Jobs |-> AsTask(i)]' = [[i \in Jobs |-> AsTask(i)] EXCEPT ![j] = s]
    BY <1>3, TaskBecomes
  <2>2. AsTask(j) = "QUEUED"
    BY <1>3 DEF AsTask
  <2>3. Flow!JobMoves(j)
    BY <2>1, <2>2 DEF Flow!JobMoves
  <2>4. QED BY <2>3 DEF FlowStep
<1>4. ASSUME NEW j \in Jobs, NEW o, Life!Becomes(j, o),
             o \in {"SUCCEEDED", "FAILED", "PENDING"}, Outcome(rows[j].status) = "CANCELLED"
      PROVE  FlowStep
  <2> DEFINE s == IF o = "PENDING" THEN "QUEUED" ELSE o
  <2>1. /\ s \in {"QUEUED", "SUCCEEDED", "FAILED"}
        /\ [i \in Jobs |-> AsTask(i)]' = [[i \in Jobs |-> AsTask(i)] EXCEPT ![j] = s]
    BY <1>4, TaskBecomes
  <2>2. AsTask(j) = "CANCELLED"
    BY <1>4 DEF AsTask
  <2>3. Flow!JobMoves(j)
    BY <2>1, <2>2 DEF Flow!JobMoves
  <2>4. QED BY <2>3 DEF FlowStep
<1>5. ASSUME NEW j \in Jobs, Life!End(j) PROVE [FlowStep]_(Flow!vars)
  <2>1. InExecution(j) /\ \E o \in {"SUCCEEDED", "FAILED", "PENDING"} : Life!Becomes(j, o)
    BY <1>5 DEF Life!End
  <2>2. PICK o \in {"SUCCEEDED", "FAILED", "PENDING"} : Life!Becomes(j, o)
    BY <2>1
  <2>3. CASE Outcome(rows[j].status) = "PENDING" /\ o = "PENDING"
    BY <1>1, <2>2, <2>3 DEF Life!Becomes
  <2>4. QED BY <1>3, <1>4, <2>1, <2>2, <2>3, ExecutedIsOpen
<1>6. ASSUME NEW j \in Jobs, Life!Cancel(j) PROVE FlowStep
  BY <1>3, <1>6 DEF Life!Cancel
<1>7. ASSUME NEW j \in Jobs, Life!Retry(j) PROVE FlowStep
  BY <1>7 DEF FlowStep
<1>8. ASSUME NEW j \in Jobs, Life!Begin(j) PROVE UNCHANGED Flow!vars
  BY <1>1, <1>8 DEF Life!Begin
<1>9. ASSUME NEW S, Life!BreakOff(S) PROVE UNCHANGED Flow!vars
  BY <1>1, <1>9 DEF Life!BreakOff
<1>10. QED BY <1>1, <1>2, <1>5, <1>6, <1>7, <1>8, <1>9 DEF Life!Next, Life!vars

(* JobsMoveAsTasks: to the workflow it belongs to, a job does what         *)
(* WorkflowLifecycle lets the job of a task do, and is retried only once   *)
(* it failed and nobody executes it.                                       *)
THEOREM JobsMoveAsTasks ==
    ASSUME NoFalseDeaths(Budget)
    PROVE  Spec => [][FlowStep]_(Flow!vars)
<1>1. ExecInv /\ [Next]_vars => [FlowStep]_(Flow!vars)
  BY LifeStep, LifeIsFlow
<1>2. QED BY <1>1, ExecInvariance, PTL DEF Spec

-----------------------------------------------------------------------------
(* One crash.  Where no job is started twice but after a crash, an ack     *)
(* that comes late finds no lease but that of its own attempt, until a     *)
(* worker is killed; and what that one had claimed keeps its lease.        *)
InState(pc, j) == \E s \in Slots : At(pc, s) /\ Holds(s, j)

Somewhere(j) ==
    \/ j \in Q!AllWaiting \cup leased \cup sched \cup sup.batch
    \/ \E s \in Slots : Holds(s, j)
    \/ \E r \in Reqs : req[r].job = j

Safe(j) ==
    rows[j].status = "QUEUED" =>
      \/ /\ InHand(j)
         /\ budget["crash"] # 0 =>
              /\ ~InState("ack", j)
              /\ InState("claimed", j) => j \in Q!AllWaiting \cup leased
      \/ j \in leased /\ ~InState("ack", j)

Once(j) ==
    /\ rows[j].status # "RETRYING"
    /\ InExecution(j) => rows[j].attempt >= 1

AckedIsOver(j) ==
    \A r \in Reqs : ReqAt("ack", r) /\ req[r].job = j => rows[j].status \in Table!Terminal

CrashInv ==
    /\ HeldInv
    /\ budget["retry"] = 0 /\ budget["crash"] <= 1
    /\ \A j \in Jobs : MaxAttempts[j] = 1
    /\ budget["crash"] # 0 => \A w \in Workers : proc[w] = "up"
    /\ \A j \in Jobs :
          /\ rows[j].status = "ABSENT" => ~Somewhere(j)
          /\ Once(j) /\ AckedIsOver(j) /\ Safe(j)

(* What waits stays in the queue until it is acked. *)
LEMMA EntryGoes ==
    ASSUME TypeOK, [Next]_vars, NEW j \in Jobs, j \in Q!AllWaiting
    PROVE  j \in Q!AllWaiting' \cup leased'
<1> USE DEF TypeOK, Q!TypeOK
<1>1. ASSUME NEW i \in Jobs, NEW p \in Tiers, Q!Enqueue(i, p) PROVE j \in Q!AllWaiting'
  BY <1>1, QueueGrows
<1>2. ASSUME NEW i, NEW p \in Tiers, Q!ClaimFrom(i, p) PROVE j \in Q!AllWaiting' \cup leased'
  BY <1>2 DEF Q!ClaimFrom, Q!AllWaiting
<1>3. ASSUME NEW S, NEW p \in Tiers, Q!RequeueStale(S, p) PROVE j \in Q!AllWaiting'
  BY <1>3 DEF Q!RequeueStale, Q!AllWaiting
<1>4. ASSUME UNCHANGED waiting PROVE j \in Q!AllWaiting'
  BY <1>4 DEF Q!AllWaiting
<1>5. [Q!Next]_Q!vars
  BY EngineQueues
<1>6. QED BY <1>1, <1>2, <1>3, <1>4, <1>5 DEF Q!Next, Q!Claim, Q!Ack, Q!vars

(* How a slot comes to where it is. *)
LEMMA SlotComes ==
    ASSUME TypeOK, [Next]_vars, NEW s \in Slots, NEW j \in Jobs, Holds(s, j)'
    PROVE  \/ slot'[s] = slot[s]
           \/ ClaimEntry(s, j) /\ At("claimed", s)'
           \/ /\ StartJob(s) /\ At("claimed", s) /\ Holds(s, j)
              /\ \/ Table!ClaimJob(j, Owner[s]) /\ At("running", s)'
                 \/ ~Table!Claimable(j) /\ UNCHANGED rows /\ At("ack", s)'
           \/ Report(s) /\ Executes(s, j) /\ At("ack", s)'
           \/ CallFails
<1> USE DEF TypeOK, SlotTyped, At, Holds
<1>0. slot'[s] # Idle
  BY JobEngineAssumption DEF Idle
<1>1. ASSUME NEW t \in Slots, SlotStep(t), t # s PROVE slot'[s] = slot[s]
  BY <1>1 DEF SlotStep, ClaimEntry, ClaimReplyLost, StartJob, StartJobFails, Report, ReportFails,
              AckEntry, AckFails, Abandon, SlotGoes, SlotFrees
<1>2. CASE SlotStep(s)
  <2>1. ASSUME NEW pc, NEW i, SlotGoes(s, pc, i) PROVE i = j /\ slot'[s].pc = pc
    BY <2>1 DEF SlotGoes
  <2>2. ~SlotFrees(s)
    BY <1>0 DEF SlotFrees
  <2>3. Spend("storeErr") => CallFails
    BY FailedCall
  <2>4. ASSUME NEW i \in Jobs, ClaimEntry(s, i) PROVE ClaimEntry(s, j) /\ At("claimed", s)'
    <3>1. i = j /\ slot'[s].pc = "claimed"
      BY <2>1, <2>4 DEF ClaimEntry
    <3>2. QED BY <2>4, <3>1
  <2>5. CASE StartJob(s)
    BY <2>1, <2>5 DEF StartJob
  <2>6. CASE Report(s)
    BY <2>1, <2>6 DEF Report, Executes
  <2>7. QED BY <1>2, <2>2, <2>3, <2>4, <2>5, <2>6
            DEF SlotStep, ClaimReplyLost, StartJobFails, ReportFails, AckEntry, AckFails, Abandon
<1>3. ASSUME NEW w \in Workers, WorkerStep(w) PROVE slot'[s] = slot[s]
  BY <1>0, <1>3 DEF WorkerStep, Shutdown, Stop, Crash, Restart, FallSilent, Heartbeat
<1>4. SchedulerStep \/ SupervisorStep => UNCHANGED slot
  BY DEF SchedulerStep, PollRetries, PollRetriesBreaksOff, BackoffEnds, EnqueueRetry,
         EnqueueRetryFails, SupervisorStep, FindDeadWorkers, MarkOffline, RecoverJobs,
         RecoverJobsFails, EnqueueRecovered, EnqueueRecoveredFails
<1>5. ASSUME NEW r \in Reqs, RequestStep(r) PROVE UNCHANGED slot
  BY <1>5 DEF RequestStep, CreateJob, RetryJob, CancelJob, EnqueueRequested, AckCancelled,
              RequestFails
<1>6. QED BY <1>1, <1>2, <1>3, <1>4, <1>5 DEF Next, RecoverLeases, CrashApi, vars

(* A request that holds a job had it before or has just changed its row.   *)
LEMMA RequestComes ==
    ASSUME TypeOK, [Next]_vars, NEW r \in Reqs, NEW j \in Jobs, req'[r].job = j
    PROVE  \/ req'[r] = req[r]
           \/ req'[r].pc = "enqueue" /\ rows'[j].status = "QUEUED"
           \/ req'[r].pc = "ack" /\ rows'[j].status = "CANCELLED"
<1> USE DEF TypeOK, ReqTyped
<1>0. req'[r] # Idle
  BY JobEngineAssumption DEF Idle
<1>1. ASSUME NEW i \in Jobs, NEW t \in Reqs, CreateJob(t, i) \/ RetryJob(t, i) \/ CancelJob(t, i)
      PROVE  \/ req'[r] = req[r]
             \/ req'[r].pc = "enqueue" /\ rows'[j].status = "QUEUED"
             \/ req'[r].pc = "ack" /\ rows'[j].status = "CANCELLED"
  <2>1. CASE t # r
    BY <1>1, <2>1 DEF CreateJob, RetryJob, CancelJob, ReqGoes
  <2>2. CASE t = r /\ (CreateJob(t, i) \/ RetryJob(t, i))
    <3>1. ReqGoes(r, "enqueue", i) /\ rows' = [rows EXCEPT ![i] = Table!Fresh]
      BY <2>2 DEF CreateJob, RetryJob, Table!Insert, Table!ManualRetry
    <3>2. i = j /\ req'[r].pc = "enqueue"
      BY <3>1 DEF ReqGoes
    <3>3. rows'[j].status = "QUEUED"
      BY <3>1, <3>2 DEF Table!Fresh, Table!Absent, RowsTyped
    <3>4. QED BY <3>2, <3>3
  <2>3. CASE t = r /\ CancelJob(t, i)
    <3>1. i = j /\ req'[r].pc = "ack"
      BY <2>3 DEF CancelJob, ReqGoes
    <3>2. rows'[j].status = "CANCELLED"
      BY <2>3, <3>1, RowFields DEF CancelJob, Table!Cancel, RowsTyped
    <3>3. QED BY <3>1, <3>2
  <2>4. QED BY <1>1, <2>1, <2>2, <2>3
<1>2. ASSUME NEW t \in Reqs, EnqueueRequested(t) \/ AckCancelled(t) \/ RequestFails(t)
      PROVE  req'[r] = req[r]
  BY <1>0, <1>2 DEF EnqueueRequested, AckCancelled, RequestFails, ReqEnds
<1>3. ASSUME NEW s \in Slots, SlotStep(s) PROVE UNCHANGED req
  BY <1>3 DEF SlotStep, ClaimEntry, ClaimReplyLost, StartJob, StartJobFails, Report, ReportFails,
              AckEntry, AckFails, Abandon
<1>4. ASSUME NEW w \in Workers, WorkerStep(w) PROVE UNCHANGED req
  BY <1>4 DEF WorkerStep, Shutdown, Stop, Crash, Restart, FallSilent, Heartbeat
<1>5. SchedulerStep \/ SupervisorStep => UNCHANGED req
  BY DEF SchedulerStep, PollRetries, PollRetriesBreaksOff, BackoffEnds, EnqueueRetry,
         EnqueueRetryFails, SupervisorStep, FindDeadWorkers, MarkOffline, RecoverJobs,
         RecoverJobsFails, EnqueueRecovered, EnqueueRecoveredFails
<1>6. CASE CrashApi
  BY <1>0, <1>6 DEF CrashApi
<1>7. QED BY <1>1, <1>2, <1>3, <1>4, <1>5, <1>6 DEF Next, RequestStep, RecoverLeases, vars

(* Only jobs that have a row get anywhere. *)
LEMMA NowhereStep ==
    ASSUME CrashInv, [Next]_vars, ~CallFails, NEW j \in Jobs, rows'[j].status = "ABSENT"
    PROVE  ~Somewhere(j)'
<1> USE DEF CrashInv, HeldInv, HandInv, TypeOK
<1>1. rows[j].status = "ABSENT"
  BY RowChanges DEF RowChange, Made, Taken, Reported, Waited, Recovered, Cancelled, Table!Fresh,
                    Table!Absent
<1>2. ~Somewhere(j)
  BY <1>1
<1>3. j \notin sched'
  <2>1. SchedulerStep => j \notin sched'
    BY <1>1, <1>2 DEF SchedulerStep, PollRetries, PollRetriesBreaksOff, BackoffEnds, EnqueueRetry,
       EnqueueRetryFails, Table!DueRetries, Table!HasStatus, Somewhere
  <2>2. QED
    BY <1>2, <2>1 DEF Somewhere, Next, SlotStep, ClaimEntry, ClaimReplyLost, StartJob,
       StartJobFails, Report, ReportFails, AckEntry, AckFails, Abandon, WorkerStep, Shutdown, Stop,
       Crash, Restart, FallSilent, Heartbeat, RecoverLeases, SupervisorStep, FindDeadWorkers,
       MarkOffline, RecoverJobs, RecoverJobsFails, EnqueueRecovered, EnqueueRecoveredFails,
       RequestStep, CreateJob, RetryJob, CancelJob, EnqueueRequested, AckCancelled, RequestFails,
       CrashApi, vars
<1>4. j \notin sup'.batch
  <2>1. ASSUME NEW B, Enqueuing(B) PROVE sup'.batch = B
    BY <2>1 DEF Enqueuing, NoPass, SupTyped
  <2>2. RecoverJobs \/ RecoverJobsFails => j \notin sup'.batch
    BY <1>1, <2>1 DEF RecoverJobs, RecoverJobsFails, Table!RunningOn, Table!HasStatus
  <2>3. ASSUME NEW i \in Jobs, EnqueueRecovered(i) \/ EnqueueRecoveredFails(i)
        PROVE  j \notin sup'.batch
    BY <1>2, <2>1, <2>3 DEF EnqueueRecovered, EnqueueRecoveredFails, Somewhere
  <2>4. FindDeadWorkers \/ (\E w \in Workers : MarkOffline(w)) => sup'.batch = sup.batch
    BY DEF FindDeadWorkers, MarkOffline, SupTyped
  <2>5. CrashApi => sup'.batch = {}
    BY DEF CrashApi, NoPass
  <2>6. ASSUME UNCHANGED sup PROVE j \notin sup'.batch
    BY <1>2, <2>6 DEF Somewhere
  <2>7. SupervisorStep => j \notin sup'.batch
    BY <1>2, <2>2, <2>3, <2>4 DEF SupervisorStep, Somewhere
  <2>8. QED
    BY <2>5, <2>6, <2>7 DEF Next, SlotStep, ClaimEntry, ClaimReplyLost, StartJob,
       StartJobFails, Report, ReportFails, AckEntry, AckFails, Abandon, WorkerStep, Shutdown, Stop,
       Crash, Restart, FallSilent, Heartbeat, RecoverLeases, SchedulerStep, PollRetries,
       PollRetriesBreaksOff, BackoffEnds, EnqueueRetry, EnqueueRetryFails, RequestStep, CreateJob,
       RetryJob, CancelJob, EnqueueRequested, AckCancelled, RequestFails, vars
<1>5. ASSUME NEW r \in Reqs PROVE req'[r].job # j
  BY <1>2, RequestComes DEF Somewhere
<1>6. ASSUME NEW s \in Slots PROVE ~Holds(s, j)'
  <2>1. slot[s].job # j /\ j \notin Q!AllWaiting
    BY <1>2 DEF Somewhere, Holds
  <2>2. ~ClaimEntry(s, j)
    BY <2>1 DEF ClaimEntry, Q!Claim, Q!ClaimFrom, Q!AllWaiting
  <2>3. QED BY <2>1, <2>2, SlotComes DEF Holds, Executes
<1>7. j \notin Q!AllWaiting' \cup leased'
  <2> USE DEF Q!AllWaiting
  <2>1. ASSUME NEW i, NEW p, Q!Enqueue(i, p), i # j PROVE j \notin Q!AllWaiting' \cup leased'
    BY <1>2, <2>1 DEF Q!Enqueue, Somewhere, Q!TypeOK
  <2>2. ASSUME NEW i, Q!Claim(i) \/ Q!Ack(i) PROVE j \notin Q!AllWaiting' \cup leased'
    BY <1>2, <2>2 DEF Q!Claim, Q!ClaimFrom, Q!Ack, Somewhere, Q!TypeOK
  <2>3. ASSUME NEW S, NEW p, Q!RequeueStale(S, p) PROVE j \notin Q!AllWaiting' \cup leased'
    BY <1>2, <2>3 DEF Q!RequeueStale, Somewhere, Q!TypeOK
  <2>4. ASSUME UNCHANGED <<waiting, leased>> PROVE j \notin Q!AllWaiting' \cup leased'
    BY <1>2, <2>4 DEF Somewhere
  <2>5. ASSUME NEW s \in Slots, SlotStep(s) PROVE j \notin Q!AllWaiting' \cup leased'
    BY <2>2, <2>4, <2>5 DEF SlotStep, ClaimEntry, ClaimReplyLost, StartJob, StartJobFails, Report,
       ReportFails, AckEntry, AckFails, Abandon, storeVars
  <2>6. ASSUME NEW w \in Workers, WorkerStep(w) PROVE UNCHANGED <<waiting, leased>>
    BY <2>6 DEF WorkerStep, Shutdown, Stop, Crash, Restart, FallSilent, Heartbeat, storeVars
  <2>7. SchedulerStep \/ SupervisorStep => j \notin Q!AllWaiting' \cup leased'
    BY <1>2, <2>1, <2>4
       DEF SchedulerStep, PollRetries, PollRetriesBreaksOff, BackoffEnds, EnqueueRetry,
           EnqueueRetryFails, SupervisorStep, FindDeadWorkers, MarkOffline, RecoverJobs,
           RecoverJobsFails, EnqueueRecovered, EnqueueRecoveredFails, storeVars, Somewhere
  <2>8. ASSUME NEW r \in Reqs, RequestStep(r) PROVE j \notin Q!AllWaiting' \cup leased'
    BY <1>2, <2>1, <2>2, <2>4, <2>8
       DEF RequestStep, CreateJob, RetryJob, CancelJob, EnqueueRequested, AckCancelled,
           RequestFails, storeVars, Somewhere
  <2>9. QED BY <2>3, <2>4, <2>5, <2>6, <2>7, <2>8 DEF Next, RecoverLeases, CrashApi, storeVars, vars
<1>8. QED BY <1>3, <1>4, <1>5, <1>6, <1>7 DEF Somewhere

(* Whatever has ended stays so, and no attempt is followed by another one. *)
LEMMA OverStays ==
    ASSUME CrashInv, [Next]_vars, NEW j \in Jobs
    PROVE  /\ rows'[j].status # "RETRYING"
           /\ rows[j].status \in Table!Terminal => rows'[j].status \in Table!Terminal
<1> USE DEF CrashInv, HeldInv, HandInv, TypeOK
<1>1. ~Spend("retry")
  BY DEF Spend
<1>2. rows[j].status # "RETRYING" /\ RowChange(j)
  BY RowChanges DEF Once
<1>3. CASE Made(j)
  BY <1>1, <1>3 DEF Made, Table!Fresh, Table!Absent, Table!Terminal
<1>4. CASE Reported(j)
  <2>1. rows[j].attempt >= 1
    BY <1>4 DEF Reported, Once, InExecution
  <2>2. rows[j].attempt \in Nat
    BY RowFields
  <2>3. QED BY <1>4, <2>1, <2>2 DEF Reported, Table!Terminal
<1>5. QED BY <1>2, <1>3, <1>4
          DEF RowChange, Taken, Waited, Recovered, Cancelled, Table!Terminal

LEMMA OnceStep ==
    ASSUME CrashInv, [Next]_vars, ~CallFails, NEW j \in Jobs
    PROVE  Once(j)'
<1> USE DEF CrashInv, HeldInv, HandInv
<1>1. ASSUME NEW s \in Slots, Executes(s, j)' PROVE rows'[j].attempt >= 1
  <2>1. CASE slot'[s] = slot[s]
    <3>1. Executes(s, j)
      BY <1>1, <2>1 DEF Executes, At, Holds
    <3>2. rows[j].status \in {"RUNNING", "CANCELLED"} /\ rows[j].attempt >= 1
      BY <3>1 DEF Once, InExecution, Executes, At, Holds, ExecInv, ExecutorOwnsRow
    <3>3. rows[j].attempt \in Nat /\ RowChange(j)
      BY RowFields, RowChanges DEF TypeOK
    <3>4. rows'[j].attempt = rows[j].attempt
      BY <3>2, <3>3 DEF RowChange, Made, Taken, Reported, Waited, Recovered, Cancelled
    <3>5. QED BY <3>2, <3>4
  <2>2. CASE Table!ClaimJob(j, Owner[s])
    <3>1. rows[j].attempt \in Nat /\ rows'[j].attempt = rows[j].attempt + 1
      BY <2>2, RowFields DEF Table!ClaimJob, Table!Running, TypeOK, RowsTyped
    <3>2. QED BY <3>1
  <2>3. QED BY <1>1, <2>1, <2>2, SlotComes DEF Executes, At
<1>2. QED BY <1>1, OverStays DEF Once, InExecution

LEMMA AckedIsOverStep ==
    ASSUME CrashInv, [Next]_vars, NEW j \in Jobs
    PROVE  AckedIsOver(j)'
BY OverStays, RequestComes DEF CrashInv, HeldInv, HandInv, AckedIsOver, ReqAt, Table!Terminal

(* Nobody acks a job that may still have to be started. *)
LEMMA NoAckYet ==
    ASSUME CrashInv, [Next]_vars, ~CallFails, NEW j \in Jobs,
           rows[j].status \in {"ABSENT", "QUEUED"}, ~InState("ack", j)
    PROVE  /\ ~Acks(j)
           /\ InState("ack", j)' => rows'[j].status # "QUEUED"
<1>1. ~Acks(j)
  <2>1. ASSUME NEW r \in Reqs, AckCancelled(r), req[r].job = j PROVE FALSE
    BY <2>1 DEF AckCancelled, CrashInv, AckedIsOver, Table!Terminal
  <2>2. QED BY <2>1 DEF Acks, AckEntry, InState
<1>2. ASSUME NEW s \in Slots, At("ack", s)', Holds(s, j)', rows'[j].status = "QUEUED" PROVE FALSE
  <2>1. slot'[s] # slot[s]
    BY <1>2 DEF InState, At, Holds
  <2>2. ~Report(s) \/ ~Executes(s, j)
    BY DEF CrashInv, HeldInv, ExecInv, ExecutorOwnsRow, Executes, Holds
  <2>3. Holds(s, j) => rows[j].status # "ABSENT"
    BY DEF CrashInv, Somewhere
  <2>4. QED BY <1>2, <2>1, <2>2, <2>3, SlotComes
            DEF Table!Claimable, At, Holds, CrashInv, HeldInv, HandInv
<1>3. QED BY <1>1, <1>2 DEF InState

(* While nobody has died no row goes back to QUEUED. *)
LEMMA QueuedOnce ==
    ASSUME CrashInv, [Next]_vars, NEW j \in Jobs, \A w \in Workers : proc[w] = "up",
           rows'[j].status = "QUEUED"
    PROVE  rows[j].status \in {"ABSENT", "QUEUED"}
<1> USE DEF CrashInv, HeldInv, HandInv
<1>1. sup.pc # "recover"
  <2>1. sup.pc = "recover" => sup.cur \in Workers
    BY BusyHoldsJob
  <2>2. QED BY <2>1 DEF ExecInv, OnlyDeadAreReaped
<1>2. rows[j].status # "RETRYING" /\ RowChange(j) /\ ~Spend("retry")
  BY RowChanges DEF Once, Spend
<1>3. QED BY <1>1, <1>2 DEF RowChange, Made, Taken, Reported, Waited, Recovered, Cancelled

LEMMA SafeStep ==
    ASSUME CrashInv, [Next]_vars, ~CallFails, NEW j \in Jobs
    PROVE  Safe(j)'
<1> SUFFICES ASSUME rows'[j].status = "QUEUED"
             PROVE  \/ /\ InHand(j)'
                       /\ budget'["crash"] # 0 =>
                            /\ ~InState("ack", j)'
                            /\ InState("claimed", j)' => j \in Q!AllWaiting' \cup leased'
                    \/ j \in leased' /\ ~InState("ack", j)'
  BY DEF Safe
<1>0. TypeOK /\ HandInv /\ Kept(j)
  BY KeptStep DEF CrashInv, HeldInv, HandInv
<1>1. CASE /\ rows[j].status \in {"ABSENT", "QUEUED"} /\ ~InState("ack", j)
           /\ InState("claimed", j) => j \in Q!AllWaiting \cup leased
  <2>1. ~Acks(j) /\ ~InState("ack", j)'
    BY <1>1, NoAckYet
  <2>2. j \in Q!AllWaiting \cup leased => j \in Q!AllWaiting' \cup leased'
    BY <1>0, <2>1, EntryGoes, LeaseGoes
  <2>3. ASSUME NEW s \in Slots, At("claimed", s)', Holds(s, j)'
        PROVE  j \in Q!AllWaiting' \cup leased'
    <3>1. CASE slot'[s] = slot[s]
      BY <1>1, <2>2, <2>3, <3>1 DEF InState, At, Holds
    <3>2. CASE ClaimEntry(s, j)
      BY <3>2 DEF ClaimEntry, Q!Claim, Q!ClaimFrom
    <3>3. QED BY <1>0, <2>3, <3>1, <3>2, SlotComes DEF At
  <2>4. CASE InHand(j)'
    BY <2>1, <2>3, <2>4 DEF InState
  <2>5. CASE ~InHand(j)'
    <3>1. \/ rows[j].status = "QUEUED" /\ ~InHand(j)
          \/ \E s \in Slots : EndsWith(s, "claimed", j)
      BY <1>0, <2>5 DEF Kept
    <3>2. j \in Q!AllWaiting \cup leased
      BY <1>1, <3>1 DEF CrashInv, Safe, InState, EndsWith
    <3>3. QED BY <2>1, <2>2, <2>5, <3>2 DEF InHand
  <2>6. QED BY <2>4, <2>5
<1>2. CASE budget["crash"] # 0
  BY <1>1, <1>2, QueuedOnce DEF CrashInv, Safe, Somewhere, InState
<1>3. CASE budget["crash"] = 0
  <2>1. budget'["crash"] = 0
    BY <1>0, <1>3, NoneLeft DEF Kinds
  <2>2. UNCHANGED proc
    BY <1>3, OnlyCrashesEnd DEF CrashInv, Crash, Spend
  <2>3. \A s \in Slots : ~EndsWith(s, "claimed", j)
    BY <2>2, JobEngineAssumption
       DEF EndsWith, CrashInv, HeldInv, HandInv, TypeOK, WorkersTyped, At
  <2>4. InHand(j)' \/ (rows[j].status = "QUEUED" /\ ~InHand(j))
    BY <1>0, <2>3 DEF Kept
  <2>5. CASE rows[j].status = "QUEUED" /\ ~InHand(j)
    BY <1>1, <2>5 DEF CrashInv, Safe, InState, InHand
  <2>6. QED BY <2>1, <2>4, <2>5
<1>4. QED BY <1>2, <1>3

LEMMA CrashInvStep == CrashInv /\ [Next]_vars => CrashInv'
<1> SUFFICES ASSUME CrashInv, [Next]_vars PROVE CrashInv'
  OBVIOUS
<1>1. HeldInv' /\ TypeOK /\ TypeOK'
  BY HeldStep DEF CrashInv, HeldInv, HandInv
<1>2. ~CallFails
  BY <1>1 DEF CallFails, CrashInv, HeldInv, OnlyCrashes, TypeOK
<1>3. budget'["retry"] = 0 /\ budget'["crash"] <= budget["crash"]
  BY <1>1, BudgetShrinks, NoneLeft DEF CrashInv, Kinds
<1>4. budget'["crash"] # 0 => \A w \in Workers : proc'[w] = "up"
  <2>1. ASSUME NEW w \in Workers, Crash(w) PROVE budget'["crash"] = 0
    BY <1>1, <2>1 DEF Crash, Spend, CrashInv, TypeOK, Kinds
  <2>2. CASE UNCHANGED proc
    BY <1>1, <1>3, <2>2 DEF CrashInv, TypeOK, Kinds
  <2>3. QED BY <2>1, <2>2, OnlyCrashesEnd DEF CrashInv
<1>5. budget'["crash"] <= 1
  BY <1>1, <1>3 DEF CrashInv, TypeOK, Kinds
<1>6. QED BY <1>1, <1>2, <1>3, <1>4, <1>5, NowhereStep, OnceStep, AckedIsOverStep, SafeStep
          DEF CrashInv

(* OneCrashLosesNothing: kill any one worker, anywhere in its calls and    *)
(* with any number of jobs in hand, in a store of jobs that are tried once:*)
(* each of them still gets to a worker or is taken from the dead one,      *)
(* whatever else is claimed, cancelled, expires or is recovered meanwhile. *)
(* (With a second attempt this is false: an ack of the first may come late *)
(* and take the lease of the second, which then dies with its worker.)     *)
THEOREM OneCrashLosesNothing ==
    ASSUME OnlyCrashes(Budget), Budget["crash"] <= 1, Budget["retry"] = 0,
           \A j \in Jobs : MaxAttempts[j] = 1
    PROVE  Spec => []NoJobIsLost
<1>1. Init => CrashInv
  <2> SUFFICES ASSUME Init PROVE CrashInv
    OBVIOUS
  <2>1. HeldInv
    <3>1. NoFalseDeaths(Budget)
      BY DEF OnlyCrashes, NoFalseDeaths
    <3>2. QED BY <3>1, ExecInit, HandInit
              DEF Init, InitWith, HeldInv, RunningIsHeld, Table!Init, Table!Absent
  <2>2. ASSUME NEW j \in Jobs PROVE rows[j].status = "ABSENT" /\ ~Somewhere(j) /\ ~InExecution(j)
    BY JobEngineAssumption DEF Init, InitWith, Table!Init, Table!Absent, Q!Init, Q!AllWaiting,
       Somewhere, Holds, InExecution, Executes, Idle, NoPass
  <2>3. ASSUME NEW r \in Reqs PROVE ~ReqAt("ack", r)
    BY DEF Init, InitWith, ReqAt, Idle
  <2>4. QED BY <2>1, <2>2, <2>3 DEF Init, InitWith, CrashInv, Once, AckedIsOver, Safe
<1>2. CrashInv => NoJobIsLost
  BY DEF CrashInv, HeldInv, NoJobIsLost, QueuedIsDispatchable, Dispatchable, Safe
<1>3. QED BY <1>1, <1>2, CrashInvStep, PTL DEF Spec
=============================================================================
