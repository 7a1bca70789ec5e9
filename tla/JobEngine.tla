------------------------------ MODULE JobEngine ------------------------------
(***************************************************************************)
(* The job engine: worker processes with their concurrency slots           *)
(* (engine/worker.go), and in the API process the retry scheduler          *)
(* (engine/scheduler.go), the worker supervisor (engine/supervisor.go) and *)
(* the request handlers that create, cancel and retry jobs                 *)
(* (api/handler.go).  They share two stores and nothing else: the jobs and *)
(* workers tables of PostgreSQL and the queue in Redis.  No operation      *)
(* spans both stores, so every process goes from one call to the next and  *)
(* any other process, or a fault, may come in between.                     *)
(*                                                                         *)
(* One call to a store is one action.  Faults and the events of the        *)
(* outside world that must stay finite are drawn from Budget.              *)
(***************************************************************************)
EXTENDS Naturals, FiniteSets

CONSTANTS
    Jobs, Workers, NoWorker,
    MaxAttempts,   \* max_attempts of each job
    Prio,          \* priority of each job
    Handled,       \* <<w, j>>: worker w has a handler for the type of j
    Slots,         \* concurrency slots of all workers
    Owner,         \* the worker each slot belongs to
    Reqs,          \* request goroutines of the API process
    NoJob,
    Budget         \* how often each kind of event may happen

Tiers == 1..3
DefaultPriority == 2

Kinds == {"crash",     \* a worker process is killed
          "shutdown",  \* a worker process receives SIGTERM
          "restart",   \* a worker process comes back under the same id
          "suspect",   \* a live worker's heartbeats stay out too long
          "apiCrash",  \* the API process is killed and comes back
          "storeErr",  \* a call to a store fails
          "statusErr", \* a worker's write of its own status fails
          "cancel",    \* an operator cancels a job
          "retry"}     \* an operator retries a job

ASSUME JobEngineAssumption ==
    /\ MaxAttempts \in [Jobs -> Nat \ {0}]
    /\ Prio \in [Jobs -> Tiers]
    /\ Handled \subseteq Workers \X Jobs
    /\ Owner \in [Slots -> Workers]
    /\ Budget \in [Kinds -> Nat]
    /\ NoWorker \notin Workers
    /\ NoJob \notin Jobs

VARIABLES
    rows,             \* the jobs table
    waiting, leased,  \* the Redis queue
    wstat,            \* the status column of the workers table
    silent,           \* the workers whose last_heartbeat is too old
    proc,             \* the state of each worker process
    slot,             \* what each concurrency slot is doing
    req,              \* what each request goroutine is doing
    sched,            \* the batch the retry scheduler has still to enqueue
    sup,              \* the supervisor's pass over the dead workers
    budget            \* what is left of Budget

storeVars == <<rows, waiting, leased, wstat>>
vars == <<rows, waiting, leased, wstat, silent, proc, slot, req, sched, sup, budget>>

(* A constant JobTable only uses in its own Next. *)
AttemptCap == [j \in Jobs |-> MaxAttempts[j] + Budget["crash"]]

Table == INSTANCE JobTable
Q     == INSTANCE LeaseQueue

Idle == [pc |-> "idle", job |-> NoJob]

NoPass == [dead |-> {}, cur |-> NoWorker, pc |-> "idle", batch |-> {}]

InitWith(b) ==
    /\ Table!Init
    /\ Q!Init
    /\ wstat = [w \in Workers |-> "ACTIVE"]
    /\ silent = {}
    /\ proc = [w \in Workers |-> "up"]
    /\ slot = [s \in Slots |-> Idle]
    /\ req = [r \in Reqs |-> Idle]
    /\ sched = {}
    /\ sup = NoPass
    /\ budget = b

Init == InitWith(Budget)

Spend(kind) ==
    /\ budget[kind] > 0
    /\ budget' = [budget EXCEPT ![kind] = @ - 1]

At(pc, s)    == slot[s].pc = pc
Holds(s, j)  == slot[s].job = j
SlotGoes(s, pc, j) == slot' = [slot EXCEPT ![s] = [pc |-> pc, job |-> j]]
SlotFrees(s) == slot' = [slot EXCEPT ![s] = Idle]
Alive(s)     == proc[Owner[s]] = "up"

-----------------------------------------------------------------------------
(* A concurrency slot of a worker: Run and processJob of worker.go. *)

(* Run takes a free slot and claims an id from Redis. *)
ClaimEntry(s, j) ==
    /\ Alive(s) /\ At("idle", s)
    /\ Q!Claim(j)
    /\ SlotGoes(s, "claimed", j)
    /\ UNCHANGED <<rows, wstat, silent, proc, req, sched, sup, budget>>

(* The claim script ran but its reply was lost: Run releases the slot. *)
ClaimReplyLost(s) ==
    /\ Alive(s) /\ At("idle", s)
    /\ Spend("storeErr")
    /\ \E j \in Jobs : Q!Claim(j)
    /\ UNCHANGED <<rows, wstat, silent, proc, slot, req, sched, sup>>

(* ClaimJob in PostgreSQL: the job runs, or it is not eligible any more    *)
(* and only the lease is left to be acked.                                 *)
StartJob(s) ==
    /\ Alive(s) /\ At("claimed", s)
    /\ LET j == slot[s].job
       IN  \/ Table!ClaimJob(j, Owner[s]) /\ SlotGoes(s, "running", j)
           \/ /\ ~Table!Claimable(j)
              /\ SlotGoes(s, "ack", j)
              /\ UNCHANGED rows
    /\ UNCHANGED <<waiting, leased, wstat, silent, proc, req, sched, sup, budget>>

(* ClaimJob reports an error, whether PostgreSQL applied it or not:        *)
(* processJob returns and leaves the lease to its deadline.                *)
StartJobFails(s) ==
    /\ Alive(s) /\ At("claimed", s)
    /\ Spend("storeErr")
    /\ Table!ClaimJob(slot[s].job, Owner[s]) \/ UNCHANGED rows
    /\ SlotFrees(s)
    /\ UNCHANGED <<waiting, leased, wstat, silent, proc, req, sched, sup>>

(* The handler returned (or its job timeout expired, or there is none) and *)
(* the attempt is resolved in PostgreSQL.                                  *)
Report(s) ==
    /\ Alive(s) /\ At("running", s)
    /\ LET j == slot[s].job
       IN  /\ IF <<Owner[s], j>> \in Handled
              THEN Table!MarkSucceeded(j) \/ Table!RecordFailure(j)
              ELSE Table!MarkFailed(j)
           /\ SlotGoes(s, "ack", j)
    /\ UNCHANGED <<waiting, leased, wstat, silent, proc, req, sched, sup, budget>>

(* The report fails: the error is logged and the job is acked all the same. *)
ReportFails(s) ==
    /\ Alive(s) /\ At("running", s)
    /\ Spend("storeErr")
    /\ SlotGoes(s, "ack", slot[s].job)
    /\ UNCHANGED <<storeVars, silent, proc, req, sched, sup>>

AckEntry(s) ==
    /\ Alive(s) /\ At("ack", s)
    /\ Q!Ack(slot[s].job)
    /\ SlotFrees(s)
    /\ UNCHANGED <<rows, wstat, silent, proc, req, sched, sup, budget>>

AckFails(s) ==
    /\ Alive(s) /\ At("ack", s)
    /\ Spend("storeErr")
    /\ SlotFrees(s)
    /\ UNCHANGED <<storeVars, silent, proc, req, sched, sup>>

(* After SIGTERM every call of processJob uses the cancelled context and   *)
(* fails: the goroutine returns without having changed a store.            *)
Abandon(s) ==
    /\ proc[Owner[s]] = "draining" /\ ~At("idle", s)
    /\ SlotFrees(s)
    /\ UNCHANGED <<storeVars, silent, proc, req, sched, sup, budget>>

-----------------------------------------------------------------------------
(* A worker process: Run of worker.go, and what can happen to it. *)

SlotsOf(w) == {s \in Slots : Owner[s] = w}

(* An event after which the worker writes its status, and does not mind if *)
(* that fails.                                                             *)
SpendAndWrite(kind, w, status) ==
    \/ /\ Spend(kind)
       /\ wstat' = [wstat EXCEPT ![w] = status]
    \/ /\ budget[kind] > 0 /\ budget["statusErr"] > 0
       /\ budget' = [budget EXCEPT ![kind] = @ - 1, !["statusErr"] = @ - 1]
       /\ UNCHANGED wstat

(* SIGTERM: claiming and heartbeats end, the row says DRAINING. *)
Shutdown(w) ==
    /\ proc[w] = "up"
    /\ proc' = [proc EXCEPT ![w] = "draining"]
    /\ SpendAndWrite("shutdown", w, "DRAINING")
    /\ UNCHANGED <<rows, waiting, leased, silent, slot, req, sched, sup>>

(* Once the goroutines are back the row says OFFLINE and the process ends. *)
Stop(w) ==
    /\ proc[w] = "draining"
    /\ \A s \in SlotsOf(w) : At("idle", s)
    /\ proc' = [proc EXCEPT ![w] = "down"]
    /\ \/ wstat' = [wstat EXCEPT ![w] = "OFFLINE"] /\ UNCHANGED budget
       \/ Spend("statusErr") /\ UNCHANGED wstat
    /\ UNCHANGED <<rows, waiting, leased, silent, slot, req, sched, sup>>

Crash(w) ==
    /\ proc[w] # "down"
    /\ Spend("crash")
    /\ proc' = [proc EXCEPT ![w] = "down"]
    /\ slot' = [s \in Slots |-> IF Owner[s] = w THEN Idle ELSE slot[s]]
    /\ UNCHANGED <<storeVars, silent, req, sched, sup>>

\* Mutant: registering again leaves last_heartbeat as it was.
RestartKeepsHeartbeat(w) ==
    /\ proc[w] = "down"
    /\ proc' = [proc EXCEPT ![w] = "up"]
    /\ SpendAndWrite("restart", w, "ACTIVE")
    /\ UNCHANGED <<rows, waiting, leased, silent, slot, req, sched, sup>>

(* Register: the row is ACTIVE again, whatever a former process left; when *)
(* that fails the worker runs all the same.  The first heartbeat follows.  *)
Restart(w) ==
    /\ proc[w] = "down"
    /\ proc' = [proc EXCEPT ![w] = "up"]
    /\ silent' = silent \ {w}
    /\ SpendAndWrite("restart", w, "ACTIVE")
    /\ UNCHANGED <<rows, waiting, leased, slot, req, sched, sup>>

(* last_heartbeat gets older than the dead timeout.  That takes a process  *)
(* that is gone or, when it is alive, heartbeats that fail all that time.  *)
FallSilent(w) ==
    /\ w \notin silent
    /\ silent' = silent \cup {w}
    /\ IF proc[w] = "up" THEN Spend("suspect") ELSE UNCHANGED budget
    /\ UNCHANGED <<storeVars, proc, slot, req, sched, sup>>

(* The next heartbeat that arrives refreshes last_heartbeat, not status. *)
Heartbeat(w) ==
    /\ proc[w] = "up" /\ w \in silent
    /\ silent' = silent \ {w}
    /\ UNCHANGED <<storeVars, proc, slot, req, sched, sup, budget>>

(* The stale recovery loop of any live worker.  A lease may expire at any  *)
(* time: the visibility timeout is shorter than the job timeout.           *)
RecoverLeases(S) ==
    /\ \E w \in Workers : proc[w] = "up"
    /\ Q!RequeueStale(S, DefaultPriority)
    /\ UNCHANGED <<rows, wstat, silent, proc, slot, req, sched, sup, budget>>

-----------------------------------------------------------------------------
(* The retry scheduler: PollAndRequeue of scheduler.go. *)

BackoffEnds(j) ==
    /\ Table!TimePasses(j)
    /\ UNCHANGED <<waiting, leased, wstat, silent, proc, slot, req, sched, sup, budget>>

\* Mutant: the rows are queued again in PostgreSQL only.
PollRetriesDropsBatch(S) ==
    /\ sched = {}
    /\ Table!RequeueDueRetries(S)
    /\ UNCHANGED <<waiting, leased, wstat, silent, proc, slot, req, sched, sup, budget>>

PollRetries(S) ==
    /\ sched = {}
    /\ Table!RequeueDueRetries(S)
    /\ sched' = S
    /\ UNCHANGED <<waiting, leased, wstat, silent, proc, slot, req, sup, budget>>

(* The reply of the UPDATE breaks off: what was read of it, maybe nothing, *)
(* is the batch.                                                           *)
PollRetriesBreaksOff(S) ==
    /\ sched = {}
    /\ Spend("storeErr")
    /\ Table!RequeueDueRetries(S)
    /\ sched' \in SUBSET S
    /\ UNCHANGED <<waiting, leased, wstat, silent, proc, slot, req, sup>>

EnqueueRetry(j) ==
    /\ j \in sched
    /\ Q!Enqueue(j, Prio[j])
    /\ sched' = sched \ {j}
    /\ UNCHANGED <<rows, wstat, silent, proc, slot, req, sup, budget>>

(* An enqueue that fails is logged and the next job of the batch follows.  *)
EnqueueRetryFails(j) ==
    /\ j \in sched
    /\ Spend("storeErr")
    /\ sched' = sched \ {j}
    /\ UNCHANGED <<storeVars, silent, proc, slot, req, sup>>

-----------------------------------------------------------------------------
(* The supervisor: ReapDeadWorkers of supervisor.go, one pass at a time. *)

\* Mutant: the status is not asked for, and who was found is found again.
FindSilentWorkers ==
    /\ sup.pc = "idle" /\ sup.dead = {}
    /\ silent # {} /\ sup' = [sup EXCEPT !.dead = silent]
    /\ UNCHANGED <<storeVars, silent, proc, slot, req, sched, budget>>

FindDeadWorkers ==
    /\ sup.pc = "idle" /\ sup.dead = {}
    /\ LET dead == {w \in silent : wstat[w] = "ACTIVE"}
       IN  dead # {} /\ sup' = [sup EXCEPT !.dead = dead]
    /\ UNCHANGED <<storeVars, silent, proc, slot, req, sched, budget>>

\* Mutant: a worker marked OFFLINE is not recovered from.
MarkOfflineOnly(w) ==
    /\ sup.pc = "idle" /\ w \in sup.dead
    /\ sup' = [sup EXCEPT !.dead = @ \ {w}]
    /\ wstat' = [wstat EXCEPT ![w] = "OFFLINE"]
    /\ UNCHANGED <<rows, waiting, leased, silent, proc, slot, req, sched, budget>>

MarkOffline(w) ==
    /\ sup.pc = "idle" /\ w \in sup.dead
    /\ sup' = [sup EXCEPT !.dead = @ \ {w}, !.cur = w, !.pc = "recover"]
    /\ \/ wstat' = [wstat EXCEPT ![w] = "OFFLINE"] /\ UNCHANGED budget
       \/ Spend("storeErr") /\ UNCHANGED wstat
    /\ UNCHANGED <<rows, waiting, leased, silent, proc, slot, req, sched>>

\* Mutant: the pass moves on and still has the worker in hand.
EnqueuingKeepsWorker(batch) ==
    sup' = [sup EXCEPT !.pc = IF batch = {} THEN "idle" ELSE "enqueue", !.batch = batch]

(* From the recovery of one worker on to its batch, or to the next worker. *)
Enqueuing(batch) ==
    sup' = IF batch = {} THEN [NoPass EXCEPT !.dead = sup.dead]
                         ELSE [sup EXCEPT !.pc = "enqueue", !.batch = batch]

\* Mutant: the recovered jobs are left to the stale recovery of the queue.
RecoverJobsInTableOnly ==
    /\ sup.pc = "recover"
    /\ Table!RecoverDeadWorkerJobs(sup.cur)
    /\ Enqueuing({})
    /\ UNCHANGED <<waiting, leased, wstat, silent, proc, slot, req, sched, budget>>

RecoverJobs ==
    /\ sup.pc = "recover"
    /\ Table!RecoverDeadWorkerJobs(sup.cur)
    /\ Enqueuing(Table!RunningOn(sup.cur))
    /\ UNCHANGED <<waiting, leased, wstat, silent, proc, slot, req, sched, budget>>

(* The recovery fails, or is applied and its reply breaks off: what was    *)
(* read of it, maybe nothing, is the batch.                                *)
RecoverJobsFails ==
    /\ sup.pc = "recover"
    /\ Spend("storeErr")
    /\ \/ UNCHANGED rows /\ Enqueuing({})
       \/ /\ Table!RecoverDeadWorkerJobs(sup.cur)
          /\ \E B \in SUBSET Table!RunningOn(sup.cur) : Enqueuing(B)
    /\ UNCHANGED <<waiting, leased, wstat, silent, proc, slot, req, sched>>

EnqueueRecovered(j) ==
    /\ sup.pc = "enqueue" /\ j \in sup.batch
    /\ Q!Enqueue(j, Prio[j])
    /\ Enqueuing(sup.batch \ {j})
    /\ UNCHANGED <<rows, wstat, silent, proc, slot, req, sched, budget>>

EnqueueRecoveredFails(j) ==
    /\ sup.pc = "enqueue" /\ j \in sup.batch
    /\ Spend("storeErr")
    /\ Enqueuing(sup.batch \ {j})
    /\ UNCHANGED <<storeVars, silent, proc, slot, req, sched>>

-----------------------------------------------------------------------------
(* The request handlers: CreateJob, CancelJob and RetryJob of handler.go.  *)

ReqAt(pc, r)       == req[r].pc = pc
ReqGoes(r, pc, j)  == req' = [req EXCEPT ![r] = [pc |-> pc, job |-> j]]
ReqEnds(r)         == req' = [req EXCEPT ![r] = Idle]

CreateJob(r, j) ==
    /\ ReqAt("idle", r)
    /\ Table!Insert(j)
    /\ ReqGoes(r, "enqueue", j)
    /\ UNCHANGED <<waiting, leased, wstat, silent, proc, slot, sched, sup, budget>>

RetryJob(r, j) ==
    /\ ReqAt("idle", r)
    /\ Spend("retry")
    /\ Table!ManualRetry(j)
    /\ ReqGoes(r, "enqueue", j)
    /\ UNCHANGED <<waiting, leased, wstat, silent, proc, slot, sched, sup>>

CancelJob(r, j) ==
    /\ ReqAt("idle", r)
    /\ Spend("cancel")
    /\ Table!Cancel(j)
    /\ ReqGoes(r, "ack", j)
    /\ UNCHANGED <<waiting, leased, wstat, silent, proc, slot, sched, sup>>

EnqueueRequested(r) ==
    /\ ReqAt("enqueue", r)
    /\ Q!Enqueue(req[r].job, Prio[req[r].job])
    /\ ReqEnds(r)
    /\ UNCHANGED <<rows, wstat, silent, proc, slot, sched, sup, budget>>

AckCancelled(r) ==
    /\ ReqAt("ack", r)
    /\ Q!Ack(req[r].job)
    /\ ReqEnds(r)
    /\ UNCHANGED <<rows, wstat, silent, proc, slot, sched, sup, budget>>

(* Redis is away, or the client is and the request context with it: the    *)
(* error of the second call is logged or dropped, the first call stands.   *)
RequestFails(r) ==
    /\ ~ReqAt("idle", r)
    /\ Spend("storeErr")
    /\ ReqEnds(r)
    /\ UNCHANGED <<storeVars, silent, proc, slot, sched, sup>>

(* The API process dies, with all that its goroutines had in hand, and its *)
(* successor starts.                                                       *)
CrashApi ==
    /\ Spend("apiCrash")
    /\ req' = [r \in Reqs |-> Idle]
    /\ sched' = {}
    /\ sup' = NoPass
    /\ UNCHANGED <<storeVars, silent, proc, slot>>

-----------------------------------------------------------------------------
SlotStep(s) ==
    \/ \E j \in Jobs : ClaimEntry(s, j)
    \/ ClaimReplyLost(s)
    \/ StartJob(s)   \/ StartJobFails(s)
    \/ Report(s)     \/ ReportFails(s)
    \/ AckEntry(s)   \/ AckFails(s)
    \/ Abandon(s)

WorkerStep(w) ==
    \/ Shutdown(w) \/ Stop(w) \/ Crash(w) \/ Restart(w)
    \/ FallSilent(w) \/ Heartbeat(w)

SchedulerStep ==
    \/ \E S \in SUBSET Table!DueRetries : PollRetries(S) \/ PollRetriesBreaksOff(S)
    \/ \E j \in Jobs : BackoffEnds(j) \/ EnqueueRetry(j) \/ EnqueueRetryFails(j)

SupervisorStep ==
    \/ FindDeadWorkers
    \/ \E w \in Workers : MarkOffline(w)
    \/ RecoverJobs \/ RecoverJobsFails
    \/ \E j \in Jobs : EnqueueRecovered(j) \/ EnqueueRecoveredFails(j)

RequestStep(r) ==
    \/ \E j \in Jobs : CreateJob(r, j) \/ RetryJob(r, j) \/ CancelJob(r, j)
    \/ EnqueueRequested(r) \/ AckCancelled(r) \/ RequestFails(r)

Next ==
    \/ \E s \in Slots : SlotStep(s)
    \/ \E w \in Workers : WorkerStep(w)
    \/ \E S \in SUBSET leased : RecoverLeases(S)
    \/ SchedulerStep
    \/ SupervisorStep
    \/ \E r \in Reqs : RequestStep(r)
    \/ CrashApi

Spec == Init /\ [][Next]_vars

(* Fairness.  A goroutine that is not killed goes on to its next call, a   *)
(* handler returns (its context has the job timeout), tickers tick, time   *)
(* gets past run_at, past a lease's deadline and past the dead timeout.    *)
(* Claims are fair to each waiting job: a tier is first in, first out and  *)
(* no tier is passed over for ever (RedisQueue's BoundedSkips), but slots  *)
(* are not free all the time, hence SF.                                    *)
SlotFairness(s) ==
    /\ WF_vars(StartJob(s))
    /\ WF_vars(Report(s))
    /\ WF_vars(AckEntry(s))
    /\ WF_vars(Abandon(s))

JobFairness(j) ==
    /\ SF_vars(\E s \in Slots : ClaimEntry(s, j))
    /\ WF_vars(\E S \in SUBSET leased : j \in S /\ RecoverLeases(S))
    /\ WF_vars(BackoffEnds(j))
    /\ WF_vars(\E S \in SUBSET Table!DueRetries : j \in S /\ PollRetries(S))
    /\ WF_vars(EnqueueRetry(j))
    /\ WF_vars(EnqueueRecovered(j))

WorkerFairness(w) ==
    /\ WF_vars(Stop(w))
    /\ WF_vars(proc[w] = "down" /\ FallSilent(w))
    /\ WF_vars(Heartbeat(w))
    /\ WF_vars(MarkOffline(w))

RequestFairness(r) == WF_vars(EnqueueRequested(r)) /\ WF_vars(AckCancelled(r))

Fairness ==
    /\ \A s \in Slots : SlotFairness(s)
    /\ \A j \in Jobs : JobFairness(j)
    /\ \A w \in Workers : WorkerFairness(w)
    /\ \A r \in Reqs : RequestFairness(r)
    /\ WF_vars(FindDeadWorkers)
    /\ WF_vars(RecoverJobs)

FairSpec == Spec /\ Fairness

-----------------------------------------------------------------------------
Task(pcs) == [pc : pcs, job : Jobs \cup {NoJob}]

RowsTyped == rows \in [Jobs -> Table!Row]

WorkersTyped ==
    /\ wstat \in [Workers -> {"ACTIVE", "DRAINING", "OFFLINE"}]
    /\ silent \subseteq Workers
    /\ proc \in [Workers -> {"up", "draining", "down"}]

SlotTyped ==
    /\ slot \in [Slots -> Task({"idle", "claimed", "running", "ack"})]
    /\ \A s \in Slots : slot[s].pc = "idle" <=> slot[s].job = NoJob

ReqTyped ==
    /\ req \in [Reqs -> Task({"idle", "enqueue", "ack"})]
    /\ \A r \in Reqs : req[r].pc = "idle" <=> req[r].job = NoJob

SupTyped ==
    /\ sup \in [dead : SUBSET Workers, cur : Workers \cup {NoWorker},
                pc : {"idle", "recover", "enqueue"}, batch : SUBSET Jobs]
    /\ sup.pc = "idle" <=> sup.cur = NoWorker

(* Every row, queue, slot, request and batch has its shape; a goroutine    *)
(* holds a job exactly when it is not idle.                                *)
TypeOK ==
    /\ RowsTyped
    /\ Q!TypeOK
    /\ WorkersTyped
    /\ SlotTyped
    /\ ReqTyped
    /\ sched \subseteq Jobs
    /\ SupTyped
    /\ budget \in [Kinds -> Nat]

Executes(s, j) == At("running", s) /\ Holds(s, j)
InExecution(j) == \E s \in Slots : Executes(s, j)

(* AtMostOneExecution: no job is executed by two slots at a time.  The     *)
(* claims of two workers, stale leases, retries and the recovery of dead   *)
(* workers' jobs all lead to ClaimJob, which lets one through; it takes a  *)
(* live worker held for dead to break this.                                *)
AtMostOneExecution ==
    \A s, t \in Slots : At("running", s) /\ At("running", t) /\ s # t
                           => slot[s].job # slot[t].job

Executors(j) == {s \in Slots : Executes(s, j)}

Spent(kind) == Budget[kind] - budget[kind]

(* ExecutionsArePaid: where live workers are held for dead, a job may have *)
(* several executors, but each beyond the first is paid for by heartbeats  *)
(* that stayed out, a process that came back, a row of a stopping one that *)
(* goes on saying ACTIVE, or a call that failed as that of MarkOffline.    *)
ExecutionsArePaid ==
    \A j \in Jobs :
        Cardinality(Executors(j)) <= 1 + Spent("suspect") + Spent("restart")
                                       + Spent("statusErr") + Spent("storeErr")

(* No events are left that can have a live worker held for dead: its       *)
(* heartbeats stay out, it comes back in the place of one that crashed, or *)
(* it stops and its row goes on saying ACTIVE.  Workers may crash, or stop *)
(* and come back under their ids, as in a rolling restart.                 *)
NoFalseDeaths(b) ==
    /\ b["suspect"] = 0
    /\ b["restart"] = 0 \/ b["crash"] = 0
    /\ b["statusErr"] = 0 \/ b["shutdown"] = 0

(* Whoever is down has stopped in good order, and nobody is being reaped. *)
NobodyDied ==
    /\ sup.dead = {} /\ sup.pc = "idle"
    /\ \A w \in Workers : proc[w] = "down" => wstat[w] # "ACTIVE"

(* What AtMostOneExecution rests on while no live worker is held for dead: *)
(* the supervisor only works on processes that are gone, these have no     *)
(* busy slot, and a slot that executes a job is the owner its row names.   *)
OnlyDeadAreReaped ==
    /\ NoFalseDeaths(budget)
    /\ budget["restart"] > 0 => NobodyDied
    /\ \A w \in sup.dead : proc[w] = "down"
    /\ sup.pc # "idle" => proc[sup.cur] = "down"
    /\ \A w \in silent : wstat[w] = "ACTIVE" => proc[w] = "down"
    /\ \A w \in Workers : proc[w] = "draining" => wstat[w] # "ACTIVE"
    /\ \A s \in Slots : proc[Owner[s]] = "down" => At("idle", s)

ExecutorOwnsRow ==
    \A s \in Slots : At("running", s) =>
        /\ rows[slot[s].job].status \in {"RUNNING", "CANCELLED"}
        /\ rows[slot[s].job].worker = Owner[s]

(* ResultIsFinal: the outcome of a job's last attempt stays in its row: a  *)
(* succeeded row never changes, a failed or dead-lettered one only by an   *)
(* operator's retry that starts it afresh.  The reports name the row by id *)
(* alone, so this rests on no second slot still executing the job.         *)
ResultIsFinal ==
    [][\A j \in Jobs :
         /\ rows[j].status = "SUCCEEDED" => rows'[j] = rows[j]
         /\ rows[j].status \in {"FAILED", "DEAD_LETTER"}
              => rows'[j] \in {rows[j], Table!Fresh}]_vars

(* CancelBeforeStartIsFinal: a job cancelled while no slot executes it     *)
(* stays cancelled, whatever entries, leases, claimed ids and batches      *)
(* still carry it.                                                         *)
CancelBeforeStartIsFinal ==
    [][\A j \in Jobs : rows[j].status = "CANCELLED" /\ ~InExecution(j)
                          => rows'[j].status = "CANCELLED"]_vars

(* AttemptsPaidByCrashes: attempts beyond max_attempts are only those the  *)
(* recovery from a crash started again, one for each crash.                *)
AttemptsPaidByCrashes ==
    \A j \in Jobs : rows[j].attempt <= MaxAttempts[j] + (Budget["crash"] - budget["crash"])

(* A queued job that waits in Redis, or that somebody is about to put      *)
(* there or to start, and one that may also rely on a lease to expire.     *)
InHand(j) ==
    \/ j \in Q!AllWaiting \cup sched \cup sup.batch
    \/ \E s \in Slots : At("claimed", s) /\ Holds(s, j)
    \/ \E r \in Reqs : ReqAt("enqueue", r) /\ req[r].job = j

Dispatchable(j) == InHand(j) \/ j \in leased

(* A worker whose running jobs the supervisor will take over. *)
Reapable(w) ==
    /\ proc[w] = "down"
    /\ \/ wstat[w] = "ACTIVE"
       \/ w \in sup.dead
       \/ sup.pc = "recover" /\ sup.cur = w

Held(j) == InExecution(j) \/ Reapable(rows[j].worker)

QueuedIsDispatchable == \A j \in Jobs : rows[j].status = "QUEUED" => Dispatchable(j)
RunningIsHeld        == \A j \in Jobs : rows[j].status = "RUNNING" => Held(j)

(* NoJobIsLost: PostgreSQL and Redis never come apart for good: a QUEUED   *)
(* row has an entry, a lease or a goroutine on its way to Redis, a RUNNING *)
(* row has an executing slot or a dead worker the supervisor will reap.    *)
(* README.md:110-111 promises both for worker crashes.                     *)
NoJobIsLost == QueuedIsDispatchable /\ RunningIsHeld

(* Slot s is at pc with job j, and ends with its process. *)
EndsWith(s, pc, j) ==
    /\ At(pc, s) /\ Holds(s, j)
    /\ proc'[Owner[s]] # "up" /\ At("idle", s)'

(* The worker of slot s is killed while the row of job j names it and its  *)
(* own row says ACTIVE: the supervisor will find it.                       *)
KilledInPlace(s, j) ==
    /\ proc'[Owner[s]] = "down" /\ wstat[Owner[s]] = "ACTIVE"
    /\ rows[j].worker = Owner[s]

Returns(w) == proc[w] = "down" /\ proc'[w] = "up"

CallFails == \E k \in {"storeErr", "apiCrash"} : budget'[k] < budget[k]

(* A slot or a request acks job j, whatever lease that is. *)
Acks(j) ==
    \/ \E s \in Slots : AckEntry(s) /\ Holds(s, j)
    \/ \E r \in Reqs : AckCancelled(r) /\ req[r].job = j

(* OnlyItsHolderDropsIt: no race drops a job that somebody has in hand.    *)
(* Let no call have failed at that step.  A queued job that nobody has in  *)
(* hand any more was dropped by the end of the worker that had claimed it; *)
(* its lease then is its last hope, and only an ack of the same job takes  *)
(* that away.  A running one that nobody executes or will recover was      *)
(* dropped by the graceful end of its executor, by the death of one the    *)
(* supervisor does not look for, or by its dead worker's return under the  *)
(* same id.                                                                *)
OnlyItsHolderDropsIt ==
    [][\A j \in Jobs : CallFails \/
         /\ rows'[j].status = "QUEUED" /\ ~InHand(j)' =>
              \/ rows[j].status = "QUEUED" /\ ~InHand(j)
              \/ \E s \in Slots : EndsWith(s, "claimed", j)
         /\ rows'[j].status = "QUEUED" /\ ~Dispatchable(j)' =>
              \/ rows[j].status = "QUEUED" /\ ~InHand(j) /\ (j \in leased => Acks(j))
              \/ j \notin leased /\ \E s \in Slots : EndsWith(s, "claimed", j)
         /\ rows'[j].status = "RUNNING" /\ ~Held(j)' =>
              \/ rows[j].status = "RUNNING" /\ (~Held(j) \/ Returns(rows[j].worker))
              \/ \E s \in Slots : EndsWith(s, "running", j) /\ ~KilledInPlace(s, j)]_vars

(* EveryJobSettles: every job that was submitted comes to a terminal       *)
(* status; none stays RUNNING under a worker that has died.                *)
EveryJobSettles ==
    \A j \in Jobs : rows[j].status \in Table!Pending ~> rows[j].status \in Table!Terminal

-----------------------------------------------------------------------------
(* What the engine promises of one job: JobLifecycle. *)
Outcome(status) ==
    IF status \in Table!Pending THEN "PENDING"
    ELSE IF status = "DEAD_LETTER" THEN "FAILED" ELSE status

Life == INSTANCE JobLifecycle
    WITH outcome <- [j \in Jobs |-> Outcome(rows[j].status)],
         executing <- {j \in Jobs : InExecution(j)}

(* ImplementsJobLifecycle: through all claims, reports, polls, recoveries  *)
(* and crashes a job goes through the steps of JobLifecycle only, one at a *)
(* time: it ends by the report of the slot that executes it, is begun when *)
(* nobody executes it, and is not revived but by an operator.              *)
ImplementsJobLifecycle == Life!Spec
=============================================================================
