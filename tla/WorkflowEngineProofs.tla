------------------------ MODULE WorkflowEngineProofs ------------------------
(***************************************************************************)
(* Theorems about WorkflowEngine for any graph of tasks and any budget of  *)
(* events.                                                                 *)
(***************************************************************************)
EXTENDS WorkflowEngine, TLAPS

-----------------------------------------------------------------------------
(* Types. *)
StatusesTyped ==
    /\ wf \in {"ABSENT"} \cup TaskStatus
    /\ task \in [Tasks -> TaskStatus]
    /\ job \in [Tasks -> JobStatus]
    /\ sent \subseteq Tasks
    /\ budget \in [Kinds -> Nat]

AdvTyped ==
    /\ adv \in [Advancers -> AdvState]
    /\ \A a \in Advancers : LoopTyped(a)

LEMMA IdleTyped == Idle \in AdvState
BY DEF Idle, AdvState, TaskStatus

(* The moves of a goroutine keep its state typed. *)
LEMMA ReturnsTyped ==
    ASSUME AdvTyped, NEW a \in Advancers, Returns(a)
    PROVE  AdvTyped'
<1>1. adv' \in [Advancers -> AdvState]
  BY IdleTyped DEF AdvTyped, Returns, Goes
<1>2. QED BY <1>1 DEF AdvTyped, Returns, Goes, Idle, LoopTyped

LEMMA StartsTyped ==
    ASSUME AdvTyped, NEW a \in Advancers, NEW pc \in {"start", "load", "tasks"},
           Goes(a, [Idle EXCEPT !.pc = pc])
    PROVE  AdvTyped'
<1>1. [Idle EXCEPT !.pc = pc] \in AdvState
  BY IdleTyped DEF AdvState
<1>2. adv' \in [Advancers -> AdvState]
  BY <1>1 DEF AdvTyped, Goes
<1>3. QED BY <1>2 DEF AdvTyped, Goes, Idle, LoopTyped

LEMMA LeavesTyped ==
    ASSUME AdvTyped, NEW a \in Advancers, NEW t, NEW pc \in {"check", "cancel", "schedule"},
           Leaves(a, t, pc), pc # "check" => adv[a].todo \ {t} # {}
    PROVE  AdvTyped'
<1> DEFINE next == [adv[a] EXCEPT !.pc = pc, !.todo = @ \ {t}, !.cur = NoTask, !.created = FALSE]
<1>1. next \in AdvState
  BY DEF AdvTyped, AdvState
<1>2. adv' = [adv EXCEPT ![a] = next]
  BY DEF Leaves, Goes
<1>3. adv' \in [Advancers -> AdvState]
  BY <1>1, <1>2 DEF AdvTyped
<1>4. LoopTyped(a)'
  BY <1>2 DEF AdvTyped, AdvState, LoopTyped
<1>5. \A b \in Advancers : b # a => LoopTyped(b)'
  BY <1>2 DEF AdvTyped, LoopTyped
<1>6. QED BY <1>3, <1>4, <1>5 DEF AdvTyped

LEMMA LeavesLastTyped ==
    ASSUME AdvTyped, NEW a \in Advancers, NEW t, NEW pc \in {"cancel", "schedule"},
           LeavesLast(a, t, pc)
    PROVE  AdvTyped'
BY ReturnsTyped, LeavesTyped DEF LeavesLast

(* A goroutine goes to a state that is typed by itself. *)
LEMMA GoesTyped ==
    ASSUME AdvTyped, NEW a \in Advancers, NEW next \in AdvState, Goes(a, next),
           next.pc \in {"write", "assign", "enqueue"} <=> next.cur # NoTask,
           next.cur # NoTask => next.cur \in next.todo,
           next.pc \in {"cancel", "schedule"} => next.todo # {}
    PROVE  AdvTyped'
<1>1. adv' \in [Advancers -> AdvState]
  BY DEF AdvTyped, Goes
<1>2. QED BY <1>1 DEF AdvTyped, Goes, LoopTyped

LEMMA SpendTyped ==
    ASSUME budget \in [Kinds -> Nat], NEW k \in Kinds, Spend(k)
    PROVE  budget' \in [Kinds -> Nat]
BY DEF Spend

LEMMA StoreErrTyped ==
    ASSUME budget \in [Kinds -> Nat], UNCHANGED budget \/ Spend("storeErr")
    PROVE  budget' \in [Kinds -> Nat]
BY SpendTyped DEF Kinds

LEMMA TypeInit == Init => StatusesTyped /\ AdvTyped
<1> SUFFICES ASSUME Init PROVE StatusesTyped /\ AdvTyped
  OBVIOUS
<1>1. StatusesTyped
  BY WorkflowAssumption DEF Init, StatusesTyped, TaskStatus, JobStatus
<1>2. AdvTyped
  BY IdleTyped DEF Init, AdvTyped, Idle, LoopTyped
<1>3. QED BY <1>1, <1>2

(* One step of AdvanceWorkflow, by a. *)
LEMMA AdvanceTyped ==
    ASSUME StatusesTyped, AdvTyped, NEW a \in Advancers, Advance(a)
    PROVE  StatusesTyped' /\ AdvTyped'
<1>0. adv[a] \in AdvState /\ LoopTyped(a)
  BY DEF AdvTyped
<1> USE DEF At
<1>1. CASE LoadWorkflow(a)
  BY <1>1, ReturnsTyped, StartsTyped DEF LoadWorkflow, StatusesTyped
<1>2. CASE LoadTasks(a)
  <2> DEFINE next == [Idle EXCEPT !.pc = "check", !.seen = task,
                                  !.todo = {t \in Tasks : task[t] = "RUNNING"}]
  <2>1. next \in AdvState
    BY IdleTyped DEF AdvState, StatusesTyped
  <2>2. next.pc = "check" /\ next.cur = NoTask
    BY DEF Idle
  <2>3. AdvTyped'
    BY <1>2, <2>1, <2>2, GoesTyped DEF LoadTasks
  <2>4. QED BY <1>2, <2>3 DEF LoadTasks, StatusesTyped
<1>3. ASSUME NEW t \in Tasks, CheckJob(a, t) PROVE StatusesTyped' /\ AdvTyped'
  <2>1. CASE job[t] \in Finished
    <3> DEFINE next == [adv[a] EXCEPT !.pc = "write", !.cur = t, !.seen[t] = job[t]]
    <3>1. next \in AdvState
      BY <1>0, <2>1 DEF AdvState, TaskStatus
    <3>2. next.pc = "write" /\ next.cur = t /\ next.todo = adv[a].todo
      BY <1>0 DEF AdvState
    <3>3. AdvTyped'
      BY <1>3, <2>1, <3>1, <3>2, WorkflowAssumption, GoesTyped DEF CheckJob
    <3>4. QED BY <1>3, <3>3 DEF CheckJob, StatusesTyped
  <2>2. CASE job[t] \notin Finished
    BY <1>3, <2>2, LeavesTyped DEF CheckJob, StatusesTyped
  <2>3. QED BY <2>1, <2>2
<1>4. CASE WriteOutcome(a)
  <2>1. adv[a].cur \in Tasks /\ adv[a].seen[adv[a].cur] \in TaskStatus
    BY <1>0, <1>4 DEF WriteOutcome, AdvState, LoopTyped
  <2>2. budget' \in [Kinds -> Nat] /\ task' \in [Tasks -> TaskStatus]
    BY <1>4, <2>1, StoreErrTyped DEF WriteOutcome, UpdateTask, StatusesTyped
  <2>3. AdvTyped'
    BY <1>4, LeavesTyped DEF WriteOutcome
  <2>4. QED BY <1>4, <2>2, <2>3 DEF WriteOutcome, StatusesTyped
<1>5. CASE FailWorkflow(a)
  <2>1. StatusesTyped'
    BY <1>5, StoreErrTyped DEF FailWorkflow, UpdateStatus, StatusesTyped, TaskStatus, Finished
  <2> DEFINE next == [adv[a] EXCEPT !.pc = "cancel", !.todo = Seen(a, "PENDING")]
  <2>2. next \in AdvState
    BY <1>0 DEF AdvState, Seen
  <2>3. next.pc = "cancel" /\ next.cur = NoTask /\ next.todo = Seen(a, "PENDING")
    BY <1>0, <1>5 DEF FailWorkflow, Checked, AdvState, LoopTyped
  <2>4. AdvTyped'
    BY <1>5, <2>2, <2>3, ReturnsTyped, GoesTyped DEF FailWorkflow
  <2>5. QED BY <2>1, <2>4
<1>6. ASSUME NEW t \in Tasks, CancelPending(a, t) PROVE StatusesTyped' /\ AdvTyped'
  <2>1. budget' \in [Kinds -> Nat] /\ task' \in [Tasks -> TaskStatus]
    BY <1>6, StoreErrTyped
       DEF CancelPending, UpdateTask, StatusesTyped, TaskStatus, Finished
  <2>2. AdvTyped'
    BY <1>6, LeavesLastTyped DEF CancelPending
  <2>3. QED BY <1>6, <2>1, <2>2 DEF CancelPending, StatusesTyped
<1>7. CASE SucceedWorkflow(a)
  <2>1. StatusesTyped'
    BY <1>7, StoreErrTyped DEF SucceedWorkflow, UpdateStatus, StatusesTyped, TaskStatus, Finished
  <2>2. QED BY <1>7, <2>1, ReturnsTyped DEF SucceedWorkflow
<1>8. CASE FindReady(a)
  <2> DEFINE next == [adv[a] EXCEPT !.pc = "schedule", !.todo = ReadyTasks]
  <2>1. next \in AdvState
    BY <1>0 DEF AdvState, ReadyTasks
  <2>2. next.pc = "schedule" /\ next.cur = NoTask /\ next.todo = ReadyTasks
    BY <1>0, <1>8 DEF FindReady, Checked, AdvState, LoopTyped
  <2>3. AdvTyped'
    BY <1>8, <2>1, <2>2, ReturnsTyped, GoesTyped DEF FindReady
  <2>4. QED BY <1>8, <2>3 DEF FindReady, StatusesTyped
<1>9. ASSUME NEW t \in Tasks, CreateTaskJob(a, t) PROVE StatusesTyped' /\ AdvTyped'
  <2> DEFINE next == [adv[a] EXCEPT !.pc = "assign", !.cur = t, !.created = (job[t] = "ABSENT")]
  <2>1. next \in AdvState
    BY <1>0 DEF AdvState
  <2>2. next.pc = "assign" /\ next.cur = t /\ next.todo = adv[a].todo
    BY <1>0 DEF AdvState
  <2>3. AdvTyped'
    BY <1>9, <2>1, <2>2, WorkflowAssumption, GoesTyped DEF CreateTaskJob
  <2>4. QED BY <1>9, <2>3 DEF CreateTaskJob, StatusesTyped, JobStatus
<1>10. CASE AssignJob(a)
  <2>1. adv[a].cur # NoTask /\ adv[a].cur \in adv[a].todo
    BY <1>0, <1>10 DEF AssignJob, LoopTyped
  <2> DEFINE next == [adv[a] EXCEPT !.pc = "enqueue"]
  <2>2. /\ next \in AdvState
        /\ next.pc = "enqueue" /\ next.cur = adv[a].cur /\ next.todo = adv[a].todo
    BY <1>0 DEF AdvState
  <2>3. AdvTyped'
    BY <1>10, <2>1, <2>2, GoesTyped, LeavesLastTyped DEF AssignJob
  <2>4. QED BY <1>10, <2>3 DEF AssignJob, StatusesTyped, TaskStatus
<1>11. CASE EnqueueJob(a)
  <2>1. adv[a].cur \in Tasks
    BY <1>0, <1>11 DEF EnqueueJob, AdvState, LoopTyped
  <2>2. StatusesTyped'
    BY <1>11, <2>1, StoreErrTyped DEF EnqueueJob, StatusesTyped
  <2>3. QED BY <1>11, <2>2, LeavesLastTyped DEF EnqueueJob
<1>12. QED BY <1>1, <1>2, <1>3, <1>4, <1>5, <1>6, <1>7, <1>8, <1>9, <1>10, <1>11 DEF Advance

LEMMA StumbleTyped ==
    ASSUME StatusesTyped, AdvTyped, NEW a \in Advancers, Stumble(a)
    PROVE  StatusesTyped' /\ AdvTyped'
<1>1. budget' \in [Kinds -> Nat]
  BY StoreErrTyped DEF Stumble, CheckJobFails, CreateTaskJobFails, AssignJobFails,
                       AdvanceFails, StatusesTyped
<1>2. ASSUME NEW t \in Tasks, CheckJobFails(a, t) PROVE StatusesTyped' /\ AdvTyped'
  BY <1>1, <1>2, LeavesTyped DEF CheckJobFails, StatusesTyped
<1>3. ASSUME NEW t \in Tasks, CreateTaskJobFails(a, t) PROVE StatusesTyped' /\ AdvTyped'
  BY <1>1, <1>3, LeavesLastTyped DEF CreateTaskJobFails, StatusesTyped, JobStatus
<1>4. CASE AssignJobFails(a)
  BY <1>1, <1>4, LeavesLastTyped DEF AssignJobFails, StatusesTyped, TaskStatus
<1>5. CASE AdvanceFails(a)
  BY <1>1, <1>5, ReturnsTyped DEF AdvanceFails, StatusesTyped
<1>6. QED BY <1>2, <1>3, <1>4, <1>5 DEF Stumble

LEMMA EnvironmentTyped ==
    ASSUME StatusesTyped, AdvTyped, Environment
    PROVE  StatusesTyped' /\ AdvTyped'
<1> USE DEF StatusesTyped, TaskStatus, JobStatus, Finished
<1>1. AdvTyped'
  <2>1. CASE CrashApi
    BY <2>1, IdleTyped DEF CrashApi, AdvTyped, Idle, LoopTyped
  <2>2. CASE UNCHANGED adv
    BY <2>2 DEF AdvTyped, LoopTyped
  <2>3. QED BY <2>1, <2>2 DEF Environment, CancelWorkflow, JobEnds, CancelJob, LateReport, RetryJob
<1>2. budget' \in [Kinds -> Nat]
  BY SpendTyped DEF Environment, CancelWorkflow, JobEnds, CancelJob, LateReport, RetryJob,
                    CrashApi, Kinds
<1>3. QED BY <1>1, <1>2 DEF Environment, CancelWorkflow, JobEnds, CancelJob, LateReport,
                            RetryJob, CrashApi

LEMMA TypeStep == StatusesTyped /\ AdvTyped /\ [Next]_vars => StatusesTyped' /\ AdvTyped'
<1> SUFFICES ASSUME StatusesTyped, AdvTyped, [Next]_vars PROVE StatusesTyped' /\ AdvTyped'
  OBVIOUS
<1>0. "request" \in Advancers /\ "poller" \in Advancers
  BY DEF Advancers
<1>1. CASE CreateWorkflow
  BY <1>0, <1>1, StartsTyped DEF CreateWorkflow, StatusesTyped, TaskStatus
<1>2. CASE StartWorkflow
  <2>1. AdvTyped'
    BY <1>0, <1>2, StartsTyped, ReturnsTyped DEF StartWorkflow
  <2>2. QED BY <1>2, <2>1, StoreErrTyped
            DEF StartWorkflow, UpdateStatus, StatusesTyped, TaskStatus
<1>3. CASE Poll
  BY <1>0, <1>3, StartsTyped DEF Poll, StatusesTyped
<1>4. CASE UNCHANGED vars
  BY <1>4 DEF vars, StatusesTyped, AdvTyped, LoopTyped
<1>5. QED BY <1>1, <1>2, <1>3, <1>4, AdvanceTyped, StumbleTyped, EnvironmentTyped DEF Next

(* Every status and every goroutine keeps its type, and a goroutine that   *)
(* is about to write for a task has one in hand.                           *)
THEOREM WorkflowTyped == Spec => []TypeOK
<1>1. StatusesTyped /\ AdvTyped <=> TypeOK
  BY DEF StatusesTyped, AdvTyped, TypeOK
<1>2. QED BY <1>1, TypeInit, TypeStep, PTL DEF Spec

-----------------------------------------------------------------------------
(* Success.  A job that succeeded stays so, whatever comes. *)
LEMMA SuccessOfJobIsFinal ==
    ASSUME StatusesTyped, [Next]_vars, NEW t \in Tasks, job[t] = "SUCCEEDED"
    PROVE  job'[t] = "SUCCEEDED"
<1> USE DEF StatusesTyped
<1>1. ASSUME NEW a \in Advancers, Advance(a) PROVE job'[t] = "SUCCEEDED"
  BY <1>1 DEF Advance, LoadWorkflow, LoadTasks, CheckJob, WriteOutcome, FailWorkflow,
              CancelPending, SucceedWorkflow, FindReady, CreateTaskJob, AssignJob, EnqueueJob
<1>2. ASSUME NEW a \in Advancers, Stumble(a) PROVE job'[t] = "SUCCEEDED"
  BY <1>2 DEF Stumble, CheckJobFails, CreateTaskJobFails, AssignJobFails, AdvanceFails
<1>3. CASE Environment
  BY <1>3 DEF Environment, CancelWorkflow, JobEnds, CancelJob, LateReport, RetryJob, CrashApi
<1>4. QED BY <1>1, <1>2, <1>3 DEF Next, CreateWorkflow, StartWorkflow, Poll, vars

(* A job comes into being by the hand of a goroutine that schedules it. *)
LEMMA JobsAreCreated ==
    ASSUME StatusesTyped, [Next]_vars, NEW t \in Tasks, job[t] = "ABSENT", job'[t] # "ABSENT"
    PROVE  \E a \in Advancers : CreateTaskJob(a, t) \/ CreateTaskJobFails(a, t)
<1> USE DEF StatusesTyped
<1>1. ASSUME NEW a \in Advancers, Advance(a) PROVE CreateTaskJob(a, t)
  BY <1>1 DEF Advance, LoadWorkflow, LoadTasks, CheckJob, WriteOutcome, FailWorkflow,
              CancelPending, SucceedWorkflow, FindReady, CreateTaskJob, AssignJob, EnqueueJob
<1>2. ASSUME NEW a \in Advancers, Stumble(a) PROVE CreateTaskJobFails(a, t)
  BY <1>2 DEF Stumble, CheckJobFails, CreateTaskJobFails, AssignJobFails, AdvanceFails
<1>3. ~Environment
  BY DEF Environment, CancelWorkflow, JobEnds, CancelJob, LateReport, RetryJob, CrashApi
<1>4. QED BY <1>1, <1>2, <1>3 DEF Next, CreateWorkflow, StartWorkflow, Poll, vars

BackedInv == StatusesTyped /\ AdvTyped /\ SuccessIsBacked

(* A goroutine that goes to a state backed by what the jobs are now leaves *)
(* all of them backed.                                                     *)
LEMMA GoesBacked ==
    ASSUME BackedInv, [Next]_vars, NEW a \in Advancers, NEW next, Goes(a, next),
           \A t \in Tasks : next.seen[t] = "SUCCEEDED" => job[t] = "SUCCEEDED",
           next.pc \in {"schedule", "assign", "enqueue"} =>
             \A t \in next.todo : \A d \in Deps[t] : d \in Tasks /\ job[d] = "SUCCEEDED"
    PROVE  \A b \in Advancers : Backed(b)'
<1>1. \A t \in Tasks : job[t] = "SUCCEEDED" => job'[t] = "SUCCEEDED"
  BY SuccessOfJobIsFinal DEF BackedInv
<1>2. \A b \in Advancers : \A t \in adv[b].todo : Deps[t] \subseteq Tasks
  BY WorkflowAssumption DEF BackedInv, AdvTyped, AdvState
<1>3. ASSUME NEW b \in Advancers, b # a PROVE Backed(b)'
  <2>1. adv'[b] = adv[b] /\ Backed(b)
    BY <1>3 DEF Goes, BackedInv, AdvTyped, SuccessIsBacked
  <2>2. QED BY <1>1, <1>2, <2>1 DEF Backed
<1>4. Backed(a)'
  <2>1. adv'[a] = next
    BY DEF Goes, BackedInv, AdvTyped
  <2>2. QED BY <1>1, <2>1 DEF Backed
<1>5. QED BY <1>3, <1>4

LEMMA OthersBacked ==
    ASSUME BackedInv, [Next]_vars, UNCHANGED adv
    PROVE  \A b \in Advancers : Backed(b)'
<1>1. \A t \in Tasks : job[t] = "SUCCEEDED" => job'[t] = "SUCCEEDED"
  BY SuccessOfJobIsFinal DEF BackedInv
<1>2. \A b \in Advancers : \A t \in adv[b].todo : Deps[t] \subseteq Tasks
  BY WorkflowAssumption DEF BackedInv, AdvTyped, AdvState
<1>3. QED BY <1>1, <1>2 DEF Backed, BackedInv, SuccessIsBacked

LEMMA ReturnsBacked ==
    ASSUME BackedInv, [Next]_vars, NEW a \in Advancers, Returns(a)
    PROVE  \A b \in Advancers : Backed(b)'
BY GoesBacked DEF Returns, Idle

LEMMA LeavesBacked ==
    ASSUME BackedInv, [Next]_vars, NEW a \in Advancers, NEW t,
           NEW pc \in {"check", "cancel", "schedule"}, Leaves(a, t, pc),
           pc = "schedule" => adv[a].pc \in {"schedule", "assign", "enqueue"}
    PROVE  \A b \in Advancers : Backed(b)'
<1> DEFINE next == [adv[a] EXCEPT !.pc = pc, !.todo = @ \ {t}, !.cur = NoTask, !.created = FALSE]
<1>1. next.pc = pc /\ next.seen = adv[a].seen /\ next.todo = adv[a].todo \ {t}
  BY DEF BackedInv, AdvTyped, AdvState
<1>2. Backed(a) /\ \A u \in adv[a].todo : Deps[u] \subseteq Tasks
  BY WorkflowAssumption DEF BackedInv, AdvTyped, AdvState, SuccessIsBacked
<1>3. Goes(a, next)
  BY DEF Leaves
<1>4. \A u \in Tasks : next.seen[u] = "SUCCEEDED" => job[u] = "SUCCEEDED"
  BY <1>1, <1>2 DEF Backed
<1>5. next.pc \in {"schedule", "assign", "enqueue"} =>
        \A u \in next.todo : \A d \in Deps[u] : d \in Tasks /\ job[d] = "SUCCEEDED"
  BY <1>1, <1>2 DEF Backed
<1> HIDE DEF next
<1>6. QED BY <1>3, <1>4, <1>5, GoesBacked

LEMMA LeavesLastBacked ==
    ASSUME BackedInv, [Next]_vars, NEW a \in Advancers, NEW t,
           NEW pc \in {"cancel", "schedule"}, LeavesLast(a, t, pc),
           pc = "schedule" => adv[a].pc \in {"schedule", "assign", "enqueue"}
    PROVE  \A b \in Advancers : Backed(b)'
BY ReturnsBacked, LeavesBacked DEF LeavesLast

(* The tasks' part: SUCCEEDED is written from a snapshot that has it. *)
LEMMA TasksBacked ==
    ASSUME BackedInv, [Next]_vars, NEW t \in Tasks, task'[t] = "SUCCEEDED"
    PROVE  job'[t] = "SUCCEEDED"
<1>1. SUFFICES job[t] = "SUCCEEDED"
  BY SuccessOfJobIsFinal DEF BackedInv
<1>2. SUFFICES ASSUME task[t] # "SUCCEEDED" PROVE job[t] = "SUCCEEDED"
  BY DEF BackedInv, SuccessIsBacked
<1>3. PICK a \in Advancers : WriteOutcome(a)
  BY <1>2 DEF Next, CreateWorkflow, StartWorkflow, Poll, Advance, LoadWorkflow, LoadTasks,
              CheckJob, FailWorkflow, CancelPending, SucceedWorkflow, FindReady, CreateTaskJob,
              AssignJob, EnqueueJob, UpdateTask, Stumble, CheckJobFails, CreateTaskJobFails,
              AssignJobFails, AdvanceFails, Environment, CancelWorkflow, JobEnds, CancelJob,
              LateReport, RetryJob, CrashApi, vars, BackedInv, StatusesTyped
<1>4. t = adv[a].cur /\ adv[a].seen[t] = "SUCCEEDED"
  BY <1>2, <1>3 DEF WriteOutcome, UpdateTask, BackedInv, StatusesTyped
<1>5. QED BY <1>4 DEF BackedInv, SuccessIsBacked, Backed

LEMMA AdvanceBacked ==
    ASSUME BackedInv, [Next]_vars, NEW a \in Advancers, Advance(a)
    PROVE  \A b \in Advancers : Backed(b)'
<1>0. adv[a] \in AdvState /\ Backed(a)
  BY DEF BackedInv, AdvTyped, SuccessIsBacked
<1>1. \A u \in adv[a].todo : Deps[u] \subseteq Tasks
  BY <1>0, WorkflowAssumption DEF AdvState
<1> USE DEF At
<1>2. CASE LoadWorkflow(a)
  BY <1>2, ReturnsBacked, GoesBacked DEF LoadWorkflow, Idle
<1>3. CASE LoadTasks(a)
  <2> DEFINE next == [Idle EXCEPT !.pc = "check", !.seen = task,
                                  !.todo = {t \in Tasks : task[t] = "RUNNING"}]
  <2>1. next.pc = "check" /\ next.seen = task
    BY DEF Idle
  <2>2. Goes(a, next)
    BY <1>3 DEF LoadTasks
  <2> HIDE DEF next
  <2>3. QED BY <2>1, <2>2, GoesBacked DEF BackedInv, SuccessIsBacked
<1>4. ASSUME NEW t \in Tasks, CheckJob(a, t) PROVE \A b \in Advancers : Backed(b)'
  <2>1. CASE job[t] \in Finished
    <3> DEFINE next == [adv[a] EXCEPT !.pc = "write", !.cur = t, !.seen[t] = job[t]]
    <3>1. next.pc = "write" /\ \A u \in Tasks : next.seen[u] \in {adv[a].seen[u], job[u]}
      BY <1>0 DEF AdvState
    <3>2. \A u \in Tasks : next.seen[u] = "SUCCEEDED" => job[u] = "SUCCEEDED"
      BY <1>0, <3>1 DEF Backed
    <3>3. Goes(a, next)
      BY <1>4, <2>1 DEF CheckJob
    <3> HIDE DEF next
    <3>4. QED BY <3>1, <3>2, <3>3, GoesBacked
  <2>2. CASE job[t] \notin Finished
    BY <1>4, <2>2, LeavesBacked DEF CheckJob
  <2>3. QED BY <2>1, <2>2
<1>5. CASE WriteOutcome(a)
  BY <1>5, LeavesBacked DEF WriteOutcome
<1>6. CASE FailWorkflow(a)
  <2> DEFINE next == [adv[a] EXCEPT !.pc = "cancel", !.todo = Seen(a, "PENDING")]
  <2>1. next.pc = "cancel" /\ next.seen = adv[a].seen
    BY <1>0 DEF AdvState
  <2>2. Returns(a) \/ Goes(a, next)
    BY <1>6 DEF FailWorkflow
  <2> HIDE DEF next
  <2>3. QED BY <1>0, <2>1, <2>2, ReturnsBacked, GoesBacked DEF Backed
<1>7. ASSUME NEW t \in Tasks, CancelPending(a, t) PROVE \A b \in Advancers : Backed(b)'
  BY <1>7, LeavesLastBacked DEF CancelPending
<1>8. CASE SucceedWorkflow(a)
  BY <1>8, ReturnsBacked DEF SucceedWorkflow
<1>9. CASE FindReady(a)
  <2> DEFINE next == [adv[a] EXCEPT !.pc = "schedule", !.todo = ReadyTasks]
  <2>1. next.seen = adv[a].seen /\ next.todo = ReadyTasks
    BY <1>0 DEF AdvState
  <2>2. \A t \in ReadyTasks : \A d \in Deps[t] : d \in Tasks /\ job[d] = "SUCCEEDED"
    BY WorkflowAssumption DEF ReadyTasks, BackedInv, SuccessIsBacked
  <2>3. Returns(a) \/ Goes(a, next)
    BY <1>9 DEF FindReady
  <2> HIDE DEF next
  <2>4. QED BY <1>0, <2>1, <2>2, <2>3, ReturnsBacked, GoesBacked DEF Backed
<1>10. ASSUME NEW t \in Tasks, CreateTaskJob(a, t) PROVE \A b \in Advancers : Backed(b)'
  <2> DEFINE next == [adv[a] EXCEPT !.pc = "assign", !.cur = t, !.created = (job[t] = "ABSENT")]
  <2>1. next.seen = adv[a].seen /\ next.todo = adv[a].todo
    BY <1>0 DEF AdvState
  <2>2. Goes(a, next) /\ adv[a].pc = "schedule"
    BY <1>10 DEF CreateTaskJob
  <2> HIDE DEF next
  <2>3. QED BY <1>0, <1>1, <2>1, <2>2, GoesBacked DEF Backed
<1>11. CASE AssignJob(a)
  <2> DEFINE next == [adv[a] EXCEPT !.pc = "enqueue"]
  <2>1. next.seen = adv[a].seen /\ next.todo = adv[a].todo
    BY <1>0 DEF AdvState
  <2>2. adv[a].pc = "assign" /\ (Goes(a, next) \/ LeavesLast(a, adv[a].cur, "schedule"))
    BY <1>11 DEF AssignJob
  <2> HIDE DEF next
  <2>3. QED BY <1>0, <1>1, <2>1, <2>2, GoesBacked, LeavesLastBacked DEF Backed
<1>12. CASE EnqueueJob(a)
  BY <1>12, LeavesLastBacked DEF EnqueueJob
<1>13. QED BY <1>2, <1>3, <1>4, <1>5, <1>6, <1>7, <1>8, <1>9, <1>10, <1>11, <1>12 DEF Advance

LEMMA StepBacked ==
    ASSUME BackedInv, [Next]_vars
    PROVE  \A b \in Advancers : Backed(b)'
<1>0. "request" \in Advancers /\ "poller" \in Advancers
  BY DEF Advancers
<1> USE DEF At
<1>1. CASE CreateWorkflow \/ StartWorkflow \/ Poll
  BY <1>0, <1>1, GoesBacked, ReturnsBacked DEF CreateWorkflow, StartWorkflow, Poll, Idle
<1>2. ASSUME NEW a \in Advancers, Stumble(a) PROVE \A b \in Advancers : Backed(b)'
  BY <1>2, LeavesBacked, LeavesLastBacked, ReturnsBacked
     DEF Stumble, CheckJobFails, CreateTaskJobFails, AssignJobFails, AdvanceFails
<1>3. CASE CrashApi
  BY <1>3 DEF CrashApi, Idle, Backed
<1>4. CASE UNCHANGED adv
  BY <1>4, OthersBacked
<1>5. CASE Environment
  BY <1>3, <1>4, <1>5 DEF Environment, CancelWorkflow, JobEnds, CancelJob, LateReport, RetryJob
<1>6. QED BY <1>1, <1>2, <1>4, <1>5, AdvanceBacked DEF Next, vars

SuccessInv == BackedInv /\ DependenciesFirst /\ SuccessIsTotal

LEMMA SuccessInit == Init => SuccessInv
<1> SUFFICES ASSUME Init PROVE SuccessInv
  OBVIOUS
<1>1. BackedInv
  BY TypeInit DEF Init, BackedInv, SuccessIsBacked, Backed, Idle
<1>2. QED BY <1>1 DEF Init, SuccessInv, DependenciesFirst, SuccessIsTotal

LEMMA SuccessStep == SuccessInv /\ [Next]_vars => SuccessInv'
<1> SUFFICES ASSUME SuccessInv, [Next]_vars PROVE SuccessInv'
  OBVIOUS
<1>1. BackedInv'
  BY TypeStep, TasksBacked, StepBacked DEF SuccessInv, BackedInv, SuccessIsBacked
<1>2. \A t \in Tasks : job[t] = "SUCCEEDED" => job'[t] = "SUCCEEDED"
  BY SuccessOfJobIsFinal DEF SuccessInv, BackedInv
<1>3. DependenciesFirst'
  <2> SUFFICES ASSUME NEW t \in Tasks, job'[t] # "ABSENT", NEW d \in Deps[t]
               PROVE  job'[d] = "SUCCEEDED"
    BY DEF DependenciesFirst
  <2>1. job[d] = "SUCCEEDED" /\ d \in Tasks => job'[d] = "SUCCEEDED"
    BY <1>2
  <2>2. d \in Tasks
    BY <2>1, WorkflowAssumption
  <2>3. CASE job[t] # "ABSENT"
    BY <2>1, <2>2, <2>3 DEF SuccessInv, DependenciesFirst
  <2>4. CASE job[t] = "ABSENT"
    <3>1. PICK a \in Advancers : CreateTaskJob(a, t) \/ CreateTaskJobFails(a, t)
      BY <2>4, JobsAreCreated DEF SuccessInv, BackedInv
    <3>2. Backed(a) /\ adv[a].pc = "schedule" /\ t \in adv[a].todo
      BY <3>1 DEF CreateTaskJob, CreateTaskJobFails, At, SuccessInv, BackedInv, SuccessIsBacked
    <3>3. QED BY <2>1, <2>2, <3>2 DEF Backed
  <2>5. QED BY <2>3, <2>4
<1>4. SuccessIsTotal'
  <2>1. SUFFICES ASSUME wf' = "SUCCEEDED", NEW t \in Tasks PROVE job[t] = "SUCCEEDED"
    BY <1>2 DEF SuccessIsTotal
  <2>2. CASE wf = "SUCCEEDED"
    BY <2>2 DEF SuccessInv, SuccessIsTotal
  <2>3. CASE wf # "SUCCEEDED"
    <3>1. PICK a \in Advancers : SucceedWorkflow(a)
      BY <2>1, <2>3 DEF Next, CreateWorkflow, StartWorkflow, Poll, Advance, LoadWorkflow,
           LoadTasks, CheckJob, WriteOutcome, FailWorkflow, CancelPending, FindReady,
           CreateTaskJob, AssignJob, EnqueueJob, UpdateStatus, Stumble, CheckJobFails,
           CreateTaskJobFails, AssignJobFails, AdvanceFails, Environment, CancelWorkflow,
           JobEnds, CancelJob, LateReport, RetryJob, CrashApi, vars
    <3>2. adv[a].seen[t] = "SUCCEEDED"
      BY <3>1 DEF SucceedWorkflow, Seen
    <3>3. QED BY <3>2 DEF SuccessInv, BackedInv, SuccessIsBacked, Backed
  <2>4. QED BY <2>2, <2>3
<1>5. QED BY <1>1, <1>3, <1>4 DEF SuccessInv

(* No task's job is created before the jobs of all its dependencies        *)
(* succeeded, for any graph, under cancellations, retries, store errors    *)
(* and crashes of the API process.                                         *)
THEOREM DependenciesComeFirst == Spec => []DependenciesFirst
<1>1. SuccessInv => DependenciesFirst
  BY DEF SuccessInv
<1>2. QED BY <1>1, SuccessInit, SuccessStep, PTL DEF Spec

(* A workflow that says SUCCEEDED has had all its jobs succeed. *)
THEOREM SuccessMeansAll == Spec => []SuccessIsTotal
<1>1. SuccessInv => SuccessIsTotal
  BY DEF SuccessInv
<1>2. QED BY <1>1, SuccessInit, SuccessStep, PTL DEF Spec

-----------------------------------------------------------------------------
(* Verdicts.  Without retries a job that failed stays so, too. *)
NoRetries(b) == b["retryJob"] = 0

LEMMA NoRetriesStep ==
    ASSUME StatusesTyped, NoRetries(budget), [Next]_vars
    PROVE  NoRetries(budget') /\ \A t \in Tasks : ~RetryJob(t)
<1> USE DEF StatusesTyped, NoRetries
<1>1. ASSUME NEW k \in Kinds, Spend(k) PROVE NoRetries(budget')
  BY <1>1 DEF Spend, Kinds
<1>2. ASSUME NEW a \in Advancers, Advance(a) PROVE NoRetries(budget')
  BY <1>1, <1>2 DEF Advance, LoadWorkflow, LoadTasks, CheckJob, WriteOutcome, FailWorkflow,
     CancelPending, SucceedWorkflow, FindReady, CreateTaskJob, AssignJob, EnqueueJob,
     UpdateTask, UpdateStatus, Kinds
<1>3. ASSUME NEW a \in Advancers, Stumble(a) PROVE NoRetries(budget')
  BY <1>1, <1>3 DEF Stumble, CheckJobFails, CreateTaskJobFails, AssignJobFails, AdvanceFails,
     Kinds
<1>4. ASSUME Environment PROVE NoRetries(budget')
  <2>1. UNCHANGED budget \/ \E k \in Kinds : Spend(k)
    BY <1>4 DEF Environment, CancelWorkflow, JobEnds, CancelJob, LateReport, RetryJob, CrashApi,
       Kinds
  <2>2. QED BY <1>1, <2>1
<1>5. ASSUME StartWorkflow PROVE NoRetries(budget')
  <2>1. UNCHANGED budget \/ Spend("storeErr")
    BY <1>5 DEF StartWorkflow, UpdateStatus
  <2>2. QED BY <1>1, <2>1 DEF Kinds
<1>6. \A t \in Tasks : ~RetryJob(t)
  BY DEF RetryJob, Spend
<1>7. QED BY <1>2, <1>3, <1>4, <1>5, <1>6 DEF Next, CreateWorkflow, Poll, vars

LEMMA FailureOfJobIsFinal ==
    ASSUME StatusesTyped, NoRetries(budget), [Next]_vars, NEW t \in Tasks, job[t] = "FAILED"
    PROVE  job'[t] = "FAILED"
<1> USE DEF StatusesTyped
<1>1. ASSUME NEW a \in Advancers, Advance(a) PROVE job'[t] = "FAILED"
  BY <1>1 DEF Advance, LoadWorkflow, LoadTasks, CheckJob, WriteOutcome, FailWorkflow,
              CancelPending, SucceedWorkflow, FindReady, CreateTaskJob, AssignJob, EnqueueJob
<1>2. ASSUME NEW a \in Advancers, Stumble(a) PROVE job'[t] = "FAILED"
  BY <1>2 DEF Stumble, CheckJobFails, CreateTaskJobFails, AssignJobFails, AdvanceFails
<1>3. CASE Environment
  BY <1>3, NoRetriesStep DEF Environment, CancelWorkflow, JobEnds, CancelJob, LateReport, CrashApi
<1>4. QED BY <1>1, <1>2, <1>3 DEF Next, CreateWorkflow, StartWorkflow, Poll, vars

(* FAILED comes into a snapshot, or into a task's row, from a task's row,  *)
(* a snapshot or the job alone.                                            *)
LEMMA SnapshotStep ==
    ASSUME AdvTyped, NEW a \in Advancers, NEW b \in Advancers, NEW t \in Tasks,
           Advance(a) \/ Stumble(a), adv'[b].seen[t] = "FAILED"
    PROVE  adv[b].seen[t] = "FAILED" \/ task[t] = "FAILED" \/ job[t] = "FAILED"
<1>0. adv \in [Advancers -> AdvState] /\ adv[b].seen \in [Tasks -> TaskStatus]
  BY DEF AdvTyped, AdvState
<1> DEFINE Result == adv[b].seen[t] = "FAILED" \/ task[t] = "FAILED" \/ job[t] = "FAILED"
<1>1. ASSUME NEW next, Goes(a, next), next.seen[t] = "FAILED" => Result PROVE Result
  BY <1>0, <1>1 DEF Goes
<1>2. ASSUME Returns(a) PROVE Result
  <2>1. Idle.seen[t] # "FAILED"
    BY DEF Idle
  <2>2. Goes(a, Idle)
    BY <1>2 DEF Returns
  <2>3. QED BY <1>1, <2>1, <2>2
<1>3. ASSUME NEW next, Goes(a, next), next.seen = adv[a].seen PROVE Result
  BY <1>0, <1>3 DEF Goes
<1>4. ASSUME NEW u, NEW pc, Leaves(a, u, pc) PROVE Result
  <2> DEFINE next == [adv[a] EXCEPT !.pc = pc, !.todo = @ \ {u}, !.cur = NoTask, !.created = FALSE]
  <2>1. Goes(a, next) /\ next.seen = adv[a].seen
    BY <1>0, <1>4 DEF Leaves, AdvState
  <2> HIDE DEF next
  <2>2. QED BY <1>3, <2>1
<1>5. ASSUME NEW u, NEW pc, LeavesLast(a, u, pc) PROVE Result
  BY <1>2, <1>4, <1>5 DEF LeavesLast
<1>6. ASSUME NEW pc, Goes(a, [Idle EXCEPT !.pc = pc]) PROVE Result
  <2>1. [Idle EXCEPT !.pc = pc].seen[t] # "FAILED"
    BY DEF Idle
  <2>2. QED BY <1>1, <1>6, <2>1
<1>7. CASE LoadTasks(a)
  <2> DEFINE next == [Idle EXCEPT !.pc = "check", !.seen = task,
                                  !.todo = {u \in Tasks : task[u] = "RUNNING"}]
  <2>1. Goes(a, next) /\ next.seen = task
    BY <1>7 DEF LoadTasks, Idle
  <2> HIDE DEF next
  <2>2. QED BY <1>1, <2>1
<1>8. ASSUME NEW u \in Tasks, CheckJob(a, u) PROVE Result
  <2>1. CASE job[u] \in Finished
    <3> DEFINE next == [adv[a] EXCEPT !.pc = "write", !.cur = u, !.seen[u] = job[u]]
    <3>1. next.seen = [adv[a].seen EXCEPT ![u] = job[u]] /\ adv[a].seen \in [Tasks -> TaskStatus]
      BY <1>0 DEF AdvState
    <3>2. Goes(a, next)
      BY <1>8, <2>1 DEF CheckJob
    <3> HIDE DEF next
    <3>3. QED BY <1>0, <3>1, <3>2 DEF Goes
  <2>2. CASE job[u] \notin Finished
    BY <1>4, <1>8, <2>2 DEF CheckJob
  <2>3. QED BY <2>1, <2>2
<1>9. CASE FailWorkflow(a)
  <2> DEFINE next == [adv[a] EXCEPT !.pc = "cancel", !.todo = Seen(a, "PENDING")]
  <2>1. (Returns(a) \/ Goes(a, next)) /\ next.seen = adv[a].seen
    BY <1>0, <1>9 DEF FailWorkflow, AdvState
  <2> HIDE DEF next
  <2>2. QED BY <1>2, <1>3, <2>1
<1>10. CASE FindReady(a)
  <2> DEFINE next == [adv[a] EXCEPT !.pc = "schedule", !.todo = ReadyTasks]
  <2>1. (Returns(a) \/ Goes(a, next)) /\ next.seen = adv[a].seen
    BY <1>0, <1>10 DEF FindReady, AdvState
  <2> HIDE DEF next
  <2>2. QED BY <1>2, <1>3, <2>1
<1>11. ASSUME NEW u \in Tasks, CreateTaskJob(a, u) PROVE Result
  <2> DEFINE next == [adv[a] EXCEPT !.pc = "assign", !.cur = u, !.created = (job[u] = "ABSENT")]
  <2>1. Goes(a, next) /\ next.seen = adv[a].seen
    BY <1>0, <1>11 DEF CreateTaskJob, AdvState
  <2> HIDE DEF next
  <2>2. QED BY <1>3, <2>1
<1>12. CASE AssignJob(a)
  <2> DEFINE next == [adv[a] EXCEPT !.pc = "enqueue"]
  <2>1. (LeavesLast(a, adv[a].cur, "schedule") \/ Goes(a, next)) /\ next.seen = adv[a].seen
    BY <1>0, <1>12 DEF AssignJob, AdvState
  <2> HIDE DEF next
  <2>2. QED BY <1>3, <1>5, <2>1
<1>13. CASE Stumble(a)
  BY <1>2, <1>4, <1>5, <1>13 DEF Stumble, CheckJobFails, CreateTaskJobFails, AssignJobFails,
     AdvanceFails
<1> HIDE DEF Result
<1>14. CASE Advance(a)
  <2>1. LoadWorkflow(a) => Result
    BY <1>2, <1>6 DEF LoadWorkflow
  <2>2. WriteOutcome(a) \/ (\E u \in Tasks : CancelPending(a, u)) => Result
    BY <1>4, <1>5 DEF WriteOutcome, CancelPending
  <2>3. SucceedWorkflow(a) \/ EnqueueJob(a) => Result
    BY <1>2, <1>5 DEF SucceedWorkflow, EnqueueJob
  <2>4. QED BY <1>7, <1>8, <1>9, <1>10, <1>11, <1>12, <1>14, <2>1, <2>2, <2>3
          DEF Advance, Result
<1>15. QED BY <1>13, <1>14 DEF Result

(* Until it was started nobody but its request has the workflow in hand.   *)
StartIsFirst ==
    /\ wf = "ABSENT" => At("request", "idle")
    /\ At("request", "start") => wf \in {"PENDING", "CANCELLED"}
    /\ wf \in {"ABSENT", "PENDING"} \/ At("request", "start")
         => At("poller", "idle") /\ (At("request", "idle") \/ At("request", "start"))

FailureIsBacked ==
    /\ \A t \in Tasks : task[t] = "FAILED" => job[t] = "FAILED"
    /\ \A a \in Advancers : \A t \in Tasks : adv[a].seen[t] = "FAILED" => job[t] = "FAILED"
    /\ wf = "FAILED" => \E t \in Tasks : job[t] = "FAILED"

VerdictInv == SuccessInv /\ NoRetries(budget) /\ StartIsFirst /\ FailureIsBacked

LEMMA AdvanceMoves ==
    ASSUME AdvTyped, NEW a \in Advancers, Advance(a) \/ Stumble(a)
    PROVE  /\ adv[a].pc \notin {"idle", "start"} /\ adv'[a].pc # "start"
           /\ \A b \in Advancers \ {a} : adv'[b] = adv[b]
           /\ wf' \in {wf, "SUCCEEDED", "FAILED"}
<1>1. adv[a].pc \notin {"idle", "start"}
  BY DEF Advance, LoadWorkflow, LoadTasks, CheckJob, WriteOutcome, FailWorkflow, CancelPending,
     SucceedWorkflow, FindReady, CreateTaskJob, AssignJob, EnqueueJob, Stumble, CheckJobFails,
     CreateTaskJobFails, AssignJobFails, AdvanceFails, Checked, At
<1>2. wf' \in {wf, "SUCCEEDED", "FAILED"}
  BY DEF Advance, LoadWorkflow, LoadTasks, CheckJob, WriteOutcome, FailWorkflow, CancelPending,
     SucceedWorkflow, FindReady, CreateTaskJob, AssignJob, EnqueueJob, Stumble, CheckJobFails,
     CreateTaskJobFails, AssignJobFails, AdvanceFails, UpdateStatus
<1> DEFINE Moves == \E next : Goes(a, next) /\ next.pc # "start"
<1>3. ASSUME Moves PROVE adv'[a].pc # "start" /\ \A b \in Advancers \ {a} : adv'[b] = adv[b]
  BY <1>3 DEF Goes, AdvTyped
<1>4. Returns(a) => Moves
  BY DEF Returns, Idle
<1>5. ASSUME NEW u, NEW pc \in {"check", "cancel", "schedule"}, Leaves(a, u, pc) PROVE Moves
  <2> DEFINE next == [adv[a] EXCEPT !.pc = pc, !.todo = @ \ {u}, !.cur = NoTask, !.created = FALSE]
  <2>1. Goes(a, next) /\ next.pc = pc
    BY <1>5 DEF Leaves, AdvTyped, AdvState
  <2> HIDE DEF next
  <2>2. QED BY <2>1
<1>6. ASSUME NEW u, NEW pc \in {"cancel", "schedule"}, LeavesLast(a, u, pc) PROVE Moves
  BY <1>4, <1>5, <1>6 DEF LeavesLast
<1>7. LoadWorkflow(a) => Moves
  BY <1>4 DEF LoadWorkflow, Idle
<1>8. ASSUME LoadTasks(a) PROVE Moves
  <2> DEFINE next == [Idle EXCEPT !.pc = "check", !.seen = task,
                                  !.todo = {u \in Tasks : task[u] = "RUNNING"}]
  <2>1. Goes(a, next) /\ next.pc = "check"
    BY <1>8 DEF LoadTasks, Idle
  <2> HIDE DEF next
  <2>2. QED BY <2>1
<1>9. ASSUME NEW u \in Tasks, CheckJob(a, u) PROVE Moves
  <2> DEFINE next == [adv[a] EXCEPT !.pc = "write", !.cur = u, !.seen[u] = job[u]]
  <2>1. (Goes(a, next) \/ Leaves(a, u, "check")) /\ next.pc = "write"
    BY <1>9 DEF CheckJob, AdvTyped, AdvState
  <2> HIDE DEF next
  <2>2. QED BY <1>5, <2>1
<1>10. ASSUME FailWorkflow(a) PROVE Moves
  <2> DEFINE next == [adv[a] EXCEPT !.pc = "cancel", !.todo = Seen(a, "PENDING")]
  <2>1. (Returns(a) \/ Goes(a, next)) /\ next.pc = "cancel"
    BY <1>10 DEF FailWorkflow, AdvTyped, AdvState
  <2> HIDE DEF next
  <2>2. QED BY <1>4, <2>1
<1>11. ASSUME FindReady(a) PROVE Moves
  <2> DEFINE next == [adv[a] EXCEPT !.pc = "schedule", !.todo = ReadyTasks]
  <2>1. (Returns(a) \/ Goes(a, next)) /\ next.pc = "schedule"
    BY <1>11 DEF FindReady, AdvTyped, AdvState
  <2> HIDE DEF next
  <2>2. QED BY <1>4, <2>1
<1>12. ASSUME NEW u \in Tasks, CreateTaskJob(a, u) PROVE Moves
  <2> DEFINE next == [adv[a] EXCEPT !.pc = "assign", !.cur = u, !.created = (job[u] = "ABSENT")]
  <2>1. Goes(a, next) /\ next.pc = "assign"
    BY <1>12 DEF CreateTaskJob, AdvTyped, AdvState
  <2> HIDE DEF next
  <2>2. QED BY <2>1
<1>13. ASSUME AssignJob(a) PROVE Moves
  <2> DEFINE next == [adv[a] EXCEPT !.pc = "enqueue"]
  <2>1. (LeavesLast(a, adv[a].cur, "schedule") \/ Goes(a, next)) /\ next.pc = "enqueue"
    BY <1>13 DEF AssignJob, AdvTyped, AdvState
  <2> HIDE DEF next
  <2>2. QED BY <1>6, <2>1
<1> HIDE DEF Moves
<1>14. ASSUME Stumble(a) PROVE Moves
  BY <1>4, <1>5, <1>6, <1>14 DEF Stumble, CheckJobFails, CreateTaskJobFails, AssignJobFails,
     AdvanceFails
<1>15. ASSUME Advance(a) PROVE Moves
  <2>1. WriteOutcome(a) \/ (\E u \in Tasks : CancelPending(a, u)) => Moves
    BY <1>5, <1>6 DEF WriteOutcome, CancelPending
  <2>2. SucceedWorkflow(a) \/ EnqueueJob(a) => Moves
    BY <1>4, <1>6 DEF SucceedWorkflow, EnqueueJob
  <2>3. QED BY <1>7, <1>8, <1>9, <1>10, <1>11, <1>12, <1>13, <1>15, <2>1, <2>2 DEF Advance
<1>16. QED BY <1>1, <1>2, <1>3, <1>14, <1>15

LEMMA StartIsFirstStep ==
    ASSUME StatusesTyped, AdvTyped, StartIsFirst, [Next]_vars
    PROVE  StartIsFirst'
<1> USE DEF StartIsFirst, At
<1>0. Advancers = {"request", "poller"} /\ adv \in [Advancers -> AdvState]
  BY DEF AdvTyped, Advancers
<1>1. ASSUME NEW a \in Advancers, Advance(a) \/ Stumble(a) PROVE StartIsFirst'
  BY <1>0, <1>1, AdvanceMoves
<1>2. CASE CreateWorkflow
  BY <1>0, <1>2 DEF CreateWorkflow, Goes, Idle
<1>3. CASE StartWorkflow
  BY <1>0, <1>3 DEF StartWorkflow, UpdateStatus, Returns, Goes, Idle
<1>4. CASE Poll
  BY <1>0, <1>4 DEF Poll, Goes, Idle
<1>5. CASE CancelWorkflow
  BY <1>5 DEF CancelWorkflow
<1>6. CASE CrashApi
  BY <1>0, <1>6 DEF CrashApi, Idle
<1>7. CASE UNCHANGED <<wf, adv>>
  BY <1>7
<1>8. Environment => CancelWorkflow \/ CrashApi \/ UNCHANGED <<wf, adv>>
  BY DEF Environment, JobEnds, CancelJob, LateReport, RetryJob
<1>9. QED BY <1>1, <1>2, <1>3, <1>4, <1>5, <1>6, <1>7, <1>8 DEF Next, vars

LEMMA FailureStep ==
    ASSUME VerdictInv, [Next]_vars
    PROVE  FailureIsBacked'
<1>0. StatusesTyped /\ AdvTyped /\ FailureIsBacked /\ NoRetries(budget)
  BY DEF VerdictInv, SuccessInv, BackedInv
<1>1. \A t \in Tasks : job[t] = "FAILED" => job'[t] = "FAILED"
  BY <1>0, FailureOfJobIsFinal
<1>2. ASSUME NEW t \in Tasks, task'[t] = "FAILED" PROVE job[t] = "FAILED"
  <2>1. CASE task[t] = "FAILED"
    BY <1>0, <2>1 DEF FailureIsBacked
  <2>2. CASE task[t] # "FAILED"
    <3>1. PICK a \in Advancers : WriteOutcome(a)
      BY <1>0, <1>2, <2>2 DEF Next, CreateWorkflow, StartWorkflow, Poll, Advance, LoadWorkflow,
         LoadTasks, CheckJob, FailWorkflow, CancelPending, SucceedWorkflow, FindReady,
         CreateTaskJob, AssignJob, EnqueueJob, UpdateTask, Stumble, CheckJobFails,
         CreateTaskJobFails, AssignJobFails, AdvanceFails, Environment, CancelWorkflow, JobEnds,
         CancelJob, LateReport, RetryJob, CrashApi, vars, StatusesTyped
    <3>2. t = adv[a].cur /\ adv[a].seen[t] = "FAILED"
      BY <1>0, <1>2, <2>2, <3>1 DEF WriteOutcome, UpdateTask, StatusesTyped
    <3>3. QED BY <1>0, <3>2 DEF FailureIsBacked
  <2>3. QED BY <2>1, <2>2
<1>3. ASSUME NEW b \in Advancers, NEW t \in Tasks, adv'[b].seen[t] = "FAILED"
      PROVE  job[t] = "FAILED"
  <2>1. ASSUME NEW a \in Advancers, Advance(a) \/ Stumble(a) PROVE job[t] = "FAILED"
    BY <1>0, <1>3, <2>1, SnapshotStep DEF FailureIsBacked
  <2>2. ASSUME adv'[b] = adv[b] PROVE job[t] = "FAILED"
    BY <1>0, <1>3, <2>2 DEF FailureIsBacked
  <2>3. Idle.seen[t] # "FAILED"
    BY DEF Idle
  <2>4. ASSUME NEW pc \in {"start", "load"}, NEW a \in Advancers, Goes(a, [Idle EXCEPT !.pc = pc])
        PROVE  job[t] = "FAILED"
    <3>1. [Idle EXCEPT !.pc = pc].seen[t] # "FAILED"
      BY DEF Idle
    <3>2. b # a
      BY <1>0, <1>3, <2>4, <3>1 DEF Goes, AdvTyped
    <3>3. adv'[b] = adv[b]
      BY <1>0, <2>4, <3>2 DEF Goes, AdvTyped
    <3>4. QED BY <2>2, <3>3
  <2>5. ASSUME NEW a \in Advancers, Returns(a) PROVE job[t] = "FAILED"
    BY <1>0, <1>3, <2>2, <2>3, <2>5 DEF Returns, Goes, AdvTyped
  <2>6. CASE CrashApi
    BY <1>3, <2>3, <2>6 DEF CrashApi
  <2>7. Environment => CrashApi \/ UNCHANGED adv
    BY DEF Environment, CancelWorkflow, JobEnds, CancelJob, LateReport, RetryJob
  <2>8. "request" \in Advancers /\ "poller" \in Advancers
    BY DEF Advancers
  <2>9. CASE CreateWorkflow \/ StartWorkflow \/ Poll
    BY <2>4, <2>5, <2>8, <2>9 DEF CreateWorkflow, StartWorkflow, Poll
  <2>10. QED BY <2>1, <2>2, <2>6, <2>7, <2>9 DEF Next, vars
<1>4. ASSUME wf' = "FAILED" PROVE \E t \in Tasks : job[t] = "FAILED"
  <2>1. CASE wf = "FAILED"
    BY <1>0, <2>1 DEF FailureIsBacked
  <2>2. CASE wf # "FAILED"
    <3>1. PICK a \in Advancers : FailWorkflow(a)
      BY <1>4, <2>2 DEF Next, CreateWorkflow, StartWorkflow, Poll, Advance, LoadWorkflow,
         LoadTasks, CheckJob, WriteOutcome, CancelPending, SucceedWorkflow, FindReady,
         CreateTaskJob, AssignJob, EnqueueJob, UpdateStatus, Stumble, CheckJobFails,
         CreateTaskJobFails, AssignJobFails, AdvanceFails, Environment, CancelWorkflow, JobEnds,
         CancelJob, LateReport, RetryJob, CrashApi, vars
    <3>2. QED BY <1>0, <3>1 DEF FailWorkflow, Seen, FailureIsBacked
  <2>3. QED BY <2>1, <2>2
<1>5. QED BY <1>1, <1>2, <1>3, <1>4 DEF FailureIsBacked

LEMMA VerdictStep == VerdictInv /\ [Next]_vars => VerdictInv'
BY SuccessStep, NoRetriesStep, StartIsFirstStep, FailureStep DEF VerdictInv, SuccessInv, BackedInv

(* A verdict that contradicts the one in the row would take a job that     *)
(* both succeeded and failed.                                              *)
LEMMA VerdictStays ==
    ASSUME VerdictInv, VerdictInv', [Next]_vars, wf \in {"SUCCEEDED", "FAILED"}
    PROVE  wf' = wf
<1>1. ASSUME NEW a \in Advancers, FailWorkflow(a) \/ SucceedWorkflow(a) PROVE wf' = wf
  <2>1. wf' \in {wf, "SUCCEEDED", "FAILED"}
    BY <1>1 DEF FailWorkflow, SucceedWorkflow, UpdateStatus
  <2>2. UNCHANGED job
    BY <1>1 DEF FailWorkflow, SucceedWorkflow
  <2>3. wf = "SUCCEEDED" => \A t \in Tasks : job[t] = "SUCCEEDED"
    BY DEF VerdictInv, SuccessInv, SuccessIsTotal
  <2>4. wf' = "SUCCEEDED" => \A t \in Tasks : job[t] = "SUCCEEDED"
    BY <2>2 DEF VerdictInv, SuccessInv, SuccessIsTotal
  <2>5. wf = "FAILED" => \E t \in Tasks : job[t] = "FAILED"
    BY DEF VerdictInv, FailureIsBacked
  <2>6. wf' = "FAILED" => \E t \in Tasks : job[t] = "FAILED"
    BY <2>2 DEF VerdictInv, FailureIsBacked
  <2>7. QED BY <2>1, <2>3, <2>4, <2>5, <2>6
<1>2. ~StartWorkflow /\ ~CreateWorkflow
  BY DEF VerdictInv, StartIsFirst, StartWorkflow, CreateWorkflow
<1>3. QED
  BY <1>1, <1>2 DEF Next, Poll, Advance, LoadWorkflow, LoadTasks, CheckJob, WriteOutcome,
     CancelPending, FindReady, CreateTaskJob, AssignJob, EnqueueJob, Stumble, CheckJobFails,
     CreateTaskJobFails, AssignJobFails, AdvanceFails, Environment, CancelWorkflow, Finished,
     JobEnds, CancelJob, LateReport, RetryJob, CrashApi, vars

(* VerdictsStay: however the request and the poller interleave, and under  *)
(* cancellations, store errors and crashes, SUCCEEDED and FAILED are not   *)
(* written over, as long as no failed job is retried.                      *)
THEOREM VerdictsStay ==
    ASSUME NoRetries(Budget)
    PROVE  Spec => OutcomeIsFinal
<1>1. Init => VerdictInv
  BY SuccessInit DEF Init, VerdictInv, StartIsFirst, FailureIsBacked, At, Idle, Advancers
<1>2. VerdictInv /\ VerdictInv' /\ [Next]_vars
        => [(wf = "SUCCEEDED" \/ wf = "FAILED") => wf' = wf]_vars
  BY VerdictStays
<1>3. QED BY <1>1, <1>2, VerdictStep, PTL DEF Spec, OutcomeIsFinal

-----------------------------------------------------------------------------
(* The refinement.  Once a goroutine advances the workflow it was started. *)
LEMMA AdvancingMeansStarted ==
    ASSUME VerdictInv, NEW a \in Advancers, adv[a].pc \notin {"idle", "start"}
    PROVE  wf \in {"RUNNING"} \cup Finished
<1>1. wf \notin {"ABSENT", "PENDING"}
  <2>1. a = "request" \/ a = "poller"
    BY DEF Advancers
  <2>2. QED BY <2>1 DEF VerdictInv, StartIsFirst, At
<1>2. wf \in {"ABSENT"} \cup TaskStatus
  BY DEF VerdictInv, SuccessInv, BackedInv, StatusesTyped
<1>3. QED BY <1>1, <1>2 DEF TaskStatus

(* The verdicts of a goroutine hold of the jobs as they are, and no other  *)
(* verdict stands in the row.                                              *)
LEMMA VerdictIsLifecycleStep ==
    ASSUME VerdictInv, VerdictInv', [Next]_vars, NEW a \in Advancers,
           FailWorkflow(a) \/ SucceedWorkflow(a)
    PROVE  Life!Fail \/ Life!Succeed \/ UNCHANGED <<wf, job>>
<1>1. UNCHANGED job /\ wf' \in {wf, "SUCCEEDED", "FAILED"}
  BY DEF FailWorkflow, SucceedWorkflow, UpdateStatus
<1>2. wf \in {"SUCCEEDED", "FAILED"} => wf' = wf
  BY VerdictStays
<1>3. wf \in {"RUNNING"} \cup Finished
  <2>1. adv[a].pc = "check"
    BY DEF FailWorkflow, SucceedWorkflow, Checked, At
  <2>2. QED BY <2>1, AdvancingMeansStarted
<1>4. wf' = wf \/ wf \in {"RUNNING", "CANCELLED"}
  BY <1>2, <1>3 DEF Finished
<1>5. wf' = "SUCCEEDED" => \A t \in Tasks : job[t] = "SUCCEEDED"
  BY <1>1 DEF VerdictInv, SuccessInv, SuccessIsTotal
<1>6. wf' = "FAILED" => \E t \in Tasks : job[t] = "FAILED"
  BY <1>1 DEF VerdictInv, FailureIsBacked
<1>7. QED BY <1>1, <1>4, <1>5, <1>6 DEF Life!Fail, Life!Succeed, Life!All, Life!Some

(* A job that is made, whether the goroutine hears of it or not, is made   *)
(* in the order of the dependencies.                                       *)
LEMMA ScheduleIsLifecycleStep ==
    ASSUME VerdictInv, NEW a \in Advancers, NEW t \in Tasks,
           CreateTaskJob(a, t) \/ CreateTaskJobFails(a, t)
    PROVE  Life!Schedule(t) \/ UNCHANGED <<wf, job>>
<1>1. adv[a].pc = "schedule" /\ t \in adv[a].todo /\ UNCHANGED wf
  BY DEF CreateTaskJob, CreateTaskJobFails, At
<1>2. job' = job \/ job' = [job EXCEPT ![t] = IF @ = "ABSENT" THEN "QUEUED" ELSE @]
  BY DEF CreateTaskJob, CreateTaskJobFails
<1>3. CASE job[t] = "ABSENT"
  <2>1. \A d \in Deps[t] : job[d] = "SUCCEEDED"
    BY <1>1 DEF VerdictInv, SuccessInv, BackedInv, SuccessIsBacked, Backed
  <2>2. wf \in {"RUNNING"} \cup Finished
    BY <1>1, AdvancingMeansStarted
  <2>3. wf # "SUCCEEDED"
    BY <1>3 DEF VerdictInv, SuccessInv, SuccessIsTotal
  <2>4. wf \in {"RUNNING", "FAILED", "CANCELLED"}
    BY <2>2, <2>3 DEF Finished
  <2>5. QED BY <1>1, <1>2, <1>3, <2>1, <2>4 DEF Life!Schedule
<1>4. CASE job[t] # "ABSENT"
  <2>1. job \in [Tasks -> JobStatus]
    BY DEF VerdictInv, SuccessInv, BackedInv, StatusesTyped
  <2>2. job' = job
    BY <1>2, <1>4, <2>1
  <2>3. QED BY <1>1, <2>2
<1>5. QED BY <1>3, <1>4

LEMMA AdvanceIsLifecycleStep ==
    ASSUME VerdictInv, VerdictInv', [Next]_vars, NEW a \in Advancers, Advance(a) \/ Stumble(a)
    PROVE  [Life!Next]_(Life!vars)
<1>1. CASE FailWorkflow(a) \/ SucceedWorkflow(a)
  BY <1>1, VerdictIsLifecycleStep DEF Life!Next, Life!vars
<1>2. ASSUME NEW t \in Tasks, CreateTaskJob(a, t) \/ CreateTaskJobFails(a, t)
      PROVE  [Life!Next]_(Life!vars)
  BY <1>2, ScheduleIsLifecycleStep DEF Life!Next, Life!vars
<1>3. CASE UNCHANGED <<wf, job>>
  BY <1>3 DEF Life!vars
<1>4. \/ FailWorkflow(a) \/ SucceedWorkflow(a)
      \/ \E t \in Tasks : CreateTaskJob(a, t) \/ CreateTaskJobFails(a, t)
      \/ UNCHANGED <<wf, job>>
  BY DEF Advance, LoadWorkflow, LoadTasks, CheckJob, WriteOutcome, CancelPending, FindReady,
     AssignJob, EnqueueJob, Stumble, CheckJobFails, AssignJobFails, AdvanceFails
<1>5. QED BY <1>1, <1>2, <1>3, <1>4

LEMMA EnvironmentIsLifecycleStep ==
    ASSUME VerdictInv, [Next]_vars, Environment
    PROVE  [Life!Next]_(Life!vars)
<1>1. wf \in {"ABSENT"} \cup TaskStatus /\ NoRetries(budget) /\ StatusesTyped
  BY DEF VerdictInv, SuccessInv, BackedInv, StatusesTyped
<1>2. CASE CancelWorkflow
  <2>1. wf \in {"PENDING", "RUNNING"} \/ wf \in Finished
    BY <1>1, <1>2 DEF CancelWorkflow, TaskStatus
  <2>2. UNCHANGED job /\ wf' = IF wf \in Finished THEN wf ELSE "CANCELLED"
    BY <1>2 DEF CancelWorkflow
  <2>3. QED BY <2>1, <2>2 DEF Life!Cancel, Life!Next, Life!vars
<1>3. ASSUME NEW t \in Tasks, JobEnds(t) \/ CancelJob(t) \/ LateReport(t)
      PROVE  [Life!Next]_(Life!vars)
  <2>1. Life!JobMoves(t)
    BY <1>3 DEF JobEnds, CancelJob, LateReport, Life!JobMoves
  <2>2. QED BY <2>1 DEF Life!Next
<1>4. CASE CrashApi
  BY <1>4 DEF CrashApi, Life!vars
<1>5. \A t \in Tasks : ~RetryJob(t)
  BY <1>1, NoRetriesStep
<1>6. QED BY <1>2, <1>3, <1>4, <1>5 DEF Environment

(* EngineImplementsWorkflow: two goroutines that work from snapshots and   *)
(* write without a condition decide on a workflow, and make the jobs of    *)
(* its tasks, as one would that looks and writes in one step, under store  *)
(* errors, cancellations and crashes of the API process, for any graph of  *)
(* tasks (engine/workflow.go:44-161).                                      *)
THEOREM EngineImplementsWorkflow ==
    ASSUME NoRetries(Budget)
    PROVE  Spec => ImplementsWorkflowLifecycle
<1>1. Init => VerdictInv
  BY SuccessInit DEF Init, VerdictInv, StartIsFirst, FailureIsBacked, At, Idle, Advancers
<1>2. Init => Life!Init
  BY DEF Init, Life!Init
<1>3. VerdictInv /\ VerdictInv' /\ [Next]_vars => [Life!Next]_(Life!vars)
  <2> SUFFICES ASSUME VerdictInv, VerdictInv', [Next]_vars PROVE [Life!Next]_(Life!vars)
    OBVIOUS
  <2>1. CASE CreateWorkflow
    BY <2>1 DEF CreateWorkflow, Life!Create, Life!Next
  <2>2. CASE StartWorkflow
    <3>1. wf \in {"PENDING", "CANCELLED"}
      BY <2>2 DEF StartWorkflow, VerdictInv, StartIsFirst
    <3>2. UNCHANGED job /\ wf' \in {wf, "RUNNING"}
      BY <2>2 DEF StartWorkflow, UpdateStatus
    <3>3. QED BY <3>1, <3>2 DEF Life!Start, Life!Next, Life!vars
  <2>3. CASE Poll
    BY <2>3 DEF Poll, Life!vars
  <2>4. ASSUME NEW a \in Advancers, Advance(a) \/ Stumble(a) PROVE [Life!Next]_(Life!vars)
    BY <2>4, AdvanceIsLifecycleStep
  <2>5. CASE Environment
    BY <2>5, EnvironmentIsLifecycleStep
  <2>6. CASE UNCHANGED vars
    BY <2>6 DEF vars, Life!vars
  <2>7. QED BY <2>1, <2>2, <2>3, <2>4, <2>5, <2>6 DEF Next
<1>4. QED
  BY <1>1, <1>2, <1>3, VerdictStep, PTL DEF Spec, Life!Spec, ImplementsWorkflowLifecycle

-----------------------------------------------------------------------------
(* Where a workflow can come to a stop.  Without crashes of the API        *)
(* process and errors of the stores it cannot: whatever is left to do      *)
(* there is somebody to do it.                                             *)
NoFaults(b) == b["crash"] = 0 /\ b["storeErr"] = 0

Acyclic == \A S \in SUBSET Tasks : S # {} => \E t \in S : Deps[t] \cap S = {}

(* The goroutine a made the job of t and has still to enqueue it. *)
Sending(a, t) ==
    /\ adv[a].pc \in {"assign", "enqueue"}
    /\ adv[a].cur = t /\ adv[a].created

(* Only the goroutine that created a job enqueues it, and neither the      *)
(* other one nor a later round would: what is not in Redis is in its hands.*)
JobsAreSent ==
    \A t \in Tasks : job[t] # "ABSENT" => t \in sent \/ \E a \in Advancers : Sending(a, t)

RunningHasJob == \A t \in Tasks : task[t] = "RUNNING" => job[t] # "ABSENT"

CarriesJob(a) ==
    /\ adv[a].pc = "write" => adv[a].seen[adv[a].cur] \in Finished
    /\ adv[a].pc \in {"assign", "enqueue"} => job[adv[a].cur] # "ABSENT"

SentInv ==
    /\ StatusesTyped /\ AdvTyped /\ StartIsFirst /\ NoFaults(budget)
    /\ RunningHasJob /\ JobsAreSent
    /\ \A a \in Advancers : CarriesJob(a)

LEMMA NoFaultsStep ==
    ASSUME StatusesTyped, NoFaults(budget), [Next]_vars
    PROVE  /\ NoFaults(budget') /\ ~CrashApi
           /\ \A a \in Advancers : ~Stumble(a)
<1>0. ~Spend("crash") /\ ~Spend("storeErr")
  BY DEF NoFaults, Spend
<1>1. ~CrashApi
  BY <1>0 DEF CrashApi
<1>2. ASSUME NEW a \in Advancers PROVE ~Stumble(a)
  BY <1>0 DEF Stumble, CheckJobFails, CreateTaskJobFails, AssignJobFails, AdvanceFails
<1>3. NoFaults(budget')
  <2>1. ASSUME NEW a \in Advancers, Advance(a) PROVE UNCHANGED budget
    BY <1>0, <2>1 DEF Advance, LoadWorkflow, LoadTasks, CheckJob, WriteOutcome, FailWorkflow,
       CancelPending, SucceedWorkflow, FindReady, CreateTaskJob, AssignJob, EnqueueJob,
       UpdateTask, UpdateStatus
  <2>2. CreateWorkflow \/ StartWorkflow \/ Poll => UNCHANGED budget
    BY <1>0 DEF CreateWorkflow, StartWorkflow, Poll, UpdateStatus
  <2>3. Environment => NoFaults(budget')
    BY <1>1 DEF NoFaults, StatusesTyped, Kinds, Spend, Environment,
                   CancelWorkflow, JobEnds, CancelJob, LateReport, RetryJob
  <2>4. QED BY <1>2, <2>1, <2>2, <2>3 DEF Next, vars
<1>4. QED BY <1>1, <1>2, <1>3

LEMMA JobsStay ==
    ASSUME StatusesTyped, [Next]_vars, NEW t \in Tasks, job[t] # "ABSENT"
    PROVE  job'[t] # "ABSENT"
<1> USE DEF StatusesTyped
<1>1. ASSUME NEW a \in Advancers, Advance(a) \/ Stumble(a) PROVE job'[t] # "ABSENT"
  BY <1>1 DEF Advance, LoadWorkflow, LoadTasks, CheckJob, WriteOutcome, FailWorkflow,
              CancelPending, SucceedWorkflow, FindReady, CreateTaskJob, AssignJob, EnqueueJob,
              Stumble, CheckJobFails, CreateTaskJobFails, AssignJobFails, AdvanceFails
<1>2. CASE Environment
  BY <1>2 DEF Environment, CancelWorkflow, JobEnds, CancelJob, LateReport, RetryJob, CrashApi
<1>3. QED BY <1>1, <1>2 DEF Next, CreateWorkflow, StartWorkflow, Poll, vars

(* A goroutine between two calls about a task is moved by itself only. *)
LEMMA BusyMoves ==
    ASSUME SentInv, [Next]_vars, NEW a \in Advancers, adv[a].pc \notin {"idle", "start"},
           adv'[a] # adv[a]
    PROVE  Advance(a)
<1> USE DEF SentInv
<1>1. Advancers = {"request", "poller"} /\ adv \in [Advancers -> AdvState]
  BY DEF AdvTyped, Advancers
<1>2. ~CreateWorkflow
  <2> SUFFICES ASSUME CreateWorkflow PROVE FALSE
    OBVIOUS
  <2>1. At("request", "idle") /\ a # "request"
    BY DEF CreateWorkflow, StartIsFirst, At
  <2>2. adv'[a] = adv[a]
    BY <1>1, <2>1 DEF CreateWorkflow, Goes
  <2>3. QED BY <2>2
<1>3. ~StartWorkflow
  BY <1>1 DEF StartWorkflow, Returns, Goes, At
<1>4. ~Poll
  BY <1>1 DEF Poll, Goes, At
<1>5. ASSUME NEW b \in Advancers, Advance(b) PROVE b = a
  BY <1>5, AdvanceMoves
<1>6. ~Environment
  BY NoFaultsStep DEF Environment, CancelWorkflow, JobEnds, CancelJob, LateReport, RetryJob
<1>7. QED BY <1>2, <1>3, <1>4, <1>5, <1>6, NoFaultsStep DEF Next, vars

LEMMA SendingStep ==
    ASSUME SentInv, [Next]_vars, NEW a \in Advancers, NEW t \in Tasks, Sending(a, t)
    PROVE  Sending(a, t)' \/ t \in sent'
<1> USE DEF Sending
<1>1. CASE adv'[a] = adv[a]
  BY <1>1
<1>2. CASE adv'[a] # adv[a]
  <2>1. Advance(a)
    BY <1>2, BusyMoves
  <2>2. AssignJob(a) \/ EnqueueJob(a)
    BY <2>1 DEF Advance, LoadWorkflow, LoadTasks, CheckJob, WriteOutcome, FailWorkflow,
       CancelPending, SucceedWorkflow, FindReady, CreateTaskJob, Checked, At
  <2>3. CASE AssignJob(a)
    BY <2>3 DEF AssignJob, Goes, SentInv, AdvTyped, AdvState
  <2>4. CASE EnqueueJob(a)
    BY <2>4 DEF EnqueueJob, Spend, SentInv, NoFaults
  <2>5. QED BY <2>2, <2>3, <2>4
<1>3. QED BY <1>1, <1>2

LEMMA JobsAreSentStep ==
    ASSUME SentInv, [Next]_vars
    PROVE  JobsAreSent'
<1> SUFFICES ASSUME NEW t \in Tasks, job'[t] # "ABSENT"
             PROVE  t \in sent' \/ \E a \in Advancers : Sending(a, t)'
  BY DEF JobsAreSent
<1>1. CASE job[t] = "ABSENT"
  <2>1. PICK a \in Advancers : CreateTaskJob(a, t)
    BY <1>1, JobsAreCreated, NoFaultsStep DEF SentInv, Stumble
  <2>2. Sending(a, t)'
    BY <1>1, <2>1 DEF CreateTaskJob, Goes, Sending, SentInv, AdvTyped, AdvState
  <2>3. QED BY <2>2
<1>2. CASE t \in sent
  <2>1. sent \subseteq sent'
    <3>1. ASSUME NEW a \in Advancers, Advance(a) PROVE sent \subseteq sent'
      BY <3>1 DEF Advance, LoadWorkflow, LoadTasks, CheckJob, WriteOutcome, FailWorkflow,
         CancelPending, SucceedWorkflow, FindReady, CreateTaskJob, AssignJob, EnqueueJob
    <3>2. Environment => UNCHANGED sent
      BY DEF Environment, CancelWorkflow, JobEnds, CancelJob, LateReport, RetryJob, CrashApi
    <3>3. QED BY <3>1, <3>2, NoFaultsStep
              DEF SentInv, Next, CreateWorkflow, StartWorkflow, Poll, vars
  <2>2. QED BY <1>2, <2>1
<1>3. CASE job[t] # "ABSENT" /\ t \notin sent
  BY <1>3, SendingStep DEF SentInv, JobsAreSent
<1>4. QED BY <1>1, <1>2, <1>3

LEMMA RunningHasJobStep ==
    ASSUME SentInv, [Next]_vars
    PROVE  RunningHasJob'
<1> SUFFICES ASSUME NEW t \in Tasks, task'[t] = "RUNNING" PROVE job'[t] # "ABSENT"
  BY DEF RunningHasJob
<1>1. SUFFICES ASSUME task[t] # "RUNNING" PROVE job[t] # "ABSENT"
  BY JobsStay DEF SentInv, RunningHasJob
<1>2. PICK a \in Advancers : WriteOutcome(a) \/ AssignJob(a)
  <2>1. ~Environment
    BY <1>1 DEF Environment, CancelWorkflow, JobEnds, CancelJob, LateReport, RetryJob, CrashApi,
       SentInv, StatusesTyped
  <2>2. QED
    BY <1>1, <2>1, NoFaultsStep
       DEF Next, CreateWorkflow, StartWorkflow, Poll, Advance, LoadWorkflow, LoadTasks, CheckJob,
       FailWorkflow, CancelPending, SucceedWorkflow, FindReady, CreateTaskJob, EnqueueJob,
       UpdateTask, vars, SentInv, StatusesTyped
<1>3. t = adv[a].cur
  BY <1>1, <1>2 DEF WriteOutcome, AssignJob, UpdateTask, SentInv, StatusesTyped
<1>4. ~WriteOutcome(a)
  BY <1>1, <1>3 DEF WriteOutcome, UpdateTask, SentInv, StatusesTyped, CarriesJob, At, Finished
<1>5. QED BY <1>2, <1>3, <1>4 DEF AssignJob, At, SentInv, CarriesJob

LEMMA CarriesStep ==
    ASSUME SentInv, [Next]_vars, NEW a \in Advancers
    PROVE  CarriesJob(a)'
<1> USE DEF CarriesJob, At
<1>0. adv[a] \in AdvState /\ LoopTyped(a) /\ CarriesJob(a)
  BY DEF SentInv, AdvTyped
<1>1. CASE adv'[a] = adv[a]
  <2>1. adv[a].pc \in {"assign", "enqueue"} => adv[a].cur \in Tasks
    BY <1>0 DEF AdvState, LoopTyped
  <2>2. QED BY <1>0, <1>1, <2>1, JobsStay DEF SentInv
<1>2. CASE adv'[a] # adv[a] /\ adv'[a].pc \in {"write", "assign", "enqueue"}
  <2>0. \A next : Goes(a, next) => adv'[a] = next
    BY DEF Goes, SentInv, AdvTyped
  <2>1. ~CreateWorkflow /\ ~StartWorkflow /\ ~Poll
    BY <1>2 DEF CreateWorkflow, StartWorkflow, Poll, Returns, Goes, Idle, SentInv, AdvTyped,
                Advancers
  <2>2. ~Environment
    BY <1>2, NoFaultsStep
       DEF Environment, CancelWorkflow, JobEnds, CancelJob, LateReport, RetryJob, SentInv
  <2>3. Advance(a)
    BY <1>2, <2>1, <2>2, NoFaultsStep, AdvanceMoves DEF Next, SentInv, vars
  <2>4. ~Returns(a)
    BY <1>2, <2>0 DEF Returns, Idle
  <2>5. ASSUME NEW u, NEW pc \in {"check", "cancel", "schedule"}, Leaves(a, u, pc) PROVE FALSE
    BY <1>0, <1>2, <2>0, <2>5 DEF Leaves, AdvState
  <2>6. ASSUME NEW u, NEW pc \in {"cancel", "schedule"}, LeavesLast(a, u, pc) PROVE FALSE
    BY <2>4, <2>5, <2>6 DEF LeavesLast
  <2>7. ASSUME NEW u \in Tasks, CheckJob(a, u) PROVE CarriesJob(a)'
    <3> DEFINE next == [adv[a] EXCEPT !.pc = "write", !.cur = u, !.seen[u] = job[u]]
    <3>1. next.pc = "write" /\ next.cur = u /\ next.seen[u] = job[u]
      BY <1>0 DEF AdvState
    <3>2. job[u] \in Finished /\ Goes(a, next)
      BY <2>5, <2>7 DEF CheckJob
    <3>3. adv'[a] = next
      BY <2>0, <3>2
    <3> HIDE DEF next
    <3>4. QED BY <3>1, <3>2, <3>3
  <2>8. ASSUME NEW u \in Tasks, CreateTaskJob(a, u) PROVE CarriesJob(a)'
    <3> DEFINE next == [adv[a] EXCEPT !.pc = "assign", !.cur = u, !.created = (job[u] = "ABSENT")]
    <3>1. next.pc = "assign" /\ next.cur = u
      BY <1>0 DEF AdvState
    <3>2. Goes(a, next)
      BY <2>8 DEF CreateTaskJob
    <3>3. job'[u] # "ABSENT"
      BY <2>8 DEF CreateTaskJob, SentInv, StatusesTyped
    <3>4. adv'[a] = next
      BY <2>0, <3>2
    <3> HIDE DEF next
    <3>5. QED BY <3>1, <3>3, <3>4
  <2>9. CASE AssignJob(a)
    <3>1. Goes(a, [adv[a] EXCEPT !.pc = "enqueue"])
      BY <2>6, <2>9 DEF AssignJob
    <3>2. QED BY <1>0, <2>0, <2>9, <3>1 DEF AssignJob, AdvState
  <2>10. ~LoadWorkflow(a) /\ ~LoadTasks(a)
    BY <1>2, <2>0, <2>4 DEF LoadWorkflow, LoadTasks, Idle
  <2>11. ~FailWorkflow(a) /\ ~FindReady(a)
    BY <1>0, <1>2, <2>0, <2>4 DEF FailWorkflow, FindReady, AdvState
  <2>12. ~WriteOutcome(a) /\ ~SucceedWorkflow(a) /\ ~EnqueueJob(a)
    BY <2>4, <2>5, <2>6 DEF WriteOutcome, SucceedWorkflow, EnqueueJob
  <2>13. \A u \in Tasks : ~CancelPending(a, u)
    BY <2>6 DEF CancelPending
  <2>14. QED BY <2>3, <2>7, <2>8, <2>9, <2>10, <2>11, <2>12, <2>13 DEF Advance
<1>3. CASE adv'[a].pc \notin {"write", "assign", "enqueue"}
  BY <1>3
<1>4. QED BY <1>1, <1>2, <1>3

LEMMA SentInvariance ==
    ASSUME NoFaults(Budget)
    PROVE  Spec => []SentInv
<1>1. Init => SentInv
  <2> SUFFICES ASSUME Init PROVE SentInv
    OBVIOUS
  <2>1. StatusesTyped /\ AdvTyped
    BY TypeInit
  <2>2. QED BY <2>1 DEF Init, SentInv, StartIsFirst, RunningHasJob, JobsAreSent, CarriesJob,
                        At, Idle, Advancers
<1>2. SentInv /\ [Next]_vars => SentInv'
  BY TypeStep, StartIsFirstStep, NoFaultsStep, RunningHasJobStep, JobsAreSentStep, CarriesStep
     DEF SentInv
<1>3. QED BY <1>1, <1>2, PTL DEF Spec

(* NothingIsUnsent: while the API process and the stores keep working, the *)
(* job of a task is in Redis or in the hands of the one goroutine that     *)
(* made it, however the request and the poller share the work, and         *)
(* whatever is cancelled or retried in between (engine/workflow.go:120-157).*)
THEOREM NothingIsUnsent ==
    ASSUME NoFaults(Budget)
    PROVE  Spec => []JobsAreSent
BY SentInvariance, PTL DEF SentInv

(* A task still has its way to go: it is ready to be scheduled, or its job *)
(* is in Redis or about to be.                                             *)
Underway ==
    \/ ReadyTasks # {}
    \/ \E t \in Tasks :
          /\ task[t] = "RUNNING" /\ job[t] # "ABSENT"
          /\ t \in sent \/ \E a \in Advancers : Sending(a, t)

(* WorkflowIsNeverStuck: in an acyclic graph, which is what DAGValidation  *)
(* accepts (KahnIsRight), there is no state in which all that is left of a *)
(* workflow is tasks that wait for each other or for a job nobody will     *)
(* run: some task failed or was cancelled, or all succeeded, or the        *)
(* workflow is under way.                                                  *)
THEOREM WorkflowIsNeverStuck ==
    ASSUME NoFaults(Budget), Acyclic
    PROVE  Spec => [](\/ \E t \in Tasks : task[t] \in {"FAILED", "CANCELLED"}
                      \/ \A t \in Tasks : task[t] = "SUCCEEDED"
                      \/ Underway)
<1> DEFINE Left == {t \in Tasks : task[t] = "PENDING"}
           Goal == \/ \E t \in Tasks : task[t] \in {"FAILED", "CANCELLED"}
                   \/ \A t \in Tasks : task[t] = "SUCCEEDED"
                   \/ Underway
<1>1. SentInv => Goal
  <2> SUFFICES ASSUME SentInv, \A t \in Tasks : task[t] \notin {"FAILED", "CANCELLED"},
                      \E t \in Tasks : task[t] # "SUCCEEDED"
               PROVE  Underway
    OBVIOUS
  <2>1. \A t \in Tasks : task[t] \in {"PENDING", "RUNNING", "SUCCEEDED"}
    BY DEF SentInv, StatusesTyped, TaskStatus, Finished
  <2>2. ASSUME NEW t \in Tasks, task[t] = "RUNNING" PROVE Underway
    BY <2>2 DEF SentInv, RunningHasJob, JobsAreSent, Underway
  <2>3. CASE Left # {} /\ \A t \in Tasks : task[t] # "RUNNING"
    <3>1. PICK t \in Left : Deps[t] \cap Left = {}
      BY <2>3 DEF Acyclic
    <3>2. Deps[t] \subseteq Tasks
      BY <3>1, WorkflowAssumption
    <3>3. \A d \in Deps[t] : task[d] = "SUCCEEDED"
      BY <2>1, <2>3, <3>1, <3>2
    <3>4. t \in ReadyTasks
      BY <3>1, <3>3 DEF ReadyTasks
    <3>5. QED BY <3>4 DEF Underway
  <2>4. QED BY <2>1, <2>2, <2>3
<1> HIDE DEF Goal
<1>2. Spec => []Goal
  BY <1>1, SentInvariance, PTL
<1>3. QED BY <1>2 DEF Goal
=============================================================================
