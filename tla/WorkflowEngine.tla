---------------------------- MODULE WorkflowEngine ----------------------------
(***************************************************************************)
(* One workflow: its row and its tasks' rows in PostgreSQL                 *)
(* (store/workflows.go), the jobs that back its tasks, and the two         *)
(* goroutines of the API process that advance it (engine/workflow.go): the *)
(* request that created it and the poller.  Each reads a snapshot and      *)
(* works through it statement by statement, without a lock, while the      *)
(* other, the operator and the workers go on.                              *)
(*                                                                         *)
(* Of a task's job we keep whether it exists, waits or runs ("QUEUED"),    *)
(* succeeded, failed (FAILED or DEAD_LETTER) or was cancelled, and whether *)
(* it was ever enqueued: JobEngine has the rest.  A task has a job_id when *)
(* it is RUNNING, and its idempotency key gives it one job for good.       *)
(***************************************************************************)
EXTENDS Naturals

CONSTANTS
    Tasks,
    Deps,       \* the dependencies of each task
    NoTask,
    Budget      \* how often each kind of event may happen

Kinds == {"crash",        \* the API process is killed and comes back
          "storeErr",     \* a call to a store fails
          "cancel",       \* the workflow is cancelled
          "cancelJob",    \* the job of a task is cancelled
          "retryJob"}     \* the failed job of a task is retried

ASSUME WorkflowAssumption ==
    /\ Deps \in [Tasks -> SUBSET Tasks]
    /\ Budget \in [Kinds -> Nat]
    /\ NoTask \notin Tasks

VARIABLES
    wf,      \* the status of the workflow
    task,    \* the status of each task
    job,     \* the status of each task's job
    sent,    \* the tasks whose job was enqueued in Redis
    adv,     \* what each advancing goroutine is doing
    budget

vars == <<wf, task, job, sent, adv, budget>>

Advancers == {"request", "poller"}
Finished  == {"SUCCEEDED", "FAILED", "CANCELLED"}

(* pc: the next call; seen: the statuses in the snapshot of AdvanceWorkflow; *)
(* todo: the tasks its current loop has still to visit; cur, created: the    *)
(* task in hand and whether its job is new.                                  *)
Idle == [pc |-> "idle", seen |-> [t \in Tasks |-> "PENDING"], todo |-> {},
         cur |-> NoTask, created |-> FALSE]

Init ==
    /\ wf = "ABSENT"
    /\ task = [t \in Tasks |-> "PENDING"]
    /\ job = [t \in Tasks |-> "ABSENT"]
    /\ sent = {}
    /\ adv = [a \in Advancers |-> Idle]
    /\ budget = Budget

Spend(kind) ==
    /\ budget[kind] > 0
    /\ budget' = [budget EXCEPT ![kind] = @ - 1]

At(a, pc) == adv[a].pc = pc
Goes(a, next) == adv' = [adv EXCEPT ![a] = next]
Returns(a) == Goes(a, Idle)

(* The loop of a goes on without t. *)
Leaves(a, t, pc) ==
    Goes(a, [adv[a] EXCEPT !.pc = pc, !.todo = @ \ {t}, !.cur = NoTask, !.created = FALSE])

\* Mutant: the loop does not end.
LeavesLastUnended(a, t, pc) == Leaves(a, t, pc)

(* The last loop of AdvanceWorkflow ends the call. *)
LeavesLast(a, t, pc) ==
    IF adv[a].todo \ {t} = {} THEN Returns(a) ELSE Leaves(a, t, pc)

(* UpdateStatus and UpdateTask name the row by id only: they apply whatever *)
(* the status has become.                                                   *)
UpdateStatus(status) ==
    \/ wf' = status /\ UNCHANGED budget
    \/ Spend("storeErr") /\ UNCHANGED wf

UpdateTask(t, status) ==
    \/ task' = [task EXCEPT ![t] = status] /\ UNCHANGED budget
    \/ Spend("storeErr") /\ UNCHANGED task

-----------------------------------------------------------------------------
(* The creating request and the poller come to AdvanceWorkflow. *)

(* One transaction inserts the workflow and its tasks. *)
CreateWorkflow ==
    /\ wf = "ABSENT"
    /\ wf' = "PENDING"
    /\ Goes("request", [Idle EXCEPT !.pc = "start"])
    /\ UNCHANGED <<task, job, sent, budget>>

(* Start: an error of its first statement ends the request. *)
StartWorkflow ==
    /\ At("request", "start")
    /\ UpdateStatus("RUNNING")
    /\ \/ wf' = "RUNNING" /\ Goes("request", [Idle EXCEPT !.pc = "load"])
       \/ wf' # "RUNNING" /\ Returns("request")
    /\ UNCHANGED <<task, job, sent>>

(* The poller looks for RUNNING workflows only. *)
Poll ==
    /\ At("poller", "idle")
    /\ wf = "RUNNING"
    /\ Goes("poller", [Idle EXCEPT !.pc = "load"])
    /\ UNCHANGED <<wf, task, job, sent, budget>>

-----------------------------------------------------------------------------
(* AdvanceWorkflow. *)

(* Get reads the workflow's row and then, with a second query, its tasks. *)
LoadWorkflow(a) ==
    /\ At(a, "load")
    /\ IF wf \in Finished THEN Returns(a)
                          ELSE Goes(a, [Idle EXCEPT !.pc = "tasks"])
    /\ UNCHANGED <<wf, task, job, sent, budget>>

LoadTasks(a) ==
    /\ At(a, "tasks")
    /\ Goes(a, [Idle EXCEPT !.pc = "check", !.seen = task,
                            !.todo = {t \in Tasks : task[t] = "RUNNING"}])
    /\ UNCHANGED <<wf, task, job, sent, budget>>

\* Mutant: the cancellation of a job counts as the failure of its task.
CheckJobCancelledFails(a, t) ==
    /\ At(a, "check") /\ t \in adv[a].todo
    /\ IF job[t] \in Finished
       THEN Goes(a, [adv[a] EXCEPT !.pc = "write", !.cur = t,
                       !.seen[t] = IF job[t] = "SUCCEEDED" THEN "SUCCEEDED" ELSE "FAILED"])
       ELSE Leaves(a, t, "check")
    /\ UNCHANGED <<wf, task, job, sent, budget>>

(* The job of a task that runs: when it has an outcome, so has the task. *)
CheckJob(a, t) ==
    /\ At(a, "check") /\ t \in adv[a].todo
    /\ IF job[t] \in Finished
       THEN Goes(a, [adv[a] EXCEPT !.pc = "write", !.cur = t, !.seen[t] = job[t]])
       ELSE Leaves(a, t, "check")
    /\ UNCHANGED <<wf, task, job, sent, budget>>

CheckJobFails(a, t) ==
    /\ At(a, "check") /\ t \in adv[a].todo
    /\ Spend("storeErr")
    /\ Leaves(a, t, "check")
    /\ UNCHANGED <<wf, task, job, sent>>

(* An error is ignored: the snapshot has the outcome all the same. *)
WriteOutcome(a) ==
    /\ At(a, "write")
    /\ UpdateTask(adv[a].cur, adv[a].seen[adv[a].cur])
    /\ Leaves(a, adv[a].cur, "check")
    /\ UNCHANGED <<wf, job, sent>>

Checked(a)    == At(a, "check") /\ adv[a].todo = {}
Seen(a, st)   == {t \in Tasks : adv[a].seen[t] = st}

\* Mutant: a cancelled task fails the workflow like a failed one.
FailOnceAnyCancelled(a) ==
    /\ Checked(a)
    /\ Seen(a, "FAILED") \cup Seen(a, "CANCELLED") # {}
    /\ UpdateStatus("FAILED")
    /\ IF Seen(a, "PENDING") = {} THEN Returns(a)
       ELSE Goes(a, [adv[a] EXCEPT !.pc = "cancel", !.todo = Seen(a, "PENDING")])
    /\ UNCHANGED <<task, job, sent>>

(* 1. A task failed: so has the workflow, and its pending tasks are        *)
(* cancelled one by one.                                                   *)
FailWorkflow(a) ==
    /\ Checked(a)
    /\ Seen(a, "FAILED") # {}
    /\ UpdateStatus("FAILED")
    /\ IF Seen(a, "PENDING") = {} THEN Returns(a)
       ELSE Goes(a, [adv[a] EXCEPT !.pc = "cancel", !.todo = Seen(a, "PENDING")])
    /\ UNCHANGED <<task, job, sent>>

CancelPending(a, t) ==
    /\ At(a, "cancel") /\ t \in adv[a].todo
    /\ UpdateTask(t, "CANCELLED")
    /\ LeavesLast(a, t, "cancel")
    /\ UNCHANGED <<wf, job, sent>>

\* Mutant: the workflow succeeds once nothing is left to do.
SucceedOnceAllEnded(a) ==
    /\ Checked(a)
    /\ Seen(a, "SUCCEEDED") \cup Seen(a, "CANCELLED") = Tasks
    /\ UpdateStatus("SUCCEEDED")
    /\ Returns(a)
    /\ UNCHANGED <<task, job, sent>>

(* 2. All tasks succeeded. *)
SucceedWorkflow(a) ==
    /\ Checked(a)
    /\ Seen(a, "SUCCEEDED") = Tasks
    /\ UpdateStatus("SUCCEEDED")
    /\ Returns(a)
    /\ UNCHANGED <<task, job, sent>>

\* Mutant: a dependency that is over counts, however it ended.
ReadyOnceDependenciesEnd ==
    {t \in Tasks : /\ task[t] = "PENDING"
                   /\ \A d \in Deps[t] : task[d] \in Finished}

(* 3. Otherwise the tasks that are ready, by a query of its own. *)
ReadyTasks ==
    {t \in Tasks : /\ task[t] = "PENDING"
                   /\ \A d \in Deps[t] : task[d] = "SUCCEEDED"}

FindReady(a) ==
    /\ Checked(a)
    /\ Seen(a, "FAILED") = {} /\ Seen(a, "SUCCEEDED") # Tasks
    /\ IF ReadyTasks = {} THEN Returns(a)
       ELSE Goes(a, [adv[a] EXCEPT !.pc = "schedule", !.todo = ReadyTasks])
    /\ UNCHANGED <<wf, task, job, sent, budget>>

(* The job is created under the idempotency key of the task, or it is      *)
(* there already.                                                          *)
CreateTaskJob(a, t) ==
    /\ At(a, "schedule") /\ t \in adv[a].todo
    /\ job' = [job EXCEPT ![t] = IF @ = "ABSENT" THEN "QUEUED" ELSE @]
    /\ Goes(a, [adv[a] EXCEPT !.pc = "assign", !.cur = t, !.created = (job[t] = "ABSENT")])
    /\ UNCHANGED <<wf, task, sent, budget>>

(* Applied or not, an error leaves the task for a later round. *)
CreateTaskJobFails(a, t) ==
    /\ At(a, "schedule") /\ t \in adv[a].todo
    /\ Spend("storeErr")
    /\ \/ job' = [job EXCEPT ![t] = IF @ = "ABSENT" THEN "QUEUED" ELSE @]
       \/ UNCHANGED job
    /\ LeavesLast(a, t, "schedule")
    /\ UNCHANGED <<wf, task, sent>>

\* Mutant: the new job is not enqueued.
AssignJobOnly(a) ==
    /\ At(a, "assign")
    /\ task' = [task EXCEPT ![adv[a].cur] = "RUNNING"]
    /\ LeavesLast(a, adv[a].cur, "schedule")
    /\ UNCHANGED <<wf, job, sent, budget>>

AssignJob(a) ==
    /\ At(a, "assign")
    /\ task' = [task EXCEPT ![adv[a].cur] = "RUNNING"]
    /\ IF adv[a].created THEN Goes(a, [adv[a] EXCEPT !.pc = "enqueue"])
                         ELSE LeavesLast(a, adv[a].cur, "schedule")
    /\ UNCHANGED <<wf, job, sent, budget>>

(* An error skips the enqueuing, even when the statement was applied. *)
AssignJobFails(a) ==
    /\ At(a, "assign")
    /\ Spend("storeErr")
    /\ \/ task' = [task EXCEPT ![adv[a].cur] = "RUNNING"]
       \/ UNCHANGED task
    /\ LeavesLast(a, adv[a].cur, "schedule")
    /\ UNCHANGED <<wf, job, sent>>

EnqueueJob(a) ==
    /\ At(a, "enqueue")
    /\ \/ sent' = sent \cup {adv[a].cur} /\ UNCHANGED budget
       \/ Spend("storeErr") /\ UNCHANGED sent
    /\ LeavesLast(a, adv[a].cur, "schedule")
    /\ UNCHANGED <<wf, task, job>>

(* A read that fails ends the call. *)
AdvanceFails(a) ==
    /\ At(a, "load") \/ At(a, "tasks") \/ Checked(a)
    /\ Spend("storeErr")
    /\ Returns(a)
    /\ UNCHANGED <<wf, task, job, sent>>

Advance(a) ==
    \/ LoadWorkflow(a) \/ LoadTasks(a)
    \/ \E t \in Tasks : CheckJob(a, t)
    \/ WriteOutcome(a)
    \/ FailWorkflow(a)
    \/ \E t \in Tasks : CancelPending(a, t)
    \/ SucceedWorkflow(a)
    \/ FindReady(a)
    \/ \E t \in Tasks : CreateTaskJob(a, t)
    \/ AssignJob(a) \/ EnqueueJob(a)

Stumble(a) ==
    \/ \E t \in Tasks : CheckJobFails(a, t) \/ CreateTaskJobFails(a, t)
    \/ AssignJobFails(a) \/ AdvanceFails(a)

-----------------------------------------------------------------------------
(* Around it: the operator, the job engine and the API process. *)

(* One transaction.  The tasks are cancelled whatever the workflow's status *)
(* is; the jobs of RUNNING tasks are not.                                   *)
CancelWorkflow ==
    /\ wf # "ABSENT"
    /\ Spend("cancel")
    /\ wf' = IF wf \in Finished THEN wf ELSE "CANCELLED"
    /\ task' = [t \in Tasks |-> IF task[t] \in {"PENDING", "RUNNING"} THEN "CANCELLED"
                                                                      ELSE task[t]]
    /\ UNCHANGED <<job, sent, adv>>

(* Some attempt at a job that was enqueued is its last. *)
JobEnds(t) ==
    /\ job[t] = "QUEUED" /\ t \in sent
    /\ \E outcome \in {"SUCCEEDED", "FAILED"} : job' = [job EXCEPT ![t] = outcome]
    /\ UNCHANGED <<wf, task, sent, adv, budget>>

CancelJob(t) ==
    /\ job[t] = "QUEUED"
    /\ Spend("cancelJob")
    /\ job' = [job EXCEPT ![t] = "CANCELLED"]
    /\ UNCHANGED <<wf, task, sent, adv>>

(* The report of an attempt that was running when its job was cancelled    *)
(* replaces the status; after a failure the job may be tried again.        *)
LateReport(t) ==
    /\ job[t] = "CANCELLED" /\ t \in sent
    /\ \E status \in {"QUEUED", "SUCCEEDED", "FAILED"} : job' = [job EXCEPT ![t] = status]
    /\ UNCHANGED <<wf, task, sent, adv, budget>>

RetryJob(t) ==
    /\ job[t] = "FAILED"
    /\ Spend("retryJob")
    /\ job' = [job EXCEPT ![t] = "QUEUED"]
    /\ UNCHANGED <<wf, task, sent, adv>>

CrashApi ==
    /\ Spend("crash")
    /\ adv' = [a \in Advancers |-> Idle]
    /\ UNCHANGED <<wf, task, job, sent>>

Environment ==
    \/ CancelWorkflow
    \/ \E t \in Tasks : JobEnds(t) \/ CancelJob(t) \/ LateReport(t) \/ RetryJob(t)
    \/ CrashApi

Next ==
    \/ CreateWorkflow \/ StartWorkflow \/ Poll
    \/ \E a \in Advancers : Advance(a) \/ Stumble(a)
    \/ Environment

Spec == Init /\ [][Next]_vars

(* Fairness: a goroutine goes on to its next call, the poller's ticker     *)
(* ticks, and a job that was enqueued comes to an end (JobEngine's         *)
(* EveryJobSettles).                                                       *)
Fairness ==
    /\ WF_vars(StartWorkflow)
    /\ WF_vars(Poll)
    /\ \A a \in Advancers : WF_vars(Advance(a))
    /\ \A t \in Tasks : WF_vars(JobEnds(t))

FairSpec == Spec /\ Fairness

-----------------------------------------------------------------------------
TaskStatus == {"PENDING", "RUNNING"} \cup Finished
JobStatus  == {"ABSENT", "QUEUED"} \cup Finished

AdvState ==
    [pc : {"idle", "start", "load", "tasks", "check", "write", "cancel",
           "schedule", "assign", "enqueue"},
     seen : [Tasks -> TaskStatus], todo : SUBSET Tasks,
     cur : Tasks \cup {NoTask}, created : BOOLEAN]

(* A goroutine has a task in hand exactly between the calls of a loop that *)
(* are about one task, and that task is one the loop has still to leave.   *)
LoopTyped(a) ==
    /\ adv[a].pc \in {"write", "assign", "enqueue"} <=> adv[a].cur # NoTask
    /\ adv[a].cur # NoTask => adv[a].cur \in adv[a].todo
    /\ adv[a].pc \in {"cancel", "schedule"} => adv[a].todo # {}

(* Statuses and goroutines have their values. *)
TypeOK ==
    /\ wf \in {"ABSENT"} \cup TaskStatus
    /\ task \in [Tasks -> TaskStatus]
    /\ job \in [Tasks -> JobStatus]
    /\ sent \subseteq Tasks
    /\ adv \in [Advancers -> AdvState]
    /\ \A a \in Advancers : LoopTyped(a)
    /\ budget \in [Kinds -> Nat]

(* DependenciesFirst: the job of a task exists only once the jobs of all   *)
(* its dependencies succeeded, although the query that finds a task ready, *)
(* the creation of its job and every status it looked at are separate      *)
(* statements and anything may come in between.                            *)
DependenciesFirst ==
    \A t \in Tasks : job[t] # "ABSENT" => \A d \in Deps[t] : job[d] = "SUCCEEDED"

(* SuccessIsTotal: a workflow that says SUCCEEDED has no task whose job    *)
(* did not succeed, whoever wrote the statuses it was decided on.          *)
SuccessIsTotal == wf = "SUCCEEDED" => \A t \in Tasks : job[t] = "SUCCEEDED"

(* What both rest on: SUCCEEDED is only ever written, or read into a       *)
(* snapshot, for a task whose job has it, and a task is only scheduled     *)
(* when all its dependencies have it.                                      *)
Backed(a) ==
    /\ \A t \in Tasks : adv[a].seen[t] = "SUCCEEDED" => job[t] = "SUCCEEDED"
    /\ adv[a].pc \in {"schedule", "assign", "enqueue"} =>
         \A t \in adv[a].todo : \A d \in Deps[t] : job[d] = "SUCCEEDED"

SuccessIsBacked ==
    /\ \A t \in Tasks : task[t] = "SUCCEEDED" => job[t] = "SUCCEEDED"
    /\ \A a \in Advancers : Backed(a)

(* OutcomeIsFinal: the two goroutines may come to their verdicts at the    *)
(* same time and from different snapshots, and the writes are              *)
(* unconditional: once one has written SUCCEEDED or FAILED no other writes *)
(* anything else.  (A retried job of a failed task breaks this.)           *)
OutcomeIsFinal ==
    [][(wf = "SUCCEEDED" \/ wf = "FAILED") => wf' = wf]_vars

Life == INSTANCE WorkflowLifecycle

(* ImplementsWorkflowLifecycle: although the verdict and the order in which *)
(* jobs are made come from snapshots of two goroutines, the row and the    *)
(* jobs go through the steps of WorkflowLifecycle only, each of which is   *)
(* decided on what the jobs are when it is taken.                          *)
ImplementsWorkflowLifecycle == Life!Spec

(* WorkflowSettles: a workflow that was started comes to an end, however   *)
(* the two goroutines interleave.                                          *)
WorkflowSettles == wf = "RUNNING" ~> wf \in Finished
=============================================================================
