-------------------------- MODULE WorkflowLifecycle --------------------------
(***************************************************************************)
(* What the workflow engine promises of one workflow to those who create   *)
(* it, cancel it and watch it: the jobs of its tasks are made in the order *)
(* of the dependencies, and the verdict on the whole is passed on the jobs *)
(* as they are at that moment, as if one goroutine did it under a lock.    *)
(* WorkflowEngine, where two of them work from snapshots, implements this  *)
(* module while no failed job is retried.                                  *)
(*                                                                         *)
(* A workflow that was cancelled may still be given a verdict, or started: *)
(* the cancellation is an update among others.                             *)
(***************************************************************************)
CONSTANTS
    Tasks,
    Deps      \* the dependencies of each task

VARIABLES
    wf,       \* the status of the workflow
    job       \* the status of each task's job

vars == <<wf, job>>

Init ==
    /\ wf = "ABSENT"
    /\ job = [t \in Tasks |-> "ABSENT"]

All(status)  == \A t \in Tasks : job[t] = status
Some(status) == \E t \in Tasks : job[t] = status

Create ==
    /\ wf = "ABSENT"
    /\ wf' = "PENDING"
    /\ UNCHANGED job

Start ==
    /\ wf \in {"PENDING", "CANCELLED"}
    /\ wf' = "RUNNING"
    /\ UNCHANGED job

Schedule(t) ==
    /\ wf \in {"RUNNING", "FAILED", "CANCELLED"}
    /\ job[t] = "ABSENT"
    /\ \A d \in Deps[t] : job[d] = "SUCCEEDED"
    /\ job' = [job EXCEPT ![t] = "QUEUED"]
    /\ UNCHANGED wf

(* The job goes through JobLifecycle: an attempt that was running when the *)
(* job was cancelled may still report.                                     *)
JobMoves(t) ==
    /\ \/ job[t] = "QUEUED"    /\ \E s \in {"SUCCEEDED", "FAILED", "CANCELLED"} :
                                     job' = [job EXCEPT ![t] = s]
       \/ job[t] = "CANCELLED" /\ \E s \in {"QUEUED", "SUCCEEDED", "FAILED"} :
                                     job' = [job EXCEPT ![t] = s]
    /\ UNCHANGED wf

Succeed ==
    /\ wf \in {"RUNNING", "CANCELLED"}
    /\ All("SUCCEEDED")
    /\ wf' = "SUCCEEDED"
    /\ UNCHANGED job

Fail ==
    /\ wf \in {"RUNNING", "CANCELLED"}
    /\ Some("FAILED")
    /\ wf' = "FAILED"
    /\ UNCHANGED job

Cancel ==
    /\ wf \in {"PENDING", "RUNNING"}
    /\ wf' = "CANCELLED"
    /\ UNCHANGED job

Next ==
    \/ Create \/ Start
    \/ \E t \in Tasks : Schedule(t) \/ JobMoves(t)
    \/ Succeed \/ Fail \/ Cancel

Spec == Init /\ [][Next]_vars
=============================================================================
