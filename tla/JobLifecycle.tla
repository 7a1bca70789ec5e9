---------------------------- MODULE JobLifecycle ----------------------------
(***************************************************************************)
(* What the engine promises of a job to those who submit, cancel, retry    *)
(* and watch it, and to the workflow engine, whose tasks stand for jobs:   *)
(* it is executed by nobody or by one slot, it ends when that slot says    *)
(* so, SUCCEEDED stays, and only an operator gets it out of FAILED.        *)
(*                                                                         *)
(* FAILED stands for FAILED and DEAD_LETTER, PENDING for QUEUED, RUNNING   *)
(* and RETRYING: where a pending job waits, and for what, is the business  *)
(* of JobEngine, which implements this module.                             *)
(***************************************************************************)
CONSTANT Jobs

VARIABLES
    outcome,     \* what the status of each job says
    executing    \* the jobs some slot is executing

vars == <<outcome, executing>>

Init ==
    /\ outcome = [j \in Jobs |-> "ABSENT"]
    /\ executing = {}

Becomes(j, o) == outcome' = [outcome EXCEPT ![j] = o]

Submit(j) ==
    /\ outcome[j] = "ABSENT"
    /\ Becomes(j, "PENDING")
    /\ UNCHANGED executing

Begin(j) ==
    /\ outcome[j] = "PENDING" /\ j \notin executing
    /\ executing' = executing \cup {j}
    /\ UNCHANGED outcome

(* An attempt ends: the job with it, or it waits for another one; that it  *)
(* was cancelled in the meantime is written over.                          *)
End(j) ==
    /\ j \in executing
    /\ executing' = executing \ {j}
    /\ \E o \in {"SUCCEEDED", "FAILED", "PENDING"} : Becomes(j, o)

(* Attempts break off without a word, all those of a process at a time. *)
BreakOff(S) ==
    /\ S # {} /\ S \subseteq executing
    /\ executing' = executing \ S
    /\ UNCHANGED outcome

Cancel(j) ==
    /\ outcome[j] = "PENDING"
    /\ Becomes(j, "CANCELLED")
    /\ UNCHANGED executing

Retry(j) ==
    /\ outcome[j] = "FAILED" /\ j \notin executing
    /\ Becomes(j, "PENDING")
    /\ UNCHANGED executing

Next ==
    \/ \E j \in Jobs : Submit(j) \/ Begin(j) \/ End(j) \/ Cancel(j) \/ Retry(j)
    \/ \E S \in SUBSET Jobs : BreakOff(S)

Spec == Init /\ [][Next]_vars
=============================================================================
