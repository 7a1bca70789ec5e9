---------------------------- MODULE WorkflowClaims ----------------------------
(***************************************************************************)
(* What the repository's documents say of workflows and the code does not  *)
(* keep.  Each formula states one claim; TLC finds a counterexample to each*)
(* of them (README.md).                                                    *)
(***************************************************************************)
EXTENDS WorkflowEngine

(* WorkflowCancelIsFinal.  README.md:272: POST /workflows/{id}/cancel is   *)
(* to "Cancel a workflow and its pending tasks", and AdvanceWorkflow       *)
(* (engine/workflow.go:59-61) leaves a terminal workflow alone.  A request *)
(* or a poll that is under way writes its status over CANCELLED.           *)
WorkflowCancelIsFinal == [][wf = "CANCELLED" => wf' = "CANCELLED"]_vars

(* FailedWorkflowStartsNothing.  README.md:145: "if any task fails,        *)
(* remaining pending tasks are cancelled".  A pending task that the other  *)
(* goroutine found ready before is scheduled all the same.                 *)
FailedWorkflowStartsNothing ==
    [][\A t \in Tasks : wf = "FAILED" /\ job[t] = "ABSENT" => job'[t] = "ABSENT"]_vars
=============================================================================
