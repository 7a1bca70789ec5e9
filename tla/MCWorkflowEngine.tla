--------------------------- MODULE MCWorkflowEngine ---------------------------
(* WorkflowEngine on two small graphs: two independent tasks, and the same *)
(* with a third task that waits for one of them.                           *)
EXTENDS WorkflowClaims, TLC

CONSTANTS t1, t2, t3

\* t1 and t2 are roots, t3 waits for t1.
Fork  == (t1 :> {}) @@ (t2 :> {}) @@ (t3 :> {t1})
Roots == (t1 :> {}) @@ (t2 :> {})

None  == [k \in Kinds |-> 0]
\* Everything but the retry of a failed task's job.
Trouble    == [k \in Kinds |-> IF k = "retryJob" THEN 0 ELSE 1]
OneRetry   == [None EXCEPT !["retryJob"] = 1]
OneCancel  == [None EXCEPT !["cancel"] = 1]
=============================================================================
