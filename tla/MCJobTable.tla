----------------------------- MODULE MCJobTable -----------------------------
(* JobTable on two rows: j1 dead-letters on its first failure, j2 on its   *)
(* second, and AttemptCap leaves room for one recovery beyond that.        *)
EXTENDS JobTable, TLC

CONSTANTS j1, j2

MCMaxAttempts == (j1 :> 1) @@ (j2 :> 2)
MCAttemptCap  == [j \in {j1, j2} |-> MCMaxAttempts[j] + 1]
=============================================================================
