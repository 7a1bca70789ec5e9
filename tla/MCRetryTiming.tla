---------------------------- MODULE MCRetryTiming ----------------------------
(* Three jobs, a batch of one and an interval as long as a short backoff,  *)
(* so that due retries pile up.                                            *)
EXTENDS RetryTiming, TLC

Symmetry == Permutations(Jobs)
=============================================================================
