---------------------------- MODULE MCRedisQueue ----------------------------
(* RedisQueue with one job per tier.  A claimed job may be enqueued again  *)
(* before the next claim, so one job is enough to flood a tier; a stale    *)
(* lease puts the high and the low job into the medium tier as well.       *)
EXTENDS RedisQueue, TLC

CONSTANTS high, medium, low

MCPrio == (high :> 1) @@ (medium :> 2) @@ (low :> 3)
=============================================================================
