----------------------------- MODULE RetryTiming -----------------------------
(***************************************************************************)
(* When a failed job is queued again: the backoff the worker draws         *)
(* (CalculateBackoff of engine/backoff.go, processJob of engine/worker.go) *)
(* and the retry scheduler that polls for the jobs whose run_at has passed *)
(* (engine/scheduler.go, RequeueDueRetries of store/jobs.go).              *)
(*                                                                         *)
(* now is the clock of the API process, in units small enough for delays   *)
(* and intervals; a worker's clock may be off by Skew either way, and      *)
(* run_at is written by it.  Nothing else touches a RETRYING row here:     *)
(* what JobTable lets happen at any time happens on time.                  *)
(***************************************************************************)
EXTENDS Integers, FiniteSets

CONSTANTS
    Jobs,
    BaseDelay, MaxDelay,   \* 1 s and 1 h
    MaxShift,              \* 30
    IntBits,               \* 64, the width of the multiplier
    Interval, BatchSize,   \* 1 s and 100
    Skew,                  \* how far a worker's clock may be off
    AttemptCap,            \* bound on attempts, max_attempts of every job
    Horizon                \* bound on time

ASSUME RetryTimingAssumption ==
    /\ IsFiniteSet(Jobs)
    /\ BaseDelay \in Nat \ {0} /\ MaxDelay \in Nat \ {0} /\ MaxShift \in Nat
    /\ IntBits \in Nat /\ MaxShift < IntBits - 1
    /\ Interval \in Nat \ {0} /\ BatchSize \in Nat \ {0}
    /\ Skew \in Nat /\ AttemptCap \in Nat /\ Horizon \in Nat
    /\ MaxDelay <= BaseDelay * 2^MaxShift

VARIABLES
    now,
    nextPoll,    \* when the scheduler's ticker fires
    status,      \* the status of each job
    attempt,
    runAt        \* run_at of a RETRYING row; of no interest in others, and 0

vars == <<now, nextPoll, status, attempt, runAt>>

Least(x, y) == IF x <= y THEN x ELSE y

(* int64(1) << n: the sign bit, and beyond it nothing, is left of the 1. *)
ShiftLeft(n) ==
    IF n < IntBits - 1 THEN 2^n ELSE IF n = IntBits - 1 THEN -(2^n) ELSE 0

\* Mutant: the exponent is not cut off.
MultiplierUncut(a) == IF a > 1 THEN ShiftLeft(a - 1) ELSE 1

(* The exponent is cut off first, so that the shift does not overflow; an  *)
(* attempt below 1 counts as 1.                                            *)
Multiplier(a) == IF a > 1 THEN ShiftLeft(Least(a - 1, MaxShift)) ELSE 1

Limit(a) == Least(BaseDelay * Multiplier(a), MaxDelay)

(* rand.Float64 is below 1, and the product is cut to whole units; there   *)
(* is no delay when nothing is left to draw from.                          *)
CalculateBackoff(a) == IF Limit(a) > 0 THEN 0..(Limit(a) - 1) ELSE {0}

-----------------------------------------------------------------------------
Init ==
    /\ now = 0
    /\ nextPoll = Interval
    /\ status = [j \in Jobs |-> "QUEUED"]
    /\ attempt = [j \in Jobs |-> 0]
    /\ runAt = [j \in Jobs |-> 0]

(* A worker claims a job and its attempt fails, at once or later. *)
Start(j) ==
    /\ status[j] = "QUEUED"
    /\ attempt[j] < AttemptCap
    /\ status' = [status EXCEPT ![j] = "RUNNING"]
    /\ attempt' = [attempt EXCEPT ![j] = @ + 1]
    /\ UNCHANGED <<now, nextPoll, runAt>>

(* processJob: run_at is the worker's time plus the backoff. *)
Fail(j) ==
    /\ status[j] = "RUNNING"
    /\ IF attempt[j] < AttemptCap
       THEN \E d \in CalculateBackoff(attempt[j]), s \in -Skew..Skew :
               /\ runAt' = [runAt EXCEPT ![j] = now + s + d]
               /\ status' = [status EXCEPT ![j] = "RETRYING"]
       ELSE status' = [status EXCEPT ![j] = "DEAD_LETTER"] /\ UNCHANGED runAt
    /\ UNCHANGED <<now, nextPoll, attempt>>

Due == {j \in Jobs : status[j] = "RETRYING" /\ runAt[j] <= now}

\* Mutant: the batch is taken in no order.
AnyBatch(S) == S \subseteq Due /\ Cardinality(S) = Least(BatchSize, Cardinality(Due))

(* WHERE run_at <= now ORDER BY run_at LIMIT BatchSize. *)
Batch(S) ==
    /\ S \subseteq Due
    /\ Cardinality(S) = Least(BatchSize, Cardinality(Due))
    /\ \A i \in S, j \in Due \ S : runAt[i] <= runAt[j]

\* Mutant: every other tick is dropped.
PollEveryOther ==
    /\ now = nextPoll
    /\ nextPoll' = nextPoll + 2 * Interval
    /\ \E S \in SUBSET Due :
          /\ Batch(S)
          /\ status' = [j \in Jobs |-> IF j \in S THEN "QUEUED" ELSE status[j]]
          /\ runAt' = [j \in Jobs |-> IF j \in S THEN 0 ELSE runAt[j]]
    /\ UNCHANGED <<now, attempt>>

(* PollAndRequeue, at every tick of the scheduler. *)
Poll ==
    /\ now = nextPoll
    /\ nextPoll' = nextPoll + Interval
    /\ \E S \in SUBSET Due :
          /\ Batch(S)
          /\ status' = [j \in Jobs |-> IF j \in S THEN "QUEUED" ELSE status[j]]
          /\ runAt' = [j \in Jobs |-> IF j \in S THEN 0 ELSE runAt[j]]
    /\ UNCHANGED <<now, attempt>>

(* Time passes, but not past a tick that was not served: a poll takes less *)
(* than an interval.                                                       *)
Tick ==
    /\ now < nextPoll /\ now < Horizon
    /\ now' = now + 1
    /\ UNCHANGED <<nextPoll, status, attempt, runAt>>

Next ==
    \/ \E j \in Jobs : Start(j) \/ Fail(j)
    \/ Poll
    \/ Tick

Spec == Init /\ [][Next]_vars

-----------------------------------------------------------------------------
(* Times stay in range: run_at is not further off than the longest backoff. *)
TypeOK ==
    /\ now \in 0..Horizon
    /\ nextPoll \in now..(now + Interval)
    /\ status \in [Jobs -> {"QUEUED", "RUNNING", "RETRYING", "DEAD_LETTER"}]
    /\ attempt \in [Jobs -> 0..AttemptCap]
    /\ runAt \in [Jobs -> -Skew..(Horizon + Skew + MaxDelay)]

(* BackoffHasItsWindow: the delay of a retry is drawn from all that is     *)
(* below baseDelay * 2^(attempt-1) and maxDelay (README.md:119), no less   *)
(* and no more, also at the attempts whose exponent is cut off or would    *)
(* overflow; and up to the skew of the clocks it is due within that.       *)
Window(a) == Least(BaseDelay * 2^(a - 1), MaxDelay)

BackoffHasItsWindow ==
    [][\A j \in Jobs : status[j] # "RETRYING" /\ status'[j] = "RETRYING" =>
         /\ CalculateBackoff(attempt[j]) = 0..(Window(attempt[j]) - 1)
         /\ runAt'[j] - now \in -Skew..(Skew + Window(attempt[j]) - 1)]_vars

(* RetriesInTime: however many jobs fail, and fail again, a due retry      *)
(* waits only for those that were due before it: by the clock of the API   *)
(* it is queued within one interval for each batch the jobs can fill.  A   *)
(* worker whose clock is behind can push in for as long as the skew.       *)
Batches == (Cardinality(Jobs) + BatchSize - 1) \div BatchSize

RetriesInTime ==
    \A j \in Jobs :
        status[j] = "RETRYING" => now <= runAt[j] + Skew + Interval * Batches
=============================================================================
