--------------------------- MODULE RetryTimingProofs ---------------------------
(***************************************************************************)
(* Theorems about RetryTiming, for any jobs, delays, intervals and skew.   *)
(* From the moment a retry is due beyond the skew, no other gets in ahead  *)
(* of it, and each poll takes a full batch of those ahead or the retry     *)
(* itself: the invariant counts how many polls those ahead can fill.       *)
(***************************************************************************)
EXTENDS RetryTiming, FiniteSetTheorems, TLAPS

(* The retries due no later than j, j among them. *)
Ahead(j) == {i \in Jobs : status[i] = "RETRYING" /\ runAt[i] <= runAt[j]}

(* k polls take all those ahead of j, and they come in time. *)
Served(j, k) ==
    /\ Cardinality(Ahead(j)) <= BatchSize * k
    /\ nextPoll + Interval * k <= runAt[j] + Skew + Interval * (Batches + 1)

Overdue(j) == status[j] = "RETRYING" /\ now > runAt[j] + Skew

IInv ==
    /\ TypeOK
    /\ \A j \in Jobs : Overdue(j) => \E k \in Int : Served(j, k)

USE RetryTimingAssumption

-----------------------------------------------------------------------------
LEMMA Counts ==
    /\ Cardinality(Jobs) \in Nat /\ Batches \in Nat
    /\ Cardinality(Jobs) <= BatchSize * Batches
    /\ \A S \in SUBSET Jobs :
          IsFiniteSet(S) /\ Cardinality(S) \in Nat /\ Cardinality(S) <= Cardinality(Jobs)
<1>1. Cardinality(Jobs) \in Nat
    BY FS_CardinalityType
<1>2. ASSUME NEW C \in Nat
      PROVE  /\ (C + BatchSize - 1) \div BatchSize \in Nat
             /\ C <= BatchSize * ((C + BatchSize - 1) \div BatchSize)
    BY <1>2
<1>3. ASSUME NEW S \in SUBSET Jobs
      PROVE  IsFiniteSet(S) /\ Cardinality(S) \in Nat /\ Cardinality(S) <= Cardinality(Jobs)
    BY <1>3, FS_Subset, FS_CardinalityType
<1> QED BY <1>1, <1>2, <1>3 DEF Batches

(* Whatever the attempt, a backoff is an integer in 0..MaxDelay. *)
LEMMA BackoffRange ==
    \A a \in Nat : \A d \in CalculateBackoff(a) : d \in 0..MaxDelay
<1> SUFFICES ASSUME NEW a \in Nat, NEW d \in CalculateBackoff(a)
             PROVE  d \in 0..MaxDelay
    OBVIOUS
<1>1. Multiplier(a) \in Int
    <2>1. a > 1 => Least(a - 1, MaxShift) \in Nat
        BY DEF Least
    <2>2. \A n \in Nat : 2^n \in Int
        OBVIOUS
    <2>3. \A n \in Nat : ShiftLeft(n) \in Int
        BY <2>2 DEF ShiftLeft
    <2> QED BY <2>1, <2>3 DEF Multiplier
<1>2. Limit(a) \in Int /\ Limit(a) <= MaxDelay
    <2>1. BaseDelay * Multiplier(a) \in Int
        BY <1>1
    <2> QED BY <2>1 DEF Limit, Least
<1>3. CASE Limit(a) > 0
    BY <1>2, <1>3 DEF CalculateBackoff
<1>4. CASE ~(Limit(a) > 0)
    BY <1>4 DEF CalculateBackoff
<1> QED BY <1>3, <1>4

LEMMA InitInv == Init => IInv
<1> SUFFICES ASSUME Init PROVE IInv
    OBVIOUS
<1>1. TypeOK
    BY DEF Init, TypeOK
<1> QED BY <1>1 DEF Init, IInv, Overdue

(* A step that lets no time pass and puts no other retry ahead of j leaves *)
(* what was promised to j.                                                 *)
LEMMA StartInv ==
    ASSUME IInv, NEW j \in Jobs, Start(j)
    PROVE  IInv'
<1>1. TypeOK'
    BY DEF IInv, TypeOK, Start
<1>2. ASSUME NEW i \in Jobs, Overdue(i)' PROVE \E k \in Int : Served(i, k)'
    <2>1. Ahead(i)' = Ahead(i)
        BY DEF Ahead, Start, IInv, TypeOK
    <2>2. Overdue(i)
        BY <1>2 DEF Overdue, Start, IInv, TypeOK
    <2>3. PICK k \in Int : Served(i, k)
        BY <2>2 DEF IInv
    <2>4. Served(i, k)'
        BY <2>1, <2>3 DEF Served, Start
    <2> QED BY <2>4
<1> QED BY <1>1, <1>2 DEF IInv

LEMMA FailInv ==
    ASSUME IInv, NEW j \in Jobs, Fail(j)
    PROVE  IInv'
<1>0. status[j] = "RUNNING" /\ UNCHANGED <<now, nextPoll, attempt>>
    BY DEF Fail
<1>1. CASE attempt[j] < AttemptCap
    <2>1. PICK d \in CalculateBackoff(attempt[j]), s \in -Skew..Skew :
               /\ runAt' = [runAt EXCEPT ![j] = now + s + d]
               /\ status' = [status EXCEPT ![j] = "RETRYING"]
        BY <1>1 DEF Fail
    <2>2. d \in 0..MaxDelay
        BY BackoffRange DEF IInv, TypeOK
    <2>3. now + s + d \in -Skew..(Horizon + Skew + MaxDelay) /\ now + s + d >= now - Skew
        BY <2>2 DEF IInv, TypeOK
    <2>4. TypeOK'
        BY <1>0, <2>1, <2>3 DEF IInv, TypeOK
    <2>5. ASSUME NEW i \in Jobs, Overdue(i)' PROVE \E k \in Int : Served(i, k)'
        <3>1. i # j
            BY <1>0, <2>1, <2>3, <2>5 DEF Overdue, IInv, TypeOK
        <3>2. Overdue(i) /\ runAt'[i] = runAt[i] /\ runAt[i] \in Int
            BY <1>0, <2>1, <2>5, <3>1 DEF Overdue, IInv, TypeOK
        <3>3. ~(runAt'[j] <= runAt[i])
            BY <2>1, <2>3, <3>2 DEF Overdue, IInv, TypeOK
        <3>4. Ahead(i)' = Ahead(i)
            BY <1>0, <2>1, <3>2, <3>3 DEF Ahead, IInv, TypeOK
        <3>5. PICK k \in Int : Served(i, k)
            BY <3>2 DEF IInv
        <3>6. Served(i, k)'
            BY <1>0, <3>2, <3>4, <3>5 DEF Served
        <3> QED BY <3>6
    <2> QED BY <2>4, <2>5 DEF IInv
<1>2. CASE ~(attempt[j] < AttemptCap)
    <2>1. status' = [status EXCEPT ![j] = "DEAD_LETTER"] /\ UNCHANGED runAt
        BY <1>2 DEF Fail
    <2>2. TypeOK'
        BY <1>0, <2>1 DEF IInv, TypeOK
    <2>3. ASSUME NEW i \in Jobs, Overdue(i)' PROVE \E k \in Int : Served(i, k)'
        <3>1. Ahead(i)' = Ahead(i) /\ Overdue(i)
            BY <1>0, <2>1, <2>3 DEF Ahead, Overdue, IInv, TypeOK
        <3>2. PICK k \in Int : Served(i, k)
            BY <3>1 DEF IInv
        <3>3. Served(i, k)'
            BY <1>0, <2>1, <3>1, <3>2 DEF Served
        <3> QED BY <3>3
    <2> QED BY <2>2, <2>3 DEF IInv
<1> QED BY <1>1, <1>2

(* A poll takes an overdue retry, or a full batch of those ahead of it. *)
LEMMA PollInv ==
    ASSUME IInv, Poll
    PROVE  IInv'
<1>1. PICK S \in SUBSET Due :
          /\ Batch(S)
          /\ status' = [j \in Jobs |-> IF j \in S THEN "QUEUED" ELSE status[j]]
          /\ runAt' = [j \in Jobs |-> IF j \in S THEN 0 ELSE runAt[j]]
    BY DEF Poll
<1>2. now = nextPoll /\ nextPoll' = nextPoll + Interval /\ UNCHANGED <<now, attempt>>
    BY DEF Poll
<1>3. S \subseteq Jobs /\ Due \subseteq Jobs
    BY DEF Due
<1>4. TypeOK'
    <2>1. 0 \in -Skew..(Horizon + Skew + MaxDelay)
        OBVIOUS
    <2>2. nextPoll' \in now..(now + Interval)
        BY <1>2 DEF IInv, TypeOK
    <2> QED BY <1>1, <1>2, <2>1, <2>2 DEF IInv, TypeOK
<1>5. ASSUME NEW i \in Jobs, Overdue(i)' PROVE \E k \in Int : Served(i, k)'
    <2>1. i \notin S /\ Overdue(i) /\ runAt'[i] = runAt[i] /\ runAt[i] \in Int
        BY <1>1, <1>2, <1>5 DEF Overdue, IInv, TypeOK
    <2>2. i \in Due \ S
        BY <1>2, <2>1 DEF Overdue, Due, IInv, TypeOK
    <2>3. Cardinality(S) = BatchSize
        <3>1. IsFiniteSet(Due) /\ Cardinality(Due) \in Nat /\ Cardinality(S) \in Nat
            BY <1>3, Counts
        <3>2. Cardinality(S) = Least(BatchSize, Cardinality(Due))
            BY <1>1 DEF Batch
        <3>3. Cardinality(S) # Cardinality(Due)
            BY <2>2, <3>1, FS_Subset
        <3> QED BY <3>1, <3>2, <3>3 DEF Least
    <2>4. S \subseteq Ahead(i)
        BY <1>1, <2>2 DEF Batch, Ahead, Due
    <2>5. Ahead(i)' = Ahead(i) \ S
        BY <1>1, <2>1 DEF Ahead
    <2>6. Cardinality(Ahead(i)') = Cardinality(Ahead(i)) - BatchSize /\ Cardinality(Ahead(i)) \in Nat
        <3>1. IsFiniteSet(Ahead(i)) /\ Cardinality(Ahead(i)) \in Nat
            BY Counts DEF Ahead
        <3>2. Ahead(i) \cap S = S
            BY <2>4
        <3>3. Cardinality(Ahead(i) \ S) = Cardinality(Ahead(i)) - Cardinality(Ahead(i) \cap S)
            BY <3>1, FS_Difference
        <3> QED BY <2>3, <2>5, <3>1, <3>2, <3>3
    <2>7. PICK k \in Int : Served(i, k)
        BY <2>1 DEF IInv
    <2>8. BatchSize * (k - 1) = BatchSize * k - BatchSize
          /\ Interval * (k - 1) = Interval * k - Interval
        OBVIOUS
    <2>9. Interval * k \in Int /\ BatchSize * k \in Int /\ Interval * (Batches + 1) \in Int
        BY Counts
    <2>10. Served(i, k - 1)'
        <3>1. Cardinality(Ahead(i)') <= BatchSize * (k - 1)
            BY <2>6, <2>7, <2>8, <2>9 DEF Served
        <3>2. nextPoll' + Interval * (k - 1) <= runAt'[i] + Skew + Interval * (Batches + 1)
            BY <1>2, <2>1, <2>7, <2>8, <2>9 DEF Served, IInv, TypeOK
        <3> QED BY <3>1, <3>2 DEF Served, Batches
    <2> QED BY <2>10
<1> QED BY <1>4, <1>5 DEF IInv

(* When a retry becomes overdue, the next poll is less than an interval    *)
(* away, and all the jobs together fill no more than Batches polls.        *)
LEMMA TickInv ==
    ASSUME IInv, Tick
    PROVE  IInv'
<1>1. now < nextPoll /\ now' = now + 1 /\ now < Horizon /\ UNCHANGED <<nextPoll, status, attempt, runAt>>
    BY DEF Tick
<1>2. TypeOK'
    BY <1>1 DEF IInv, TypeOK
<1>3. ASSUME NEW i \in Jobs, Overdue(i)' PROVE \E k \in Int : Served(i, k)'
    <2>1. Ahead(i)' = Ahead(i) /\ runAt[i] \in Int /\ status[i] = "RETRYING"
        BY <1>1, <1>3 DEF Ahead, Overdue, IInv, TypeOK
    <2>2. CASE Overdue(i)
        <3>1. PICK k \in Int : Served(i, k)
            BY <2>2 DEF IInv
        <3>2. Served(i, k)'
            BY <1>1, <2>1, <3>1 DEF Served
        <3> QED BY <3>2
    <2>3. CASE ~Overdue(i)
        <3>1. nextPoll <= runAt[i] + Skew + Interval
            BY <1>1, <2>1, <2>3 DEF Overdue, IInv, TypeOK
        <3>2. Cardinality(Ahead(i)) <= BatchSize * Batches
            <4>1. Cardinality(Ahead(i)) \in Nat /\ Cardinality(Ahead(i)) <= Cardinality(Jobs)
                BY Counts DEF Ahead
            <4>2. BatchSize * Batches \in Int
                BY Counts
            <4> QED BY <4>1, <4>2, Counts
        <3>3. Interval * (Batches + 1) = Interval * Batches + Interval /\ Interval * Batches \in Int
            BY Counts
        <3>4. nextPoll + Interval * Batches <= runAt[i] + Skew + Interval * (Batches + 1)
            BY <2>1, <3>1, <3>3 DEF IInv, TypeOK
        <3>5. Served(i, Batches)'
            BY <1>1, <2>1, <3>2, <3>4 DEF Served, Batches
        <3> QED BY <3>5, Counts
    <2> QED BY <2>2, <2>3
<1> QED BY <1>2, <1>3 DEF IInv

LEMMA NextInv == IInv /\ [Next]_vars => IInv'
<1> SUFFICES ASSUME IInv, [Next]_vars PROVE IInv'
    OBVIOUS
<1>1. ASSUME NEW j \in Jobs, Start(j) PROVE IInv'
    BY <1>1, StartInv
<1>2. ASSUME NEW j \in Jobs, Fail(j) PROVE IInv'
    BY <1>2, FailInv
<1>3. CASE Poll
    BY <1>3, PollInv
<1>4. CASE Tick
    BY <1>4, TickInv
<1>5. CASE UNCHANGED vars
    BY <1>5 DEF vars, IInv, TypeOK, Overdue, Served, Ahead, Batches
<1> QED BY <1>1, <1>2, <1>3, <1>4, <1>5 DEF Next

LEMMA Inductive == Spec => []IInv
<1> QED BY InitInv, NextInv, PTL DEF Spec

-----------------------------------------------------------------------------
(* RetryTimingTyped: run_at stays within the longest backoff and the skew  *)
(* of the clocks, for any attempt.                                         *)
THEOREM RetryTimingTyped == Spec => []TypeOK
<1>1. IInv => TypeOK
    BY DEF IInv
<1> QED BY <1>1, Inductive, PTL

(* RetriesAreServed: no due retry waits longer than one poll for each      *)
(* batch that all jobs together can fill, plus the skew, however often     *)
(* jobs fail again meanwhile (jobs.go:291-315, scheduler.go:36-49).        *)
THEOREM RetriesAreServed == Spec => []RetriesInTime
<1>1. IInv => RetriesInTime
    <2> SUFFICES ASSUME IInv, NEW j \in Jobs, status[j] = "RETRYING"
                 PROVE  now <= runAt[j] + Skew + Interval * Batches
        BY DEF RetriesInTime
    <2>1. now \in Nat /\ nextPoll \in Int /\ now <= nextPoll /\ runAt[j] \in Int
        BY DEF IInv, TypeOK
    <2>2. Interval * Batches \in Nat /\ Interval * (Batches + 1) = Interval * Batches + Interval
        BY Counts
    <2>3. CASE ~Overdue(j)
        BY <2>1, <2>2, <2>3 DEF Overdue
    <2>4. CASE Overdue(j)
        <3>1. PICK k \in Int : Served(j, k)
            BY <2>4 DEF IInv
        <3>2. IsFiniteSet(Ahead(j)) /\ Cardinality(Ahead(j)) \in Nat
            BY Counts DEF Ahead
        <3>3. j \in Ahead(j)
            BY <2>1 DEF Ahead
        <3>4. Cardinality(Ahead(j)) >= 1
            BY <3>2, <3>3, FS_EmptySet
        <3>5. k >= 1
            <4>1. BatchSize * k \in Int /\ BatchSize * k >= 1
                BY <3>1, <3>2, <3>4 DEF Served
            <4> QED BY <4>1
        <3>6. Interval * k >= Interval /\ Interval * k \in Int
            BY <3>5
        <3> QED BY <2>1, <2>2, <3>1, <3>6 DEF Served
    <2> QED BY <2>3, <2>4
<1> QED BY <1>1, Inductive, PTL

-----------------------------------------------------------------------------
(* A power of two is the number of subsets of a set, which grows with it.  *)
LEMMA PowerGrows ==
    ASSUME NEW m \in Nat, NEW n \in Nat, m <= n
    PROVE  2^m <= 2^n
<1>1. IsFiniteSet(1..m) /\ Cardinality(1..m) = m
    BY FS_Interval
<1>2. IsFiniteSet(1..n) /\ Cardinality(1..n) = n
    BY FS_Interval
<1>3. IsFiniteSet(SUBSET (1..n)) /\ Cardinality(SUBSET (1..n)) = 2^n
    BY <1>2, FS_SUBSET
<1>4. Cardinality(SUBSET (1..m)) = 2^m
    BY <1>1, FS_SUBSET
<1>5. SUBSET (1..m) \subseteq SUBSET (1..n)
    OBVIOUS
<1>6. Cardinality(SUBSET (1..m)) <= Cardinality(SUBSET (1..n))
    BY <1>3, <1>5, FS_Subset
<1> QED BY <1>3, <1>4, <1>6

LEMMA PowerOfZero == 2^0 = 1
<1>1. IsFiniteSet({}) /\ Cardinality({}) = 0
    BY FS_EmptySet
<1>2. Cardinality(SUBSET {}) = 2^0
    BY <1>1, FS_SUBSET
<1>3. SUBSET {} = {{}}
    OBVIOUS
<1>4. Cardinality({{}}) = 1
    BY FS_Singleton
<1> QED BY <1>2, <1>3, <1>4

(* The exponent is cut off where the delay is at its maximum anyway, so    *)
(* that neither the cut-off nor an overflow shows in a backoff.            *)
LEMMA CutOffIsHidden ==
    ASSUME NEW a \in Nat, a >= 1
    PROVE  Limit(a) = Window(a)
<1>1. a - 1 \in Nat /\ \A n \in Nat : 2^n \in Int
    OBVIOUS
<1>2. \A n \in Nat : n <= MaxShift => ShiftLeft(n) = 2^n
    BY DEF ShiftLeft
<1>3. CASE a - 1 <= MaxShift
    <2>1. Multiplier(a) = 2^(a - 1)
        <3>1. CASE a > 1
            BY <1>2, <1>3, <3>1 DEF Multiplier, Least
        <3>2. CASE a = 1
            <4>1. a - 1 = 0 /\ Multiplier(a) = 1
                BY <3>2 DEF Multiplier
            <4> QED BY <4>1, PowerOfZero
        <3> QED BY <3>1, <3>2
    <2> QED BY <2>1 DEF Limit, Window
<1>4. CASE a - 1 > MaxShift
    <2>1. Multiplier(a) = 2^MaxShift
        BY <1>2, <1>4 DEF Multiplier, Least
    <2>2. 2^MaxShift \in Int /\ 2^(a - 1) \in Int /\ 2^MaxShift <= 2^(a - 1)
        BY <1>1, <1>4, PowerGrows
    <2>3. ASSUME NEW x \in Int, NEW y \in Int, x <= y
          PROVE  BaseDelay * x \in Int /\ BaseDelay * y \in Int /\ BaseDelay * x <= BaseDelay * y
        BY <2>3
    <2>4. BaseDelay * 2^MaxShift <= BaseDelay * 2^(a - 1)
          /\ BaseDelay * 2^MaxShift \in Int /\ BaseDelay * 2^(a - 1) \in Int
        BY <2>2, <2>3
    <2>5. Limit(a) = MaxDelay
        BY <2>1, <2>4 DEF Limit, Least
    <2>6. Window(a) = MaxDelay
        BY <2>4 DEF Window, Least
    <2> QED BY <2>5, <2>6
<1> QED BY <1>1, <1>3, <1>4

(* There is always something to draw a delay from. *)
LEMMA WindowIsOpen ==
    ASSUME NEW a \in Nat, a >= 1
    PROVE  Window(a) \in Int /\ Window(a) >= 1
<1>1. ASSUME NEW n \in Nat PROVE 2^n \in Int /\ 2^n >= 1
    <2>1. 2^n \in Int
        OBVIOUS
    <2>2. 0 \in Nat /\ 0 <= n
        OBVIOUS
    <2>3. 2^0 <= 2^n
        BY <2>2, PowerGrows
    <2> QED BY <2>1, <2>3, PowerOfZero
<1>2. 2^(a - 1) \in Int /\ 2^(a - 1) >= 1
    <2>1. a - 1 \in Nat
        OBVIOUS
    <2> QED BY <1>1, <2>1
<1>3. ASSUME NEW x \in Int, x >= 1
      PROVE  BaseDelay * x \in Int /\ BaseDelay * x >= 1
    BY <1>3
<1>4. BaseDelay * 2^(a - 1) \in Int /\ BaseDelay * 2^(a - 1) >= 1
    BY <1>2, <1>3
<1> QED BY <1>4 DEF Window, Least

(* An attempt that can fail was counted when it started. *)
Started == \A j \in Jobs : status[j] = "RUNNING" => attempt[j] >= 1

LEMMA StartedInv == Spec => []Started
<1>1. Init => Started
    BY DEF Init, Started
<1>2. IInv /\ Started /\ [Next]_vars => Started'
    <2> SUFFICES ASSUME IInv, Started, [Next]_vars PROVE Started'
        OBVIOUS
    <2>1. ASSUME NEW j \in Jobs, Start(j) PROVE Started'
        BY <2>1 DEF Start, Started, IInv, TypeOK
    <2>2. ASSUME NEW j \in Jobs, Fail(j) PROVE Started'
        <3>1. attempt' = attempt /\ status'[j] # "RUNNING"
              /\ \A i \in Jobs \ {j} : status'[i] = status[i]
            BY <2>2 DEF Fail, IInv, TypeOK
        <3> QED BY <3>1 DEF Started
    <2>3. CASE Poll
        <3>1. attempt' = attempt /\ \A j \in Jobs : status'[j] = "RUNNING" => status[j] = "RUNNING"
            BY <2>3 DEF Poll
        <3> QED BY <3>1 DEF Started
    <2>4. CASE Tick
        BY <2>4 DEF Tick, Started
    <2>5. CASE UNCHANGED vars
        BY <2>5 DEF vars, Started
    <2> QED BY <2>1, <2>2, <2>3, <2>4, <2>5 DEF Next
<1> QED BY <1>1, <1>2, Inductive, PTL DEF Spec

(* EveryBackoffHasItsWindow: whatever the attempt, those whose exponent    *)
(* is cut off or would overflow among them, and whatever the delays and    *)
(* the width of the integers, as long as the cut-off lies beyond maxDelay, *)
(* the delay of a retry is drawn from exactly what is below baseDelay *    *)
(* 2^(attempt-1) and maxDelay (CalculateBackoff, backoff.go:24-52).        *)
THEOREM EveryBackoffHasItsWindow == Spec => BackoffHasItsWindow
<1> DEFINE Drawn(j) ==
        /\ CalculateBackoff(attempt[j]) = 0..(Window(attempt[j]) - 1)
        /\ runAt'[j] - now \in -Skew..(Skew + Window(attempt[j]) - 1)
<1>1. IInv /\ Started /\ [Next]_vars =>
        [\A j \in Jobs : status[j] # "RETRYING" /\ status'[j] = "RETRYING" => Drawn(j)]_vars
    <2> SUFFICES ASSUME IInv, Started, Next, NEW j \in Jobs,
                        status[j] # "RETRYING", status'[j] = "RETRYING"
                 PROVE  Drawn(j)
        OBVIOUS
    <2>1. Fail(j)
        <3>1. ASSUME NEW i \in Jobs, Start(i) PROVE FALSE
            BY <3>1 DEF Start, IInv, TypeOK
        <3>2. ASSUME NEW i \in Jobs \ {j}, Fail(i) PROVE FALSE
            BY <3>2 DEF Fail, IInv, TypeOK
        <3>3. ~Poll
            BY DEF Poll
        <3>4. ~Tick
            BY DEF Tick
        <3> QED BY <3>1, <3>2, <3>3, <3>4 DEF Next
    <2>2. attempt[j] \in Nat /\ attempt[j] >= 1 /\ now \in Int
        BY <2>1 DEF Fail, Started, IInv, TypeOK
    <2>3. Limit(attempt[j]) = Window(attempt[j])
          /\ Window(attempt[j]) \in Int /\ Window(attempt[j]) >= 1
        BY <2>2, CutOffIsHidden, WindowIsOpen
    <2>4. CalculateBackoff(attempt[j]) = 0..(Window(attempt[j]) - 1)
        BY <2>3 DEF CalculateBackoff
    <2>5. PICK d \in CalculateBackoff(attempt[j]), s \in -Skew..Skew : runAt'[j] = now + s + d
        BY <2>1 DEF Fail, IInv, TypeOK
    <2>6. d \in 0..(Window(attempt[j]) - 1)
        BY <2>4, <2>5
    <2>7. runAt'[j] - now \in -Skew..(Skew + Window(attempt[j]) - 1)
        BY <2>2, <2>3, <2>5, <2>6
    <2> QED BY <2>4, <2>7
<1> QED BY <1>1, Inductive, StartedInv, PTL DEF Spec, BackoffHasItsWindow
=============================================================================
