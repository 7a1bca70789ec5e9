-------------------------- MODULE RedisQueueProofs --------------------------
(***************************************************************************)
(* The weighted rotation of the claim script starves no tier, for any      *)
(* weights, any number of jobs and any pattern of enqueues, and the Redis  *)
(* commands implement the queue interface.                                 *)
(***************************************************************************)
EXTENDS RedisQueue, TLAPS

(* The slots of a rotation, as linear arithmetic over the weights. *)
LEMMA Weights ==
    /\ W1 \in Nat /\ W1 >= 1 /\ W2 \in Nat /\ W2 >= 1 /\ W3 \in Nat /\ W3 >= 1
    /\ TotalW = W1 + W2 + W3
BY RedisQueueAssumption DEF TotalW

LEMMA TypeInit == Init => TypeOK
BY RedisQueueAssumption, Weights
   DEF Init, TypeOK, Score, NoEntry, Tiers

LEMMA NextSlotInRange ==
    ASSUME slot \in 0..(TotalW - 1)
    PROVE  NextSlot \in 0..(TotalW - 1)
BY Weights DEF NextSlot

LEMMA SkipTyped ==
    ASSUME TypeOK, NEW p \in Tiers, Skip(p)
    PROVE  skipped' \in [Tiers -> Nat]
BY DEF TypeOK, Skip

LEMMA TypeStep == TypeOK /\ [Next]_vars => TypeOK'
<1> SUFFICES ASSUME TypeOK, [Next]_vars PROVE TypeOK'
  OBVIOUS
<1> USE RedisQueueAssumption DEF TypeOK, Score
<1>0. now \in Score /\ now + Visibility \in Score /\ NoEntry \in Score
  BY DEF NoEntry
<1>1. ASSUME NEW j \in Jobs, Enqueue(j) PROVE TypeOK'
  BY <1>0, <1>1 DEF Enqueue
<1>2. ASSUME NEW j \in Jobs, Ack(j) PROVE TypeOK'
  BY <1>0, <1>2 DEF Ack
<1>3. ASSUME NEW j \in Jobs, NEW p \in Tiers, Claim(j, p) PROVE TypeOK'
  <2>1. slot' \in 0..(TotalW - 1)
    BY <1>3, NextSlotInRange DEF Claim
  <2>2. skipped' \in [Tiers -> Nat]
    BY <1>3, SkipTyped DEF Claim
  <2>3. QED BY <1>0, <1>3, <2>1, <2>2 DEF Claim
<1>4. CASE RequeueStale
  BY <1>0, <1>4 DEF RequeueStale, DefaultPriority, Tiers
<1>5. CASE ClaimEmpty
  <2>1. slot' \in 0..(TotalW - 1)
    BY <1>5, NextSlotInRange DEF ClaimEmpty
  <2>2. QED BY <1>5, <2>1 DEF ClaimEmpty
<1>6. CASE Tick
  BY <1>6 DEF Tick
<1>7. CASE UNCHANGED vars
  BY <1>7 DEF vars
<1>8. QED BY <1>1, <1>2, <1>3, <1>4, <1>5, <1>6, <1>7 DEF Next

(* Scores, deadlines, rotation slot and clock stay in range. *)
THEOREM RedisQueueTyped == Spec => []TypeOK
<1>1. QED BY TypeInit, TypeStep, PTL DEF Spec

-----------------------------------------------------------------------------
(* In the slots of its own band a tier that has entries is served. *)
LEMMA OwnBandServes ==
    ASSUME NEW s \in Nat, NEW p \in Tiers, NEW q \in Tiers,
           SearchOrder(s)[1] = q, Members(q) # {}, Serves(s, p)
    PROVE  p = q
<1>1. PICK i \in 1..3 : /\ SearchOrder(s)[i] = p
                        /\ \A k \in 1..3 : k < i => Members(SearchOrder(s)[k]) = {}
  BY DEF Serves
<1>2. i = 1
  BY <1>1
<1>3. QED BY <1>1, <1>2

LEMMA FirstSearched ==
    ASSUME NEW s \in Nat
    PROVE  /\ s < W1 => SearchOrder(s)[1] = 1
           /\ s >= W1 /\ s < W1 + W2 => SearchOrder(s)[1] = 2
           /\ s >= W1 + W2 => SearchOrder(s)[1] = 3
BY Weights DEF SearchOrder

(* What a claim does to the count of each tier. *)
LEMMA ClaimSkips ==
    ASSUME TypeOK, NEW j \in Jobs, NEW p \in Tiers, Claim(j, p)
    PROVE  /\ \A q \in Tiers : skipped'[q] \in {0, skipped[q] + 1}
           /\ \A q \in Tiers : SearchOrder(NextSlot)[1] = q => skipped'[q] = 0
<1>1. \A q \in Tiers : skipped'[q] = IF q = p \/ Members(q) = {} THEN 0 ELSE skipped[q] + 1
  BY DEF Claim, Skip
<1>2. NextSlot \in Nat
  BY NextSlotInRange, Weights DEF TypeOK
<1>3. \A q \in Tiers : SearchOrder(NextSlot)[1] = q /\ Members(q) # {} => p = q
  BY <1>2, OwnBandServes DEF Claim
<1>4. QED BY <1>1, <1>3

LEMMA SkipsStep == TypeOK /\ SkipsBySlot /\ [Next]_vars => SkipsBySlot'
<1> SUFFICES ASSUME TypeOK, SkipsBySlot, [Next]_vars PROVE SkipsBySlot'
  OBVIOUS
<1>0. /\ slot \in 0..(TotalW - 1) /\ skipped[1] \in Nat
      /\ skipped[2] \in Nat /\ skipped[3] \in Nat
  BY DEF TypeOK, Tiers
<1>1. ASSUME NEW j \in Jobs, NEW p \in Tiers, Claim(j, p) PROVE SkipsBySlot'
  <2>1. /\ skipped'[1] \in {0, skipped[1] + 1}
        /\ skipped'[2] \in {0, skipped[2] + 1}
        /\ skipped'[3] \in {0, skipped[3] + 1}
    BY <1>1, ClaimSkips DEF Tiers
  <2>2. NextSlot \in Nat
    BY <1>0, NextSlotInRange, Weights
  <2>3. /\ NextSlot < W1 => skipped'[1] = 0
        /\ NextSlot >= W1 /\ NextSlot < W1 + W2 => skipped'[2] = 0
        /\ NextSlot >= W1 + W2 => skipped'[3] = 0
    BY <1>1, <2>2, ClaimSkips, FirstSearched DEF Tiers
  <2>4. slot' = NextSlot
    BY <1>1 DEF Claim
  <2>5. QED BY <1>0, <2>1, <2>2, <2>3, <2>4, Weights DEF SkipsBySlot, NextSlot
<1>2. CASE ClaimEmpty
  <2>1. /\ skipped'[1] = 0 /\ skipped'[2] = 0 /\ skipped'[3] = 0
        /\ slot' = NextSlot
    BY <1>2 DEF ClaimEmpty, Tiers
  <2>2. NextSlot \in 0..(TotalW - 1)
    BY <1>0, NextSlotInRange
  <2>3. QED BY <2>1, <2>2, Weights DEF SkipsBySlot
<1>3. CASE UNCHANGED <<slot, skipped>>
  BY <1>3 DEF SkipsBySlot
<1>4. QED BY <1>1, <1>2, <1>3
          DEF Next, vars, Enqueue, Ack, RequeueStale, Tick

LEMMA SkipsInit == Init => SkipsBySlot
BY Weights DEF Init, SkipsBySlot, Tiers

THEOREM SkipsInvariance == Spec => [](TypeOK /\ SkipsBySlot)
<1>1. QED BY TypeInit, TypeStep, SkipsInit, SkipsStep, PTL DEF Spec

(* No tier that has entries is passed over more often in a row than the    *)
(* other tiers have slots in a rotation.                                   *)
THEOREM NoTierStarves == Spec => []BoundedSkips
<1>1. TypeOK /\ SkipsBySlot => BoundedSkips
  BY Weights DEF TypeOK, SkipsBySlot, BoundedSkips, Tiers
<1>2. QED BY <1>1, SkipsInvariance, PTL

-----------------------------------------------------------------------------
(* The refinement: the members of the sorted sets are the entries of the   *)
(* abstract queue, and every script is one of its operations.              *)
aWaiting == [p \in Tiers |-> Members(p)]

LEMMA AbstractInit == Init => Abstract!Init
BY DEF Init, Abstract!Init, Members, Leased

LEMMA EnqueueRefines ==
    ASSUME TypeOK, NEW j \in Jobs, Enqueue(j)
    PROVE  Abstract!Enqueue(j, Prio[j])
<1>1. Prio[j] \in Tiers /\ now # NoEntry
  BY RedisQueueAssumption DEF TypeOK, NoEntry
<1>2. \A p \in Tiers : Members(p)' = IF p = Prio[j] THEN Members(p) \cup {j} ELSE Members(p)
  BY <1>1 DEF Enqueue, Members, TypeOK
<1>3. aWaiting' = [aWaiting EXCEPT ![Prio[j]] = @ \cup {j}]
  BY <1>1, <1>2 DEF aWaiting
<1>4. Leased' = Leased
  BY DEF Enqueue, Leased
<1>5. QED BY <1>3, <1>4 DEF Abstract!Enqueue, aWaiting

LEMMA ClaimRefines ==
    ASSUME TypeOK, NEW j \in Jobs, NEW p \in Tiers, Claim(j, p)
    PROVE  Abstract!Claim(j)
<1>1. j \in Members(p)
  BY DEF Claim, First
<1>2. now + Visibility # NoEntry
  BY RedisQueueAssumption DEF TypeOK, NoEntry
<1>3. \A q \in Tiers : Members(q)' = IF q = p THEN Members(q) \ {j} ELSE Members(q)
  BY DEF Claim, Members, TypeOK
<1>4. aWaiting' = [aWaiting EXCEPT ![p] = @ \ {j}]
  BY <1>3 DEF aWaiting
<1>5. Leased' = Leased \cup {j}
  BY <1>2 DEF Claim, Leased, TypeOK
<1>6. QED BY <1>1, <1>4, <1>5 DEF Abstract!Claim, Abstract!ClaimFrom, aWaiting

LEMMA AckRefines ==
    ASSUME TypeOK, NEW j \in Jobs, Ack(j)
    PROVE  Abstract!Ack(j)
<1>1. aWaiting' = aWaiting
  BY DEF Ack, aWaiting, Members
<1>2. Leased' = Leased \ {j}
  BY DEF Ack, Leased, TypeOK
<1>3. QED BY <1>1, <1>2 DEF Abstract!Ack, aWaiting

LEMMA RequeueStaleRefines ==
    ASSUME TypeOK, RequeueStale
    PROVE  Abstract!RequeueStale(Stale, DefaultPriority)
<1>1. Stale # {} /\ Stale \subseteq Leased /\ DefaultPriority \in Tiers /\ now # NoEntry
  BY DEF RequeueStale, Stale, DefaultPriority, Tiers, TypeOK, NoEntry
<1>2. \A q \in Tiers : Members(q)' = IF q = DefaultPriority THEN Members(q) \cup Stale
                                                            ELSE Members(q)
  BY <1>1 DEF RequeueStale, Members, Leased, TypeOK, Stale
<1>3. aWaiting' = [aWaiting EXCEPT ![DefaultPriority] = @ \cup Stale]
  BY <1>1, <1>2 DEF aWaiting
<1>4. Leased' = Leased \ Stale
  BY DEF RequeueStale, Leased, TypeOK
<1>5. QED BY <1>1, <1>3, <1>4 DEF Abstract!RequeueStale, aWaiting

LEMMA StepRefines == TypeOK /\ [Next]_vars => [Abstract!Next]_(Abstract!vars)
<1> SUFFICES ASSUME TypeOK, [Next]_vars PROVE [Abstract!Next]_(Abstract!vars)
  OBVIOUS
<1>1. ASSUME NEW j \in Jobs, Enqueue(j) PROVE Abstract!Next
  <2>1. Prio[j] \in Tiers
    BY RedisQueueAssumption
  <2>2. QED BY <1>1, <2>1, EnqueueRefines DEF Abstract!Next
<1>2. ASSUME NEW j \in Jobs, Ack(j) PROVE Abstract!Next
  BY <1>2, AckRefines DEF Abstract!Next
<1>3. ASSUME NEW j \in Jobs, NEW p \in Tiers, Claim(j, p) PROVE Abstract!Next
  BY <1>3, ClaimRefines DEF Abstract!Next
<1>4. CASE RequeueStale
  <2>1. Stale \in SUBSET Jobs /\ DefaultPriority \in Tiers
    BY DEF Stale, Leased, DefaultPriority, Tiers
  <2>2. QED BY <1>4, <2>1, RequeueStaleRefines DEF Abstract!Next
<1>5. CASE UNCHANGED <<zset, inProgress>>
  BY <1>5 DEF Abstract!vars, Members, Leased
<1>6. QED BY <1>1, <1>2, <1>3, <1>4, <1>5 DEF Next, ClaimEmpty, Tick, vars

(* Every behaviour of the Redis commands is one of the queue interface.    *)
THEOREM RedisImplementsQueue == Spec => ImplementsLeaseQueue
<1>1. QED BY AbstractInit, StepRefines, RedisQueueTyped, PTL
          DEF Spec, ImplementsLeaseQueue, Abstract!Spec

-----------------------------------------------------------------------------
(* A deadline is always the last claim's, also for a job claimed twice. *)
DeadlineOfLastClaim ==
    \A j \in Jobs : inProgress[j] # NoEntry
                       => claimedAt[j] \in Nat /\ inProgress[j] = claimedAt[j] + Visibility

LEMMA DeadlineInit == Init => DeadlineOfLastClaim
BY DEF Init, DeadlineOfLastClaim

LEMMA DeadlineStep == TypeOK /\ DeadlineOfLastClaim /\ [Next]_vars => DeadlineOfLastClaim'
<1> SUFFICES ASSUME TypeOK, DeadlineOfLastClaim, [Next]_vars PROVE DeadlineOfLastClaim'
  OBVIOUS
<1>1. ASSUME NEW j \in Jobs, NEW p \in Tiers, Claim(j, p) PROVE DeadlineOfLastClaim'
  BY <1>1 DEF Claim, DeadlineOfLastClaim, TypeOK
<1>2. ASSUME NEW j \in Jobs, Ack(j) PROVE DeadlineOfLastClaim'
  BY <1>2 DEF Ack, DeadlineOfLastClaim, TypeOK
<1>3. CASE RequeueStale
  BY <1>3 DEF RequeueStale, DeadlineOfLastClaim
<1>4. CASE UNCHANGED <<inProgress, claimedAt>>
  BY <1>4 DEF DeadlineOfLastClaim
<1>5. QED BY <1>1, <1>2, <1>3, <1>4 DEF Next, Enqueue, ClaimEmpty, Tick, vars

LEMMA KeptStep ==
    TypeOK /\ DeadlineOfLastClaim /\ [Next]_vars
      => [\A j \in Jobs :
            inProgress[j] # NoEntry /\ inProgress'[j] = NoEntry /\ zset' # zset
               => now >= claimedAt[j] + Visibility]_vars
<1> SUFFICES ASSUME TypeOK, DeadlineOfLastClaim, Next, NEW j \in Jobs,
                    inProgress[j] # NoEntry, inProgress'[j] = NoEntry, zset' # zset
             PROVE  now >= claimedAt[j] + Visibility
  OBVIOUS
<1>1. ASSUME NEW i \in Jobs, NEW p \in Tiers, Claim(i, p) PROVE FALSE
  <2>1. now + Visibility # NoEntry
    BY RedisQueueAssumption DEF TypeOK, NoEntry
  <2>2. QED BY <1>1, <2>1 DEF Claim, TypeOK
<1>2. ASSUME NEW i \in Jobs, Enqueue(i) PROVE FALSE
  BY <1>2 DEF Enqueue
<1>3. CASE RequeueStale
  BY <1>3 DEF RequeueStale, Stale, DeadlineOfLastClaim
<1>4. QED BY <1>1, <1>2, <1>3 DEF Next, Ack, ClaimEmpty, Tick

(* Nobody's job is handed to another worker by the stale recovery before   *)
(* the visibility timeout of the last claim is over.                       *)
THEOREM LeasesAreKept == Spec => LeaseKept
<1>1. QED BY DeadlineInit, DeadlineStep, KeptStep, RedisQueueTyped, PTL
          DEF Spec, LeaseKept
=============================================================================
