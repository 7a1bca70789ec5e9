----------------------------- MODULE RedisQueue -----------------------------
(***************************************************************************)
(* The Redis dispatch queue (queue/redis.go): one sorted set per priority  *)
(* tier scored by enqueue time, the in-progress sorted set scored by lease *)
(* deadline, and the claim counter that drives the weighted rotation.      *)
(* Each command or Lua script is one atomic action.                        *)
(*                                                                         *)
(* Time is one clock: the clients that stamp scores and deadlines are      *)
(* taken to agree on it.  The claim counter is kept modulo the sum of the  *)
(* weights, the only thing the script reads of it.                         *)
(***************************************************************************)
EXTENDS Integers, FiniteSets

CONSTANTS
    Jobs,
    Prio,         \* the priority column of each job
    W1, W2, W3,   \* how many slots of a rotation search each tier first
    Visibility,   \* the visibility timeout of a claim
    MaxTime       \* bound on the clock

Tiers  == 1..3
TotalW == W1 + W2 + W3

DefaultPriority == 2   \* the tier workers requeue stale leases to

NoEntry == -1   \* score of a member a sorted set does not hold

ASSUME RedisQueueAssumption ==
    /\ Prio \in [Jobs -> Tiers]
    /\ W1 \in Nat \ {0} /\ W2 \in Nat \ {0} /\ W3 \in Nat \ {0}
    /\ Visibility \in Nat \ {0}
    /\ MaxTime \in Nat

VARIABLES
    zset,        \* the score of each job in each tier
    inProgress,  \* the lease deadline of each job
    slot,        \* the claim counter modulo TotalW
    now,
    skipped,     \* history: successive claims that passed over a nonempty tier
    claimedAt    \* history: when each job was last claimed

vars == <<zset, inProgress, slot, now, skipped, claimedAt>>

Score == Nat \cup {NoEntry}

Init ==
    /\ zset = [p \in Tiers |-> [j \in Jobs |-> NoEntry]]
    /\ inProgress = [j \in Jobs |-> NoEntry]
    /\ slot = 0
    /\ now = 0
    /\ skipped = [p \in Tiers |-> 0]
    /\ claimedAt = [j \in Jobs |-> NoEntry]

Members(p) == {j \in Jobs : zset[p][j] # NoEntry}
Leased     == {j \in Jobs : inProgress[j] # NoEntry}
Stale      == {j \in Leased : inProgress[j] <= now}

-----------------------------------------------------------------------------
(* ZADD with the current time: an entry that is there already is rescored. *)
Enqueue(j) ==
    /\ zset' = [zset EXCEPT ![Prio[j]][j] = now]
    /\ UNCHANGED <<inProgress, slot, now, skipped, claimedAt>>

\* Mutant: <= for < at the ends of the slot ranges: the low tier has none left.
SearchOrderOffByOne(s) ==
    IF s <= W1 THEN <<1, 2, 3>> ELSE IF s <= W1 + W2 THEN <<2, 1, 3>> ELSE <<3, 1, 2>>

(* The tiers in the order a claim in rotation slot s searches them. *)
SearchOrder(s) ==
    IF s < W1 THEN <<1, 2, 3>> ELSE IF s < W1 + W2 THEN <<2, 1, 3>> ELSE <<3, 1, 2>>

(* The tier a claim in slot s is served from: the first nonempty one. *)
Serves(s, p) ==
    \E i \in 1..3 : /\ SearchOrder(s)[i] = p
                    /\ Members(p) # {}
                    /\ \A k \in 1..3 : k < i => Members(SearchOrder(s)[k]) = {}

(* ZRANGE 0 0: a member of least score; members of equal score are ordered *)
(* by their random id, so any of them.                                     *)
First(p) == {j \in Members(p) : \A k \in Members(p) : zset[p][j] <= zset[p][k]}

\* Mutant: one slot too many in a rotation.
NextSlotOffByOne == IF slot = TotalW THEN 0 ELSE slot + 1

NextSlot == IF slot + 1 = TotalW THEN 0 ELSE slot + 1

Skip(p) ==
    skipped' = [q \in Tiers |-> IF q = p \/ Members(q) = {} THEN 0 ELSE skipped[q] + 1]

\* Mutant: a job leased already keeps the deadline it has (ZADD NX).
ClaimKeepsDeadline(j, p) ==
    /\ Serves(NextSlot, p)
    /\ j \in First(p)
    /\ slot' = NextSlot
    /\ zset' = [zset EXCEPT ![p][j] = NoEntry]
    /\ inProgress' = [inProgress EXCEPT ![j] = IF @ = NoEntry THEN now + Visibility ELSE @]
    /\ claimedAt' = [claimedAt EXCEPT ![j] = now]
    /\ Skip(p)
    /\ UNCHANGED now

\* Mutant: the job is removed from every tier it waits in.
ClaimClearsAllTiers(j, p) ==
    /\ Serves(NextSlot, p)
    /\ j \in First(p)
    /\ slot' = NextSlot
    /\ zset' = [q \in Tiers |-> [zset[q] EXCEPT ![j] = NoEntry]]
    /\ inProgress' = [inProgress EXCEPT ![j] = now + Visibility]
    /\ claimedAt' = [claimedAt EXCEPT ![j] = now]
    /\ Skip(p)
    /\ UNCHANGED now

(* The claim script: count the claim, search the tiers, move the first     *)
(* entry found to the in-progress set under a deadline.                    *)
Claim(j, p) ==
    /\ Serves(NextSlot, p)
    /\ j \in First(p)
    /\ slot' = NextSlot
    /\ zset' = [zset EXCEPT ![p][j] = NoEntry]
    /\ inProgress' = [inProgress EXCEPT ![j] = now + Visibility]
    /\ claimedAt' = [claimedAt EXCEPT ![j] = now]
    /\ Skip(p)
    /\ UNCHANGED now

(* A claim that finds nothing has counted all the same. *)
ClaimEmpty ==
    /\ \A p \in Tiers : Members(p) = {}
    /\ slot' = NextSlot
    /\ skipped' = [p \in Tiers |-> 0]
    /\ UNCHANGED <<zset, inProgress, now, claimedAt>>

Ack(j) ==
    /\ inProgress' = [inProgress EXCEPT ![j] = NoEntry]
    /\ UNCHANGED <<zset, slot, now, skipped, claimedAt>>

(* The recovery script: every lease whose deadline was reached goes to the *)
(* default tier, whatever tier it was claimed from.                        *)
RequeueStale ==
    /\ Stale # {}
    /\ inProgress' = [j \in Jobs |-> IF j \in Stale THEN NoEntry ELSE inProgress[j]]
    /\ zset' = [zset EXCEPT ![DefaultPriority] =
                  [j \in Jobs |-> IF j \in Stale THEN now ELSE @[j]]]
    /\ UNCHANGED <<slot, now, skipped, claimedAt>>

Tick ==
    /\ now < MaxTime
    /\ now' = now + 1
    /\ UNCHANGED <<zset, inProgress, slot, skipped, claimedAt>>

Next ==
    \/ \E j \in Jobs : Enqueue(j) \/ Ack(j)
    \/ \E j \in Jobs, p \in Tiers : Claim(j, p)
    \/ RequeueStale
    \/ ClaimEmpty
    \/ Tick

Spec == Init /\ [][Next]_vars

-----------------------------------------------------------------------------
(* Scores, deadlines and the rotation slot stay in range.                  *)
TypeOK ==
    /\ zset \in [Tiers -> [Jobs -> Score]]
    /\ inProgress \in [Jobs -> Score]
    /\ slot \in 0..(TotalW - 1)
    /\ now \in 0..MaxTime
    /\ skipped \in [Tiers -> Nat]
    /\ claimedAt \in [Jobs -> Score]

(* BoundedSkips: while a tier has entries, claims pass it over at most as  *)
(* often in a row as the other tiers have slots in a rotation; a flood of  *)
(* high priority jobs cannot starve the others, nor they it.               *)
BoundedSkips ==
    /\ skipped[1] <= W2 + W3
    /\ skipped[2] <= W1 + W3
    /\ skipped[3] <= W1 + W2

(* The invariant BoundedSkips rests on: how often a tier can have been     *)
(* passed over, by the rotation slot of the last claim.                    *)
SkipsBySlot ==
    /\ skipped[1] <= IF slot < W1 THEN 0 ELSE slot - W1 + 1
    /\ skipped[2] <= IF slot < W1 THEN W3 + slot + 1
                     ELSE IF slot < W1 + W2 THEN 0 ELSE slot - (W1 + W2) + 1
    /\ skipped[3] <= IF slot < W1 + W2 THEN slot + 1 ELSE 0

(* LeaseKept: an entry goes from the in-progress set back to a tier only   *)
(* when the full visibility timeout has passed since the job was last      *)
(* claimed, also when it was enqueued and claimed again while leased.      *)
LeaseKept ==
    [][\A j \in Jobs :
         inProgress[j] # NoEntry /\ inProgress'[j] = NoEntry /\ zset' # zset
            => now >= claimedAt[j] + Visibility]_vars

(* The queue of queue.go that the Redis commands implement. *)
Abstract == INSTANCE LeaseQueue
              WITH waiting <- [p \in Tiers |-> Members(p)], leased <- Leased

(* ImplementsLeaseQueue: whatever the rotation picks and whenever leases   *)
(* expire, every entry moves as the queue interface promises and none      *)
(* disappears without an Ack.                                              *)
ImplementsLeaseQueue == Abstract!Spec
=============================================================================
