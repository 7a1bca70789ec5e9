----------------------------- MODULE LeaseQueue -----------------------------
(***************************************************************************)
(* What the dispatch queue promises its users (queue/queue.go): entries    *)
(* wait in tiers, a claim moves one entry to the leased set, an Ack drops  *)
(* the lease, and a lease nobody acked may go back to a tier.  Order,      *)
(* deadlines and the weighted rotation are the business of RedisQueue,     *)
(* which implements this module; JobEngine is built on this one.           *)
(***************************************************************************)
EXTENDS Naturals

CONSTANTS Jobs, Tiers

VARIABLES waiting,   \* the entries of each tier
          leased     \* the entries of the in-progress set

vars == <<waiting, leased>>

Init == /\ waiting = [p \in Tiers |-> {}]
        /\ leased = {}

AllWaiting == UNION {waiting[p] : p \in Tiers}

(* Adding an entry again is no error and leaves one entry in the tier. *)
Enqueue(j, p) ==
    /\ waiting' = [waiting EXCEPT ![p] = @ \cup {j}]
    /\ UNCHANGED leased

(* One entry of one tier: a second entry of the job elsewhere stays. *)
ClaimFrom(j, p) ==
    /\ j \in waiting[p]
    /\ waiting' = [waiting EXCEPT ![p] = @ \ {j}]
    /\ leased' = leased \cup {j}

Claim(j) == \E p \in Tiers : ClaimFrom(j, p)

(* Anybody may ack: a lease does not remember who took it. *)
Ack(j) ==
    /\ leased' = leased \ {j}
    /\ UNCHANGED waiting

RequeueStale(S, p) ==
    /\ S # {}
    /\ S \subseteq leased
    /\ leased' = leased \ S
    /\ waiting' = [waiting EXCEPT ![p] = @ \cup S]

Next == \/ \E j \in Jobs, p \in Tiers : Enqueue(j, p)
        \/ \E j \in Jobs : Claim(j) \/ Ack(j)
        \/ \E S \in SUBSET Jobs, p \in Tiers : RequeueStale(S, p)

Spec == Init /\ [][Next]_vars

(* Only known jobs wait or are leased. *)
TypeOK == /\ waiting \in [Tiers -> SUBSET Jobs]
          /\ leased \subseteq Jobs
=============================================================================
