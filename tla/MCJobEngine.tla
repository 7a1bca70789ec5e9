----------------------------- MODULE MCJobEngine -----------------------------
(* Instances of JobEngine: two workers with a slot each, or one more, one  *)
(* job at a time, and the budgets of the runs.                             *)
EXTENDS DocumentedClaims, TLC

CONSTANTS w1, w2, s1, s2, s3, j1, j2

MCOwner == [s \in Slots |-> IF s = s2 THEN w2 ELSE w1]

\* The build of w2 has no handler for the jobs.
OnlyFirst   == {w1} \X Jobs
TwoAttempts == [j \in Jobs |-> 2]
HighPrio    == [j \in Jobs |-> 1]

Quiet == [k \in Kinds |-> 0]

\* Everything that can go wrong short of a live worker held for dead.
Faults == [k \in Kinds |-> IF k \in {"suspect", "restart", "statusErr"} THEN 0 ELSE 1]

\* A worker is stopped and comes back under its id.
RollingRestart ==
    [Quiet EXCEPT !["shutdown"] = 1, !["restart"] = 1, !["cancel"] = 1, !["retry"] = 1]

OneCrash     == [Quiet EXCEPT !["crash"] = 1]
OneCancel    == [Quiet EXCEPT !["cancel"] = 1]
OneShutdown  == [Quiet EXCEPT !["shutdown"] = 1]

\* The other states the runs start from: jobs, some of them in the queue, and
\* nobody at work yet.
StartWith(jobs, queued, b) ==
    /\ rows = jobs
    /\ waiting = [t \in Tiers |-> {j \in queued : Prio[j] = t}]
    /\ leased = {}
    /\ silent = {}
    /\ slot = [s \in Slots |-> Idle]
    /\ req = [r \in Reqs |-> Idle]
    /\ sched = {}
    /\ sup = NoPass
    /\ budget = b

\* A worker that received SIGTERM comes back, and may fail to write OFFLINE
\* or to register.
ComesBack ==
    [Quiet EXCEPT !["restart"] = 1, !["statusErr"] = 1, !["cancel"] = 1, !["retry"] = 1]

\* Behaviours under the budgets in which no live worker is held for dead.
TroubledInit ==
    \/ \E b \in {Faults, RollingRestart} : InitWith(b)
    \/ /\ StartWith([j \in Jobs |-> Table!Absent], {}, ComesBack)
       /\ proc  = [w \in Workers |-> IF w = w1 THEN "draining" ELSE "up"]
       /\ wstat = [w \in Workers |-> IF w = w1 THEN "DRAINING" ELSE "ACTIVE"]
TroubledSpec == TroubledInit /\ [][Next]_vars

-----------------------------------------------------------------------------
\* Settling: one of two jobs is new and the other over, and which one it is
\* says what may happen beside, until it is over in its turn.
\*   j1, of two attempts: an operator cancels once and retries once, and a
\*   live worker is held for dead once;
\*   j2, of one attempt: an operator cancels, and a live worker is held for
\*   dead or one is killed, at any moment.  w1 has a second slot then, so
\*   that more slots may claim the job than one suspicion pays for.
\* Only j2 may wait in two tiers, its own and that of the stale recovery.
TwoOrOne  == (j1 :> 2) @@ (j2 :> 1)
OnlyJ2High == (j1 :> DefaultPriority) @@ (j2 :> 1)
OneOfEach == [Quiet EXCEPT !["cancel"] = 1, !["retry"] = 1, !["suspect"] = 1, !["crash"] = 1]

Over == [Table!Fresh EXCEPT !.status = "SUCCEEDED", !.attempt = 1, !.completed = TRUE]

SettlingInit ==
    \E j \in Jobs :
        /\ StartWith([i \in Jobs |-> IF i = j THEN Table!Absent ELSE Over], {}, Budget)
        /\ proc  = [w \in Workers |-> "up"]
        /\ wstat = [w \in Workers |-> "ACTIVE"]

\* Heartbeats come as they may, the other steps within the bounds above.
SettlingNext ==
    \/ \E w \in Workers : Heartbeat(w)
    \/ /\ Next
       /\ rows[j1] # Over => budget'["crash"] = 1
       /\ rows[j2] # Over => /\ budget'["retry"] = 1
                            /\ 1 \in {budget'["crash"], budget'["suspect"]}
       /\ slot'[s3].job \in {NoJob, j2}

SettlingSpec == SettlingInit /\ [][SettlingNext]_vars /\ Fairness
=============================================================================
