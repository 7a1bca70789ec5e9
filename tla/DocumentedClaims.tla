-------------------------- MODULE DocumentedClaims --------------------------
(***************************************************************************)
(* What the repository's documents and comments say of the job engine and  *)
(* its code does not keep.  Each formula states one claim; TLC finds a     *)
(* counterexample to each of them (README.md).                             *)
(***************************************************************************)
EXTENDS JobEngine

(* CancelIsFinal.  README.md:262: POST /api/v1/jobs/{id}/cancel is to      *)
(* "Cancel a queued or running job", and domain/job.go:23-29 has CANCELLED *)
(* among the terminal statuses.  The report of the attempt that was        *)
(* running writes its own status over it.                                  *)
CancelIsFinal ==
    [][\A j \in Jobs : rows[j].status = "CANCELLED"
                          => rows'[j].status = "CANCELLED"]_vars

(* BackoffIsWaitedOut.  README.md:117: failed jobs "transition to RETRYING *)
(* with randomized exponential delays".  An entry the stale recovery put   *)
(* back while the attempt was running lets a slot claim the RETRYING row   *)
(* before its run_at.                                                      *)
BackoffIsWaitedOut ==
    [][\A j \in Jobs : rows[j].status = "RETRYING" /\ ~rows[j].due
                          => rows'[j].status # "RUNNING"]_vars

(* CleanStopLeavesNothingRunning.  worker.go:110-116: a DRAINING worker    *)
(* waits "for all in-flight jobs to complete" and only then goes OFFLINE.  *)
(* Their reports use the cancelled context and never reach PostgreSQL.     *)
CleanStopLeavesNothingRunning ==
    \A w \in Workers : proc[w] = "down" /\ wstat[w] = "OFFLINE"
                           => Table!RunningOn(w) = {}

(* AckFollowsResolution.  worker.go:246: "Always ack in Redis once the     *)
(* attempt is resolved in PostgreSQL".  The ack does not ask whether the   *)
(* report succeeded.                                                       *)
AckFollowsResolution ==
    \A s \in Slots : At("ack", s) =>
        LET row == rows[slot[s].job]
        IN  ~(row.status = "RUNNING" /\ row.worker = Owner[s])

(* DeadWorkerIsReaped.  supervisor.go:13-16: for a worker that stopped     *)
(* heartbeating the supervisor "marks it OFFLINE, deregisters it from      *)
(* Redis, and re-enqueues any jobs that were left in RUNNING state".  A    *)
(* supervisor that dies after the first of these has no second chance.     *)
DeadWorkerIsReaped ==
    \A j \in Jobs : rows[j].status = "RUNNING" /\ proc[rows[j].worker] = "down"
                     => Reapable(rows[j].worker)
=============================================================================
