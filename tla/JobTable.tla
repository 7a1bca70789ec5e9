------------------------------ MODULE JobTable ------------------------------
(***************************************************************************)
(* The jobs table of PostgreSQL and the SQL statements that change it      *)
(* (store/jobs.go, RecoverDeadWorkerJobs of store/workers.go).             *)
(*                                                                         *)
(* Every statement is one atomic action whose guard is its WHERE clause    *)
(* and whose primed row is its SET clause.  Next lets the statements be    *)
(* issued in any order on any row: what holds here holds whatever the      *)
(* processes of JobEngine do between two statements (their steps are steps *)
(* of Issue: JobEngineProofs).                                             *)
(*                                                                         *)
(* Of a row we keep what some statement tests or some property tells       *)
(* apart: status, attempt, worker_id, whether run_at has been reached,     *)
(* whether completed_at is set and whether error is set.                   *)
(***************************************************************************)
EXTENDS Naturals, FiniteSets

CONSTANTS
    Jobs,         \* the ids of the rows
    Workers,      \* the ids workers register under
    NoWorker,     \* worker_id IS NULL
    MaxAttempts,  \* max_attempts of each job
    AttemptCap    \* bound on attempt, only to keep the standalone Next finite

ASSUME JobTableAssumption ==
    /\ MaxAttempts \in [Jobs -> Nat \ {0}]
    /\ AttemptCap \in [Jobs -> Nat]
    /\ NoWorker \notin Workers

VARIABLE rows

Terminal  == {"SUCCEEDED", "FAILED", "CANCELLED", "DEAD_LETTER"}
Pending   == {"QUEUED", "RUNNING", "RETRYING"}
Status    == {"ABSENT"} \cup Pending \cup Terminal

Row == [status    : Status,
        attempt   : Nat,
        worker    : Workers \cup {NoWorker},
        due       : BOOLEAN,
        completed : BOOLEAN,
        error     : BOOLEAN]

Absent == [status |-> "ABSENT", attempt |-> 0, worker |-> NoWorker,
           due |-> FALSE, completed |-> FALSE, error |-> FALSE]

\* What the column defaults of the table make of an inserted row.
Fresh == [Absent EXCEPT !.status = "QUEUED", !.due = TRUE]

Init == rows = [j \in Jobs |-> Absent]

HasStatus(S) == {j \in Jobs : rows[j].status \in S}
DueRetries   == {j \in HasStatus({"RETRYING"}) : rows[j].due}

\* Mutant: the status is not asked for, and a resolved row keeps worker_id.
AnyRowOf(w) == {j \in Jobs : rows[j].worker = w}

RunningOn(w) == {j \in HasStatus({"RUNNING"}) : rows[j].worker = w}

-----------------------------------------------------------------------------
(* INSERT by an API request; the id is new. *)
Insert(j) ==
    /\ rows[j].status = "ABSENT"
    /\ rows' = [rows EXCEPT ![j] = Fresh]

\* Mutant: the attempt is counted on the claim and once more on the start.
RunningCountsTwice(j, w) ==
    rows' = [rows EXCEPT ![j].status = "RUNNING",
                         ![j].worker = w,
                         ![j].attempt = @ + 2]

Running(j, w) ==
    rows' = [rows EXCEPT ![j].status = "RUNNING",
                         ![j].worker = w,
                         ![j].attempt = @ + 1]

(* The claim that needs no Redis: a queued row whose run_at was reached.   *)
(* Which of them (priority, then run_at) is not told apart.                *)
Claim(j, w) ==
    /\ rows[j].status = "QUEUED"
    /\ rows[j].due
    /\ Running(j, w)

\* Mutant: the claim excludes two of the terminal statuses only.
ClaimableUnlessFinished(j) == rows[j].status \notin {"SUCCEEDED", "FAILED"}

(* The claim of an id that came from Redis.  run_at plays no part in it.   *)
Claimable(j) == rows[j].status \in {"QUEUED", "RETRYING"}

ClaimJob(j, w) ==
    /\ Claimable(j)
    /\ Running(j, w)

RevertToQueued(j) ==
    /\ rows[j].status = "RUNNING"
    /\ rows' = [rows EXCEPT ![j].status = "QUEUED", ![j].worker = NoWorker]

\* Mutant: attempts are compared with <= instead of <.
RecordFailureOffByOne(j) ==
    /\ rows[j].status # "ABSENT"
    /\ LET again == rows[j].attempt <= MaxAttempts[j]
       IN rows' = [rows EXCEPT
            ![j].status    = IF again THEN "RETRYING" ELSE "DEAD_LETTER",
            ![j].due       = IF again THEN FALSE ELSE @,
            ![j].completed = ~again,
            ![j].error     = TRUE,
            ![j].worker    = NoWorker]

(* The report of a failed attempt.  The statement names the row by id      *)
(* only: it applies whatever the status has become.  The backoff may be    *)
(* over at any time from then on (TimePasses).                             *)
RecordFailure(j) ==
    /\ rows[j].status # "ABSENT"
    /\ LET again == rows[j].attempt < MaxAttempts[j]
       IN rows' = [rows EXCEPT
            ![j].status    = IF again THEN "RETRYING" ELSE "DEAD_LETTER",
            ![j].due       = IF again THEN FALSE ELSE @,
            ![j].completed = ~again,
            ![j].error     = TRUE,
            ![j].worker    = NoWorker]

(* One UPDATE turns a batch of due retries back into queued rows.  LIMIT   *)
(* and SKIP LOCKED may leave any of them for a later poll.                 *)
RequeueDueRetries(S) ==
    /\ S # {}
    /\ S \subseteq DueRetries
    /\ rows' = [j \in Jobs |-> IF j \in S THEN [rows[j] EXCEPT !.status = "QUEUED"]
                                          ELSE rows[j]]

\* Mutant: the attempt count survives the retry an operator asks for.
ManualRetryKeepsAttempt(j) ==
    /\ rows[j].status \in {"DEAD_LETTER", "FAILED"}
    /\ rows' = [rows EXCEPT ![j] = [Fresh EXCEPT !.attempt = rows[j].attempt]]

(* An operator's retry: every column a claim looks at is reset. *)
ManualRetry(j) ==
    /\ rows[j].status \in {"DEAD_LETTER", "FAILED"}
    /\ rows' = [rows EXCEPT ![j] = Fresh]

MarkSucceeded(j) ==
    /\ rows[j].status # "ABSENT"
    /\ rows' = [rows EXCEPT ![j].status = "SUCCEEDED",
                            ![j].completed = TRUE, ![j].error = FALSE]

MarkFailed(j) ==
    /\ rows[j].status # "ABSENT"
    /\ rows' = [rows EXCEPT ![j].status = "FAILED",
                            ![j].completed = TRUE, ![j].error = TRUE]

Cancellable(j) == rows[j].status \in {"QUEUED", "RUNNING"}

Cancel(j) ==
    /\ Cancellable(j)
    /\ rows' = [rows EXCEPT ![j].status = "CANCELLED", ![j].completed = TRUE]

\* Mutant: worker_id is not cleared when a dead worker's job is recovered.
RecoverKeepsWorker(w) ==
    rows' = [j \in Jobs |->
        IF j \in RunningOn(w) THEN [rows[j] EXCEPT !.status = "QUEUED"] ELSE rows[j]]

(* The supervisor takes every RUNNING row from a worker it holds for dead. *)
RecoverDeadWorkerJobs(w) ==
    rows' = [j \in Jobs |->
        IF j \in RunningOn(w)
        THEN [rows[j] EXCEPT !.status = "QUEUED", !.worker = NoWorker]
        ELSE rows[j]]

(* The clock reaches run_at. *)
TimePasses(j) ==
    /\ rows[j].status = "RETRYING"
    /\ ~rows[j].due
    /\ rows' = [rows EXCEPT ![j].due = TRUE]

-----------------------------------------------------------------------------
Statement(j) ==
    \/ Insert(j)
    \/ RevertToQueued(j)
    \/ RecordFailure(j)
    \/ ManualRetry(j)
    \/ MarkSucceeded(j)
    \/ MarkFailed(j)
    \/ Cancel(j)
    \/ TimePasses(j)

Claiming(j, w) == Claim(j, w) \/ ClaimJob(j, w)

Batch ==
    \/ \E w \in Workers : RecoverDeadWorkerJobs(w)
    \/ \E S \in SUBSET Jobs : RequeueDueRetries(S)

Next ==
    \/ \E j \in Jobs : Statement(j)
    \/ \E j \in Jobs, w \in Workers : rows[j].attempt < AttemptCap[j] /\ Claiming(j, w)
    \/ Batch

Spec == Init /\ [][Next]_rows

(* Next without its bound: the statements as the processes issue them. *)
Issue ==
    \/ \E j \in Jobs : Statement(j) \/ \E w \in Workers : Claiming(j, w)
    \/ Batch

IssueSpec == Init /\ [][Issue]_rows

-----------------------------------------------------------------------------
(* Every column has its type and attempt stays under the bound of Next.    *)
TypeOK ==
    /\ rows \in [Jobs -> Row]
    /\ \A j \in Jobs : rows[j].attempt <= AttemptCap[j]

(* The parts of a row's consistency, as the dashboard, the retry poller    *)
(* and the supervisor read the row.                                        *)
CompletedIffTerminal(j) == rows[j].completed <=> rows[j].status \in Terminal

OwnedIffRunning(j) ==
    /\ rows[j].status = "RUNNING" => rows[j].worker # NoWorker
    /\ rows[j].status \in {"QUEUED", "RETRYING"} => rows[j].worker = NoWorker

RetriesWithinBudget(j) ==
    /\ rows[j].status = "RUNNING"     => rows[j].attempt >= 1
    /\ rows[j].status = "RETRYING"    => rows[j].attempt < MaxAttempts[j]
    /\ rows[j].status = "DEAD_LETTER" => rows[j].attempt >= MaxAttempts[j]

ErrorExplained(j) ==
    /\ rows[j].status \in {"FAILED", "DEAD_LETTER", "RETRYING"} => rows[j].error
    /\ rows[j].status = "SUCCEEDED" => ~rows[j].error

(* RowConsistent: in whatever order the statements hit a row (a late       *)
(* RecordFailure after a Cancel, a ClaimJob of a RETRYING row, a recovery  *)
(* between two attempts), completed_at is set exactly for terminal rows,   *)
(* a RUNNING row names its worker and a waiting one names none, a row      *)
(* waits for a retry only within max_attempts and is dead-lettered only    *)
(* at it, and error explains the failed states and no success.             *)
RowConsistent ==
    \A j \in Jobs : /\ CompletedIffTerminal(j)
                    /\ OwnedIffRunning(j)
                    /\ RetriesWithinBudget(j)
                    /\ ErrorExplained(j)

(* DeadLetterNeedsOperator: a dead-lettered job gets back among the jobs   *)
(* that wait or run only with a fresh attempt budget, that is by           *)
(* ManualRetry; no late report of an earlier attempt revives it.           *)
DeadLetterNeedsOperator ==
    [][\A j \in Jobs :
         rows[j].status = "DEAD_LETTER" /\ rows'[j].status \in Pending
            => rows'[j].attempt = 0]_rows
=============================================================================
