--------------------------- MODULE JobTableProofs ---------------------------
(***************************************************************************)
(* The rows of the jobs table stay well-typed and consistent under any     *)
(* sequence of the store's statements, for any number of jobs and workers  *)
(* and any max_attempts.                                                   *)
(***************************************************************************)
EXTENDS JobTable, TLAPS

(* Consistency of a row is a matter of that row alone. *)
Consistent(row, max) ==
    /\ row.completed <=> row.status \in Terminal
    /\ row.status = "RUNNING" => row.worker # NoWorker
    /\ row.status \in {"QUEUED", "RETRYING"} => row.worker = NoWorker
    /\ row.status = "RUNNING" => row.attempt >= 1
    /\ row.status = "RETRYING" => row.attempt < max
    /\ row.status = "DEAD_LETTER" => row.attempt >= max
    /\ row.status \in {"FAILED", "DEAD_LETTER", "RETRYING"} => row.error
    /\ row.status = "SUCCEEDED" => ~row.error

Typed == rows \in [Jobs -> Row]

Bounded == \A j \in Jobs : rows[j].attempt <= AttemptCap[j]

(* RowConsistent says Consistent of every row. *)
LEMMA RowConsistentByRow ==
    RowConsistent <=> \A j \in Jobs : Consistent(rows[j], MaxAttempts[j])
BY DEF RowConsistent, CompletedIffTerminal, OwnedIffRunning, RetriesWithinBudget,
       ErrorExplained, Consistent

(* What one statement may make of one row that it changes. *)
StepOf(old, new, max) ==
    \/ new = old
    \/ new = Fresh
    \/ \E w \in Workers :
         /\ old.status \in {"QUEUED", "RETRYING"}
         /\ new = [old EXCEPT !.status = "RUNNING", !.worker = w, !.attempt = @ + 1]
    \/ /\ old.status = "RUNNING"
       /\ new = [old EXCEPT !.status = "QUEUED", !.worker = NoWorker]
    \/ /\ old.status = "RETRYING"
       /\ new = [old EXCEPT !.status = "QUEUED"]
    \/ /\ old.attempt < max
       /\ new = [old EXCEPT !.status = "RETRYING", !.due = FALSE,
                            !.completed = FALSE, !.error = TRUE, !.worker = NoWorker]
    \/ /\ ~(old.attempt < max)
       /\ new = [old EXCEPT !.status = "DEAD_LETTER", !.completed = TRUE,
                            !.error = TRUE, !.worker = NoWorker]
    \/ new = [old EXCEPT !.status = "SUCCEEDED", !.completed = TRUE, !.error = FALSE]
    \/ new = [old EXCEPT !.status = "FAILED", !.completed = TRUE, !.error = TRUE]
    \/ new = [old EXCEPT !.status = "CANCELLED", !.completed = TRUE]
    \/ /\ old.status = "RETRYING"
       /\ new = [old EXCEPT !.due = TRUE]

(* Such a step keeps a row typed and consistent. *)
LEMMA RowStep ==
    ASSUME NEW old \in Row, NEW new, NEW max \in Nat \ {0},
           Consistent(old, max), StepOf(old, new, max), NoWorker \notin Workers
    PROVE  new \in Row /\ Consistent(new, max)
<1>1. Fresh \in Row /\ Consistent(Fresh, max)
  BY DEF Fresh, Absent, Row, Status, Pending, Terminal, Consistent
<1>2. ASSUME NEW w \in Workers, old.status \in {"QUEUED", "RETRYING"},
             new = [old EXCEPT !.status = "RUNNING", !.worker = w, !.attempt = @ + 1]
      PROVE  new \in Row /\ Consistent(new, max)
  <2>1. old.attempt \in Nat /\ old.attempt + 1 \in Nat /\ old.attempt + 1 >= 1
    BY DEF Row
  <2>2. w \in Workers \cup {NoWorker} /\ w # NoWorker
    OBVIOUS
  <2>3. new \in Row
    BY <1>2, <2>1, <2>2 DEF Row, Status, Pending, Terminal
  <2>4. /\ new.status = "RUNNING" /\ new.worker = w
        /\ new.attempt = old.attempt + 1 /\ new.completed = old.completed
    BY <1>2, <2>1, <2>2 DEF Row
  <2>5. QED BY <1>2, <2>1, <2>2, <2>3, <2>4 DEF Consistent, Terminal
<1>3. CASE /\ old.status = "RUNNING"
           /\ new = [old EXCEPT !.status = "QUEUED", !.worker = NoWorker]
  BY <1>3 DEF Row, Status, Pending, Terminal, Consistent
<1>4. CASE /\ old.status = "RETRYING"
           /\ new = [old EXCEPT !.status = "QUEUED"]
  BY <1>4 DEF Row, Status, Pending, Terminal, Consistent
<1>5. CASE /\ old.attempt < max
           /\ new = [old EXCEPT !.status = "RETRYING", !.due = FALSE,
                                !.completed = FALSE, !.error = TRUE, !.worker = NoWorker]
  BY <1>5 DEF Row, Status, Pending, Terminal, Consistent
<1>6. CASE /\ ~(old.attempt < max)
           /\ new = [old EXCEPT !.status = "DEAD_LETTER", !.completed = TRUE,
                                !.error = TRUE, !.worker = NoWorker]
  <2>1. old.attempt \in Nat /\ old.attempt >= max
    BY <1>6 DEF Row
  <2>2. new \in Row
    BY <1>6 DEF Row, Status, Pending, Terminal
  <2>3. /\ new.status = "DEAD_LETTER" /\ new.worker = NoWorker
        /\ new.attempt = old.attempt /\ new.completed /\ new.error
    BY <1>6 DEF Row
  <2>4. QED BY <2>1, <2>2, <2>3 DEF Consistent, Terminal
<1>7. CASE new = [old EXCEPT !.status = "SUCCEEDED", !.completed = TRUE, !.error = FALSE]
  BY <1>7 DEF Row, Status, Pending, Terminal, Consistent
<1>8. CASE new = [old EXCEPT !.status = "FAILED", !.completed = TRUE, !.error = TRUE]
  BY <1>8 DEF Row, Status, Pending, Terminal, Consistent
<1>9. CASE new = [old EXCEPT !.status = "CANCELLED", !.completed = TRUE]
  BY <1>9 DEF Row, Status, Pending, Terminal, Consistent
<1>10. CASE /\ old.status = "RETRYING"
            /\ new = [old EXCEPT !.due = TRUE]
  BY <1>10 DEF Row, Status, Pending, Terminal, Consistent
<1>11. QED BY <1>1, <1>2, <1>3, <1>4, <1>5, <1>6, <1>7, <1>8, <1>9, <1>10 DEF StepOf

(* Every statement takes each row through such a step. *)
LEMMA IssueIsRowSteps ==
    ASSUME Typed, Issue
    PROVE  /\ rows' = [j \in Jobs |-> rows'[j]]
           /\ \A j \in Jobs : StepOf(rows[j], rows'[j], MaxAttempts[j])
<1>1. ASSUME NEW j \in Jobs, Statement(j)
      PROVE  /\ rows' = [i \in Jobs |-> rows'[i]]
             /\ \A i \in Jobs : StepOf(rows[i], rows'[i], MaxAttempts[i])
  <2> USE DEF StepOf, Typed
  <2>1. CASE Insert(j)
    BY <2>1 DEF Insert
  <2>2. CASE RevertToQueued(j)
    BY <2>2 DEF RevertToQueued
  <2>3. CASE RecordFailure(j)
    <3>1. rows[j] \in Row
      OBVIOUS
    <3>2. CASE rows[j].attempt < MaxAttempts[j]
      <4>1. rows' = [rows EXCEPT ![j] =
                       [rows[j] EXCEPT !.status = "RETRYING", !.due = FALSE,
                          !.completed = FALSE, !.error = TRUE, !.worker = NoWorker]]
        BY <2>3, <3>1, <3>2 DEF RecordFailure, Row
      <4>2. QED BY <3>2, <4>1
    <3>3. CASE ~(rows[j].attempt < MaxAttempts[j])
      <4>1. rows' = [rows EXCEPT ![j] =
                       [rows[j] EXCEPT !.status = "DEAD_LETTER", !.completed = TRUE,
                          !.error = TRUE, !.worker = NoWorker]]
        BY <2>3, <3>1, <3>3 DEF RecordFailure, Row
      <4>2. QED BY <3>3, <4>1
    <3>4. QED BY <3>2, <3>3
  <2>4. CASE ManualRetry(j)
    BY <2>4 DEF ManualRetry
  <2>5. CASE MarkSucceeded(j)
    BY <2>5 DEF MarkSucceeded
  <2>6. CASE MarkFailed(j)
    BY <2>6 DEF MarkFailed
  <2>7. CASE Cancel(j)
    BY <2>7 DEF Cancel
  <2>8. CASE TimePasses(j)
    BY <2>8 DEF TimePasses
  <2>9. QED BY <1>1, <2>1, <2>2, <2>3, <2>4, <2>5, <2>6, <2>7, <2>8 DEF Statement
<1>2. ASSUME NEW j \in Jobs, NEW w \in Workers, Claiming(j, w)
      PROVE  /\ rows' = [i \in Jobs |-> rows'[i]]
             /\ \A i \in Jobs : StepOf(rows[i], rows'[i], MaxAttempts[i])
  <2>1. rows[j].status \in {"QUEUED", "RETRYING"} /\ Running(j, w)
    BY <1>2 DEF Claiming, Claim, ClaimJob, Claimable
  <2>2. rows' = [rows EXCEPT ![j] = [rows[j] EXCEPT !.status = "RUNNING", !.worker = w,
                                                    !.attempt = @ + 1]]
    BY <2>1 DEF Running, Typed
  <2>3. rows' = [i \in Jobs |-> rows'[i]] /\ \A i \in Jobs \ {j} : rows'[i] = rows[i]
    BY <2>2 DEF Typed
  <2>4. rows'[j] = [rows[j] EXCEPT !.status = "RUNNING", !.worker = w, !.attempt = @ + 1]
    BY <2>2 DEF Typed
  <2>5. StepOf(rows[j], rows'[j], MaxAttempts[j])
    BY <2>1, <2>4 DEF StepOf
  <2>6. \A i \in Jobs \ {j} : StepOf(rows[i], rows'[i], MaxAttempts[i])
    BY <2>3 DEF StepOf
  <2>7. QED BY <2>3, <2>5, <2>6
<1>3. ASSUME NEW w \in Workers, RecoverDeadWorkerJobs(w)
      PROVE  /\ rows' = [i \in Jobs |-> rows'[i]]
             /\ \A i \in Jobs : StepOf(rows[i], rows'[i], MaxAttempts[i])
  BY <1>3 DEF RecoverDeadWorkerJobs, RunningOn, HasStatus, StepOf
<1>4. ASSUME NEW S \in SUBSET Jobs, RequeueDueRetries(S)
      PROVE  /\ rows' = [i \in Jobs |-> rows'[i]]
             /\ \A i \in Jobs : StepOf(rows[i], rows'[i], MaxAttempts[i])
  BY <1>4 DEF RequeueDueRetries, DueRetries, HasStatus, StepOf
<1>5. QED BY <1>1, <1>2, <1>3, <1>4 DEF Issue, Batch

(* Only a claim counts an attempt, and Next bounds the claims. *)
LEMMA NextIsBounded ==
    ASSUME Typed, Bounded, Next
    PROVE  Bounded'
<1> USE JobTableAssumption DEF Typed, Row, Bounded
<1>1. ASSUME NEW j \in Jobs, Statement(j) PROVE Bounded'
  <2>1. \A i \in Jobs : rows'[i].attempt = rows[i].attempt \/ rows'[i].attempt = 0
    <3>1. CASE Insert(j)        BY <3>1 DEF Insert, Fresh, Absent
    <3>2. CASE RevertToQueued(j) BY <3>2 DEF RevertToQueued
    <3>3. CASE RecordFailure(j) BY <3>3 DEF RecordFailure
    <3>4. CASE ManualRetry(j)   BY <3>4 DEF ManualRetry, Fresh, Absent
    <3>5. CASE MarkSucceeded(j) BY <3>5 DEF MarkSucceeded
    <3>6. CASE MarkFailed(j)    BY <3>6 DEF MarkFailed
    <3>7. CASE Cancel(j)        BY <3>7 DEF Cancel
    <3>8. CASE TimePasses(j)    BY <3>8 DEF TimePasses
    <3>9. QED BY <1>1, <3>1, <3>2, <3>3, <3>4, <3>5, <3>6, <3>7, <3>8 DEF Statement
  <2>2. \A i \in Jobs : AttemptCap[i] \in Nat
    OBVIOUS
  <2>3. QED BY <2>1, <2>2
<1>2. ASSUME NEW j \in Jobs, NEW w \in Workers,
             rows[j].attempt < AttemptCap[j], Claiming(j, w)
      PROVE  Bounded'
  BY <1>2 DEF Claiming, Claim, ClaimJob, Running
<1>3. ASSUME NEW w \in Workers, RecoverDeadWorkerJobs(w) PROVE Bounded'
  BY <1>3 DEF RecoverDeadWorkerJobs
<1>4. ASSUME NEW S \in SUBSET Jobs, RequeueDueRetries(S) PROVE Bounded'
  BY <1>4 DEF RequeueDueRetries
<1>5. QED BY <1>1, <1>2, <1>3, <1>4 DEF Next, Batch

(* Types and consistency are inductive together: the statements change    *)
(* status, completed_at, worker_id and error in step.  The bound on        *)
(* attempts plays no part in it.                                           *)
RowsInv == Typed /\ RowConsistent

LEMMA InitRows == Init => RowsInv
<1>1. Absent \in Row /\ \A max \in Nat : Consistent(Absent, max)
  BY DEF Absent, Row, Status, Terminal, Pending, Consistent
<1> SUFFICES ASSUME Init PROVE RowsInv
  OBVIOUS
<1>2. \A j \in Jobs : rows[j] = Absent
  BY DEF Init
<1>3. Typed
  BY <1>1 DEF Init, Typed
<1>4. \A j \in Jobs : Consistent(rows[j], MaxAttempts[j])
  BY <1>1, <1>2, JobTableAssumption
<1>5. QED BY <1>3, <1>4, RowConsistentByRow DEF RowsInv

LEMMA IssueRows == RowsInv /\ [Issue]_rows => RowsInv'
<1> SUFFICES ASSUME RowsInv, [Issue]_rows PROVE RowsInv'
  OBVIOUS
<1>1. Typed /\ \A j \in Jobs : Consistent(rows[j], MaxAttempts[j])
  BY RowConsistentByRow DEF RowsInv
<1>2. CASE Issue
  <2>1. \A j \in Jobs : StepOf(rows[j], rows'[j], MaxAttempts[j])
    BY <1>1, <1>2, IssueIsRowSteps
  <2>2. \A j \in Jobs : rows'[j] \in Row /\ Consistent(rows'[j], MaxAttempts[j])
    <3> TAKE j \in Jobs
    <3>1. /\ rows[j] \in Row
          /\ MaxAttempts[j] \in Nat \ {0}
          /\ Consistent(rows[j], MaxAttempts[j])
          /\ StepOf(rows[j], rows'[j], MaxAttempts[j])
          /\ NoWorker \notin Workers
      BY <1>1, <2>1, JobTableAssumption DEF Typed
    <3>2. QED BY <3>1, RowStep
  <2>3. Typed'
    BY <1>1, <1>2, <2>2, IssueIsRowSteps DEF Typed
  <2>4. RowConsistent'
    BY <2>2 DEF RowConsistent, CompletedIffTerminal, OwnedIffRunning,
                RetriesWithinBudget, ErrorExplained, Consistent
  <2>5. QED BY <2>3, <2>4 DEF RowsInv
<1>3. CASE UNCHANGED rows
  BY <1>3 DEF RowsInv, Typed, RowConsistent, CompletedIffTerminal,
              OwnedIffRunning, RetriesWithinBudget, ErrorExplained
<1>4. QED BY <1>2, <1>3

THEOREM RowsInvariance == IssueSpec => []RowsInv
<1>1. QED BY InitRows, IssueRows, PTL DEF IssueSpec

(* The bound only takes steps away. *)
LEMMA BoundIsIssue == Spec => IssueSpec
<1>1. [Next]_rows => [Issue]_rows
  BY DEF Next, Issue
<1>2. QED BY <1>1, PTL DEF Spec, IssueSpec

(* The columns keep their types, whatever the order of the statements, and *)
(* attempt keeps within the bound of Next.                                 *)
THEOREM JobTableTyped == Spec => []TypeOK
<1>1. Init => Bounded
  <2>1. Init => \A j \in Jobs : rows[j].attempt = 0 /\ AttemptCap[j] \in Nat
    BY JobTableAssumption DEF Init, Absent
  <2>2. QED BY <2>1 DEF Bounded
<1>2. RowsInv /\ Bounded /\ [Next]_rows => Bounded'
  BY NextIsBounded DEF RowsInv, Bounded
<1>3. RowsInv /\ Bounded => TypeOK
  BY DEF RowsInv, Typed, Bounded, TypeOK
<1>4. QED BY <1>1, <1>2, <1>3, BoundIsIssue, RowsInvariance, PTL DEF Spec

(* The rows stay consistent, whatever the order of the statements and      *)
(* however many attempts they count.                                       *)
THEOREM JobTableConsistent == IssueSpec => []RowConsistent
<1>1. RowsInv => RowConsistent
  BY DEF RowsInv
<1>2. QED BY <1>1, RowsInvariance, PTL

(* Only an operator's retry, with a fresh attempt budget, brings a         *)
(* dead-lettered job back: a late report finds its attempts used up.       *)
THEOREM DeadLetterStays == IssueSpec => DeadLetterNeedsOperator
<1>1. RowsInv /\ [Issue]_rows
        => [\A j \in Jobs :
              rows[j].status = "DEAD_LETTER" /\ rows'[j].status \in Pending
                 => rows'[j].attempt = 0]_rows
  <2> SUFFICES ASSUME RowsInv, Issue, NEW j \in Jobs,
                      rows[j].status = "DEAD_LETTER", rows'[j].status \in Pending
               PROVE  rows'[j].attempt = 0
    OBVIOUS
  <2>1. StepOf(rows[j], rows'[j], MaxAttempts[j])
    BY IssueIsRowSteps DEF RowsInv
  <2>2. rows[j] \in Row /\ rows[j].attempt >= MaxAttempts[j]
    BY DEF RowsInv, Typed, RowConsistent, RetriesWithinBudget
  <2>3. MaxAttempts[j] \in Nat /\ rows[j].attempt \in Nat
    BY <2>2, JobTableAssumption DEF Row
  <2> DEFINE old == rows[j]
             new == rows'[j]
  <2>4. CASE new = old
    BY <2>4 DEF Pending
  <2>5. CASE new = Fresh
    BY <2>5 DEF Fresh, Absent
  <2>6. CASE old.status # "DEAD_LETTER"
    BY <2>6
  <2>7. CASE old.attempt < MaxAttempts[j]
    BY <2>2, <2>3, <2>7
  <2>8. CASE new.status \in Terminal
    BY <2>8 DEF Terminal, Pending
  <2>9. \/ new = old \/ new = Fresh
        \/ old.status # "DEAD_LETTER"
        \/ old.attempt < MaxAttempts[j]
        \/ new.status \in Terminal
    BY <2>1, <2>2 DEF StepOf, Row, Terminal
  <2>10. QED BY <2>4, <2>5, <2>6, <2>7, <2>8, <2>9
<1>2. QED BY <1>1, RowsInvariance, PTL DEF IssueSpec, DeadLetterNeedsOperator
=============================================================================
