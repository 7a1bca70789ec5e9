----------------------------- MODULE Migrations -----------------------------
(***************************************************************************)
(* The start of API processes (cmd/api/main.go): each runs RunMigrations   *)
(* (store/migrate.go) before it serves, and several may start at a time.   *)
(*                                                                         *)
(* For each migration in the order of the file names a process looks       *)
(* whether it is recorded, applies it when it is not, and records it:      *)
(* three statements, without a lock or a transaction around them.  A file  *)
(* is one Exec, hence atomic.  Whoever gets an error exits.                *)
(***************************************************************************)
EXTENDS Naturals

CONSTANTS
    Procs,
    Last,         \* migrations are 1..Last
    Repeatable,   \* those that may be applied twice: all IF NOT EXISTS
    MaxFaults     \* bound on failing statements and killed processes

Versions == 1..Last

ASSUME MigrationsAssumption ==
    /\ Last \in Nat \ {0}
    /\ Repeatable \subseteq Versions
    /\ MaxFaults \in Nat

VARIABLES
    applied,    \* migrations whose tables and indexes exist
    recorded,   \* the rows of schema_migrations
    pc,         \* what each process is about to do
    next,       \* the migration each process has reached
    faults

vars == <<applied, recorded, pc, next, faults>>

Init ==
    /\ applied = {}
    /\ recorded = {}
    /\ pc = [p \in Procs |-> "down"]
    /\ next = [p \in Procs |-> 1]
    /\ faults = 0

Goto(p, l) == pc' = [pc EXCEPT ![p] = l]

(* main: a new process; the tracking table is made IF NOT EXISTS. *)
Start(p) ==
    /\ pc[p] = "down"
    /\ Goto(p, "check")
    /\ next' = [next EXCEPT ![p] = 1]
    /\ UNCHANGED <<applied, recorded, faults>>

\* Mutant: the last file is left out.
AdvanceSkipsLast(p) ==
    /\ next' = [next EXCEPT ![p] = @ + 1]
    /\ Goto(p, IF next[p] + 1 = Last THEN "serving" ELSE "check")

\* Mutant: the loop runs past the last file.
AdvancePastLast(p) ==
    /\ next' = [next EXCEPT ![p] = @ + 1]
    /\ Goto(p, IF next[p] > Last THEN "serving" ELSE "check")

\* Mutant: the loop stays at a file.
AdvanceStays(p) ==
    /\ UNCHANGED next
    /\ Goto(p, "check")

(* The loop goes on to the next file, or main to serve. *)
Advance(p) ==
    /\ next' = [next EXCEPT ![p] = @ + 1]
    /\ Goto(p, IF next[p] = Last THEN "serving" ELSE "check")

\* Mutant: the row is written before the file is applied.
RecordFirst(p) ==
    /\ pc[p] = "check"
    /\ \/ next[p] \in recorded /\ Advance(p) /\ UNCHANGED recorded
       \/ /\ next[p] \notin recorded
          /\ recorded' = recorded \cup {next[p]}
          /\ Goto(p, "apply")
          /\ UNCHANGED next
    /\ UNCHANGED <<applied, faults>>

Check(p) ==
    /\ pc[p] = "check"
    /\ \/ next[p] \in recorded /\ Advance(p)
       \/ next[p] \notin recorded /\ Goto(p, "apply") /\ UNCHANGED next
    /\ UNCHANGED <<applied, recorded, faults>>

(* CREATE INDEX without IF NOT EXISTS fails when the index is there. *)
Apply(p) ==
    /\ pc[p] = "apply"
    /\ \/ /\ next[p] \notin applied \/ next[p] \in Repeatable
          /\ applied' = applied \cup {next[p]}
          /\ Goto(p, "record")
       \/ /\ next[p] \in applied \ Repeatable
          /\ Goto(p, "down")
          /\ UNCHANGED applied
    /\ UNCHANGED <<recorded, next, faults>>

\* Mutant: the versions are recorded together once all files are applied.
RecordOnlyLast(p) ==
    /\ pc[p] = "record"
    /\ recorded' = IF next[p] = Last THEN Versions ELSE recorded
    /\ Advance(p)
    /\ UNCHANGED <<applied, faults>>

(* The version is the primary key: a second INSERT fails. *)
Record(p) ==
    /\ pc[p] = "record"
    /\ \/ /\ next[p] \notin recorded
          /\ recorded' = recorded \cup {next[p]}
          /\ Advance(p)
       \/ /\ next[p] \in recorded
          /\ Goto(p, "down")
          /\ UNCHANGED <<recorded, next>>
    /\ UNCHANGED <<applied, faults>>

(* The process is killed or stopped, or a statement fails and main exits;  *)
(* the reply of one that was executed may be lost.                         *)
Fault(p) ==
    /\ pc[p] # "down"
    /\ faults < MaxFaults
    /\ faults' = faults + 1
    /\ Goto(p, "down")
    /\ \/ UNCHANGED <<applied, recorded>>
       \/ /\ pc[p] = "apply" /\ (next[p] \notin applied \/ next[p] \in Repeatable)
          /\ applied' = applied \cup {next[p]}
          /\ UNCHANGED recorded
       \/ /\ pc[p] = "record"
          /\ recorded' = recorded \cup {next[p]}
          /\ UNCHANGED applied
    /\ UNCHANGED next

Proceed(p) == Check(p) \/ Apply(p) \/ Record(p)

Next == \E p \in Procs : Start(p) \/ Proceed(p) \/ Fault(p)

(* A process that is not killed goes on; nothing starts it again. *)
Fairness == \A p \in Procs : WF_vars(Proceed(p))

Spec == Init /\ [][Next]_vars /\ Fairness

-----------------------------------------------------------------------------
(* A process that has not reached the end looks at one of the migrations;  *)
(* everything before it is recorded.                                       *)
TypeOK ==
    /\ applied \subseteq Versions
    /\ recorded \subseteq Versions
    /\ pc \in [Procs -> {"down", "check", "apply", "record", "serving"}]
    /\ next \in [Procs -> 1..Last + 1]
    /\ faults \in 0..MaxFaults
    /\ \A p \in Procs : pc[p] \in {"check", "apply", "record"} => next[p] <= Last

(* SchemaIsComplete: the requests and loops of a process that serves find  *)
(* every table and index, whatever the other processes are doing           *)
(* (main.go:48-52 before 68-111).                                          *)
SchemaIsComplete == (\E p \in Procs : pc[p] = "serving") => applied = Versions

(* OneUnrecorded: the migrations that were applied and those recorded are  *)
(* two prefixes of the list of files, and the first is ahead by one at     *)
(* most: no process applies a file on top of one nobody finished.          *)
OneUnrecorded ==
    \E n \in 0..Last : recorded = 1..n /\ (applied = 1..n \/ applied = 1..(n + 1))

(* Wedged: a migration that cannot be repeated was applied, nobody is left *)
(* to record it, and every start from now on fails on it.                  *)
Wedged ==
    \E v \in applied \ (recorded \cup Repeatable) :
        \A p \in Procs : ~(pc[p] = "record" /\ next[p] = v)

(* OnlyFaultsWedge: processes that start at the same time trip each other  *)
(* up, and those that do exit, but only a process that is killed or loses  *)
(* its connection between Apply and Record leaves the schema wedged        *)
(* (migrate.go:66-74).                                                     *)
OnlyFaultsWedge == Wedged => faults > 0

(* SomebodyServes: without such a fault one of the processes that start    *)
(* comes to serve, although nothing restarts the ones that failed.         *)
SomebodyServes ==
    (\E p \in Procs : pc[p] # "down")
        ~> faults > 0 \/ \E p \in Procs : pc[p] = "serving"
=============================================================================
