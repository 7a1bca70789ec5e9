---------------------------- MODULE DAGValidation ----------------------------
(***************************************************************************)
(* ValidateDAG (domain/workflow.go): the check every workflow passes       *)
(* before it is stored.  First the form of the tasks, then Kahn's          *)
(* algorithm on their names: in-degrees count the entries of the           *)
(* dependency lists, duplicates included, and every visit of a task takes  *)
(* its entries off again.                                                  *)
(*                                                                         *)
(* A request is a sequence of tasks; of a task's type only whether it is   *)
(* given is kept.  The queue is a set: Go's map iteration fills it in any  *)
(* order, and its order does not matter to the verdict.                    *)
(***************************************************************************)
EXTENDS Naturals, FiniteSets, Sequences

CONSTANTS
    Names,      \* the names tasks may have or depend on
    NoName,     \* the empty string
    Requests    \* the requests considered

Task == [name  : Names \cup {NoName},
         typed : BOOLEAN,
         deps  : Seq(Names \cup {NoName})]

ASSUME DAGAssumption ==
    /\ NoName \notin Names
    /\ Requests \subseteq Seq(Task)

VARIABLES
    req,           \* the tasks of the request
    pc,
    inDegree,      \* for each task, the dependency entries not yet taken off
    queue,         \* tasks with in-degree 0 that were not visited
    visitedCount

vars == <<req, pc, inDegree, queue, visitedCount>>

TaskNames == {req[i].name : i \in DOMAIN req}

(* Names are unique when this is used: the dependency list of task n. *)
Dependencies(n) == req[CHOOSE i \in DOMAIN req : req[i].name = n].deps

(* The places where n lists d. *)
Entries(d, n) == {k \in DOMAIN Dependencies(n) : Dependencies(n)[k] = d}

-----------------------------------------------------------------------------
Init ==
    /\ req \in Requests
    /\ pc = "checks"
    /\ inDegree = <<>>
    /\ queue = {}
    /\ visitedCount = 0

(* The checks of the tasks one by one: a name, a type, no name twice, and  *)
(* dependencies on other tasks of the request only.                        *)
WellFormed ==
    /\ req # <<>>
    /\ \A i \in DOMAIN req :
         /\ req[i].name # NoName /\ req[i].typed
         /\ \A j \in DOMAIN req : req[i].name = req[j].name => i = j
         /\ \A k \in DOMAIN req[i].deps : req[i].deps[k] \in TaskNames \ {req[i].name}

Refuse ==
    /\ pc = "checks"
    /\ ~WellFormed
    /\ pc' = "rejected"
    /\ UNCHANGED <<req, inDegree, queue, visitedCount>>

\* Mutant: a task's in-degree counts different dependencies, not entries.
CountDistinctDependencies ==
    /\ pc = "checks"
    /\ WellFormed
    /\ inDegree' = [n \in TaskNames |-> Cardinality({Dependencies(n)[k] : k \in DOMAIN Dependencies(n)})]
    /\ queue' = {n \in TaskNames : Dependencies(n) = <<>>}
    /\ pc' = "kahn"
    /\ UNCHANGED <<req, visitedCount>>

CountDependencies ==
    /\ pc = "checks"
    /\ WellFormed
    /\ inDegree' = [n \in TaskNames |-> Len(Dependencies(n))]
    /\ queue' = {n \in TaskNames : Dependencies(n) = <<>>}
    /\ pc' = "kahn"
    /\ UNCHANGED <<req, visitedCount>>

\* Mutant: every task whose in-degree is 0 is queued, visited before or not.
VisitQueuesAgain(n) ==
    /\ pc = "kahn" /\ n \in queue
    /\ inDegree' = [m \in TaskNames |-> inDegree[m] - Cardinality(Entries(n, m))]
    /\ queue' = (queue \ {n}) \cup {m \in TaskNames \ {n} : inDegree'[m] = 0}
    /\ visitedCount' = visitedCount + 1
    /\ UNCHANGED <<req, pc>>

(* The head of the queue: its entries are taken off the lists it is in.    *)
Visit(n) ==
    /\ pc = "kahn" /\ n \in queue
    /\ inDegree' = [m \in TaskNames |-> inDegree[m] - Cardinality(Entries(n, m))]
    /\ queue' = (queue \ {n}) \cup
                  {m \in TaskNames : Entries(n, m) # {} /\ inDegree'[m] = 0}
    /\ visitedCount' = visitedCount + 1
    /\ UNCHANGED <<req, pc>>

Decide ==
    /\ pc = "kahn" /\ queue = {}
    /\ pc' = IF visitedCount = Len(req) THEN "accepted" ELSE "rejected"
    /\ UNCHANGED <<req, inDegree, queue, visitedCount>>

Next ==
    \/ Refuse
    \/ CountDependencies
    \/ \E n \in TaskNames : Visit(n)
    \/ Decide

Spec == Init /\ [][Next]_vars

-----------------------------------------------------------------------------
(* In-degrees are those of the request's tasks and never negative, the     *)
(* queue holds tasks without one, and no task is visited twice.            *)
TypeOK ==
    /\ req \in Requests
    /\ pc \in {"checks", "kahn", "accepted", "rejected"}
    /\ pc = "checks" => queue = {} /\ visitedCount = 0
    /\ pc \in {"kahn", "accepted"} => inDegree \in [TaskNames -> Nat]
    /\ queue \subseteq TaskNames
    /\ visitedCount \in 0..Len(req)

(* Every set of tasks has one that waits for none of the set: the notion   *)
(* of acyclicity a workflow needs to run to its end.                       *)
Requires(n) == {Dependencies(n)[k] : k \in DOMAIN Dependencies(n)}

Acyclic ==
    \A S \in SUBSET TaskNames : S # {} => \E n \in S : Requires(n) \cap S = {}

(* VerdictIsRight: exactly the well-formed acyclic requests are accepted,  *)
(* also those that list a dependency several times, in whatever order the  *)
(* tasks are visited (domain/workflow.go:91-97).                           *)
VerdictIsRight ==
    /\ pc = "accepted" => WellFormed /\ Acyclic
    /\ pc = "rejected" => ~(WellFormed /\ Acyclic)
=============================================================================
