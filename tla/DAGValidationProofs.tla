-------------------------- MODULE DAGValidationProofs --------------------------
(***************************************************************************)
(* Theorems about DAGValidation: the verdict is right for requests of any  *)
(* size.  The inductive invariant ties the in-degrees to the set of tasks  *)
(* visited so far, and keeps that set clear of every set of tasks that     *)
(* wait for each other.                                                    *)
(***************************************************************************)
EXTENDS DAGValidation, FiniteSetTheorems, TLAPS

Visited == {n \in TaskNames : inDegree[n] = 0} \ queue

(* The entries of m's dependency list that were not taken off. *)
Open(m) == {k \in DOMAIN Dependencies(m) : Dependencies(m)[k] \notin Visited}

(* Each of S waits for one of S. *)
Stuck(S) == \A n \in S : Requires(n) \cap S # {}

KahnInv ==
    /\ WellFormed
    /\ \A n \in queue : inDegree[n] = 0
    /\ \A m \in TaskNames : inDegree[m] = Cardinality(Open(m))
    /\ visitedCount = Cardinality(Visited)
    /\ \A S \in SUBSET TaskNames : Stuck(S) => S \cap Visited = {}

IInv ==
    /\ TypeOK
    /\ pc = "kahn" => KahnInv
    /\ VerdictIsRight

USE DAGAssumption

-----------------------------------------------------------------------------
(* A request is a sequence of tasks, and a task's dependencies are one. *)
LEMMA RequestTyped ==
    ASSUME req \in Requests
    PROVE  /\ Len(req) \in Nat /\ DOMAIN req = 1..Len(req)
           /\ \A i \in DOMAIN req : req[i].deps \in Seq(Names \cup {NoName})
<1>1. req \in Seq(Task)
    OBVIOUS
<1>2. Len(req) \in Nat /\ DOMAIN req = 1..Len(req)
    BY <1>1
<1>3. ASSUME NEW i \in DOMAIN req PROVE req[i].deps \in Seq(Names \cup {NoName})
    <2>1. req[i] \in Task
        BY <1>1, <1>2, <1>3
    <2> QED BY <2>1 DEF Task
<1> QED BY <1>2, <1>3

LEMMA DependenciesTyped ==
    ASSUME req \in Requests, NEW n \in TaskNames
    PROVE  /\ \E i \in DOMAIN req : req[i].name = n /\ Dependencies(n) = req[i].deps
           /\ Dependencies(n) \in Seq(Names \cup {NoName})
           /\ Len(Dependencies(n)) \in Nat
           /\ DOMAIN Dependencies(n) = 1..Len(Dependencies(n))
<1>1. \E i \in DOMAIN req : req[i].name = n
    BY DEF TaskNames
<1>2. PICK i \in DOMAIN req : req[i].name = n /\ Dependencies(n) = req[i].deps
    BY <1>1 DEF Dependencies
<1>3. Dependencies(n) \in Seq(Names \cup {NoName})
    BY <1>2, RequestTyped
<1> QED BY <1>2, <1>3

(* In a well-formed request a task depends on other tasks of the request.  *)
LEMMA RequiresOthers ==
    ASSUME req \in Requests, WellFormed, NEW n \in TaskNames
    PROVE  Requires(n) \subseteq TaskNames \ {n}
<1>1. PICK i \in DOMAIN req : req[i].name = n /\ Dependencies(n) = req[i].deps
    BY DependenciesTyped
<1> QED BY <1>1 DEF WellFormed, Requires

(* The names of a request are at most as many as its tasks, and as many    *)
(* when no name comes twice.                                               *)
LEMMA NamesCounted ==
    ASSUME req \in Requests
    PROVE  /\ IsFiniteSet(TaskNames)
           /\ Cardinality(TaskNames) <= Len(req)
           /\ WellFormed => Cardinality(TaskNames) = Len(req)
<1> DEFINE D == 1..Len(req)
           f == [i \in D |-> req[i].name]
<1>1. Len(req) \in Nat /\ DOMAIN req = D
    BY RequestTyped
<1>2. IsFiniteSet(D) /\ Cardinality(D) = Len(req)
    BY <1>1, FS_Interval
<1>3. f \in Surjection(D, TaskNames)
    BY <1>1 DEF Surjection, TaskNames
<1>4. WellFormed => f \in Injection(D, TaskNames)
    BY <1>1 DEF WellFormed, Injection, IsInjective, TaskNames
<1> HIDE DEF f
<1> QED BY <1>2, <1>3, <1>4, FS_Surjection

LEMMA EntriesFinite ==
    ASSUME req \in Requests, NEW m \in TaskNames
    PROVE  /\ IsFiniteSet(DOMAIN Dependencies(m))
           /\ Cardinality(DOMAIN Dependencies(m)) = Len(Dependencies(m))
           /\ IsFiniteSet(Open(m)) /\ Cardinality(Open(m)) \in Nat
           /\ Cardinality(Open(m)) = 0 <=> Open(m) = {}
<1>1. DOMAIN Dependencies(m) = 1..Len(Dependencies(m)) /\ Len(Dependencies(m)) \in Nat
    BY DependenciesTyped
<1>2. IsFiniteSet(DOMAIN Dependencies(m))
      /\ Cardinality(DOMAIN Dependencies(m)) = Len(Dependencies(m))
    <2>1. ASSUME NEW k \in Nat PROVE IsFiniteSet(1..k) /\ Cardinality(1..k) = k
        BY <2>1, FS_Interval
    <2> QED BY <1>1, <2>1
<1>3. Open(m) \in SUBSET DOMAIN Dependencies(m)
    BY DEF Open
<1>4. IsFiniteSet(Open(m))
    BY <1>2, <1>3, FS_Subset
<1> QED BY <1>2, <1>4, FS_CardinalityType, FS_EmptySet

LEMMA InitInv == Init => IInv
<1> SUFFICES ASSUME Init PROVE IInv
    OBVIOUS
<1>1. Len(req) \in Nat
    BY RequestTyped DEF Init
<1> QED BY <1>1 DEF Init, IInv, TypeOK, VerdictIsRight

(* Nobody was visited yet, and every entry is open. *)
LEMMA CountInv ==
    ASSUME IInv, CountDependencies
    PROVE  IInv'
<1>1. req' = req /\ req \in Requests /\ WellFormed /\ pc' = "kahn" /\ visitedCount' = 0
      /\ inDegree' = [n \in TaskNames |-> Len(Dependencies(n))]
      /\ queue' = {n \in TaskNames : Dependencies(n) = <<>>}
    BY DEF CountDependencies, IInv, TypeOK
<1>2. TaskNames' = TaskNames /\ WellFormed'
    BY <1>1 DEF TaskNames, WellFormed
<1>3. \A m : Dependencies(m)' = Dependencies(m)
    BY <1>1 DEF Dependencies
<1>4. \A m \in TaskNames : /\ Len(Dependencies(m)) \in Nat
                           /\ Len(Dependencies(m)) = 0 <=> Dependencies(m) = <<>>
    BY <1>1, DependenciesTyped
<1>5. Visited' = {}
    BY <1>1, <1>2, <1>4 DEF Visited
<1>6. \A m \in TaskNames : Open(m)' = DOMAIN Dependencies(m)
    BY <1>3, <1>5 DEF Open
<1>7. \A m \in TaskNames : inDegree'[m] = Cardinality(Open(m)')
    BY <1>1, <1>6, EntriesFinite
<1>8. KahnInv'
    BY <1>1, <1>2, <1>4, <1>5, <1>7, FS_EmptySet DEF KahnInv
<1>9. TypeOK'
    BY <1>1, <1>2, <1>4, RequestTyped DEF TypeOK
<1> QED BY <1>1, <1>8, <1>9 DEF IInv, VerdictIsRight

(* A visit moves one task from the queue to the visited ones, and closes   *)
(* its entries in all lists.                                               *)
LEMMA VisitInv ==
    ASSUME IInv, NEW n \in TaskNames, Visit(n)
    PROVE  IInv'
<1>1. /\ req' = req /\ req \in Requests /\ pc = "kahn" /\ pc' = "kahn" /\ n \in queue
      /\ inDegree' = [m \in TaskNames |-> inDegree[m] - Cardinality(Entries(n, m))]
      /\ queue' = (queue \ {n}) \cup {m \in TaskNames : Entries(n, m) # {} /\ inDegree'[m] = 0}
      /\ visitedCount' = visitedCount + 1
    BY DEF Visit, IInv, TypeOK
<1>2. KahnInv /\ queue \subseteq TaskNames
    BY <1>1 DEF IInv, TypeOK
<1>3. TaskNames' = TaskNames /\ WellFormed'
    BY <1>1, <1>2 DEF TaskNames, WellFormed, KahnInv
<1>4. \A m : Dependencies(m)' = Dependencies(m)
    BY <1>1 DEF Dependencies
<1>5. n \notin Visited
    BY <1>1 DEF Visited
<1>6. \A m \in TaskNames : inDegree[m] = Cardinality(Open(m))
    BY <1>2 DEF KahnInv
<1>7. ASSUME NEW m \in TaskNames
      PROVE  /\ inDegree'[m] = Cardinality(Open(m) \ Entries(n, m))
             /\ inDegree'[m] \in Nat
             /\ inDegree'[m] = 0 <=> Open(m) \subseteq Entries(n, m)
    <2>1. Entries(n, m) \subseteq Open(m)
        BY <1>5 DEF Entries, Open
    <2>2. IsFiniteSet(Open(m))
        BY <1>1, EntriesFinite
    <2>3. Cardinality(Open(m) \ Entries(n, m)) = Cardinality(Open(m)) - Cardinality(Open(m) \cap Entries(n, m))
          /\ IsFiniteSet(Open(m) \ Entries(n, m))
        BY <2>2, FS_Difference
    <2>4. Open(m) \cap Entries(n, m) = Entries(n, m)
        BY <2>1
    <2>5. inDegree'[m] = Cardinality(Open(m) \ Entries(n, m))
        BY <1>1, <1>6, <2>3, <2>4
    <2> QED BY <2>3, <2>5, FS_CardinalityType, FS_EmptySet
<1>8. \A m \in TaskNames : inDegree[m] = 0 => Open(m) = {} /\ Entries(n, m) = {}
    <2>1. \A m \in TaskNames : inDegree[m] = 0 => Open(m) = {}
        BY <1>1, <1>6, EntriesFinite
    <2> QED BY <2>1, <1>5 DEF Entries, Open
<1>9. inDegree[n] = 0 /\ Open(n) = {} /\ Entries(n, n) = {}
    BY <1>1, <1>2, <1>8 DEF KahnInv
<1>10. Visited' = Visited \cup {n}
    <2>1. ASSUME NEW m \in TaskNames
          PROVE  m \in Visited' <=> m \in Visited \/ m = n
        <3>1. m \in Visited' <=> inDegree'[m] = 0 /\ m \notin queue'
            BY <1>3 DEF Visited
        <3>2. CASE m = n
            BY <1>1, <1>7, <1>9, <3>1, <3>2
        <3>3. CASE m # n /\ inDegree[m] = 0
            BY <1>1, <1>7, <1>8, <3>1, <3>3 DEF Visited
        <3>4. CASE m # n /\ inDegree[m] # 0
            <4>1. inDegree'[m] = 0 => Entries(n, m) # {}
                BY <1>1, <1>6, <1>7, <3>4, EntriesFinite
            <4> QED BY <1>1, <3>1, <3>4, <4>1 DEF Visited
        <3> QED BY <3>2, <3>3, <3>4
    <2> QED BY <1>3, <2>1 DEF Visited
<1>11. \A m \in TaskNames : Open(m)' = Open(m) \ Entries(n, m)
    BY <1>4, <1>10 DEF Open, Entries
<1>12. \A m \in queue' : inDegree'[m] = 0
    <2>1. \A m \in queue : inDegree'[m] = 0
        BY <1>2, <1>7, <1>8 DEF KahnInv
    <2> QED BY <1>1, <2>1
<1>13. IsFiniteSet(Visited) /\ Cardinality(Visited) \in Nat
      /\ IsFiniteSet(TaskNames) /\ Cardinality(TaskNames) <= Len(req)
    <2>1. IsFiniteSet(TaskNames) /\ Cardinality(TaskNames) <= Len(req)
        BY <1>1, NamesCounted
    <2>2. Visited \in SUBSET TaskNames
        BY DEF Visited
    <2>3. IsFiniteSet(Visited)
        BY <2>1, <2>2, FS_Subset
    <2> QED BY <2>1, <2>3, FS_CardinalityType
<1>14. visitedCount' = Cardinality(Visited')
    BY <1>1, <1>2, <1>5, <1>10, <1>13, FS_AddElement DEF KahnInv
<1>15. ASSUME NEW S \in SUBSET TaskNames, Stuck(S)'
       PROVE  S \cap Visited' = {}
    <2>1. Stuck(S)
        BY <1>4, <1>15 DEF Stuck, Requires
    <2>2. S \cap Visited = {}
        BY <1>2, <2>1 DEF KahnInv
    <2>3. Requires(n) \subseteq Visited
        BY <1>9 DEF Requires, Open
    <2>4. n \notin S
        BY <2>1, <2>2, <2>3 DEF Stuck
    <2> QED BY <1>10, <2>2, <2>4
<1>16. KahnInv'
    BY <1>3, <1>7, <1>11, <1>12, <1>14, <1>15 DEF KahnInv
<1>17. TypeOK'
    <2>1. inDegree' \in [TaskNames -> Nat]
        BY <1>1, <1>7
    <2>2. queue' \subseteq TaskNames
        BY <1>1, <1>2
    <2>3. Visited' \in SUBSET TaskNames
        BY <1>3 DEF Visited
    <2>4. visitedCount' \in 0..Len(req)
        <3>1. Cardinality(Visited') <= Cardinality(TaskNames)
            BY <1>13, <2>3, FS_Subset
        <3>2. Cardinality(TaskNames) \in Nat /\ Len(req) \in Nat
            BY <1>1, <1>13, FS_CardinalityType, RequestTyped
        <3>3. visitedCount' \in Nat
            BY <1>1, <1>2, <1>13 DEF KahnInv
        <3> QED BY <1>13, <1>14, <3>1, <3>2, <3>3
    <2> QED BY <1>1, <1>3, <2>1, <2>2, <2>4 DEF TypeOK
<1> QED BY <1>1, <1>16, <1>17 DEF IInv, VerdictIsRight

(* With the queue empty, the tasks that were not visited wait for each     *)
(* other.                                                                  *)
LEMMA DecideInv ==
    ASSUME IInv, Decide
    PROVE  IInv'
<1>1. pc = "kahn" /\ queue = {} /\ KahnInv /\ req \in Requests
      /\ UNCHANGED <<req, inDegree, queue, visitedCount>>
      /\ pc' = IF visitedCount = Len(req) THEN "accepted" ELSE "rejected"
    BY DEF Decide, IInv, TypeOK
<1>2. TaskNames' = TaskNames /\ WellFormed' /\ (Acyclic' <=> Acyclic)
    BY <1>1 DEF TaskNames, WellFormed, KahnInv, Acyclic, Requires, Dependencies
<1>3. IsFiniteSet(TaskNames) /\ Cardinality(TaskNames) = Len(req)
    BY <1>1, NamesCounted DEF KahnInv
<1>4. Visited \in SUBSET TaskNames
    BY DEF Visited
<1>5. TypeOK'
    BY <1>1, <1>2 DEF IInv, TypeOK
<1>6. CASE visitedCount = Len(req)
    <2>1. Visited = TaskNames
        BY <1>1, <1>3, <1>4, <1>6, FS_Subset DEF KahnInv
    <2>2. Acyclic
        BY <1>1, <2>1 DEF KahnInv, Acyclic, Stuck
    <2> QED BY <1>1, <1>2, <1>5, <1>6, <2>2 DEF IInv, VerdictIsRight
<1>7. CASE visitedCount # Len(req)
    <2> DEFINE S == TaskNames \ Visited
    <2>1. S # {}
        <3>1. Visited # TaskNames
            BY <1>1, <1>3, <1>7 DEF KahnInv
        <3> QED BY <1>4, <3>1
    <2>2. ASSUME NEW m \in S PROVE Requires(m) \cap S # {}
        <3>1. inDegree[m] # 0
            BY <1>1 DEF Visited
        <3>2. PICK k \in DOMAIN Dependencies(m) : Dependencies(m)[k] \notin Visited
            <4>1. m \in TaskNames /\ inDegree[m] = Cardinality(Open(m))
                BY <1>1, <2>2 DEF KahnInv
            <4>2. Open(m) # {}
                BY <1>1, <3>1, <4>1, EntriesFinite
            <4> QED BY <4>2 DEF Open
        <3>3. Dependencies(m)[k] \in Requires(m) /\ Requires(m) \subseteq TaskNames
            BY <1>1, RequiresOthers DEF Requires, KahnInv
        <3> QED BY <3>2, <3>3
    <2>3. ~Acyclic
        BY <2>1, <2>2 DEF Acyclic
    <2> QED BY <1>1, <1>2, <1>5, <1>7, <2>3 DEF IInv, VerdictIsRight
<1> QED BY <1>6, <1>7

LEMMA NextInv == IInv /\ [Next]_vars => IInv'
<1> SUFFICES ASSUME IInv, [Next]_vars PROVE IInv'
    OBVIOUS
<1>1. CASE Refuse
    <2>1. UNCHANGED <<req, inDegree, queue, visitedCount>> /\ ~WellFormed /\ pc' = "rejected"
        BY <1>1 DEF Refuse
    <2>2. ~WellFormed' /\ TypeOK'
        BY <2>1 DEF WellFormed, TaskNames, IInv, TypeOK
    <2> QED BY <2>1, <2>2 DEF IInv, VerdictIsRight
<1>2. CASE CountDependencies
    BY <1>2, CountInv
<1>3. ASSUME NEW n \in TaskNames, Visit(n) PROVE IInv'
    BY <1>3, VisitInv
<1>4. CASE Decide
    BY <1>4, DecideInv
<1>5. CASE UNCHANGED vars
    <2>1. UNCHANGED <<req, pc, inDegree, queue, visitedCount>>
        BY <1>5 DEF vars
    <2>2. TaskNames' = TaskNames /\ (WellFormed' <=> WellFormed) /\ Visited' = Visited
          /\ \A m : Dependencies(m)' = Dependencies(m)
        BY <2>1 DEF TaskNames, WellFormed, Visited, Dependencies
    <2>3. \A m : Open(m)' = Open(m) /\ Requires(m)' = Requires(m)
        BY <2>2 DEF Open, Requires
    <2>4. \A S : Stuck(S)' <=> Stuck(S)
        BY <2>3 DEF Stuck
    <2>5. TypeOK'
        BY <2>1, <2>2 DEF IInv, TypeOK
    <2>6. Acyclic' <=> Acyclic
        BY <2>2, <2>3 DEF Acyclic
    <2>7. KahnInv' <=> KahnInv
        BY <2>1, <2>2, <2>3, <2>4 DEF KahnInv
    <2> QED BY <2>1, <2>2, <2>5, <2>6, <2>7 DEF IInv, VerdictIsRight
<1> QED BY <1>1, <1>2, <1>3, <1>4, <1>5 DEF Next

LEMMA Inductive == Spec => []IInv
<1> QED BY InitInv, NextInv, PTL DEF Spec

-----------------------------------------------------------------------------
(* DAGValidationTyped: in-degrees never go negative, and no more tasks are *)
(* visited than there are.                                                 *)
THEOREM DAGValidationTyped == Spec => []TypeOK
<1>1. IInv => TypeOK
    BY DEF IInv
<1> QED BY <1>1, Inductive, PTL

(* KahnIsRight: ValidateDAG accepts the well-formed acyclic requests and   *)
(* no others, whatever their size, the duplicates in their dependency      *)
(* lists and the order of visits (domain/workflow.go:91-157).              *)
THEOREM KahnIsRight == Spec => []VerdictIsRight
<1>1. IInv => VerdictIsRight
    BY DEF IInv
<1> QED BY <1>1, Inductive, PTL
=============================================================================
