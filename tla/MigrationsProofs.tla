--------------------------- MODULE MigrationsProofs ---------------------------
(***************************************************************************)
(* Theorems about Migrations, for any processes, migrations and faults.    *)
(* The inductive invariant says what a process knows by where it is: the   *)
(* migrations before the one it looks at are recorded, and the one it is   *)
(* about to record is applied.                                             *)
(***************************************************************************)
EXTENDS Migrations, TLAPS

Looping(p) == pc[p] \in {"check", "apply", "record"}

PastIsRecorded ==
    \A p \in Procs :
        /\ Looping(p) => 1..(next[p] - 1) \subseteq recorded
        /\ pc[p] = "serving" => recorded = Versions
        /\ pc[p] = "record" => next[p] \in applied

IInv ==
    /\ TypeOK
    /\ PastIsRecorded
    /\ OneUnrecorded
    /\ OnlyFaultsWedge

USE MigrationsAssumption

-----------------------------------------------------------------------------
LEMMA InitInv == Init => IInv
<1> SUFFICES ASSUME Init PROVE IInv
    OBVIOUS
<1>1. TypeOK /\ PastIsRecorded
    BY DEF Init, TypeOK, PastIsRecorded, Looping
<1>2. recorded = 1..0 /\ applied = 1..0 /\ 0 \in 0..Last
    BY DEF Init
<1>3. OneUnrecorded
    BY <1>2 DEF OneUnrecorded
<1>4. OnlyFaultsWedge
    BY DEF Init, OnlyFaultsWedge, Wedged
<1> QED BY <1>1, <1>3, <1>4 DEF IInv

(* Where a process stands relative to the recorded prefix. *)
LEMMA Frontier ==
    ASSUME IInv, NEW p \in Procs, Looping(p)
    PROVE  \E n \in 0..Last :
              /\ recorded = 1..n /\ (applied = 1..n \/ applied = 1..(n + 1))
              /\ next[p] \in 1..Last /\ next[p] <= n + 1
              /\ next[p] \in recorded <=> next[p] <= n
<1>1. PICK n \in 0..Last : recorded = 1..n /\ (applied = 1..n \/ applied = 1..(n + 1))
    BY DEF IInv, OneUnrecorded
<1>2. next[p] \in 1..Last
    BY DEF IInv, TypeOK, Looping
<1>3. 1..(next[p] - 1) \subseteq 1..n
    BY <1>1 DEF IInv, PastIsRecorded
<1>4. next[p] <= n + 1
    <2>1. CASE next[p] = 1
        BY <2>1
    <2>2. CASE next[p] > 1
        <3>1. next[p] - 1 \in 1..(next[p] - 1)
            BY <1>2, <2>2
        <3> QED BY <1>2, <1>3, <3>1
    <2> QED BY <1>2, <2>1, <2>2
<1> QED BY <1>1, <1>2, <1>4

(* Going down, or starting from there, leaves the files as they are. *)
LEMMA GoesDown ==
    ASSUME IInv, NEW p \in Procs,
           UNCHANGED <<applied, recorded>>,
           \/ /\ pc' = [pc EXCEPT ![p] = "down"] /\ UNCHANGED next
              /\ \/ faults' = faults + 1 /\ faults < MaxFaults
                 \/ faults' = faults /\ ~(pc[p] = "record" /\ next[p] \notin recorded)
           \/ Start(p)
    PROVE  IInv'
<1>1. TypeOK'
    BY DEF IInv, TypeOK, Start, Goto
<1>2. PastIsRecorded'
    BY DEF IInv, TypeOK, PastIsRecorded, Looping, Start, Goto
<1>3. OneUnrecorded'
    BY DEF IInv, OneUnrecorded
<1>4. OnlyFaultsWedge'
    <2>1. CASE faults' > 0
        BY <2>1 DEF OnlyFaultsWedge
    <2>2. CASE ~(faults' > 0)
        <3>1. faults' = faults /\ ~(faults > 0) /\ ~(pc[p] = "record" /\ next[p] \notin recorded)
            BY <2>2 DEF IInv, TypeOK, Start
        <3>2. ASSUME NEW v \in applied \ (recorded \cup Repeatable)
              PROVE  \E q \in Procs : pc'[q] = "record" /\ next'[q] = v
            <4>1. PICK q \in Procs : pc[q] = "record" /\ next[q] = v
                BY <3>1, <3>2 DEF IInv, OnlyFaultsWedge, Wedged
            <4>2. q # p
                BY <3>1, <4>1, <3>2 DEF Start
            <4> QED BY <4>1, <4>2 DEF IInv, TypeOK, Start, Goto
        <3> QED BY <3>2 DEF OnlyFaultsWedge, Wedged
    <2> QED BY <2>1, <2>2
<1> QED BY <1>1, <1>2, <1>3, <1>4 DEF IInv

(* A process records its migration, or finds it recorded, and goes on. *)
LEMMA Records ==
    ASSUME IInv, NEW p \in Procs,
           \/ pc[p] = "check" /\ next[p] \in recorded
           \/ pc[p] = "record",
           recorded' = recorded \cup {next[p]},
           UNCHANGED applied,
           \/ Advance(p) /\ faults' = faults
           \/ /\ pc' = [pc EXCEPT ![p] = "down"] /\ UNCHANGED next
              /\ faults' = faults + 1 /\ faults < MaxFaults
    PROVE  IInv'
<1>1. PICK n \in 0..Last :
              /\ recorded = 1..n /\ (applied = 1..n \/ applied = 1..(n + 1))
              /\ next[p] \in 1..Last /\ next[p] <= n + 1
              /\ next[p] \in recorded <=> next[p] <= n
    BY Frontier DEF Looping
<1>2. next[p] \in applied
    BY <1>1 DEF IInv, PastIsRecorded
<1>3. TypeOK'
    <2>1. next[p] \in Versions /\ recorded' \subseteq Versions
        BY <1>1 DEF IInv, TypeOK, Versions
    <2>2. CASE Advance(p) /\ faults' = faults
        <3>1. next' \in [Procs -> 1..Last + 1]
            BY <1>1, <2>2 DEF IInv, TypeOK, Advance
        <3>2. pc' \in [Procs -> {"down", "check", "apply", "record", "serving"}]
            BY <2>2 DEF IInv, TypeOK, Advance, Goto
        <3>3. pc'[p] = "check" => next'[p] <= Last
            BY <1>1, <2>2 DEF IInv, TypeOK, Advance, Goto
        <3>4. pc'[p] \in {"check", "serving"}
            BY <2>2 DEF IInv, TypeOK, Advance, Goto
        <3>5. \A q \in Procs \ {p} : pc'[q] = pc[q] /\ next'[q] = next[q]
            BY <2>2 DEF IInv, TypeOK, Advance, Goto
        <3> QED BY <2>1, <2>2, <3>1, <3>2, <3>3, <3>4, <3>5 DEF IInv, TypeOK
    <2>3. CASE ~(Advance(p) /\ faults' = faults)
        BY <2>1, <2>3 DEF IInv, TypeOK
    <2> QED BY <2>2, <2>3
<1>4. PastIsRecorded'
    <2>1. ASSUME NEW q \in Procs \ {p}
          PROVE  /\ Looping(q)' => (1..(next[q] - 1) \subseteq recorded)'
                 /\ pc'[q] = "serving" => recorded' = Versions
                 /\ pc'[q] = "record" => next'[q] \in applied'
        <3>1. pc'[q] = pc[q] /\ next'[q] = next[q]
            BY DEF IInv, TypeOK, Advance, Goto
        <3> QED BY <1>1, <3>1 DEF IInv, PastIsRecorded, Looping, Versions
    <2>2. Looping(p)' => (1..(next[p] - 1) \subseteq recorded)'
        BY <1>1 DEF IInv, TypeOK, PastIsRecorded, Looping, Advance, Goto
    <2>3. pc'[p] = "serving" => recorded' = Versions
        <3>1. pc'[p] = "serving" => next[p] = Last
            BY <1>1 DEF IInv, TypeOK, Advance, Goto
        <3>2. 1..(next[p] - 1) \subseteq recorded
            BY DEF IInv, PastIsRecorded, Looping
        <3> QED BY <1>1, <3>1, <3>2 DEF Versions
    <2>4. pc'[p] # "record"
        BY DEF IInv, TypeOK, Advance, Goto
    <2> QED BY <2>1, <2>2, <2>3, <2>4 DEF PastIsRecorded
<1>5. OneUnrecorded'
    <2>1. CASE next[p] <= n
        BY <1>1, <2>1 DEF OneUnrecorded
    <2>2. CASE next[p] = n + 1
        <3>1. recorded' = 1..(n + 1) /\ n + 1 \in 0..Last
            BY <1>1, <2>2
        <3>2. applied' = 1..(n + 1)
            BY <1>1, <1>2, <2>2
        <3> QED BY <3>1, <3>2 DEF OneUnrecorded
    <2> QED BY <1>1, <2>1, <2>2
<1>6. OnlyFaultsWedge'
    <2>1. CASE faults' > 0
        BY <2>1 DEF OnlyFaultsWedge
    <2>2. CASE ~(faults' > 0)
        <3>1. faults' = faults /\ ~(faults > 0)
            BY <2>2 DEF IInv, TypeOK
        <3>2. ASSUME NEW v \in applied \ (recorded' \cup Repeatable)
              PROVE  \E q \in Procs : pc'[q] = "record" /\ next'[q] = v
            <4>1. PICK q \in Procs : pc[q] = "record" /\ next[q] = v
                BY <3>1, <3>2 DEF IInv, OnlyFaultsWedge, Wedged
            <4>2. q # p
                BY <3>2, <4>1
            <4> QED BY <4>1, <4>2 DEF IInv, TypeOK, Advance, Goto
        <3> QED BY <3>2 DEF OnlyFaultsWedge, Wedged
    <2> QED BY <2>1, <2>2
<1> QED BY <1>3, <1>4, <1>5, <1>6 DEF IInv

(* A process finds its migration not recorded, or applies it. *)
LEMMA Applies ==
    ASSUME IInv, NEW p \in Procs,
           UNCHANGED <<recorded, next>>,
           \/ /\ pc[p] = "check" /\ pc' = [pc EXCEPT ![p] = "apply"]
              /\ UNCHANGED <<applied, faults>>
           \/ /\ pc[p] = "apply" /\ pc' = [pc EXCEPT ![p] = "record"]
              /\ applied' = applied \cup {next[p]} /\ UNCHANGED faults
           \/ /\ pc[p] = "apply" /\ pc' = [pc EXCEPT ![p] = "down"]
              /\ applied' = applied \cup {next[p]}
              /\ faults' = faults + 1 /\ faults < MaxFaults
    PROVE  IInv'
<1>1. PICK n \in 0..Last :
              /\ recorded = 1..n /\ (applied = 1..n \/ applied = 1..(n + 1))
              /\ next[p] \in 1..Last /\ next[p] <= n + 1
              /\ next[p] \in recorded <=> next[p] <= n
    BY Frontier DEF Looping
<1>2. TypeOK'
    <2>1. applied' \subseteq Versions
        BY <1>1 DEF IInv, TypeOK, Versions
    <2>2. pc' \in [Procs -> {"down", "check", "apply", "record", "serving"}]
        BY DEF IInv, TypeOK
    <2>3. faults' \in 0..MaxFaults
        BY DEF IInv, TypeOK
    <2>4. \A q \in Procs : pc'[q] \in {"check", "apply", "record"} => next[q] <= Last
        BY DEF IInv, TypeOK
    <2> QED BY <2>1, <2>2, <2>3, <2>4 DEF IInv, TypeOK
<1>3. PastIsRecorded'
    <2>1. applied \subseteq applied' /\ \A q \in Procs \ {p} : pc'[q] = pc[q]
        BY DEF IInv, TypeOK
    <2>2. Looping(p) /\ pc'[p] \in {"apply", "record", "down"}
        BY DEF IInv, TypeOK, Looping
    <2>3. pc'[p] = "record" => next[p] \in applied'
        BY DEF IInv, TypeOK
    <2> QED BY <2>1, <2>2, <2>3 DEF IInv, PastIsRecorded, Looping
<1>4. OneUnrecorded'
    <2>1. applied' = applied \/ applied' = applied \cup {next[p]}
        OBVIOUS
    <2>2. applied \cup {next[p]} = applied \/ applied \cup {next[p]} = 1..(n + 1)
        <3>1. CASE next[p] <= n
            BY <1>1, <3>1
        <3>2. CASE next[p] = n + 1
            BY <1>1, <3>2
        <3> QED BY <1>1, <3>1, <3>2
    <2> QED BY <1>1, <2>1, <2>2 DEF OneUnrecorded
<1>5. OnlyFaultsWedge'
    <2>1. CASE faults' > 0
        BY <2>1 DEF OnlyFaultsWedge
    <2>2. CASE ~(faults' > 0)
        <3>1. faults' = faults /\ ~(faults > 0) /\ pc[p] # "record"
            BY <2>2 DEF IInv, TypeOK
        <3>2. ASSUME NEW v \in applied' \ (recorded \cup Repeatable)
              PROVE  \E q \in Procs : pc'[q] = "record" /\ next'[q] = v
            <4>1. CASE v \in applied
                <5>1. PICK q \in Procs : pc[q] = "record" /\ next[q] = v
                    BY <3>1, <3>2, <4>1 DEF IInv, OnlyFaultsWedge, Wedged
                <5>2. q # p
                    BY <3>1, <5>1
                <5> QED BY <5>1, <5>2 DEF IInv, TypeOK
            <4>2. CASE v \notin applied
                <5>1. v = next[p] /\ pc'[p] = "record"
                    BY <3>1, <3>2, <4>2 DEF IInv, TypeOK
                <5> QED BY <5>1
            <4> QED BY <4>1, <4>2
        <3> QED BY <3>2 DEF OnlyFaultsWedge, Wedged
    <2> QED BY <2>1, <2>2
<1> QED BY <1>2, <1>3, <1>4, <1>5 DEF IInv

LEMMA NextInv == IInv /\ [Next]_vars => IInv'
<1> SUFFICES ASSUME IInv, [Next]_vars PROVE IInv'
    OBVIOUS
<1>1. ASSUME NEW p \in Procs, Start(p) PROVE IInv'
    BY <1>1, GoesDown DEF Start
<1>2. ASSUME NEW p \in Procs, Check(p) PROVE IInv'
    <2>1. CASE next[p] \in recorded
        <3>1. recorded' = recorded \cup {next[p]} /\ Advance(p)
            BY <1>2, <2>1 DEF Check
        <3> QED BY <1>2, <2>1, <3>1, Records DEF Check
    <2>2. CASE next[p] \notin recorded
        BY <1>2, <2>2, Applies DEF Check, Goto
    <2> QED BY <2>1, <2>2
<1>3. ASSUME NEW p \in Procs, Apply(p) PROVE IInv'
    <2>1. CASE Goto(p, "record") /\ applied' = applied \cup {next[p]}
        BY <1>3, <2>1, Applies DEF Apply, Goto
    <2>2. CASE Goto(p, "down") /\ UNCHANGED applied
        BY <1>3, <2>2, GoesDown DEF Apply, Goto
    <2> QED BY <1>3, <2>1, <2>2 DEF Apply
<1>4. ASSUME NEW p \in Procs, Record(p) PROVE IInv'
    <2>1. CASE next[p] \notin recorded
        BY <1>4, <2>1, Records DEF Record
    <2>2. CASE next[p] \in recorded
        BY <1>4, <2>2, GoesDown DEF Record, Goto
    <2> QED BY <2>1, <2>2
<1>5. ASSUME NEW p \in Procs, Fault(p) PROVE IInv'
    <2>1. faults' = faults + 1 /\ faults < MaxFaults /\ UNCHANGED next
          /\ pc' = [pc EXCEPT ![p] = "down"]
        BY <1>5 DEF Fault, Goto
    <2>2. CASE UNCHANGED <<applied, recorded>>
        BY <2>1, <2>2, GoesDown
    <2>3. CASE pc[p] = "apply" /\ applied' = applied \cup {next[p]} /\ UNCHANGED recorded
        BY <2>1, <2>3, Applies
    <2>4. CASE pc[p] = "record" /\ recorded' = recorded \cup {next[p]} /\ UNCHANGED applied
        BY <2>1, <2>4, Records
    <2> QED BY <1>5, <2>2, <2>3, <2>4 DEF Fault
<1>6. CASE UNCHANGED vars
    BY <1>6 DEF vars, IInv, TypeOK, PastIsRecorded, Looping, OneUnrecorded, OnlyFaultsWedge, Wedged
<1> QED
    BY <1>1, <1>2, <1>3, <1>4, <1>5, <1>6 DEF Next, Proceed

LEMMA Inductive == Spec => []IInv
<1> QED BY InitInv, NextInv, PTL DEF Spec

-----------------------------------------------------------------------------
(* MigrationsTyped: the types of the state; a process in the loop looks at *)
(* one of the files.                                                       *)
THEOREM MigrationsTyped == Spec => []TypeOK
<1>1. IInv => TypeOK
    BY DEF IInv
<1> QED BY <1>1, Inductive, PTL

(* CompleteWhenServing: whoever serves has every migration applied, though *)
(* the others start, fail and are killed as they like (main.go:48-52).     *)
THEOREM CompleteWhenServing == Spec => []SchemaIsComplete
<1>1. IInv => SchemaIsComplete
    <2> SUFFICES ASSUME IInv, NEW p \in Procs, pc[p] = "serving" PROVE applied = Versions
        BY DEF SchemaIsComplete
    <2>1. recorded = Versions
        BY DEF IInv, PastIsRecorded
    <2>2. PICK n \in 0..Last : recorded = 1..n /\ (applied = 1..n \/ applied = 1..(n + 1))
        BY DEF IInv, OneUnrecorded
    <2>3. recorded \subseteq applied /\ applied \subseteq Versions
        BY <2>2 DEF IInv, TypeOK
    <2> QED BY <2>1, <2>3
<1> QED BY <1>1, Inductive, PTL

(* AppliedAheadByOne: the loop of migrate.go:52-75 never applies a file    *)
(* while an earlier one is not recorded.                                   *)
THEOREM AppliedAheadByOne == Spec => []OneUnrecorded
<1>1. IInv => OneUnrecorded
    BY DEF IInv
<1> QED BY <1>1, Inductive, PTL

(* RacesWedgeNothing: without a fault, a file that was applied has someone *)
(* to record it.                                                           *)
THEOREM RacesWedgeNothing == Spec => []OnlyFaultsWedge
<1>1. IInv => OnlyFaultsWedge
    BY DEF IInv
<1> QED BY <1>1, Inductive, PTL
=============================================================================
