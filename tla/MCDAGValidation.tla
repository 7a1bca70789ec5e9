--------------------------- MODULE MCDAGValidation ---------------------------
(* All requests of up to two tasks, malformed ones included; all of three  *)
(* named tasks that list up to two dependencies, and all graphs on four.   *)
EXTENDS DAGValidation
LOCAL INSTANCE SequencesExt

CONSTANTS a, b, c, d

UpTo(S, n) == UNION {[1..k -> S] : k \in 0..n}

AnyTask == [name : {a, b, NoName}, typed : BOOLEAN, deps : UpTo({a, b, c, NoName}, 1)]

Named(n, deps) == [name |-> n, typed |-> TRUE, deps |-> deps]

Smallest == UpTo(AnyTask, 2)

WithDuplicates ==
    {<<Named(a, x), Named(b, y), Named(c, z)>> :
        x \in UpTo({b, c}, 2), y \in UpTo({a, c}, 2), z \in UpTo({a, b}, 2)}

AllGraphs ==
    {<<Named(a, SetToSeq(w)), Named(b, SetToSeq(x)), Named(c, SetToSeq(y)), Named(d, SetToSeq(z))>> :
        w \in SUBSET {b, c, d}, x \in SUBSET {a, c, d},
        y \in SUBSET {a, b, d}, z \in SUBSET {a, b, c}}

MCRequests == Smallest \cup WithDuplicates \cup AllGraphs
=============================================================================
