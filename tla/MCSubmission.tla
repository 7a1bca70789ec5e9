---------------------------- MODULE MCSubmission ----------------------------
(* Clients with and without a key, in the body, in the header, in both,    *)
(* and malformed ones.                                                     *)
EXTENDS Submission, TLC

CONSTANTS k, l

Sent(x, y) == [valid |-> TRUE, body |-> x, header |-> y]

MCRequests ==
    {Sent(k, NoKey), Sent(NoKey, k), Sent(k, l), Sent(l, k), Sent(NoKey, NoKey),
     Sent(NoKey, Empty), Sent(Empty, k), Sent(NoKey, TooLong),
     [Sent(k, NoKey) EXCEPT !.valid = FALSE]}

Symmetry == Permutations(Clients) \cup Permutations(Jobs)
=============================================================================
