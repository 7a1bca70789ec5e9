--------------------------- MODULE WorkflowPolling ---------------------------
(***************************************************************************)
(* The poller of the workflow engine over many workflows (Run and          *)
(* pollRunningWorkflows of engine/workflow.go, List of store/workflows.go).*)
(*                                                                         *)
(* Every tick lists RUNNING workflows, the newest first and at most a page *)
(* of them, and advances them one after the other; meanwhile workflows are *)
(* created, without end, and cancelled, and their jobs end.  Of            *)
(* AdvanceWorkflow we keep how many more times it has to find its jobs     *)
(* ended (WorkflowEngine has the rest), and that a workflow one of whose   *)
(* jobs was cancelled, or never enqueued, stays RUNNING for good: it is    *)
(* stuck.                                                                  *)
(*                                                                         *)
(* A workflow that ended leaves its id to a later one, so that finitely    *)
(* many ids, the only bound on them, make an endless stream of workflows.  *)
(***************************************************************************)
EXTENDS Naturals, SequencesExt

CONSTANTS
    Workflows,  \* bound on the workflows RUNNING or in a page at a time
    Page,       \* the LIMIT of the query, 50
    Rounds,     \* advances a workflow needs, each after its jobs ended
    MaxErrors   \* bound on calls that fail

ASSUME PollingAssumption ==
    /\ Page \in Nat \ {0} /\ Rounds \in Nat \ {0}
    /\ MaxErrors \in Nat

VARIABLES
    running,   \* the RUNNING workflows, ORDER BY created_at DESC
    left,      \* the advances each of them still needs
    ended,     \* those whose scheduled jobs have ended
    stuck,     \* those whose jobs never will
    list,      \* what the tick at work has still to advance
    errors

vars == <<running, left, ended, stuck, list, errors>>

Running == ToSet(running)

Init ==
    /\ running = <<>>
    /\ left = [w \in Workflows |-> Rounds]
    /\ ended = {}
    /\ stuck = {}
    /\ list = <<>>
    /\ errors = 0

(* Created, started and its first tasks scheduled by the request. *)
Create(w) ==
    /\ w \notin Running \cup ToSet(list)
    /\ running' = <<w>> \o running
    /\ UNCHANGED <<left, ended, stuck, list, errors>>

(* w is RUNNING no more, and nothing of it is left for a later one. *)
Ends(w) ==
    /\ running' = SelectSeq(running, LAMBDA v : v # w)
    /\ left' = [left EXCEPT ![w] = Rounds]
    /\ ended' = ended \ {w}
    /\ stuck' = stuck \ {w}

Cancel(w) ==
    /\ w \in Running
    /\ Ends(w)
    /\ UNCHANGED <<list, errors>>

JobsEnd(w) ==
    /\ w \in Running \ (ended \cup stuck)
    /\ ended' = ended \cup {w}
    /\ UNCHANGED <<running, left, stuck, list, errors>>

(* A job is cancelled, or its row was written and it was never enqueued. *)
GetsStuck(w) ==
    /\ w \in Running \ (ended \cup stuck)
    /\ stuck' = stuck \cup {w}
    /\ UNCHANGED <<running, left, ended, list, errors>>

FirstOf(n, s) == SubSeq(s, 1, IF n <= Len(s) THEN n ELSE Len(s))

\* Mutant: the page is one too long.
PageTooLong == FirstOf(Page + 1, running)

\* Mutant: the oldest come first, in the order they were created.
OldestPage == FirstOf(Page, Reverse(running))

(* ORDER BY created_at DESC LIMIT Page. *)
NewestPage == FirstOf(Page, running)

(* A tick; one that comes while another is at work waits: one goroutine. *)
List ==
    /\ list = <<>>
    /\ list' = NewestPage
    /\ UNCHANGED <<running, left, ended, stuck, errors>>

(* AdvanceWorkflow for the next of the list: it returns at once when the   *)
(* workflow is terminal by now, and changes nothing while its jobs run.    *)
Advance ==
    /\ list # <<>>
    /\ list' = Tail(list)
    /\ LET w == Head(list)
       IN  IF w \notin Running \cap ended THEN UNCHANGED <<running, left, ended, stuck>>
           ELSE IF left[w] = 1 THEN Ends(w)
           ELSE /\ left' = [left EXCEPT ![w] = @ - 1]
                /\ ended' = ended \ {w}
                /\ UNCHANGED <<running, stuck>>
    /\ UNCHANGED errors

(* An error is logged and the loop goes on to the next workflow. *)
AdvanceFails ==
    /\ list # <<>>
    /\ errors < MaxErrors
    /\ errors' = errors + 1
    /\ list' = Tail(list)
    /\ UNCHANGED <<running, left, ended, stuck>>

(* The API process dies, and its successor starts with the next tick. *)
CrashApi ==
    /\ errors < MaxErrors
    /\ errors' = errors + 1
    /\ list' = <<>>
    /\ UNCHANGED <<running, left, ended, stuck>>

Next ==
    \/ \E w \in Workflows : Create(w) \/ Cancel(w) \/ JobsEnd(w) \/ GetsStuck(w)
    \/ List
    \/ Advance \/ AdvanceFails
    \/ CrashApi

(* The ticker ticks and the poller goes on to the next workflow; the jobs  *)
(* of a workflow that is not stuck end (JobEngine's EveryJobSettles).      *)
Fairness ==
    /\ WF_vars(List)
    /\ WF_vars(Advance)
    /\ \A w \in Workflows : WF_vars(JobsEnd(w))

Spec == Init /\ [][Next]_vars /\ Fairness

-----------------------------------------------------------------------------
(* No workflow is listed twice, rounds are counted down, what ended or is  *)
(* stuck is of RUNNING workflows, and no more than a page is in hand.      *)
TypeOK ==
    /\ Running \subseteq Workflows /\ IsInjective(running)
    /\ left \in [Workflows -> 1..Rounds]
    /\ ended \cup stuck \subseteq Running /\ ended \cap stuck = {}
    /\ ToSet(list) \subseteq Workflows /\ IsInjective(list) /\ Len(list) <= Page
    /\ errors \in 0..MaxErrors

(* The RUNNING workflows created after w. *)
Newer(w) == {running[i] : i \in {i \in DOMAIN running :
                                   \E k \in DOMAIN running : i < k /\ running[k] = w}}

PageIsFull(w, S) == Cardinality(Newer(w) \cap S) >= Page

(* PassedOverForNewer: a workflow that stays RUNNING for ever though it is *)
(* not stuck is, from some moment on, passed over by every single tick, a  *)
(* page of newer ones being there each time; and either the newer ones     *)
(* that fill the page are stuck, or new workflows are created for ever.    *)
(* So neither errors, ticks that come late, nor a burst of newer workflows *)
(* keep one from its end, nor does it take more luck than to be listed now *)
(* and then (List of store/workflows.go:277-283 under the LIMIT of         *)
(* engine/workflow.go:185).                                                *)
PassedOverForNewer ==
    \A w \in Workflows :
        <>[](w \in Running \ stuck) =>
            /\ <>[][List => PageIsFull(w, Workflows)]_vars
            /\ <>[]PageIsFull(w, stuck) \/ []<><<\E v \in Workflows : Create(v)>>_vars
=============================================================================
