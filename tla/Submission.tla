----------------------------- MODULE Submission -----------------------------
(***************************************************************************)
(* POST /api/v1/jobs with idempotency keys (Handler.CreateJob of           *)
(* api/handler.go, JobStore.Create of store/jobs.go).                      *)
(*                                                                         *)
(* Clients submit at the same time and try again when a call breaks off.   *)
(* A call is a chain of statements, each of them atomic: look the key up,  *)
(* INSERT ... ON CONFLICT DO NOTHING, look it up again after a conflict,   *)
(* enqueue what was inserted, answer.  Of a row only its key is kept, of   *)
(* the queue how often a job was put into it.                              *)
(***************************************************************************)
EXTENDS Naturals, FiniteSets

CONSTANTS
    Clients,
    Requests,    \* what clients send: a valid job or not, the keys of body and header
    Jobs,        \* the ids gen_random_uuid may choose, a bound on rows
    Keys,        \* keys of 1 to 128 characters
    NoKey,       \* the field or header is absent
    Empty,       \* it is there and has no characters
    TooLong,     \* it has more than 128
    NoJob,
    MaxTries,    \* bound on the calls a client makes
    MaxFaults    \* bound on calls that break off and API processes that die

AnyKey == Keys \cup {NoKey, Empty, TooLong}

ASSUME SubmissionAssumption ==
    /\ Requests \subseteq [valid : BOOLEAN, body : AnyKey, header : AnyKey]
    /\ NoKey \notin Keys /\ Empty \notin Keys /\ TooLong \notin Keys
    /\ Cardinality({NoKey, Empty, TooLong}) = 3
    /\ NoJob \notin Jobs /\ NoJob \notin AnyKey
    /\ MaxTries \in Nat /\ MaxFaults \in Nat

VARIABLES
    keyOf,      \* job |-> its idempotency_key, NoJob while there is no row
    enqueues,   \* job |-> how often it was enqueued
    request,    \* client |-> what it sends
    pc,         \* client |-> where its call is
    job,        \* client |-> the job its call has in hand
    tries,      \* client |-> calls made
    answers,    \* every successful answer: client, key, status code, job
    faults

vars == <<keyOf, enqueues, request, pc, job, tries, answers, faults>>

Exists(j)   == keyOf[j] # NoJob
JobsWith(k) == {j \in Jobs : keyOf[j] = k}

(* The header counts only when the body has no key; an empty header is as  *)
(* good as none, an empty key in the body is refused.                      *)
Key(c) ==
    IF request[c].body = NoKey
    THEN IF request[c].header = Empty THEN NoKey ELSE request[c].header
    ELSE request[c].body

Unacceptable(c) == ~request[c].valid \/ Key(c) \in {Empty, TooLong}

InFlight == {"lookup", "insert", "again", "enqueue", "created", "replay"}

-----------------------------------------------------------------------------
Init ==
    /\ keyOf    = [j \in Jobs |-> NoJob]
    /\ enqueues = [j \in Jobs |-> 0]
    /\ request  \in [Clients -> Requests]
    /\ pc       = [c \in Clients |-> "ready"]
    /\ job      = [c \in Clients |-> NoJob]
    /\ tries    = [c \in Clients |-> 0]
    /\ answers  = {}
    /\ faults   = 0

Goto(c, l) == pc' = [pc EXCEPT ![c] = l]

\* Mutant: the length of a key is not looked at.
SubmitAnyKey(c) ==
    /\ pc[c] \in {"ready", "broken"}
    /\ tries[c] < MaxTries
    /\ tries' = [tries EXCEPT ![c] = @ + 1]
    /\ \/ ~request[c].valid /\ Goto(c, "refused")
       \/ request[c].valid /\ Key(c) = NoKey /\ Goto(c, "insert")
       \/ request[c].valid /\ Key(c) # NoKey /\ Goto(c, "lookup")
    /\ job' = [job EXCEPT ![c] = NoJob]
    /\ UNCHANGED <<keyOf, enqueues, request, answers, faults>>

(* The call arrives: a job without a type or out of range, and a key of a  *)
(* wrong length, are refused before the store is asked; without a key      *)
(* there is nothing to look up.                                            *)
Submit(c) ==
    /\ pc[c] \in {"ready", "broken"}
    /\ tries[c] < MaxTries
    /\ tries' = [tries EXCEPT ![c] = @ + 1]
    /\ \/ Unacceptable(c) /\ Goto(c, "refused")
       \/ ~Unacceptable(c) /\ Key(c) = NoKey /\ Goto(c, "insert")
       \/ ~Unacceptable(c) /\ Key(c) # NoKey /\ Goto(c, "lookup")
    /\ job' = [job EXCEPT ![c] = NoJob]
    /\ UNCHANGED <<keyOf, enqueues, request, answers, faults>>

(* findByIdempotencyKey, before the INSERT. *)
LookUp(c) ==
    /\ pc[c] = "lookup"
    /\ \/ /\ JobsWith(Key(c)) = {}
          /\ Goto(c, "insert")
          /\ UNCHANGED job
       \/ \E j \in JobsWith(Key(c)) :
             Goto(c, "replay") /\ job' = [job EXCEPT ![c] = j]
    /\ UNCHANGED <<keyOf, enqueues, request, tries, answers, faults>>

\* Mutant: the INSERT has no ON CONFLICT clause and the column is not UNIQUE.
InsertAlways(c) ==
    /\ pc[c] = "insert"
    /\ \E j \in Jobs :
          /\ ~Exists(j)
          /\ keyOf' = [keyOf EXCEPT ![j] = Key(c)]
          /\ job' = [job EXCEPT ![c] = j]
          /\ Goto(c, "enqueue")
    /\ UNCHANGED <<enqueues, request, tries, answers, faults>>

\* Mutant: a keyed INSERT reports created = false.
InsertAsReplay(c) ==
    /\ pc[c] = "insert"
    /\ \/ /\ Key(c) # NoKey /\ JobsWith(Key(c)) # {}
          /\ Goto(c, "again")
          /\ UNCHANGED <<keyOf, job>>
       \/ /\ Key(c) = NoKey \/ JobsWith(Key(c)) = {}
          /\ \E j \in Jobs :
                /\ ~Exists(j)
                /\ keyOf' = [keyOf EXCEPT ![j] = Key(c)]
                /\ job' = [job EXCEPT ![c] = j]
                /\ Goto(c, IF Key(c) = NoKey THEN "enqueue" ELSE "replay")
    /\ UNCHANGED <<enqueues, request, tries, answers, faults>>

(* The INSERT finds its key taken, or makes a row under a new id. *)
Insert(c) ==
    /\ pc[c] = "insert"
    /\ \/ /\ Key(c) # NoKey /\ JobsWith(Key(c)) # {}
          /\ Goto(c, "again")
          /\ UNCHANGED <<keyOf, job>>
       \/ /\ Key(c) = NoKey \/ JobsWith(Key(c)) = {}
          /\ \E j \in Jobs :
                /\ ~Exists(j)
                /\ keyOf' = [keyOf EXCEPT ![j] = Key(c)]
                /\ job' = [job EXCEPT ![c] = j]
                /\ Goto(c, "enqueue")
    /\ UNCHANGED <<enqueues, request, tries, answers, faults>>

\* Mutant: the loser of the race reports the conflict as an error.
LookUpAgainGivesUp(c) ==
    /\ pc[c] = "again"
    /\ Goto(c, "broken")
    /\ UNCHANGED <<keyOf, enqueues, request, job, tries, answers, faults>>

\* Mutant: the job that won the race is taken for a new one.
LookUpAgainAsCreated(c) ==
    /\ pc[c] = "again"
    /\ \E j \in JobsWith(Key(c)) :
          Goto(c, "enqueue") /\ job' = [job EXCEPT ![c] = j]
    /\ UNCHANGED <<keyOf, enqueues, request, tries, answers, faults>>

(* findByIdempotencyKey, after the conflict; without a row the call fails. *)
LookUpAgain(c) ==
    /\ pc[c] = "again"
    /\ \/ \E j \in JobsWith(Key(c)) :
             Goto(c, "replay") /\ job' = [job EXCEPT ![c] = j]
       \/ JobsWith(Key(c)) = {} /\ Goto(c, "broken") /\ UNCHANGED job
    /\ UNCHANGED <<keyOf, enqueues, request, tries, answers, faults>>

Enqueue(c) ==
    /\ pc[c] = "enqueue"
    /\ enqueues' = [enqueues EXCEPT ![job[c]] = @ + 1]
    /\ Goto(c, "created")
    /\ UNCHANGED <<keyOf, request, job, tries, answers, faults>>

Answer(c) ==
    /\ pc[c] \in {"created", "replay"}
    /\ answers' = answers \cup {[client |-> c, key |-> Key(c), job |-> job[c],
                                 code |-> IF pc[c] = "created" THEN 201 ELSE 200]}
    /\ Goto(c, "done")
    /\ UNCHANGED <<keyOf, enqueues, request, job, tries, faults>>

(* Redis refuses, or the client is gone and its context with it: the error *)
(* is logged and the job answered as created.  Redis may have done it.     *)
EnqueueFails(c) ==
    /\ pc[c] = "enqueue"
    /\ faults < MaxFaults
    /\ faults' = faults + 1
    /\ enqueues' \in {enqueues, [enqueues EXCEPT ![job[c]] = @ + 1]}
    /\ Goto(c, "created")
    /\ UNCHANGED <<keyOf, request, job, tries, answers>>

(* A statement fails before it does anything, the reply of one that did    *)
(* its work is lost, or the client loses the answer: it sees an error.     *)
CallBreaks(c) ==
    /\ pc[c] \in InFlight
    /\ faults < MaxFaults
    /\ faults' = faults + 1
    /\ Goto(c, "broken")
    /\ \/ UNCHANGED keyOf
       \/ /\ pc[c] = "insert"
          /\ Key(c) = NoKey \/ JobsWith(Key(c)) = {}
          /\ \E j \in Jobs : ~Exists(j) /\ keyOf' = [keyOf EXCEPT ![j] = Key(c)]
    /\ UNCHANGED <<enqueues, request, job, tries, answers>>

(* The API process dies with all its calls. *)
CrashApi ==
    /\ faults < MaxFaults
    /\ faults' = faults + 1
    /\ pc' = [c \in Clients |-> IF pc[c] \in InFlight THEN "broken" ELSE pc[c]]
    /\ UNCHANGED <<keyOf, enqueues, request, job, tries, answers>>

Call(c) ==
    \/ Submit(c)
    \/ LookUp(c)
    \/ Insert(c)
    \/ LookUpAgain(c)
    \/ Enqueue(c)
    \/ Answer(c)

Fault(c) == EnqueueFails(c) \/ CallBreaks(c)

Next ==
    \/ \E c \in Clients : Call(c) \/ Fault(c)
    \/ CrashApi

Spec == Init /\ [][Next]_vars

-----------------------------------------------------------------------------
(* The state of the clients and rows; a call that inserted or found a row  *)
(* has it in hand, and an answer names an existing row.                    *)
TypeOK ==
    /\ keyOf    \in [Jobs -> Keys \cup {NoKey, NoJob}]
    /\ enqueues \in [Jobs -> Nat]
    /\ request  \in [Clients -> Requests]
    /\ pc       \in [Clients -> InFlight \cup {"ready", "broken", "refused", "done"}]
    /\ job      \in [Clients -> Jobs \cup {NoJob}]
    /\ tries    \in [Clients -> 0..MaxTries]
    /\ answers  \subseteq [client : Clients, key : Keys \cup {NoKey},
                           job : Jobs, code : {200, 201}]
    /\ faults   \in 0..MaxFaults
    /\ \A c \in Clients : pc[c] \in {"enqueue", "created", "replay"} =>
         job[c] \in Jobs /\ keyOf[job[c]] = Key(c)

(* SameKeySameJob: whoever submits with a key, at the same time, later or  *)
(* again after an error, is answered with one and the same job, and only   *)
(* one answer says 201 (README.md:150-160, ON CONFLICT at jobs.go:57).     *)
SameKeySameJob ==
    \A x \in answers, y \in answers :
        x.key = y.key /\ x.key \in Keys =>
            /\ x.job = y.job
            /\ x.code = 201 /\ y.code = 201 => x.client = y.client

(* NoDoubleEnqueue: however often a client tries, at most one entry per    *)
(* key gets into the queue ("no double-enqueue", README.md:160).           *)
NoDoubleEnqueue ==
    \A i \in Jobs, j \in Jobs :
        /\ enqueues[j] <= 1
        /\ enqueues[i] = 1 /\ enqueues[j] = 1 /\ keyOf[i] = keyOf[j] /\ keyOf[i] \in Keys
              => i = j

(* OnlyFaultsStrand: a job that is in the table but not in the queue, with *)
(* no call about to put it there, is the work of a fault, never of a race  *)
(* between submissions.                                                    *)
OnlyFaultsStrand ==
    \A j \in Jobs :
        Exists(j) /\ enqueues[j] = 0 =>
            faults > 0 \/ \E c \in Clients : pc[c] = "enqueue" /\ job[c] = j

(* OnlyFaultsBreakCalls: no client is answered with an error because it    *)
(* lost a race; the lookup after a conflict finds the winner's row         *)
(* (jobs.go:73-81).                                                        *)
OnlyFaultsBreakCalls ==
    [][(\E c \in Clients : pc[c] # "broken" /\ pc'[c] = "broken") => faults' > faults]_vars
=============================================================================
