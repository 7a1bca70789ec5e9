--------------------------- MODULE SubmissionProofs ---------------------------
(***************************************************************************)
(* Theorems about Submission, for any clients, keys, rows and faults.  The *)
(* inductive invariant follows a job from its INSERT on: its row keeps its *)
(* key, and only the call that inserted it ever has it in hand to enqueue  *)
(* it and to answer 201.                                                   *)
(***************************************************************************)
EXTENDS Submission, TLAPS

Creating(c) == pc[c] \in {"enqueue", "created"}

(* Only calls that were not refused go on, and those that look a key up    *)
(* have one.                                                               *)
KeysTyped ==
    \A c \in Clients :
        /\ pc[c] \in InFlight => Key(c) \in Keys \cup {NoKey}
        /\ pc[c] \in {"lookup", "again"} => Key(c) \in Keys

KeysUnique ==
    \A i \in Jobs, j \in Jobs : keyOf[i] = keyOf[j] /\ keyOf[i] \in Keys => i = j

AnswersTrue == \A x \in answers : keyOf[x.job] = x.key

OneCreator ==
    /\ \A c \in Clients, d \in Clients :
          Creating(c) /\ Creating(d) /\ job[c] = job[d] => c = d
    /\ \A c \in Clients, x \in answers :
          Creating(c) /\ x.code = 201 => job[c] # x.job
    /\ \A x \in answers, y \in answers :
          x.code = 201 /\ y.code = 201 /\ x.job = y.job => x.client = y.client

EnqueuedOnce ==
    /\ \A j \in Jobs : enqueues[j] <= 1 /\ (~Exists(j) => enqueues[j] = 0)
    /\ \A c \in Clients : pc[c] = "enqueue" => enqueues[job[c]] = 0

WinnerStays == \A c \in Clients : pc[c] = "again" => JobsWith(Key(c)) # {}

IInv ==
    /\ TypeOK
    /\ KeysTyped
    /\ KeysUnique
    /\ AnswersTrue
    /\ OneCreator
    /\ EnqueuedOnce
    /\ OnlyFaultsStrand
    /\ WinnerStays

USE SubmissionAssumption

-----------------------------------------------------------------------------
(* The key of a request is a key, absent or malformed. *)
LEMMA KeyType == request \in [Clients -> Requests] => \A c \in Clients : Key(c) \in AnyKey
<1> SUFFICES ASSUME request \in [Clients -> Requests], NEW c \in Clients
             PROVE  Key(c) \in AnyKey
    OBVIOUS
<1>1. request[c] \in [valid : BOOLEAN, body : AnyKey, header : AnyKey]
    OBVIOUS
<1>2. request[c].body \in AnyKey /\ request[c].header \in AnyKey /\ NoKey \in AnyKey
    BY <1>1 DEF AnyKey
<1> QED BY <1>2 DEF Key

LEMMA InitInv == Init => IInv
<1> SUFFICES ASSUME Init PROVE IInv
    OBVIOUS
<1>1. TypeOK
    <2>1. 0 \in 0..MaxTries /\ 0 \in 0..MaxFaults /\ 0 \in Nat
        OBVIOUS
    <2>2. \A c \in Clients : pc[c] = "ready"
        BY DEF Init
    <2> QED BY <2>1, <2>2 DEF Init, TypeOK
<1>2. KeysTyped /\ KeysUnique /\ AnswersTrue /\ OneCreator /\ WinnerStays
    BY DEF Init, KeysTyped, KeysUnique, AnswersTrue, OneCreator, WinnerStays, Creating, InFlight, AnyKey
<1>3. EnqueuedOnce /\ OnlyFaultsStrand
    BY DEF Init, EnqueuedOnce, OnlyFaultsStrand, Exists
<1> QED BY <1>1, <1>2, <1>3 DEF IInv

(* A step that changes no row, no entry and no answer, and that does not   *)
(* make a call a creating one.                                             *)
LEMMA CallMoves ==
    ASSUME IInv, NEW c \in Clients,
           UNCHANGED <<keyOf, enqueues, request, answers>>,
           pc' \in [Clients -> InFlight \cup {"ready", "broken", "refused", "done"}],
           \A d \in Clients \ {c} : pc'[d] = pc[d] /\ job'[d] = job[d],
           pc'[c] \notin {"enqueue", "created"},
           pc[c] # "enqueue" \/ faults' > 0,
           job' \in [Clients -> Jobs \cup {NoJob}],
           tries' \in [Clients -> 0..MaxTries],
           faults' \in 0..MaxFaults, faults' >= faults,
           pc'[c] \in InFlight => Key(c) \in Keys \cup {NoKey},
           pc'[c] \in {"lookup", "again"} => Key(c) \in Keys,
           pc'[c] = "again" => JobsWith(Key(c)) # {},
           pc'[c] = "replay" => job'[c] \in Jobs /\ keyOf[job'[c]] = Key(c)
    PROVE  IInv'
<1>0. \A d \in Clients : Key(d)' = Key(d)
    BY DEF Key
<1>1. TypeOK'
    BY <1>0 DEF IInv, TypeOK
<1>2. KeysTyped'
    BY <1>0 DEF IInv, KeysTyped
<1>3. KeysUnique' /\ AnswersTrue'
    BY DEF IInv, KeysUnique, AnswersTrue
<1>4. OneCreator'
    BY DEF IInv, OneCreator, Creating
<1>5. EnqueuedOnce'
    BY DEF IInv, EnqueuedOnce, Exists
<1>6. OnlyFaultsStrand'
    <2>1. CASE faults' > 0
        BY <2>1 DEF OnlyFaultsStrand
    <2>2. CASE faults' = 0
        <3>1. faults = 0 /\ ~(faults > 0) /\ pc[c] # "enqueue"
            BY <2>2 DEF IInv, TypeOK
        <3> SUFFICES ASSUME NEW j \in Jobs, Exists(j)', enqueues'[j] = 0
                     PROVE  \E d \in Clients : pc'[d] = "enqueue" /\ job'[d] = j
            BY DEF OnlyFaultsStrand
        <3>2. PICK d \in Clients : pc[d] = "enqueue" /\ job[d] = j
            BY <3>1 DEF IInv, OnlyFaultsStrand, Exists
        <3>3. d # c
            BY <3>1, <3>2
        <3> QED BY <3>2, <3>3
    <2>3. faults' = 0 \/ faults' > 0
        OBVIOUS
    <2> QED BY <2>1, <2>2, <2>3
<1>7. WinnerStays'
    BY <1>0 DEF IInv, WinnerStays, JobsWith
<1> QED BY <1>1, <1>2, <1>3, <1>4, <1>5, <1>6, <1>7 DEF IInv

LEMMA SubmitInv ==
    ASSUME IInv, NEW c \in Clients, Submit(c)
    PROVE  IInv'
<1>1. Key(c) \in AnyKey
    BY KeyType DEF IInv, TypeOK
<1>2. pc'[c] \in {"refused", "insert", "lookup"}
    BY DEF Submit, Goto, IInv, TypeOK
<1>3. pc'[c] # "refused" => Key(c) \in Keys \cup {NoKey}
    BY <1>1 DEF Submit, Goto, IInv, TypeOK, Unacceptable, AnyKey
<1>4. pc'[c] = "lookup" => Key(c) \in Keys
    BY <1>1 DEF Submit, Goto, IInv, TypeOK, Unacceptable, AnyKey
<1>5. pc' \in [Clients -> InFlight \cup {"ready", "broken", "refused", "done"}]
    BY DEF Submit, Goto, IInv, TypeOK, InFlight
<1>6. tries' \in [Clients -> 0..MaxTries]
    BY DEF Submit, IInv, TypeOK
<1>7. job' \in [Clients -> Jobs \cup {NoJob}]
    BY DEF Submit, IInv, TypeOK
<1>8. \A d \in Clients \ {c} : pc'[d] = pc[d] /\ job'[d] = job[d]
    BY DEF Submit, Goto, IInv, TypeOK
<1>9. UNCHANGED <<keyOf, enqueues, request, answers, faults>> /\ pc[c] # "enqueue"
    BY DEF Submit
<1> QED BY <1>2, <1>3, <1>4, <1>5, <1>6, <1>7, <1>8, <1>9, CallMoves DEF IInv, TypeOK, InFlight

LEMMA LookUpInv ==
    ASSUME IInv, NEW c \in Clients, LookUp(c) \/ LookUpAgain(c)
    PROVE  IInv'
<1>1. Key(c) \in Keys
    BY DEF LookUp, LookUpAgain, IInv, KeysTyped
<1>2. pc'[c] \in {"insert", "replay", "broken"}
    BY DEF LookUp, LookUpAgain, Goto, IInv, TypeOK
<1>3. pc'[c] = "replay" => job'[c] \in Jobs /\ keyOf[job'[c]] = Key(c)
    BY DEF LookUp, LookUpAgain, Goto, IInv, TypeOK, JobsWith
<1>4. pc' \in [Clients -> InFlight \cup {"ready", "broken", "refused", "done"}]
    BY DEF LookUp, LookUpAgain, Goto, IInv, TypeOK, InFlight
<1>5. job' \in [Clients -> Jobs \cup {NoJob}]
    BY DEF LookUp, LookUpAgain, JobsWith, IInv, TypeOK
<1>6. \A d \in Clients \ {c} : pc'[d] = pc[d] /\ job'[d] = job[d]
    BY DEF LookUp, LookUpAgain, Goto, IInv, TypeOK
<1>7. UNCHANGED <<keyOf, enqueues, request, tries, answers, faults>> /\ pc[c] # "enqueue"
    BY DEF LookUp, LookUpAgain
<1> QED BY <1>1, <1>2, <1>3, <1>4, <1>5, <1>6, <1>7, CallMoves DEF IInv, TypeOK

(* The INSERT of a new row under a free key, whether its reply arrives     *)
(* (the call goes on to enqueue the job) or not (a fault).                 *)
LEMMA InsertInv ==
    ASSUME IInv, NEW c \in Clients, NEW j \in Jobs,
           pc[c] = "insert", ~Exists(j),
           Key(c) = NoKey \/ JobsWith(Key(c)) = {},
           keyOf' = [keyOf EXCEPT ![j] = Key(c)],
           UNCHANGED <<enqueues, request, tries, answers>>,
           \/ /\ pc' = [pc EXCEPT ![c] = "enqueue"]
              /\ job' = [job EXCEPT ![c] = j] /\ faults' = faults
           \/ /\ pc' = [pc EXCEPT ![c] = "broken"]
              /\ job' = job /\ faults' = faults + 1 /\ faults < MaxFaults
    PROVE  IInv'
<1>0. \A d \in Clients : Key(d)' = Key(d)
    BY DEF Key
<1>1. Key(c) \in Keys \cup {NoKey}
    BY DEF IInv, KeysTyped, InFlight
<1>2. keyOf' \in [Jobs -> Keys \cup {NoKey, NoJob}] /\ keyOf'[j] = Key(c)
    BY <1>1 DEF IInv, TypeOK
<1>3. \A i \in Jobs \ {j} : keyOf'[i] = keyOf[i]
    BY DEF IInv, TypeOK
<1>4. \A d \in Clients : pc[d] \in {"enqueue", "created", "replay"} =>
            job[d] # j /\ Key(d) # NoJob
    BY DEF IInv, TypeOK, KeysTyped, Exists, InFlight, AnyKey
<1>5. \A x \in answers : x.job # j /\ x.job \in Jobs
    BY DEF IInv, TypeOK, AnswersTrue, Exists, AnyKey
<1>6. TypeOK'
    <2>1. ASSUME NEW d \in Clients \ {c}, pc'[d] \in {"enqueue", "created", "replay"}
          PROVE  job'[d] \in Jobs /\ keyOf'[job'[d]] = Key(d)
        <3>1. pc'[d] = pc[d] /\ job'[d] = job[d]
            BY DEF IInv, TypeOK
        <3>2. job[d] \in Jobs \ {j} /\ keyOf[job[d]] = Key(d)
            BY <1>4, <2>1, <3>1 DEF IInv, TypeOK
        <3> QED BY <1>3, <3>1, <3>2
    <2>2. pc'[c] \in {"enqueue", "created", "replay"} => job'[c] = j /\ keyOf'[j] = Key(c)
        BY <1>2 DEF IInv, TypeOK
    <2>3. \A d \in Clients : pc'[d] \in {"enqueue", "created", "replay"} =>
             job'[d] \in Jobs /\ keyOf'[job'[d]] = Key(d)'
        BY <1>0, <2>1, <2>2
    <2>4. pc' \in [Clients -> InFlight \cup {"ready", "broken", "refused", "done"}]
        BY DEF IInv, TypeOK, InFlight
    <2>5. job' \in [Clients -> Jobs \cup {NoJob}]
        BY DEF IInv, TypeOK
    <2>6. faults' \in 0..MaxFaults
        BY DEF IInv, TypeOK
    <2>7. /\ enqueues' \in [Jobs -> Nat] /\ request' \in [Clients -> Requests]
          /\ tries' \in [Clients -> 0..MaxTries]
          /\ answers' \subseteq [client : Clients, key : Keys \cup {NoKey},
                                 job : Jobs, code : {200, 201}]
        BY DEF IInv, TypeOK
    <2> QED BY <1>2, <2>3, <2>4, <2>5, <2>6, <2>7 DEF TypeOK
<1>7. KeysTyped'
    BY <1>0 DEF IInv, KeysTyped, TypeOK, InFlight
<1>8. KeysUnique'
    BY <1>2, <1>3 DEF IInv, KeysUnique, JobsWith, AnyKey
<1>9. AnswersTrue'
    BY <1>3, <1>5 DEF IInv, AnswersTrue
<1>10. OneCreator'
    BY <1>4, <1>5 DEF IInv, OneCreator, Creating, TypeOK
<1>11. EnqueuedOnce'
    <2>1. enqueues[j] = 0
        BY DEF IInv, EnqueuedOnce
    <2>2. Key(c) # NoJob
        BY <1>1 DEF AnyKey
    <2>3. Exists(j)'
        BY <1>2, <2>2 DEF Exists
    <2> QED BY <1>3, <2>1, <2>3 DEF IInv, EnqueuedOnce, Exists, TypeOK
<1>12. OnlyFaultsStrand'
    <2>1. CASE pc' = [pc EXCEPT ![c] = "broken"]
        BY <2>1 DEF IInv, TypeOK, OnlyFaultsStrand
    <2>2. CASE pc' = [pc EXCEPT ![c] = "enqueue"] /\ job' = [job EXCEPT ![c] = j]
        BY <1>3, <2>2 DEF IInv, TypeOK, OnlyFaultsStrand, Exists
    <2> QED BY <2>1, <2>2
<1>13. WinnerStays'
    <2> SUFFICES ASSUME NEW d \in Clients, pc'[d] = "again"
                 PROVE  JobsWith(Key(d))' # {}
        BY DEF WinnerStays
    <2>1. pc[d] = "again"
        BY DEF IInv, TypeOK
    <2>2. Key(d) \in Keys /\ Key(d) # NoJob
        BY <2>1 DEF IInv, KeysTyped, AnyKey
    <2>3. PICK i \in Jobs : keyOf[i] = Key(d)
        BY <2>1 DEF IInv, WinnerStays, JobsWith
    <2>4. i # j
        BY <2>2, <2>3 DEF Exists
    <2> QED BY <1>0, <1>3, <2>3, <2>4 DEF JobsWith
<1> QED BY <1>6, <1>7, <1>8, <1>9, <1>10, <1>11, <1>12, <1>13 DEF IInv

LEMMA InsertsInv ==
    ASSUME IInv, NEW c \in Clients, Insert(c)
    PROVE  IInv'
<1>1. CASE Key(c) # NoKey /\ JobsWith(Key(c)) # {} /\ Goto(c, "again") /\ UNCHANGED <<keyOf, job>>
    <2>1. Key(c) \in Keys
        BY <1>1 DEF Insert, IInv, KeysTyped, InFlight
    <2>2. pc' \in [Clients -> InFlight \cup {"ready", "broken", "refused", "done"}]
        BY <1>1 DEF Goto, IInv, TypeOK, InFlight
    <2>3. pc'[c] = "again" /\ \A d \in Clients \ {c} : pc'[d] = pc[d] /\ job'[d] = job[d]
        BY <1>1 DEF Goto, IInv, TypeOK
    <2>4. UNCHANGED <<keyOf, enqueues, request, tries, answers, faults, job>> /\ pc[c] = "insert"
        BY <1>1 DEF Insert
    <2> QED BY <1>1, <2>1, <2>2, <2>3, <2>4, CallMoves DEF IInv, TypeOK
<1>2. CASE ~(Key(c) # NoKey /\ JobsWith(Key(c)) # {} /\ Goto(c, "again") /\ UNCHANGED <<keyOf, job>>)
    <2>1. PICK j \in Jobs : /\ ~Exists(j)
                            /\ keyOf' = [keyOf EXCEPT ![j] = Key(c)]
                            /\ job' = [job EXCEPT ![c] = j]
                            /\ Goto(c, "enqueue")
        BY <1>2 DEF Insert
    <2>2. Key(c) = NoKey \/ JobsWith(Key(c)) = {}
        BY <1>2 DEF Insert, Goto
    <2>3. pc[c] = "insert" /\ UNCHANGED <<enqueues, request, tries, answers, faults>>
        BY DEF Insert
    <2> QED BY <2>1, <2>2, <2>3, InsertInv DEF Goto
<1> QED BY <1>1, <1>2

(* The creating call enqueues its job, or tries to. *)
LEMMA EnqueueInv ==
    ASSUME IInv, NEW c \in Clients, pc[c] = "enqueue",
           pc' = [pc EXCEPT ![c] = "created"],
           \/ enqueues' = [enqueues EXCEPT ![job[c]] = @ + 1] /\ faults' \in {faults, faults + 1}
           \/ enqueues' = enqueues /\ faults' = faults + 1,
           faults' \in 0..MaxFaults,
           UNCHANGED <<keyOf, request, job, tries, answers>>
    PROVE  IInv'
<1>0. \A d \in Clients : Key(d)' = Key(d)
    BY DEF Key
<1>1. job[c] \in Jobs /\ keyOf[job[c]] = Key(c) /\ enqueues[job[c]] = 0
    BY DEF IInv, TypeOK, EnqueuedOnce
<1>2. Key(c) \in Keys \cup {NoKey} /\ Key(c) # NoJob
    BY DEF IInv, KeysTyped, InFlight, AnyKey
<1>3. enqueues' \in [Jobs -> Nat] /\ enqueues'[job[c]] \in {0, 1}
      /\ \A j \in Jobs \ {job[c]} : enqueues'[j] = enqueues[j]
    BY <1>1 DEF IInv, TypeOK
<1>4. \A d \in Clients : d # c /\ Creating(d) => job[d] # job[c]
    BY DEF IInv, OneCreator, Creating
<1>5. TypeOK'
    BY <1>0, <1>1, <1>3 DEF IInv, TypeOK, InFlight
<1>6. KeysTyped' /\ KeysUnique' /\ AnswersTrue'
    BY <1>0 DEF IInv, TypeOK, KeysTyped, KeysUnique, AnswersTrue, InFlight
<1>7. OneCreator'
    BY DEF IInv, TypeOK, OneCreator, Creating
<1>8. EnqueuedOnce'
    BY <1>1, <1>2, <1>3, <1>4 DEF IInv, TypeOK, EnqueuedOnce, Exists, Creating
<1>9. OnlyFaultsStrand'
    <2>1. CASE faults' > 0
        BY <2>1 DEF OnlyFaultsStrand
    <2>2. CASE faults' = 0
        BY <1>1, <2>2 DEF IInv, TypeOK, OnlyFaultsStrand, Exists
    <2> QED BY <1>5, <2>1, <2>2 DEF TypeOK
<1>10. WinnerStays'
    BY <1>0 DEF IInv, TypeOK, WinnerStays, JobsWith
<1> QED BY <1>5, <1>6, <1>7, <1>8, <1>9, <1>10 DEF IInv

LEMMA AnswerInv ==
    ASSUME IInv, NEW c \in Clients, Answer(c)
    PROVE  IInv'
<1>0. \A d \in Clients : Key(d)' = Key(d)
    BY DEF Answer, Key
<1> DEFINE a == [client |-> c, key |-> Key(c), job |-> job[c],
                 code |-> IF pc[c] = "created" THEN 201 ELSE 200]
<1>1. answers' = answers \cup {a} /\ pc' = [pc EXCEPT ![c] = "done"]
      /\ UNCHANGED <<keyOf, enqueues, request, job, tries, faults>>
      /\ pc[c] \in {"created", "replay"}
    BY DEF Answer, Goto
<1>2. job[c] \in Jobs /\ keyOf[job[c]] = Key(c) /\ Key(c) \in Keys \cup {NoKey}
    BY <1>1 DEF IInv, TypeOK, KeysTyped, InFlight
<1>3. a \in [client : Clients, key : Keys \cup {NoKey}, job : Jobs, code : {200, 201}]
    BY <1>2
<1>4. a.key = Key(c) /\ a.job = job[c] /\ a.client = c /\ (a.code = 201 => pc[c] = "created")
    OBVIOUS
<1> HIDE DEF a
<1>5. TypeOK'
    <2>1. answers' \subseteq [client : Clients, key : Keys \cup {NoKey}, job : Jobs, code : {200, 201}]
        BY <1>1, <1>3 DEF IInv, TypeOK
    <2>2. \A d \in Clients : pc'[d] \in {"enqueue", "created", "replay"} => pc'[d] = pc[d]
        BY <1>1 DEF IInv, TypeOK
    <2> QED BY <1>0, <1>1, <2>1, <2>2 DEF IInv, TypeOK
<1>6. KeysTyped' /\ KeysUnique'
    BY <1>0, <1>1 DEF IInv, TypeOK, KeysTyped, KeysUnique, InFlight
<1>7. AnswersTrue'
    BY <1>1, <1>2, <1>4 DEF IInv, AnswersTrue
<1>8. OneCreator'
    <2>1. \A d \in Clients : Creating(d)' => Creating(d) /\ d # c
        BY <1>1 DEF IInv, TypeOK, Creating
    <2>2. a.code = 201 => Creating(c)
        BY <1>4 DEF Creating
    <2> QED BY <1>1, <1>4, <2>1, <2>2 DEF IInv, OneCreator
<1>9. EnqueuedOnce' /\ OnlyFaultsStrand'
    BY <1>1 DEF IInv, TypeOK, EnqueuedOnce, OnlyFaultsStrand, Exists
<1>10. WinnerStays'
    BY <1>0, <1>1 DEF IInv, TypeOK, WinnerStays, JobsWith
<1> QED BY <1>5, <1>6, <1>7, <1>8, <1>9, <1>10 DEF IInv

LEMMA CallBreaksInv ==
    ASSUME IInv, NEW c \in Clients, CallBreaks(c)
    PROVE  IInv'
<1>1. faults' = faults + 1 /\ faults < MaxFaults /\ faults' \in 0..MaxFaults
      /\ pc' = [pc EXCEPT ![c] = "broken"]
      /\ UNCHANGED <<enqueues, request, job, tries, answers>>
    BY DEF CallBreaks, Goto, IInv, TypeOK
<1>2. CASE UNCHANGED keyOf
    <2>1. pc' \in [Clients -> InFlight \cup {"ready", "broken", "refused", "done"}]
        BY <1>1 DEF IInv, TypeOK, InFlight
    <2>2. pc'[c] = "broken" /\ \A d \in Clients \ {c} : pc'[d] = pc[d] /\ job'[d] = job[d]
        BY <1>1 DEF IInv, TypeOK
    <2>3. faults' > 0 /\ faults' >= faults
        BY <1>1 DEF IInv, TypeOK
    <2> QED BY <1>1, <1>2, <2>1, <2>2, <2>3, CallMoves DEF IInv, TypeOK, InFlight
<1>3. CASE ~UNCHANGED keyOf
    <2>1. pc[c] = "insert" /\ (Key(c) = NoKey \/ JobsWith(Key(c)) = {})
        BY <1>3 DEF CallBreaks
    <2>2. PICK j \in Jobs : ~Exists(j) /\ keyOf' = [keyOf EXCEPT ![j] = Key(c)]
        BY <1>3 DEF CallBreaks
    <2> QED BY <1>1, <2>1, <2>2, InsertInv
<1> QED BY <1>2, <1>3

LEMMA CrashApiInv ==
    ASSUME IInv, CrashApi
    PROVE  IInv'
<1>0. \A d \in Clients : Key(d)' = Key(d)
    BY DEF CrashApi, Key
<1>1. /\ faults' \in 0..MaxFaults /\ faults' > 0
      /\ pc' \in [Clients -> InFlight \cup {"ready", "broken", "refused", "done"}]
      /\ \A d \in Clients : pc'[d] \notin InFlight
      /\ UNCHANGED <<keyOf, enqueues, request, job, tries, answers>>
    BY DEF CrashApi, IInv, TypeOK, InFlight
<1>2. TypeOK'
    BY <1>0, <1>1 DEF IInv, TypeOK, InFlight
<1>3. KeysTyped' /\ KeysUnique' /\ AnswersTrue'
    BY <1>1 DEF IInv, KeysTyped, KeysUnique, AnswersTrue, InFlight
<1>4. OneCreator' /\ WinnerStays'
    BY <1>1 DEF IInv, OneCreator, Creating, WinnerStays, InFlight
<1>5. EnqueuedOnce' /\ OnlyFaultsStrand'
    BY <1>1 DEF IInv, EnqueuedOnce, OnlyFaultsStrand, Exists, InFlight
<1> QED BY <1>2, <1>3, <1>4, <1>5 DEF IInv

LEMMA NextInv == IInv /\ [Next]_vars => IInv'
<1> SUFFICES ASSUME IInv, [Next]_vars PROVE IInv'
    OBVIOUS
<1>1. ASSUME NEW c \in Clients, Submit(c) PROVE IInv'
    BY <1>1, SubmitInv
<1>2. ASSUME NEW c \in Clients, LookUp(c) \/ LookUpAgain(c) PROVE IInv'
    BY <1>2, LookUpInv
<1>3. ASSUME NEW c \in Clients, Insert(c) PROVE IInv'
    BY <1>3, InsertsInv
<1>4. ASSUME NEW c \in Clients, Enqueue(c) PROVE IInv'
    BY <1>4, EnqueueInv DEF Enqueue, Goto, IInv, TypeOK
<1>5. ASSUME NEW c \in Clients, EnqueueFails(c) PROVE IInv'
    <2>1. /\ pc[c] = "enqueue" /\ pc' = [pc EXCEPT ![c] = "created"]
          /\ faults' = faults + 1 /\ UNCHANGED <<keyOf, request, job, tries, answers>>
          /\ enqueues' = enqueues \/ enqueues' = [enqueues EXCEPT ![job[c]] = @ + 1]
        BY <1>5 DEF EnqueueFails, Goto
    <2>2. faults' \in 0..MaxFaults
        BY <1>5 DEF EnqueueFails, IInv, TypeOK
    <2> QED BY <2>1, <2>2, EnqueueInv
<1>6. ASSUME NEW c \in Clients, Answer(c) PROVE IInv'
    BY <1>6, AnswerInv
<1>7. ASSUME NEW c \in Clients, CallBreaks(c) PROVE IInv'
    BY <1>7, CallBreaksInv
<1>8. CASE CrashApi
    BY <1>8, CrashApiInv
<1>9. CASE UNCHANGED vars
    <2>1. \A d \in Clients : Key(d)' = Key(d)
        BY <1>9 DEF vars, Key
    <2>2. TypeOK' /\ KeysTyped' /\ KeysUnique' /\ AnswersTrue' /\ OneCreator'
        BY <1>9, <2>1 DEF vars, IInv, TypeOK, KeysTyped, KeysUnique, AnswersTrue, OneCreator, Creating
    <2>3. EnqueuedOnce' /\ OnlyFaultsStrand' /\ WinnerStays'
        BY <1>9, <2>1 DEF vars, IInv, EnqueuedOnce, OnlyFaultsStrand, WinnerStays, Exists, JobsWith
    <2> QED BY <2>2, <2>3 DEF IInv
<1> QED
    BY <1>1, <1>2, <1>3, <1>4, <1>5, <1>6, <1>7, <1>8, <1>9 DEF Next, Call, Fault

LEMMA Inductive == Spec => []IInv
<1> QED BY InitInv, NextInv, PTL DEF Spec

-----------------------------------------------------------------------------
(* SubmissionTyped: the types of the state; a call past the INSERT has the *)
(* job in hand whose row carries its key.                                  *)
THEOREM SubmissionTyped == Spec => []TypeOK
<1>1. IInv => TypeOK
    BY DEF IInv
<1> QED BY <1>1, Inductive, PTL

(* OneJobPerKey: all answers to submissions with one key name one job, and *)
(* at most one client is told it created it (jobs.go:45-82).               *)
THEOREM OneJobPerKey == Spec => []SameKeySameJob
<1>1. IInv => SameKeySameJob
    <2> SUFFICES ASSUME IInv, NEW x \in answers, NEW y \in answers,
                        x.key = y.key, x.key \in Keys
                 PROVE  x.job = y.job /\ (x.code = 201 /\ y.code = 201 => x.client = y.client)
        BY DEF SameKeySameJob
    <2>1. x.job \in Jobs /\ y.job \in Jobs
        BY DEF IInv, TypeOK
    <2>2. x.job = y.job
        BY <2>1 DEF IInv, AnswersTrue, KeysUnique
    <2> QED BY <2>2 DEF IInv, OneCreator
<1> QED BY <1>1, Inductive, PTL

(* OneEntryPerKey: submissions with one key put at most one entry into the *)
(* queue, however they race and are repeated (handler.go:74-94).           *)
THEOREM OneEntryPerKey == Spec => []NoDoubleEnqueue
<1>1. IInv => NoDoubleEnqueue
    BY DEF IInv, EnqueuedOnce, KeysUnique, NoDoubleEnqueue
<1> QED BY <1>1, Inductive, PTL

(* RacesStrandNothing: without a fault every row is in the queue, or its   *)
(* call is about to put it there.                                          *)
THEOREM RacesStrandNothing == Spec => []OnlyFaultsStrand
<1>1. IInv => OnlyFaultsStrand
    BY DEF IInv
<1> QED BY <1>1, Inductive, PTL

(* RacesBreakNothing: the lookup after a conflict never comes back empty,  *)
(* so a call breaks off by a fault only (jobs.go:73-81).                   *)
THEOREM RacesBreakNothing == Spec => OnlyFaultsBreakCalls
<1> DEFINE Breaks == \E c \in Clients : pc[c] # "broken" /\ pc'[c] = "broken"
<1>1. IInv /\ Next => (Breaks => faults' > faults)
    <2> SUFFICES ASSUME IInv, Next, NEW d \in Clients, pc[d] # "broken", pc'[d] = "broken"
                 PROVE  faults' > faults
        OBVIOUS
    <2>1. ASSUME NEW c \in Clients, Call(c) PROVE pc'[d] # "broken"
        BY <2>1 DEF Call, Submit, LookUp, Insert, LookUpAgain, Enqueue, Answer, Goto,
                    IInv, TypeOK, WinnerStays
    <2>2. ASSUME NEW c \in Clients, Fault(c) PROVE faults' > faults
        BY <2>2 DEF Fault, EnqueueFails, CallBreaks, IInv, TypeOK
    <2>3. CASE CrashApi
        BY <2>3 DEF CrashApi, IInv, TypeOK
    <2> QED BY <2>1, <2>2, <2>3 DEF Next
<1>2. IInv /\ [Next]_vars => [Breaks => faults' > faults]_vars
    BY <1>1
<1> QED BY <1>2, Inductive, PTL DEF Spec, OnlyFaultsBreakCalls
=============================================================================
