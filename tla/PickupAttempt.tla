---------------------------- MODULE PickupAttempt ----------------------------
(***************************************************************************)
(* The attempts to pick up one parcel: the driver's steps on an attempt,   *)
(* the acceptance that starts custody, and the recoveries of operations    *)
(* that close an attempt and open its replacement.  Requests run           *)
(* concurrently; each reads an attempt in one step and writes and commits  *)
(* in another, under the row's version.                                    *)
(*                                                                         *)
(* Abstractions.  A request decides what it is when it writes: what it was *)
(* going to do is not visible before.  A refused request, and the replay   *)
(* of a step the attempt already reached or of an acceptance whose key is  *)
(* on record, change nothing and end by GiveUp.                            *)
(* Refusals for reasons the model does not carry (another driver, driver   *)
(* not ONLINE, scanned identifier, missing evidence or photo, sender       *)
(* ceremony, Shipment eligibility, expected_version) end there too, so     *)
(* nothing below relies on them.  Retry, reschedule and reassign differ in *)
(* data that no property reads: the driver and the time window.            *)
(***************************************************************************)
EXTENDS Naturals

CONSTANTS
    Attempts,    \* identifiers of pickup tasks
    Requests,    \* requests in flight
    Keys,        \* Idempotency-Key header values
    Recoveries,  \* recovery actions operations use
    None,
    MaxVersion   \* bound on the version of an attempt

ASSUME AttemptConstants ==
    /\ Recoveries \subseteq {"RETRY", "RESCHEDULE", "REASSIGN", "CANCEL"}
    /\ None \notin Attempts
    /\ MaxVersion \in Nat

VARIABLES
    row,          \* the committed row of each attempt, or None
    history,      \* pickup_recovery_history: one entry per recovery
    recoveryKeys, \* command and result recorded under each recovery key
    acceptKeys,   \* attempt accepted under each acceptance key
    outbox,       \* pickup.fact.accepted rows
    request,      \* per request: the attempt it read, and the row, or None
    answers       \* what recovery requests were answered, per key

db   == <<row, history, recoveryKeys, acceptKeys, outbox>>
vars == <<db, request, answers>>

-----------------------------------------------------------------------------
Progression == {"PENDING", "ARRIVED", "SCANNED", "PROOF_CAPTURED"}
Closed      == {"SUPERSEDED", "CANCELLED"}
Status      == Progression \cup {"EXCEPTION_REPORTED", "FAILED"} \cup Closed
Assessment  == {"GOOD", "TOO_WEAK"}
StopOutcome == {"REFUSED", "NOT_PRESENTED"}

AttemptRow == [status: Status, assignment: {"OFFERED", "ACKNOWLEDGED", "DECLINED"},
               packaging: Assessment \cup {None}, stop: StopOutcome \cup {None},
               accepted: BOOLEAN, attempt: Nat,
               parent: Attempts \cup {None}, supersededBy: Attempts \cup {None},
               version: Nat]

KeyRecord == [task: Attempts, action: Recoveries, result: Attempts]

\* NULL is no row and no record.
ASSUME NoneIsNoRow == None \notin AttemptRow /\ None \notin KeyRecord

NewAttempt(number, parent) ==
    [status |-> "PENDING", assignment |-> "OFFERED", packaging |-> None, stop |-> None,
     accepted |-> FALSE, attempt |-> number, parent |-> parent, supersededBy |-> None,
     version |-> 1]

Exists(t)    == row[t] # None
IsTerminal(r) == r.status \in Closed
(* Mutated form of IsOpen: an accepted attempt counts as open. *)
MutIsOpen(r) == ~IsTerminal(r)

IsOpen(r)     == ~r.accepted /\ ~IsTerminal(r)
Underway(r)   == r.assignment = "ACKNOWLEDGED" /\ IsOpen(r)

Rank(status) ==
    CASE status \in {"PENDING", "EXCEPTION_REPORTED"} -> 0
      [] status = "ARRIVED"        -> 1
      [] status = "SCANNED"        -> 2
      [] status = "PROOF_CAPTURED" -> 3
      [] OTHER                     -> 4

-----------------------------------------------------------------------------
\* Registration seeds the first attempt, by default with its proof captured.
FirstAttempt == {NewAttempt(1, None),
                 [NewAttempt(1, None) EXCEPT !.status = "PROOF_CAPTURED",
                     !.assignment = "ACKNOWLEDGED", !.packaging = "GOOD"]}

Init ==
    /\ \E t \in Attempts, r \in FirstAttempt :
           row = [u \in Attempts |-> IF u = t THEN r ELSE None]
    /\ history = {}
    /\ recoveryKeys = [k \in Keys |-> None]
    /\ acceptKeys = [k \in Keys |-> None]
    /\ outbox = {}
    /\ request = [q \in Requests |-> None]
    /\ answers = {}

-----------------------------------------------------------------------------
(* A request's transaction *)

Begin(q) ==
    /\ request[q] = None
    /\ \E t \in Attempts :
          /\ Exists(t)
          /\ request' = [request EXCEPT ![q] = [task |-> t, seen |-> row[t]]]
    /\ UNCHANGED <<db, answers>>

End(q) == request' = [request EXCEPT ![q] = None]

\* Refused, replayed, found stale at commit, or cut off: nothing is written.
GiveUp(q) ==
    /\ request[q] # None
    /\ End(q)
    /\ UNCHANGED <<db, answers>>

\* UPDATE ... WHERE version = the version read.
Current(q) ==
    /\ request[q] # None
    /\ Exists(request[q].task)
    /\ row[request[q].task].version = request[q].seen.version
    /\ request[q].seen.version < MaxVersion

Written(r) == [r EXCEPT !.version = @ + 1]

\* A driver step: the row as read, with the step's columns changed.
Step(q, new) ==
    /\ Current(q)
    /\ row' = [row EXCEPT ![request[q].task] = Written(new)]
    /\ End(q)
    /\ UNCHANGED <<history, recoveryKeys, acceptKeys, outbox, answers>>

-----------------------------------------------------------------------------
(* Driver steps *)

Acknowledge(q) ==
    /\ request[q] # None /\ request[q].seen.assignment = "OFFERED"
    /\ Step(q, [request[q].seen EXCEPT !.assignment = "ACKNOWLEDGED"])

Decline(q) ==
    /\ request[q] # None /\ request[q].seen.assignment = "OFFERED"
    /\ Step(q, [request[q].seen EXCEPT !.assignment = "DECLINED"])

CanAdvance(q, target) ==
    /\ request[q] # None
    /\ Underway(request[q].seen)
    /\ Rank(target) = Rank(request[q].seen.status) + 1

Arrive(q) ==
    /\ CanAdvance(q, "ARRIVED")
    /\ Step(q, [request[q].seen EXCEPT !.status = "ARRIVED"])

Scan(q) ==
    /\ CanAdvance(q, "SCANNED")
    /\ Step(q, [request[q].seen EXCEPT !.status = "SCANNED"])

CaptureProof(q, assessment) ==
    /\ CanAdvance(q, "PROOF_CAPTURED")
    /\ Step(q, [request[q].seen EXCEPT !.status = "PROOF_CAPTURED", !.packaging = assessment])

\* Reporting again is a replay only when the reason is the same one.
ReportException(q) ==
    /\ request[q] # None /\ Underway(request[q].seen)
    /\ Step(q, [request[q].seen EXCEPT !.status = "EXCEPTION_REPORTED"])

Fail(q) ==
    /\ request[q] # None /\ Underway(request[q].seen)
    /\ request[q].seen.status # "FAILED"
    /\ Step(q, [request[q].seen EXCEPT !.status = "FAILED"])

(* Mutated form of RecordStop: an earlier outcome is not looked at. *)
MutRecordStop(q, outcome) ==
    /\ request[q] # None /\ Underway(request[q].seen)
    /\ Step(q, [request[q].seen EXCEPT !.status = "FAILED", !.stop = outcome])

RecordStop(q, outcome) ==
    /\ request[q] # None /\ Underway(request[q].seen)
    /\ request[q].seen.stop = None
    /\ Step(q, [request[q].seen EXCEPT !.status = "FAILED", !.stop = outcome])

-----------------------------------------------------------------------------
(* Acceptance *)

Acceptable(r) ==
    /\ IsOpen(r)
    /\ r.status = "PROOF_CAPTURED"
    /\ r.assignment = "ACKNOWLEDGED"
    /\ r.packaging # None

\* The key's row and the fact's row are unique in the database.
Accept(q, k) ==
    /\ Current(q)
    /\ Acceptable(request[q].seen)
    /\ acceptKeys[k] = None
    /\ \A f \in outbox : f.task # request[q].task
    /\ LET new == Written([request[q].seen EXCEPT !.accepted = TRUE]) IN
          /\ row' = [row EXCEPT ![request[q].task] = new]
          /\ outbox' = outbox \cup {[task |-> request[q].task, version |-> new.version]}
    /\ acceptKeys' = [acceptKeys EXCEPT ![k] = request[q].task]
    /\ End(q)
    /\ UNCHANGED <<history, recoveryKeys, answers>>

-----------------------------------------------------------------------------
(* Recovery *)

Answer(k, t, action, result) == [key |-> k, task |-> t, action |-> action, result |-> result]

(* Mutated form of Record: the key's record names the replacement only. *)
MutRecord(q, k, action, replacement, result) ==
    LET t == request[q].task IN
    /\ recoveryKeys[k] = None
    /\ history' = history \cup {[task |-> t, replacement |-> replacement, key |-> k]}
    /\ recoveryKeys' = [recoveryKeys EXCEPT ![k] =
                           [task |-> t, action |-> action, result |-> replacement]]
    /\ answers' = answers \cup {Answer(k, t, action, result)}
    /\ End(q)
    /\ UNCHANGED <<acceptKeys, outbox>>

\* What every recovery records with its change of the attempt it closes.
Record(q, k, action, replacement, result) ==
    LET t == request[q].task IN
    /\ recoveryKeys[k] = None
    /\ history' = history \cup {[task |-> t, replacement |-> replacement, key |-> k]}
    /\ recoveryKeys' = [recoveryKeys EXCEPT ![k] =
                           [task |-> t, action |-> action, result |-> result]]
    /\ answers' = answers \cup {Answer(k, t, action, result)}
    /\ End(q)
    /\ UNCHANGED <<acceptKeys, outbox>>

CancelPickup(q, k) ==
    /\ Current(q)
    /\ IsOpen(request[q].seen)
    /\ row' = [row EXCEPT ![request[q].task] =
                  Written([request[q].seen EXCEPT !.status = "CANCELLED"])]
    /\ Record(q, k, "CANCEL", None, request[q].task)

\* (root_attempt_id, attempt_number) is unique.
Replace(q, k, action) ==
    /\ Current(q)
    /\ IsOpen(request[q].seen)
    /\ action # "CANCEL"
    /\ \A u \in Attempts : Exists(u) => row[u].attempt # request[q].seen.attempt + 1
    /\ \E new \in Attempts :
          /\ ~Exists(new)
          /\ row' = [row EXCEPT
                ![request[q].task] = Written([request[q].seen EXCEPT
                    !.status = "SUPERSEDED", !.supersededBy = new]),
                ![new] = NewAttempt(request[q].seen.attempt + 1, request[q].task)]
          /\ Record(q, k, action, new, new)

(* Mutated form of ReplayRecovery: the command is not compared. *)
MutReplayRecovery(k, t, action) ==
    /\ recoveryKeys[k] # None
    /\ answers' = answers \cup {Answer(k, t, action, recoveryKeys[k].result)}
    /\ UNCHANGED <<db, request>>

\* A recovery sent again under a key on record.
ReplayRecovery(k, t, action) ==
    /\ recoveryKeys[k] # None
    /\ recoveryKeys[k].task = t /\ recoveryKeys[k].action = action
    /\ answers' = answers \cup {Answer(k, t, action, recoveryKeys[k].result)}
    /\ UNCHANGED <<db, request>>

-----------------------------------------------------------------------------
DriverStep(q) ==
    \/ Acknowledge(q) \/ Decline(q)
    \/ Arrive(q) \/ Scan(q) \/ \E a \in Assessment : CaptureProof(q, a)
    \/ ReportException(q) \/ Fail(q) \/ \E o \in StopOutcome : RecordStop(q, o)

Recovery(q) ==
    \E k \in Keys : \/ "CANCEL" \in Recoveries /\ CancelPickup(q, k)
                    \/ \E action \in Recoveries : Replace(q, k, action)

Next ==
    \/ \E q \in Requests :
          \/ Begin(q) \/ GiveUp(q) \/ DriverStep(q) \/ Recovery(q)
          \/ \E k \in Keys : Accept(q, k)
    \/ \E k \in Keys, t \in Attempts, action \in Recoveries : ReplayRecovery(k, t, action)

Spec == Init /\ [][Next]_vars

-----------------------------------------------------------------------------
(* Properties *)

Known    == {t \in Attempts : Exists(t)}
Accepted == {t \in Known : row[t].accepted}

\* Every variable keeps the shape of its table.
TypeOK ==
    /\ row \in [Attempts -> AttemptRow \cup {None}]
    /\ history \subseteq [task: Attempts, replacement: Attempts \cup {None}, key: Keys]
    /\ recoveryKeys \in [Keys -> KeyRecord \cup {None}]
    /\ acceptKeys \in [Keys -> Attempts \cup {None}]
    /\ outbox \subseteq [task: Attempts, version: Nat]
    /\ request \in [Requests -> [task: Attempts, seen: AttemptRow] \cup {None}]
    /\ answers \subseteq [key: Keys, task: Attempts, action: Recoveries, result: Attempts]

\* The attempts of a parcel form one chain, numbered from 1: each attempt but
\* the first is the replacement its parent names, and exactly one attempt,
\* the newest, has not been replaced.  Racing recoveries of one attempt must
\* not fork it (README, recovery invariants 3 to 5).
LineageIsAChain ==
    /\ \A t \in Known : row[t].supersededBy # None =>
          /\ row[t].supersededBy \in Known
          /\ row[row[t].supersededBy].parent = t
          /\ row[row[t].supersededBy].attempt = row[t].attempt + 1
    /\ \A t \in Known : row[t].parent # None =>
          /\ row[t].parent \in Known
          /\ row[row[t].parent].supersededBy = t
    /\ \A t \in Known : (row[t].status = "SUPERSEDED") <=> (row[t].supersededBy # None)
    /\ \A t, u \in Known : row[t].attempt = row[u].attempt => t = u
    /\ \E tip \in Known : \A t \in Known : row[t].supersededBy = None <=> t = tip

\* The parcel enters custody at most once whatever drivers and operations do
\* at the same time: one attempt at most is accepted, it is the newest one, it
\* still stands where the acceptance found it, and the one fact in the outbox
\* carries the version that acceptance wrote.
AcceptedOnce ==
    /\ \A f, g \in outbox : f = g
    /\ {f.task : f \in outbox} = Accepted
    /\ \A f \in outbox :
          /\ row[f.task].version = f.version
          /\ row[f.task].supersededBy = None
          /\ row[f.task].status = "PROOF_CAPTURED"
          /\ row[f.task].assignment = "ACKNOWLEDGED"

\* The recovery history tells the whole story: one entry for each attempt a
\* recovery closed and none for the others, naming the replacement and the key
\* whose record names the same command.
HistoryIsComplete ==
    /\ \A t \in Known : IsTerminal(row[t]) <=> \E h \in history : h.task = t
    /\ \A h, g \in history : h.task = g.task \/ h.key = g.key => h = g
    /\ \A h \in history :
          /\ h.replacement = row[h.task].supersededBy
          /\ recoveryKeys[h.key] # None
          /\ recoveryKeys[h.key].task = h.task
          /\ recoveryKeys[h.key].result =
                 IF h.replacement = None THEN h.task ELSE h.replacement

\* However often recovery commands are sent, and whatever they race with, a
\* key answers one command and always with the same result (README, recovery
\* invariant 11).
KeyAnswersOneCommand ==
    \A a, b \in answers : a.key = b.key => a = b

\* Acceptance is the end of the lineage: afterwards no attempt is opened or
\* closed and the accepted attempt is never written again.
AcceptedIsFinal ==
    [][Accepted # {} =>
          /\ \A t \in Accepted : row'[t] = row[t]
          /\ \A t \in Attempts : ~Exists(t) => row'[t] = None
          /\ \A t \in Known : row'[t].status = row[t].status]_vars

\* The outcome a stop recorded for a parcel is kept: a second, different one
\* that raced with it, or came after the attempt was taken up again, loses.
StopOutcomeIsKept ==
    [][\A t \in Known : row[t].stop # None => row'[t].stop = row[t].stop]_vars

\* What operators read of a parcel agrees however its recoveries raced: one
\* chain of attempts, the whole story of it in the history, one answer per key.
RecoveriesAgree == LineageIsAChain /\ HistoryIsComplete /\ KeyAnswersOneCommand

\* What drivers recorded for good, an acceptance and the outcome of a stop, no
\* request that read the attempt earlier takes back.
NothingIsTakenBack == AcceptedIsFinal /\ StopOutcomeIsKept
=============================================================================
