---------------------------- MODULE FactConsumer ----------------------------
(***************************************************************************)
(* The pickup.fact.accepted consumer of the shipment service: pull workers *)
(* (replicas) run handlers on threads; every handler of a replica goes     *)
(* through the replica's one coordinator and one                           *)
(* SqlAlchemyAcceptedFactStore, whose _session is the open transaction.    *)
(* A handler inserts the inbox row, applies the fact to its shipment,      *)
(* marks the row and commits, and only then answers JetStream.             *)
(*                                                                         *)
(* Abstractions.  A transaction is the set of writes it would commit; the  *)
(* unique keys (consumer, event) and (decision, shipment), row locks and   *)
(* the version compare-and-swap are PostgreSQL's at READ COMMITTED.        *)
(* Acceptance writes the decision, the event and the audit row together:   *)
(* "decision" stands for the three.  The list of deferred broker answers   *)
(* is not modelled entry by entry: an answer may be lost at any time.      *)
(* Failures are bounded by MaxErrors, MaxCrashes and MaxLost.              *)
(***************************************************************************)
EXTENDS Naturals, FiniteSets

CONSTANTS
    Facts,         \* events of the durable consumer
    Malformed,     \* facts the contract validation rejects
    Unfit,         \* facts whose shipment, identifier or evidence is refused
    Shipments,
    ShipmentOf,    \* Facts -> Shipments
    Replicas,      \* worker processes
    Handlers,      \* handler threads (handler_concurrency per replica)
    ReplicaOf,     \* Handlers -> Replicas
    NoFact, NoSession,
    MaxDeliver,    \* JetStream max_deliver of the consumer
    MaxAttempts,   \* inbox_max_attempts
    MaxErrors,     \* bound: unexpected database errors considered
    MaxCrashes,    \* bound: replica crashes considered
    MaxLost        \* bound: answers lost, or later than ack_wait

ASSUME ConsumerConstants ==
    /\ Malformed \subseteq Facts
    /\ Unfit \subseteq Facts
    /\ ShipmentOf \in [Facts -> Shipments]
    /\ ReplicaOf \in [Handlers -> Replicas]
    /\ NoFact \notin Facts
    /\ MaxDeliver \in Nat /\ MaxAttempts \in Nat
    /\ MaxErrors \in Nat /\ MaxCrashes \in Nat /\ MaxLost \in Nat

VARIABLES
    msg,          \* JetStream: "ready", "out" (delivered, unanswered) or "acked"
    deliveries,   \* how often the message was delivered
    inbox,        \* committed status of the fact's inbox row, or "none"
    attempts,     \* attempt_count of the row
    leaseLive,    \* processing_lease_until is in the future
    decision,     \* committed acceptance decision of each shipment
    holder,       \* committed fact whose driver has custody of each shipment
    version,      \* committed version of each shipment
    session,      \* per replica: the writes of the store's _session
    versions,     \* per replica: _shipment_versions (0 where absent)
    pc, fact,     \* per handler: program counter and the fact it handles
    poison,       \* per handler: it is in _quarantine_permanent
    readVersion,  \* per handler: version of the shipment object it loaded
    answer,       \* per handler: what it will answer JetStream
    errors, crashes, lost

broker   == <<msg, deliveries>>
database == <<inbox, attempts, leaseLive, decision, holder, version>>
store    == <<session, versions>>
thread   == <<pc, fact, poison, readVersion, answer>>
budgets  == <<errors, crashes, lost>>
vars     == <<broker, database, store, thread, budgets>>

-----------------------------------------------------------------------------
InboxStatus == {"PROCESSING", "PROCESSED", "QUARANTINED"}
Verdicts    == {"PROCESSED", "QUARANTINED"}

(* The writes of a transaction: inbox rows by fact, rows inserted or        *)
(* reclaimed with a fresh lease, decisions added, shipments updated.        *)
EmptySession == [broken   |-> FALSE,
                 inbox    |-> [f \in Facts |-> "none"],
                 claimed  |-> {},
                 decided  |-> {},
                 holder   |-> [s \in Shipments |-> NoFact],
                 version  |-> [s \in Shipments |-> 0]]

Session == [broken  : BOOLEAN,
            inbox   : [Facts -> InboxStatus \cup {"none"}],
            claimed : SUBSET Facts,
            decided : SUBSET Facts,
            holder  : [Shipments -> Facts \cup {NoFact}],
            version : [Shipments -> Nat]]

ASSUME NoSessionIsNone == NoSession \notin Session

Steps == {"idle", "begin", "checked", "insert", "read", "save", "mark",
          "commit", "answer"}

TypeOK ==
    /\ msg \in [Facts -> {"ready", "out", "acked"}]
    /\ deliveries \in [Facts -> 0..MaxDeliver]
    /\ inbox \in [Facts -> InboxStatus \cup {"none"}]
    /\ attempts \in [Facts -> Nat]
    /\ leaseLive \in [Facts -> BOOLEAN]
    /\ decision \in [Shipments -> Facts \cup {NoFact}]
    /\ holder \in [Shipments -> Facts \cup {NoFact}]
    /\ version \in [Shipments -> Nat]
    /\ session \in [Replicas -> Session \cup {NoSession}]
    /\ versions \in [Replicas -> [Shipments -> Nat]]
    /\ pc \in [Handlers -> Steps]
    /\ fact \in [Handlers -> Facts \cup {NoFact}]
    /\ poison \in [Handlers -> BOOLEAN]
    /\ readVersion \in [Handlers -> Nat]
    /\ answer \in [Handlers -> {"none", "ACK", "NAK"}]
    /\ errors \in 0..MaxErrors
    /\ crashes \in 0..MaxCrashes
    /\ lost \in 0..MaxLost

Init ==
    /\ msg = [f \in Facts |-> "ready"]
    /\ deliveries = [f \in Facts |-> 0]
    /\ inbox = [f \in Facts |-> "none"]
    /\ attempts = [f \in Facts |-> 0]
    /\ leaseLive = [f \in Facts |-> FALSE]
    /\ decision = [s \in Shipments |-> NoFact]
    /\ holder = [s \in Shipments |-> NoFact]
    /\ version = [s \in Shipments |-> 1]
    /\ session = [r \in Replicas |-> NoSession]
    /\ versions = [r \in Replicas |-> [s \in Shipments |-> 0]]
    /\ pc = [h \in Handlers |-> "idle"]
    /\ fact = [h \in Handlers |-> NoFact]
    /\ poison = [h \in Handlers |-> FALSE]
    /\ readVersion = [h \in Handlers |-> 0]
    /\ answer = [h \in Handlers |-> "none"]
    /\ errors = 0 /\ crashes = 0 /\ lost = 0

-----------------------------------------------------------------------------
(* What a session sees: its own writes over the committed rows. *)
Open(r)   == session[r] # NoSession
Usable(r) == Open(r) /\ ~session[r].broken

RowSeen(r, f) ==
    IF Usable(r) /\ session[r].inbox[f] # "none" THEN session[r].inbox[f] ELSE inbox[f]
LeaseSeen(r, f) ==
    IF Usable(r) /\ f \in session[r].claimed THEN TRUE ELSE leaseLive[f]
VersionSeen(r, s) ==
    IF Usable(r) /\ session[r].version[s] # 0 THEN session[r].version[s] ELSE version[s]
HolderSeen(r, s) ==
    IF Usable(r) /\ session[r].version[s] # 0 THEN session[r].holder[s] ELSE holder[s]

(* A write of the same key by another replica's open transaction blocks.    *)
Others(r) == {q \in Replicas \ {r} : Usable(q)}
InboxKeyFree(r, f) == \A q \in Others(r) : session[q].inbox[f] = "none"
ShipmentRowFree(r, s) == \A q \in Others(r) : session[q].version[s] = 0

Goto(h, step) == pc' = [pc EXCEPT ![h] = step]

(* The handler leaves its transaction and will answer JetStream with a. *)
AnswerWith(h, a) ==
    /\ Goto(h, "answer")
    /\ answer' = [answer EXCEPT ![h] = a]
    /\ UNCHANGED <<fact, poison, readVersion>>

(* Mutated form of Unhandled: the worker swallows the exception and ACKs. *)
MutUnhandledAcks(h) == AnswerWith(h, "ACK") /\ UNCHANGED store

(* An exception the coordinator does not catch: the worker NAKs, and the    *)
(* store keeps whatever _session it has.                                    *)
Unhandled(h) == AnswerWith(h, "NAK") /\ UNCHANGED store

SetSession(r, x) ==
    /\ session' = [session EXCEPT ![r] = x]
    /\ versions' = [versions EXCEPT ![r] = [s \in Shipments |-> 0]]

Rollback(r) == SetSession(r, NoSession)

(* Mutated form of Poison: a refused fact is marked processed all the same. *)
MutPoisonConverges(h) ==
    /\ Goto(h, "mark")
    /\ UNCHANGED <<fact, poison, readVersion, answer, store>>

(* Mutated form of Poison: a refused fact is retried and never quarantined. *)
MutPoisonRetries(h) ==
    /\ Rollback(ReplicaOf[h])
    /\ AnswerWith(h, "NAK")

(* PoisonHandlerError: roll back, then start over in _quarantine_permanent. *)
Poison(h) ==
    /\ Rollback(ReplicaOf[h])
    /\ Goto(h, "begin")
    /\ poison' = [poison EXCEPT ![h] = TRUE]
    /\ UNCHANGED <<fact, readVersion, answer>>

-----------------------------------------------------------------------------
(* Mutated form of Deliverable: max_deliver counted from one. *)
MutDeliverableOnceMore(f) == msg[f] = "ready" /\ deliveries[f] <= MaxDeliver

(* JetStream delivers a message at most max_deliver times. *)
Deliverable(f) == msg[f] = "ready" /\ deliveries[f] < MaxDeliver

(* The worker hands a fetched message to a handler thread.  Facts that fail *)
(* the contract validation go straight to _quarantine_permanent.            *)
Fetch(h, f) ==
    /\ pc[h] = "idle"
    /\ Deliverable(f)
    /\ msg' = [msg EXCEPT ![f] = "out"]
    /\ deliveries' = [deliveries EXCEPT ![f] = @ + 1]
    /\ Goto(h, "begin")
    /\ fact' = [fact EXCEPT ![h] = f]
    /\ poison' = [poison EXCEPT ![h] = f \in Malformed]
    /\ UNCHANGED <<readVersion, answer, database, store, budgets>>

(* begin() raises when the store already has a session. *)
BeginCheck(h) ==
    /\ pc[h] = "begin"
    /\ IF Open(ReplicaOf[h]) THEN Unhandled(h)
       ELSE Goto(h, "checked") /\ UNCHANGED <<fact, poison, readVersion, answer, store>>
    /\ UNCHANGED <<broker, database, budgets>>

(* begin() installs a fresh session over whatever is there by now; one it   *)
(* replaces is garbage and its writes are gone.                             *)
BeginSet(h) ==
    /\ pc[h] = "checked"
    /\ SetSession(ReplicaOf[h], EmptySession)
    /\ Goto(h, "insert")
    /\ UNCHANGED <<fact, poison, readVersion, answer, broker, database, budgets>>

(* try_insert_received finds no row: the row is inserted as PROCESSING, or  *)
(* in _quarantine_permanent directly marked QUARANTINED.                    *)
InsertReceived(h) ==
    LET r == ReplicaOf[h]
        f == fact[h]
    IN  /\ pc[h] = "insert"
        /\ Usable(r)
        /\ InboxKeyFree(r, f)
        /\ RowSeen(r, f) = "none"
        /\ session' = [session EXCEPT
              ![r].inbox[f] = IF poison[h] THEN "QUARANTINED" ELSE "PROCESSING",
              ![r].claimed = @ \cup {f}]
        /\ Goto(h, IF poison[h] THEN "commit" ELSE "read")
        /\ UNCHANGED <<versions, fact, poison, readVersion, answer, broker,
                       database, budgets>>

(* The row is claimable again: PROCESSING with an expired lease. *)
Expired(r, f) == RowSeen(r, f) = "PROCESSING" /\ ~LeaseSeen(r, f)

(* _handle_duplicate of a terminal row: roll back and ACK. *)
DuplicateTerminal(h) ==
    LET r == ReplicaOf[h]
        f == fact[h]
    IN  /\ pc[h] = "insert"
        /\ Usable(r)
        /\ InboxKeyFree(r, f)
        /\ \/ RowSeen(r, f) = "PROCESSED"
           \/ ~poison[h] /\ RowSeen(r, f) = "QUARANTINED"
        /\ Rollback(r)
        /\ AnswerWith(h, "ACK")
        /\ UNCHANGED <<broker, database, budgets>>

(* _handle_duplicate of a row another handler is processing: roll back and  *)
(* defer (a NAK with a delay).                                              *)
DuplicateActive(h) ==
    LET r == ReplicaOf[h]
        f == fact[h]
    IN  /\ pc[h] = "insert"
        /\ Usable(r)
        /\ InboxKeyFree(r, f)
        /\ ~poison[h]
        /\ RowSeen(r, f) = "PROCESSING" /\ LeaseSeen(r, f)
        /\ Rollback(r)
        /\ AnswerWith(h, "NAK")
        /\ UNCHANGED <<broker, database, budgets>>

(* _handle_duplicate of a row whose lease expired: quarantine it when its   *)
(* attempts are used up, otherwise reclaim it and go on.                    *)
DuplicateReclaim(h) ==
    LET r == ReplicaOf[h]
        f == fact[h]
        exhausted == MaxAttempts > 0 /\ attempts[f] + 1 >= MaxAttempts
    IN  /\ pc[h] = "insert"
        /\ Usable(r)
        /\ InboxKeyFree(r, f)
        /\ ~poison[h]
        /\ Expired(r, f)
        /\ session' = [session EXCEPT
              ![r].inbox[f] = IF exhausted THEN "QUARANTINED" ELSE "PROCESSING",
              ![r].claimed = IF exhausted THEN @ ELSE @ \cup {f}]
        /\ Goto(h, IF exhausted THEN "commit" ELSE "read")
        /\ UNCHANGED <<versions, fact, poison, readVersion, answer, broker,
                       database, budgets>>

(* _quarantine_permanent over an existing row that is not PROCESSED. *)
QuarantineExisting(h) ==
    LET r == ReplicaOf[h]
        f == fact[h]
    IN  /\ pc[h] = "insert"
        /\ Usable(r)
        /\ InboxKeyFree(r, f)
        /\ poison[h]
        /\ RowSeen(r, f) \in {"PROCESSING", "QUARANTINED"}
        /\ session' = [session EXCEPT ![r].inbox[f] = "QUARANTINED"]
        /\ Goto(h, "commit")
        /\ UNCHANGED <<versions, fact, poison, readVersion, answer, broker,
                       database, budgets>>

(* apply: the shipment and its decision are read.  A pre-existing decision, *)
(* custody, or an unfit fact is poison.  Pending decisions of the session   *)
(* are not flushed, so only committed ones are seen.                        *)
ReadShipment(h) ==
    LET r == ReplicaOf[h]
        s == ShipmentOf[fact[h]]
    IN  /\ pc[h] = "read"
        /\ ~Open(r) \/ Usable(r)
        /\ IF \/ fact[h] \in Unfit
              \/ decision[s] # NoFact
              \/ HolderSeen(r, s) # NoFact
           THEN Poison(h)
           ELSE /\ versions' = [versions EXCEPT ![r][s] = VersionSeen(r, s)]
                /\ readVersion' = [readVersion EXCEPT ![h] = VersionSeen(r, s)]
                /\ Goto(h, "save")
                /\ UNCHANGED <<session, fact, poison, answer>>
        /\ UNCHANGED <<broker, database, budgets>>

(* apply: event, audit row and decision are added, then save_shipment       *)
(* updates the row if its version is the one the store remembers.           *)
ExpectedVersion(r, s) == IF versions[r][s] # 0 THEN versions[r][s] ELSE VersionSeen(r, s)

SaveShipment(h) ==
    LET r == ReplicaOf[h]
        f == fact[h]
        s == ShipmentOf[f]
    IN  /\ pc[h] = "save"
        /\ Usable(r)
        /\ ShipmentRowFree(r, s)
        /\ VersionSeen(r, s) = ExpectedVersion(r, s)
        /\ session' = [session EXCEPT
              ![r].decided = @ \cup {f},
              ![r].holder[s] = f,
              ![r].version[s] = readVersion[h] + 1]
        /\ versions' = [versions EXCEPT ![r][s] = readVersion[h] + 1]
        /\ Goto(h, "mark")
        /\ UNCHANGED <<fact, poison, readVersion, answer, broker, database, budgets>>

(* ... otherwise DB_SERIALIZATION_FAILURE: roll back and NAK. *)
SaveStale(h) ==
    LET r == ReplicaOf[h]
        s == ShipmentOf[fact[h]]
    IN  /\ pc[h] = "save"
        /\ Usable(r)
        /\ ShipmentRowFree(r, s)
        /\ VersionSeen(r, s) # ExpectedVersion(r, s)
        /\ Rollback(r)
        /\ AnswerWith(h, "NAK")
        /\ UNCHANGED <<broker, database, budgets>>

(* mark_processed: the row must be visible to the session. *)
MarkProcessed(h) ==
    LET r == ReplicaOf[h]
    IN  /\ pc[h] = "mark"
        /\ Usable(r)
        /\ RowSeen(r, fact[h]) # "none"
        /\ session' = [session EXCEPT ![r].inbox[fact[h]] = "PROCESSED"]
        /\ Goto(h, "commit")
        /\ UNCHANGED <<versions, fact, poison, readVersion, answer, broker,
                       database, budgets>>

(* What a commit of replica r makes durable. *)
CommitWrites(r) ==
    LET w == session[r]
    IN  /\ inbox' = [f \in Facts |-> IF w.inbox[f] # "none" THEN w.inbox[f] ELSE inbox[f]]
        /\ attempts' = [f \in Facts |->
               IF f \in w.claimed THEN attempts[f] + 1 ELSE attempts[f]]
        /\ leaseLive' = [f \in Facts |->
               IF w.inbox[f] = "none" THEN leaseLive[f]
               ELSE w.inbox[f] = "PROCESSING" /\ (f \in w.claimed \/ leaseLive[f])]
        /\ decision' = [s \in Shipments |->
               IF \E f \in w.decided : ShipmentOf[f] = s
               THEN CHOOSE f \in w.decided : ShipmentOf[f] = s ELSE decision[s]]
        /\ holder' = [s \in Shipments |-> IF w.version[s] # 0 THEN w.holder[s] ELSE holder[s]]
        /\ version' = [s \in Shipments |-> IF w.version[s] # 0 THEN w.version[s] ELSE version[s]]

(* Mutated form of DecisionsUnique: no unique key on the decisions. *)
MutDecisionsAnyNumber(r) == TRUE

(* Unique decision per shipment, checked when the commit flushes. *)
DecisionsUnique(r) ==
    \A f \in session[r].decided :
        /\ decision[ShipmentOf[f]] = NoFact
        /\ \A g \in session[r].decided : ShipmentOf[g] = ShipmentOf[f] => g = f

Commit(h) ==
    LET r == ReplicaOf[h]
    IN  /\ pc[h] = "commit"
        /\ Usable(r)
        /\ IF DecisionsUnique(r)
           THEN CommitWrites(r) /\ AnswerWith(h, "ACK")
           ELSE UNCHANGED database /\ AnswerWith(h, "NAK")
        /\ Rollback(r)
        /\ UNCHANGED <<broker, budgets>>

(* The session the handler relied on is gone or unusable: RuntimeError or a *)
(* database error leaves the coordinator.  apply's reads need no session,   *)
(* and commit() clears a session it cannot commit.                          *)
SessionGone(h) ==
    LET r == ReplicaOf[h]
    IN  /\ \/ pc[h] \in {"insert", "save", "mark", "commit"} /\ ~Usable(r)
           \/ pc[h] = "read" /\ Open(r) /\ ~Usable(r)
           \/ pc[h] = "mark" /\ Usable(r) /\ RowSeen(r, fact[h]) = "none"
        /\ AnswerWith(h, "NAK")
        /\ IF pc[h] = "commit" THEN Rollback(r) ELSE UNCHANGED store
        /\ UNCHANGED <<broker, database, budgets>>

(* The deferred answer is applied on the event loop. *)
Answer(h) ==
    /\ pc[h] = "answer"
    /\ LET f == fact[h]
       IN  msg' = [msg EXCEPT ![f] = IF @ = "acked" \/ answer[h] = "ACK" THEN "acked"
                                     ELSE "ready"]
    /\ Goto(h, "idle")
    /\ answer' = [answer EXCEPT ![h] = "none"]
    /\ fact' = [fact EXCEPT ![h] = NoFact]
    /\ UNCHANGED <<poison, readVersion, deliveries, database, store, budgets>>

-----------------------------------------------------------------------------
(* Failures and time. *)

(* A database error (a lost connection) in the middle of a transaction: it  *)
(* is neither Retryable nor Poison, so nobody rolls back or clears the      *)
(* store's _session.                                                        *)
DbError(h) ==
    /\ pc[h] \in {"insert", "read", "save", "mark"}
    /\ Usable(ReplicaOf[h])
    /\ errors < MaxErrors
    /\ errors' = errors + 1
    /\ session' = [session EXCEPT ![ReplicaOf[h]] = [EmptySession EXCEPT !.broken = TRUE]]
    /\ AnswerWith(h, "NAK")
    /\ UNCHANGED <<versions, broker, database, crashes, lost>>

(* A database error in commit(): the session is cleared; the writes may or  *)
(* may not have become durable.                                             *)
CommitError(h) ==
    LET r == ReplicaOf[h]
    IN  /\ pc[h] = "commit"
        /\ Usable(r)
        /\ errors < MaxErrors
        /\ errors' = errors + 1
        /\ \/ UNCHANGED database
           \/ DecisionsUnique(r) /\ CommitWrites(r)
        /\ Rollback(r)
        /\ AnswerWith(h, "NAK")
        /\ UNCHANGED <<broker, crashes, lost>>

(* A replica process dies and is started again. *)
Crash(r) ==
    /\ crashes < MaxCrashes
    /\ crashes' = crashes + 1
    /\ Rollback(r)
    /\ pc' = [h \in Handlers |-> IF ReplicaOf[h] = r THEN "idle" ELSE pc[h]]
    /\ fact' = [h \in Handlers |-> IF ReplicaOf[h] = r THEN NoFact ELSE fact[h]]
    /\ answer' = [h \in Handlers |-> IF ReplicaOf[h] = r THEN "none" ELSE answer[h]]
    /\ UNCHANGED <<poison, readVersion, broker, database, errors, lost>>

(* An answer does not reach the broker. *)
LoseAnswer(h) ==
    /\ pc[h] = "answer"
    /\ lost < MaxLost
    /\ lost' = lost + 1
    /\ Goto(h, "idle")
    /\ answer' = [answer EXCEPT ![h] = "none"]
    /\ fact' = [fact EXCEPT ![h] = NoFact]
    /\ UNCHANGED <<poison, readVersion, broker, database, store, errors, crashes>>

HandledNow(f) == \E h \in Handlers : fact[h] = f

(* ack_wait passes: the message is redelivered, after its handler is gone   *)
(* or, within the budget, while it is still at work.                        *)
AckWaitPasses(f) ==
    /\ msg[f] = "out"
    /\ \/ ~HandledNow(f) /\ UNCHANGED lost
       \/ HandledNow(f) /\ lost < MaxLost /\ lost' = lost + 1
    /\ msg' = [msg EXCEPT ![f] = "ready"]
    /\ UNCHANGED <<deliveries, database, store, thread, errors, crashes>>

(* processing_lease_until of a committed PROCESSING row passes. *)
LeaseLapses(f) ==
    /\ leaseLive[f]
    /\ leaseLive' = [leaseLive EXCEPT ![f] = FALSE]
    /\ UNCHANGED <<broker, inbox, attempts, decision, holder, version, store,
                   thread, budgets>>

HandlerStep(h) ==
    \/ BeginCheck(h) \/ BeginSet(h)
    \/ InsertReceived(h) \/ DuplicateTerminal(h) \/ DuplicateActive(h)
    \/ DuplicateReclaim(h) \/ QuarantineExisting(h)
    \/ ReadShipment(h) \/ SaveShipment(h) \/ SaveStale(h)
    \/ MarkProcessed(h) \/ Commit(h) \/ SessionGone(h) \/ Answer(h)

Next ==
    \/ \E h \in Handlers : \/ \E f \in Facts : Fetch(h, f)
                           \/ HandlerStep(h)
                           \/ DbError(h) \/ CommitError(h) \/ LoseAnswer(h)
    \/ \E r \in Replicas : Crash(r)
    \/ \E f \in Facts : AckWaitPasses(f) \/ LeaseLapses(f)

Spec == Init /\ [][Next]_vars

(* The worker keeps fetching and handling, locks are granted, answers are   *)
(* applied, ack_wait and leases pass.                                       *)
Fairness ==
    /\ \A h \in Handlers : WF_vars(HandlerStep(h))
    /\ \A f \in Facts : /\ SF_vars(\E h \in Handlers : Fetch(h, f))
                        /\ WF_vars(AckWaitPasses(f))
                        /\ WF_vars(LeaseLapses(f))

FairSpec == Spec /\ Fairness

-----------------------------------------------------------------------------
(* Properties *)

(* Two handlers of a replica have both found no session in begin() and are  *)
(* about to install theirs: the test and the set are not one step there.    *)
(* One that comes later finds the session of the first, and is refused.     *)
BeginRace ==
    \E g, h \in Handlers : /\ g # h /\ ReplicaOf[g] = ReplicaOf[h]
                            /\ pc[g] = "checked" /\ pc[h] = "checked"

(* Inbox row and custody commit together: a fact's row says PROCESSED       *)
(* exactly when its acceptance is the shipment's decision and custody.  So  *)
(* for any number of handlers on a replica, until BeginRace.                *)
ProcessedIsApplied ==
    /\ \A f \in Facts :
          inbox[f] = "PROCESSED" <=> (holder[ShipmentOf[f]] = f)
    /\ \A s \in Shipments :
          /\ decision[s] = holder[s]
          /\ version[s] = IF holder[s] = NoFact THEN 1 ELSE 2

(* JetStream forgets a message only once its verdict is durable: whatever   *)
(* is acked has been applied or quarantined.  BeginRace breaks it.          *)
AckedIsDecided == \A f \in Facts : msg[f] = "acked" => inbox[f] \in Verdicts

(* The consumer seen as AcceptOnce: the inbox row is the verdict.           *)
VerdictOf == [f \in Facts |-> CASE inbox[f] = "PROCESSED"   -> "applied"
                               [] inbox[f] = "QUARANTINED" -> "refused"
                               [] OTHER                    -> "none"]
Acked == {f \in Facts : msg[f] = "acked"}

Promise == INSTANCE AcceptOnce WITH verdict <- VerdictOf, custody <- holder,
                                    forgotten <- Acked

(* Until BeginRace the handlers of a replica implement AcceptOnce: verdicts *)
(* are final, only an applied fact starts custody, acks follow verdicts.    *)
AcceptsOnce == Promise!Spec

(* Custody that started is never restarted by another fact, nor its         *)
(* decision replaced, not even when handlers share a session.               *)
CustodyStays ==
    \A s \in Shipments :
        /\ holder[s] # NoFact => holder'[s] = holder[s]
        /\ decision[s] # NoFact => decision'[s] = decision[s]

CustodyStartsOnce == [][CustodyStays]_vars

(* The deliveries of f are used up, which takes a failed statement, whose   *)
(* session nobody clears, so that begin() refuses whatever comes after; or  *)
(* crashes: one for each delivery but the one a version race may cost.      *)
UsedUp(f) ==
    /\ deliveries[f] = MaxDeliver
    /\ errors > 0 \/ crashes + 1 >= MaxDeliver

(* Every fact is eventually applied or quarantined, or its deliveries are   *)
(* used up by failures that account for it: answers that are lost or late,  *)
(* and a competing fact, never starve it.  So for one handler on a replica; *)
(* several use up each other's deliveries at begin().                       *)
EventuallyDecided == \A f \in Facts : <>(inbox[f] \in Verdicts \/ UsedUp(f))
=============================================================================
