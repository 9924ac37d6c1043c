------------------------- MODULE FactConsumerProofs -------------------------
(***************************************************************************)
(* The consumer keeps what AcceptOnce promises for any number of facts,    *)
(* shipments, replicas, handlers on a replica, crashes, lost answers and   *)
(* database errors, as long as begin() tests and sets as one: until two    *)
(* handlers of a replica are between its test and its set (BeginRace).     *)
(*                                                                         *)
(* Then one handler at most is in a transaction of its replica (Alone):    *)
(* begin() refuses the others.  It knows what the open session holds       *)
(* (HandlerIs): its own fact's row, and from save_shipment on the one      *)
(* shipment of that fact.  The keys and the row it has written exclude     *)
(* every other transaction (Excludes), so what it read of the committed    *)
(* rows is still true when it commits.  After BeginRace only the section   *)
(* on shared sessions holds: custody starts once.                          *)
(***************************************************************************)
EXTENDS FactConsumer, TLAPS

Working == {"insert", "read", "save", "mark", "commit"}

\* One handler of a replica has passed the test of begin() and not yet ended.
InTransaction(h) == pc[h] \in Working \cup {"checked"}

Alone ==
    \A g, h \in Handlers :
        ReplicaOf[g] = ReplicaOf[h] /\ InTransaction(g) /\ InTransaction(h) => g = h

Work(h) == session[ReplicaOf[h]]

\* The handler's transaction has written the inbox row of its fact, or the
\* decision and the shipment.
HasRow(h) == pc[h] \in Working /\ Work(h).inbox[fact[h]] # "none"
Decides(h) == pc[h] \in Working /\ fact[h] \in Work(h).decided

\* What the open transaction of a handler holds, by how far the handler is.
TransactionIs(h) ==
    /\ Work(h) \in Session /\ ~Work(h).broken
    /\ \A f \in Facts : Work(h).inbox[f] # "none" => f = fact[h]
    /\ \A s \in Shipments : Work(h).version[s] # 0 => s = ShipmentOf[fact[h]]
    /\ Work(h).decided \subseteq {fact[h]}
    /\ IF Decides(h)
       THEN /\ Work(h).version[ShipmentOf[fact[h]]] = 2
            /\ Work(h).holder[ShipmentOf[fact[h]]] = fact[h]
       ELSE Work(h).version[ShipmentOf[fact[h]]] = 0
    /\ pc[h] = "insert" => ~HasRow(h) /\ ~Decides(h)
    /\ pc[h] \in {"read", "save"} =>
          Work(h).inbox[fact[h]] = "PROCESSING" /\ ~Decides(h)
    /\ pc[h] = "save" =>
          readVersion[h] = 1 /\ versions[ReplicaOf[h]][ShipmentOf[fact[h]]] = 1
    /\ pc[h] = "mark" => Work(h).inbox[fact[h]] = "PROCESSING" /\ Decides(h)
    /\ pc[h] = "commit" =>
          Work(h).inbox[fact[h]] = IF Decides(h) THEN "PROCESSED" ELSE "QUARANTINED"

\* What the committed rows still are for it.
RowsStand(h) ==
    /\ HasRow(h) => inbox[fact[h]] # "PROCESSED"
    /\ HasRow(h) /\ Work(h).inbox[fact[h]] # "QUARANTINED" => inbox[fact[h]] \notin Verdicts
    /\ Decides(h) => holder[ShipmentOf[fact[h]]] = NoFact

HandlerIs(h) ==
    /\ pc[h] # "idle" => fact[h] \in Facts
    /\ pc[h] \in Working => TransactionIs(h)
    /\ RowsStand(h)
    /\ answer[h] = "ACK" => pc[h] = "answer" /\ inbox[fact[h]] \in Verdicts

Excludes(h, g) ==
    /\ HasRow(h) /\ HasRow(g) => fact[h] # fact[g]
    /\ Decides(h) /\ Decides(g) => ShipmentOf[fact[h]] # ShipmentOf[fact[g]]

IInv ==
    /\ TypeOK /\ ProcessedIsApplied /\ AckedIsDecided /\ Alone
    /\ \A h \in Handlers : HandlerIs(h)
    /\ \A h, g \in Handlers : h # g => Excludes(h, g)

-----------------------------------------------------------------------------
(* Types *)

Busy == \A h \in Handlers : pc[h] # "idle" => fact[h] \in Facts

Typed == TypeOK /\ Busy

LEMMA EmptyTyped == EmptySession \in Session /\ [EmptySession EXCEPT !.broken = TRUE] \in Session
  BY DEF EmptySession, Session

\* Rollback, and a session that is written to, leave the store well typed.
LEMMA StoreTyped ==
    ASSUME TypeOK, NEW r \in Replicas, NEW x \in Session \cup {NoSession}, SetSession(r, x)
    PROVE  /\ session' \in [Replicas -> Session \cup {NoSession}]
           /\ versions' \in [Replicas -> [Shipments -> Nat]]
  BY DEF TypeOK, SetSession

LEMMA CommitTyped ==
    ASSUME TypeOK, NEW r \in Replicas, Usable(r), CommitWrites(r)
    PROVE  /\ inbox' \in [Facts -> InboxStatus \cup {"none"}]
           /\ attempts' \in [Facts -> Nat]
           /\ leaseLive' \in [Facts -> BOOLEAN]
           /\ decision' \in [Shipments -> Facts \cup {NoFact}]
           /\ holder' \in [Shipments -> Facts \cup {NoFact}]
           /\ version' \in [Shipments -> Nat]
<1>1. session[r] \in Session
  BY DEF TypeOK, Usable, Open
<1>2. /\ session[r].inbox \in [Facts -> InboxStatus \cup {"none"}]
      /\ session[r].holder \in [Shipments -> Facts \cup {NoFact}]
      /\ session[r].version \in [Shipments -> Nat]
      /\ session[r].decided \in SUBSET Facts
  BY <1>1 DEF Session
<1>3. inbox' \in [Facts -> InboxStatus \cup {"none"}]
  BY <1>2 DEF TypeOK, CommitWrites
<1>4. attempts' \in [Facts -> Nat]
  BY DEF TypeOK, CommitWrites
<1>5. leaseLive' \in [Facts -> BOOLEAN]
  <2>1. ASSUME NEW f \in Facts
        PROVE  (IF session[r].inbox[f] = "none" THEN leaseLive[f]
                ELSE session[r].inbox[f] = "PROCESSING"
                       /\ (f \in session[r].claimed \/ leaseLive[f])) \in BOOLEAN
    BY Zenon DEF TypeOK
  <2>. QED  BY <2>1, Zenon DEF CommitWrites
<1>6. decision' \in [Shipments -> Facts \cup {NoFact}]
  <2>1. ASSUME NEW s \in Shipments, \E f \in session[r].decided : ShipmentOf[f] = s
        PROVE  (CHOOSE f \in session[r].decided : ShipmentOf[f] = s) \in Facts
    BY <1>2, <2>1
  <2>2. ASSUME NEW s \in Shipments
        PROVE  (IF \E f \in session[r].decided : ShipmentOf[f] = s
                THEN CHOOSE f \in session[r].decided : ShipmentOf[f] = s
                ELSE decision[s]) \in Facts \cup {NoFact}
    BY <2>1 DEF TypeOK
  <2>. QED  BY <2>2, Zenon DEF CommitWrites
<1>7. holder' \in [Shipments -> Facts \cup {NoFact}] /\ version' \in [Shipments -> Nat]
  BY <1>2 DEF TypeOK, CommitWrites
<1>. QED  BY <1>3, <1>4, <1>5, <1>6, <1>7

\* Every step of a handler that leaves broker, database and budgets alone.
LEMMA HandlerTyped ==
    ASSUME Typed, NEW h \in Handlers,
           \/ BeginCheck(h) \/ BeginSet(h) \/ InsertReceived(h) \/ DuplicateTerminal(h)
           \/ DuplicateActive(h) \/ DuplicateReclaim(h) \/ QuarantineExisting(h)
           \/ ReadShipment(h) \/ SaveShipment(h) \/ SaveStale(h) \/ MarkProcessed(h)
           \/ SessionGone(h)
    PROVE  Typed'
<1> DEFINE r == ReplicaOf[h]
           f == fact[h]
<1>1. /\ r \in Replicas /\ UNCHANGED <<broker, database, budgets>>
      /\ pc[h] # "idle" => f \in Facts /\ ShipmentOf[f] \in Shipments
  BY ConsumerConstants DEF Typed, Busy, BeginCheck, BeginSet, InsertReceived, DuplicateTerminal,
     DuplicateActive, DuplicateReclaim, QuarantineExisting, ReadShipment, SaveShipment, SaveStale,
     MarkProcessed, SessionGone
<1>2. Usable(r) => /\ session[r] \in Session
                   /\ session[r].inbox \in [Facts -> InboxStatus \cup {"none"}]
                   /\ session[r].claimed \in SUBSET Facts /\ session[r].decided \in SUBSET Facts
                   /\ session[r].holder \in [Shipments -> Facts \cup {NoFact}]
                   /\ session[r].version \in [Shipments -> Nat]
  BY <1>1 DEF Typed, TypeOK, Usable, Open, Session
<1>3. ASSUME /\ session' \in [Replicas -> Session \cup {NoSession}]
             /\ versions' \in [Replicas -> [Shipments -> Nat]]
             /\ pc' \in [Handlers -> Steps] /\ fact' = fact
             /\ \A g \in Handlers : pc'[g] # "idle" => pc[g] # "idle"
             /\ poison' \in [Handlers -> BOOLEAN] /\ readVersion' \in [Handlers -> Nat]
             /\ answer' \in [Handlers -> {"none", "ACK", "NAK"}]
      PROVE  Typed'
  BY <1>1, <1>3 DEF Typed, TypeOK, Busy, broker, database, budgets
<1>4. ASSUME NEW a \in {"ACK", "NAK"}, AnswerWith(h, a), pc[h] # "idle"
      PROVE  /\ pc' \in [Handlers -> Steps] /\ fact' = fact
             /\ \A g \in Handlers : pc'[g] # "idle" => pc[g] # "idle"
             /\ poison' \in [Handlers -> BOOLEAN] /\ readVersion' \in [Handlers -> Nat]
             /\ answer' \in [Handlers -> {"none", "ACK", "NAK"}]
  BY <1>4 DEF Typed, TypeOK, AnswerWith, Goto, Steps
<1>5. ASSUME NEW a \in {"ACK", "NAK"}, AnswerWith(h, a), pc[h] # "idle",
             Rollback(r) \/ UNCHANGED store
      PROVE  Typed'
  <2>1. session' \in [Replicas -> Session \cup {NoSession}] /\ versions' \in [Replicas -> [Shipments -> Nat]]
    BY <1>1, <1>5, StoreTyped DEF Typed, TypeOK, Rollback, store
  <2>. QED  BY <1>3, <1>4, <1>5, <2>1
<1>6. CASE BeginCheck(h)
  <2>1. CASE Open(r)
    BY <1>5, <1>6, <2>1 DEF BeginCheck, Unhandled
  <2>2. CASE ~Open(r)
    BY <1>3, <1>6, <2>2 DEF BeginCheck, Goto, store, Typed, TypeOK, Steps
  <2>. QED  BY <2>1, <2>2
<1>7. CASE BeginSet(h)
  <2>1. session' \in [Replicas -> Session \cup {NoSession}] /\ versions' \in [Replicas -> [Shipments -> Nat]]
    BY <1>1, <1>7, StoreTyped, EmptyTyped DEF BeginSet, Typed
  <2>. QED  BY <1>3, <1>7, <2>1 DEF BeginSet, Goto, Typed, TypeOK, Steps
<1>8. CASE InsertReceived(h)
  <2>1. session' \in [Replicas -> Session \cup {NoSession}]
    <3> DEFINE w == [session[r] EXCEPT !.inbox[f] = IF poison[h] THEN "QUARANTINED" ELSE "PROCESSING",
                                       !.claimed = @ \cup {f}]
    <3>1. w \in Session
      BY <1>1, <1>2, <1>8 DEF InsertReceived, Session, InboxStatus
    <3>2. session' = [session EXCEPT ![r] = w]
      BY <1>8, Zenon DEF InsertReceived
    <3> HIDE DEF w
    <3>. QED  BY <3>1, <3>2 DEF Typed, TypeOK
  <2>. QED  BY <1>3, <1>8, <2>1 DEF InsertReceived, Goto, Typed, TypeOK, Steps
<1>9. CASE DuplicateTerminal(h)
  BY <1>5, <1>9 DEF DuplicateTerminal
<1>10. CASE DuplicateActive(h)
  BY <1>5, <1>10 DEF DuplicateActive
<1>11. CASE DuplicateReclaim(h)
  <2> DEFINE exhausted == MaxAttempts > 0 /\ attempts[f] + 1 >= MaxAttempts
  <2>1. session' \in [Replicas -> Session \cup {NoSession}]
    <3> DEFINE w == [session[r] EXCEPT !.inbox[f] = IF exhausted THEN "QUARANTINED" ELSE "PROCESSING",
                                       !.claimed = IF exhausted THEN @ ELSE @ \cup {f}]
    <3>1. w \in Session
      <4> HIDE DEF exhausted
      <4>. QED  BY <1>1, <1>2, <1>11 DEF DuplicateReclaim, Session, InboxStatus
    <3>2. session' = [session EXCEPT ![r] = w]
      BY <1>11, Zenon DEF DuplicateReclaim
    <3> HIDE DEF w
    <3>. QED  BY <3>1, <3>2 DEF Typed, TypeOK
  <2> HIDE DEF exhausted
  <2>2. pc' = [pc EXCEPT ![h] = IF exhausted THEN "commit" ELSE "read"]
    BY <1>11 DEF DuplicateReclaim, Goto, exhausted
  <2>. QED  BY <1>3, <1>11, <2>1, <2>2 DEF DuplicateReclaim, Typed, TypeOK, Steps
<1>12. CASE QuarantineExisting(h)
  <2>1. session' \in [Replicas -> Session \cup {NoSession}]
    <3> DEFINE w == [session[r] EXCEPT !.inbox[f] = "QUARANTINED"]
    <3>1. w \in Session
      BY <1>1, <1>2, <1>12 DEF QuarantineExisting, Session, InboxStatus
    <3>2. session' = [session EXCEPT ![r] = w]
      BY <1>12, Zenon DEF QuarantineExisting
    <3> HIDE DEF w
    <3>. QED  BY <3>1, <3>2 DEF Typed, TypeOK
  <2>. QED  BY <1>3, <1>12, <2>1 DEF QuarantineExisting, Goto, Typed, TypeOK, Steps
<1>13. CASE ReadShipment(h)
  <2> DEFINE refused == \/ fact[h] \in Unfit
                        \/ decision[ShipmentOf[fact[h]]] # NoFact
                        \/ HolderSeen(r, ShipmentOf[fact[h]]) # NoFact
  <2>1. CASE refused
    <3>1. Poison(h)
      BY <1>13, <2>1 DEF ReadShipment
    <3>2. session' \in [Replicas -> Session \cup {NoSession}] /\ versions' \in [Replicas -> [Shipments -> Nat]]
      BY <1>1, <3>1, StoreTyped DEF Poison, Rollback, Typed
    <3>. QED  BY <1>3, <1>13, <3>1, <3>2 DEF ReadShipment, Poison, Goto, Typed, TypeOK, Steps
  <2>2. CASE ~refused
    <3>1. VersionSeen(r, ShipmentOf[f]) \in Nat
      BY <1>1, <1>2, <1>13 DEF ReadShipment, VersionSeen, Typed, TypeOK
    <3>2. /\ versions' = [versions EXCEPT ![r][ShipmentOf[f]] = VersionSeen(r, ShipmentOf[f])]
          /\ readVersion' = [readVersion EXCEPT ![h] = VersionSeen(r, ShipmentOf[f])]
          /\ pc[h] = "read" /\ Goto(h, "save") /\ UNCHANGED <<session, fact, poison, answer>>
      BY <1>13, <2>2 DEF ReadShipment
    <3>. QED  BY <1>1, <1>3, <3>1, <3>2 DEF Goto, Typed, TypeOK, Steps
  <2>. QED  BY <2>1, <2>2
<1>14. CASE SaveShipment(h)
  <2>1. readVersion[h] + 1 \in Nat
    BY DEF Typed, TypeOK
  <2>2. session' \in [Replicas -> Session \cup {NoSession}]
    <3> DEFINE w == [session[r] EXCEPT !.decided = @ \cup {f}, !.holder[ShipmentOf[f]] = f,
                                       !.version[ShipmentOf[f]] = readVersion[h] + 1]
    <3>1. w \in Session
      BY <1>1, <1>2, <1>14, <2>1 DEF SaveShipment, Session
    <3>2. session' = [session EXCEPT ![r] = w]
      BY <1>14, Zenon DEF SaveShipment
    <3> HIDE DEF w
    <3>. QED  BY <3>1, <3>2 DEF Typed, TypeOK
  <2>3. versions' \in [Replicas -> [Shipments -> Nat]]
    BY <1>1, <1>14, <2>1 DEF SaveShipment, Typed, TypeOK
  <2>. QED  BY <1>3, <1>14, <2>2, <2>3 DEF SaveShipment, Goto, Typed, TypeOK, Steps
<1>15. CASE SaveStale(h)
  BY <1>5, <1>15 DEF SaveStale
<1>16. CASE MarkProcessed(h)
  <2>1. session' \in [Replicas -> Session \cup {NoSession}]
    <3> DEFINE w == [session[r] EXCEPT !.inbox[f] = "PROCESSED"]
    <3>1. w \in Session
      BY <1>1, <1>2, <1>16 DEF MarkProcessed, Session, InboxStatus
    <3>2. session' = [session EXCEPT ![r] = w]
      BY <1>16, Zenon DEF MarkProcessed
    <3> HIDE DEF w
    <3>. QED  BY <3>1, <3>2 DEF Typed, TypeOK
  <2>. QED  BY <1>3, <1>16, <2>1 DEF MarkProcessed, Goto, Typed, TypeOK, Steps
<1>17. CASE SessionGone(h)
  BY <1>5, <1>17 DEF SessionGone
<1>. QED
  BY <1>6, <1>7, <1>8, <1>9, <1>10, <1>11, <1>12, <1>13, <1>14, <1>15, <1>16, <1>17

LEMMA TypedStep == Typed /\ [Next]_vars => Typed'
<1> SUFFICES ASSUME Typed, [Next]_vars PROVE Typed'
  OBVIOUS
<1>1. ASSUME NEW h \in Handlers
      PROVE  /\ ReplicaOf[h] \in Replicas
             /\ pc[h] # "idle" => fact[h] \in Facts
  BY <1>1, ConsumerConstants DEF Typed, Busy
<1>2. CASE UNCHANGED vars
  BY <1>2 DEF vars, broker, database, store, thread, budgets, Typed, TypeOK, Busy
<1>3. ASSUME NEW h \in Handlers, NEW f \in Facts, Fetch(h, f)
      PROVE  Typed'
  <2>1. deliveries' \in [Facts -> 0 .. MaxDeliver]
    <3>1. deliveries[f] + 1 \in 0 .. MaxDeliver
      BY <1>3, ConsumerConstants DEF Fetch, Deliverable, Typed, TypeOK
    <3>. QED  BY <1>3, <3>1 DEF Fetch, Typed, TypeOK
  <2>2. poison' \in [Handlers -> BOOLEAN]
    <3>1. (f \in Malformed) \in BOOLEAN
      OBVIOUS
    <3>. QED  BY <1>3, <3>1, Zenon DEF Fetch, Typed, TypeOK
  <2>. QED  BY <1>3, <2>1, <2>2 DEF Fetch, Goto, database, store, budgets, Typed, TypeOK, Busy, Steps
<1>4. ASSUME NEW h \in Handlers, Commit(h) \/ CommitError(h)
      PROVE  Typed'
  <2> DEFINE r == ReplicaOf[h]
  <2>1. /\ pc[h] = "commit" /\ Usable(r) /\ Rollback(r)
        /\ UNCHANGED database \/ CommitWrites(r)
        /\ AnswerWith(h, "ACK") \/ AnswerWith(h, "NAK")
        /\ UNCHANGED <<broker, crashes, lost>> /\ errors' \in 0 .. MaxErrors
    BY <1>4, ConsumerConstants DEF Commit, CommitError, budgets, Typed, TypeOK
  <2>2. session' \in [Replicas -> Session \cup {NoSession}] /\ versions' \in [Replicas -> [Shipments -> Nat]]
    BY <1>1, <2>1, StoreTyped DEF Rollback, Typed
  <2>3. /\ inbox' \in [Facts -> InboxStatus \cup {"none"}] /\ attempts' \in [Facts -> Nat]
        /\ leaseLive' \in [Facts -> BOOLEAN]
        /\ decision' \in [Shipments -> Facts \cup {NoFact}]
        /\ holder' \in [Shipments -> Facts \cup {NoFact}] /\ version' \in [Shipments -> Nat]
    <3>1. CASE UNCHANGED database
      BY <3>1 DEF database, Typed, TypeOK
    <3>2. CASE CommitWrites(r)
      BY <1>1, <2>1, <3>2, CommitTyped DEF Typed
    <3>. QED  BY <2>1, <3>1, <3>2
  <2>4. /\ pc' \in [Handlers -> Steps] /\ fact' = fact /\ UNCHANGED <<poison, readVersion>>
        /\ \A g \in Handlers : pc'[g] # "idle" => pc[g] # "idle"
        /\ answer' \in [Handlers -> {"none", "ACK", "NAK"}]
    BY <2>1 DEF AnswerWith, Goto, Typed, TypeOK, Steps
  <2>. QED  BY <2>1, <2>2, <2>3, <2>4 DEF broker, Typed, TypeOK, Busy
<1>5. ASSUME NEW h \in Handlers, Answer(h) \/ LoseAnswer(h)
      PROVE  Typed'
  <2>1. msg' \in [Facts -> {"ready", "out", "acked"}]
    BY <1>5 DEF Answer, LoseAnswer, broker, Typed, TypeOK
  <2>2. errors' = errors /\ crashes' = crashes /\ lost' \in 0 .. MaxLost
    BY <1>5, ConsumerConstants DEF Answer, LoseAnswer, budgets, Typed, TypeOK
  <2>3. /\ pc' = [pc EXCEPT ![h] = "idle"] /\ answer' = [answer EXCEPT ![h] = "none"]
        /\ fact' = [fact EXCEPT ![h] = NoFact]
        /\ UNCHANGED <<poison, readVersion, deliveries, database, store>>
    BY <1>5 DEF Answer, LoseAnswer, Goto, broker
  <2>. QED  BY <2>1, <2>2, <2>3 DEF database, store, Typed, TypeOK, Busy, Steps
<1>6. ASSUME NEW h \in Handlers, DbError(h)
      PROVE  Typed'
  <2>1. session' \in [Replicas -> Session \cup {NoSession}]
    BY <1>1, <1>6, EmptyTyped DEF DbError, Typed, TypeOK
  <2>2. errors' \in 0 .. MaxErrors
    BY <1>6, ConsumerConstants DEF DbError, Typed, TypeOK
  <2>. QED  BY <1>6, <2>1, <2>2 DEF DbError, AnswerWith, Goto, broker, database, Typed, TypeOK, Busy, Steps
<1>7. ASSUME NEW r \in Replicas, Crash(r)
      PROVE  Typed'
  <2>1. session' \in [Replicas -> Session \cup {NoSession}] /\ versions' \in [Replicas -> [Shipments -> Nat]]
    BY <1>7, StoreTyped DEF Crash, Rollback, Typed
  <2>2. crashes' \in 0 .. MaxCrashes
    BY <1>7, ConsumerConstants DEF Crash, Typed, TypeOK
  <2>. QED  BY <1>7, <2>1, <2>2 DEF Crash, broker, database, Typed, TypeOK, Busy, Steps
<1>8. ASSUME NEW f \in Facts, AckWaitPasses(f)
      PROVE  Typed'
  <2>1. lost' \in 0 .. MaxLost
    BY <1>8, ConsumerConstants DEF AckWaitPasses, Typed, TypeOK
  <2>. QED  BY <1>8, <2>1 DEF AckWaitPasses, database, store, thread, Typed, TypeOK, Busy
<1>9. ASSUME NEW f \in Facts, LeaseLapses(f)
      PROVE  Typed'
  BY <1>9 DEF LeaseLapses, broker, store, thread, budgets, Typed, TypeOK, Busy
<1>. QED
  BY <1>2, <1>3, <1>4, <1>5, <1>6, <1>7, <1>8, <1>9, HandlerTyped DEF Next, HandlerStep

\* Every variable keeps the shape of its table.
THEOREM ConsumerTypes == Spec => []TypeOK
<1>1. Init => Typed
  <2>1. EmptySession \in Session
    BY EmptyTyped
  <2>. QED  BY ConsumerConstants DEF Init, Typed, TypeOK, Busy, Steps, InboxStatus
<1>. QED  BY <1>1, TypedStep, PTL DEF Spec, Typed

-----------------------------------------------------------------------------
(* Custody starts once, even when handlers share a session.                *)

CustodyIsDecided == \A s \in Shipments : holder[s] # NoFact <=> decision[s] # NoFact

\* A transaction that updates a shipment has a decision for it, and the other
\* way round: the unique key on decisions guards the shipment as well.
WritesGoTogether(x) ==
    /\ \A s \in Shipments : x.version[s] # 0 =>
          x.holder[s] \in Facts /\ \E f \in x.decided : ShipmentOf[f] = s
    /\ \A f \in x.decided : x.version[ShipmentOf[f]] # 0

SessionsWriteTogether == \A r \in Replicas : Open(r) => WritesGoTogether(session[r])

DecidedInv == Typed /\ CustodyIsDecided /\ SessionsWriteTogether

LEMMA SessionFields ==
    ASSUME Typed, NEW r \in Replicas, Open(r)
    PROVE  /\ session[r] \in Session
           /\ session[r].inbox \in [Facts -> InboxStatus \cup {"none"}]
           /\ session[r].claimed \in SUBSET Facts /\ session[r].decided \in SUBSET Facts
           /\ session[r].holder \in [Shipments -> Facts \cup {NoFact}]
           /\ session[r].version \in [Shipments -> Nat]
  BY DEF Typed, TypeOK, Open, Session

LEMMA CommitKeepsCustody ==
    ASSUME DecidedInv, NEW r \in Replicas, Usable(r), DecisionsUnique(r), CommitWrites(r)
    PROVE  CustodyStays /\ CustodyIsDecided'
<1> DEFINE w == session[r]
<1>1. /\ w \in Session /\ WritesGoTogether(w)
      /\ w.decided \in SUBSET Facts
  BY SessionFields DEF DecidedInv, SessionsWriteTogether, Usable
<1>2. ASSUME NEW s \in Shipments, w.version[s] = 0
      PROVE  holder'[s] = holder[s] /\ decision'[s] = decision[s]
  <2>1. ~\E f \in w.decided : ShipmentOf[f] = s
    BY <1>1, <1>2 DEF WritesGoTogether
  <2>. QED  BY <1>2, <2>1 DEF CommitWrites
<1>3. ASSUME NEW s \in Shipments, w.version[s] # 0
      PROVE  /\ holder[s] = NoFact /\ decision[s] = NoFact
             /\ holder'[s] \in Facts /\ decision'[s] \in Facts
  <2>1. PICK f \in w.decided : ShipmentOf[f] = s
    BY <1>1, <1>3 DEF WritesGoTogether
  <2>2. decision[s] = NoFact /\ holder[s] = NoFact
    BY <2>1 DEF DecisionsUnique, DecidedInv, CustodyIsDecided
  <2>3. holder'[s] = w.holder[s] /\ w.holder[s] \in Facts
    BY <1>1, <1>3 DEF CommitWrites, WritesGoTogether
  <2>4. decision'[s] = CHOOSE g \in w.decided : ShipmentOf[g] = s
    BY <2>1 DEF CommitWrites
  <2>5. decision'[s] \in w.decided
    BY <2>1, <2>4
  <2>. QED  BY <1>1, <2>2, <2>3, <2>5
<1>4. NoFact \notin Facts
  BY ConsumerConstants
<1> HIDE DEF w
<1>. QED  BY <1>2, <1>3, <1>4 DEF CustodyStays, CustodyIsDecided, DecidedInv

LEMMA SharedStep == DecidedInv /\ [Next]_vars => DecidedInv' /\ CustodyStays
<1> SUFFICES ASSUME DecidedInv, [Next]_vars PROVE DecidedInv' /\ CustodyStays
  OBVIOUS
<1>1. Typed'
  BY TypedStep DEF DecidedInv
<1>2. ASSUME NEW h \in Handlers
      PROVE  /\ ReplicaOf[h] \in Replicas
             /\ pc[h] # "idle" => fact[h] \in Facts /\ ShipmentOf[fact[h]] \in Shipments
  BY ConsumerConstants DEF DecidedInv, Typed, Busy
<1>3. WritesGoTogether(EmptySession) /\ WritesGoTogether([EmptySession EXCEPT !.broken = TRUE])
  BY DEF WritesGoTogether, EmptySession
<1>4. ASSUME UNCHANGED <<holder, decision>>, SessionsWriteTogether'
      PROVE  DecidedInv' /\ CustodyStays
  BY <1>1, <1>4 DEF DecidedInv, CustodyIsDecided, CustodyStays
<1>5. ASSUME NEW r \in Replicas, Rollback(r) \/ UNCHANGED session
      PROVE  SessionsWriteTogether'
  BY <1>5 DEF Rollback, SetSession, Open, DecidedInv, Typed, TypeOK, SessionsWriteTogether
<1>6. ASSUME NEW r \in Replicas, NEW x, session' = [session EXCEPT ![r] = x], WritesGoTogether(x)
      PROVE  SessionsWriteTogether'
  BY <1>6 DEF Open, DecidedInv, Typed, TypeOK, SessionsWriteTogether
<1>7. ASSUME NEW h \in Handlers,
             InsertReceived(h) \/ DuplicateReclaim(h) \/ QuarantineExisting(h) \/ MarkProcessed(h)
      PROVE  DecidedInv' /\ CustodyStays
  <2> DEFINE r == ReplicaOf[h]
  <2>1. Usable(r) /\ session[r] \in Session /\ UNCHANGED <<holder, decision>> /\ WritesGoTogether(session[r])
    BY <1>2, <1>7, SessionFields DEF InsertReceived, DuplicateReclaim, QuarantineExisting, MarkProcessed,
       Usable, database, DecidedInv, SessionsWriteTogether
  <2>2. \A q \in Replicas : q # r => session'[q] = session[q]
    BY <1>2, <1>7 DEF InsertReceived, DuplicateReclaim, QuarantineExisting, MarkProcessed,
       DecidedInv, Typed, TypeOK
  <2>3. /\ session'[r].decided = session[r].decided /\ session'[r].holder = session[r].holder
        /\ session'[r].version = session[r].version
    BY <1>2, <1>7, <2>1 DEF InsertReceived, DuplicateReclaim, QuarantineExisting, MarkProcessed,
       DecidedInv, Typed, TypeOK, Session
  <2>4. WritesGoTogether(session'[r])
    BY <2>1, <2>3 DEF WritesGoTogether
  <2>5. SessionsWriteTogether'
    BY <2>2, <2>4 DEF Open, DecidedInv, SessionsWriteTogether
  <2>. QED  BY <1>4, <2>1, <2>5
<1>8. ASSUME NEW h \in Handlers, SaveShipment(h)
      PROVE  DecidedInv' /\ CustodyStays
  <2> DEFINE r == ReplicaOf[h]
             f == fact[h]
             s == ShipmentOf[f]
             w == session[r]
             n == readVersion[h] + 1
             x == [w EXCEPT !.decided = @ \cup {f}, !.holder[s] = f, !.version[s] = n]
  <2>1. /\ Usable(r) /\ UNCHANGED <<holder, decision>>
        /\ f \in Facts /\ s \in Shipments /\ n # 0
    BY <1>2, <1>8 DEF SaveShipment, database, DecidedInv, Typed, TypeOK
  <2>2. /\ w \in Session /\ w.holder \in [Shipments -> Facts \cup {NoFact}]
        /\ w.version \in [Shipments -> Nat] /\ w.decided \in SUBSET Facts /\ WritesGoTogether(w)
    BY <1>2, <2>1, SessionFields DEF DecidedInv, SessionsWriteTogether, Usable
  <2>3. session' = [session EXCEPT ![r] = x]
    BY <1>8, Zenon DEF SaveShipment
  <2>4. /\ x.decided = w.decided \cup {f} /\ x.holder = [w.holder EXCEPT ![s] = f]
        /\ x.version = [w.version EXCEPT ![s] = n]
    <3> HIDE DEF w, f, s, n
    <3>. QED  BY <2>2 DEF Session
  <2>5. \A g \in Facts : ShipmentOf[g] \in Shipments
    BY ConsumerConstants
  <2>6. s = ShipmentOf[f]
    OBVIOUS
  <2> HIDE DEF x, w, s, f, n
  <2>7. WritesGoTogether(x)
    BY <2>1, <2>2, <2>4, <2>5, <2>6 DEF WritesGoTogether
  <2>. QED  BY <1>2, <1>4, <1>6, <2>1, <2>3, <2>7
<1>9. ASSUME NEW h \in Handlers, Commit(h) \/ CommitError(h)
      PROVE  DecidedInv' /\ CustodyStays
  <2> DEFINE r == ReplicaOf[h]
  <2>1. Usable(r) /\ Rollback(r) /\ (UNCHANGED database \/ (DecisionsUnique(r) /\ CommitWrites(r)))
    BY <1>9 DEF Commit, CommitError
  <2>2. CASE UNCHANGED database
    BY <1>2, <1>4, <1>5, <2>1, <2>2 DEF database
  <2>3. CASE DecisionsUnique(r) /\ CommitWrites(r)
    BY <1>1, <1>2, <1>5, <2>1, <2>3, CommitKeepsCustody DEF DecidedInv
  <2>. QED  BY <2>1, <2>2, <2>3
<1>10. ASSUME NEW h \in Handlers,
              \/ BeginCheck(h) \/ DuplicateTerminal(h) \/ DuplicateActive(h) \/ ReadShipment(h)
              \/ SaveStale(h) \/ SessionGone(h) \/ Answer(h) \/ LoseAnswer(h)
              \/ \E f \in Facts : Fetch(h, f)
       PROVE  DecidedInv' /\ CustodyStays
  <2>1. UNCHANGED <<holder, decision>> /\ (Rollback(ReplicaOf[h]) \/ UNCHANGED session)
    BY <1>10 DEF BeginCheck, DuplicateTerminal, DuplicateActive, ReadShipment, SaveStale, SessionGone,
       Answer, LoseAnswer, Fetch, Unhandled, Poison, store, database
  <2>. QED  BY <1>2, <1>4, <1>5, <2>1
<1>11. ASSUME NEW h \in Handlers, BeginSet(h) \/ DbError(h)
       PROVE  DecidedInv' /\ CustodyStays
  <2>1. /\ UNCHANGED <<holder, decision>>
        /\ \E x \in {EmptySession, [EmptySession EXCEPT !.broken = TRUE]} :
              session' = [session EXCEPT ![ReplicaOf[h]] = x]
    BY <1>11 DEF BeginSet, DbError, SetSession, database
  <2>. QED  BY <1>2, <1>3, <1>4, <1>6, <2>1 DEF DecidedInv, Typed, TypeOK
<1>12. ASSUME \/ \E r \in Replicas : Crash(r)
              \/ \E f \in Facts : AckWaitPasses(f) \/ LeaseLapses(f)
              \/ UNCHANGED vars
       PROVE  DecidedInv' /\ CustodyStays
  <2>1. UNCHANGED <<holder, decision>> /\ (UNCHANGED session \/ \E r \in Replicas : Rollback(r))
    BY <1>12 DEF Crash, AckWaitPasses, LeaseLapses, vars, store, database
  <2>2. CASE UNCHANGED session
    BY <1>4, <2>1, <2>2 DEF Open, DecidedInv, SessionsWriteTogether
  <2>. QED  BY <1>4, <1>5, <2>1, <2>2
<1>. QED
  BY <1>7, <1>8, <1>9, <1>10, <1>11, <1>12 DEF Next, HandlerStep

LEMMA DecidedInit == Init => DecidedInv
<1>1. Init => Typed
  BY EmptyTyped, ConsumerConstants DEF Init, Typed, TypeOK, Busy, Steps, InboxStatus
<1>. QED  BY <1>1 DEF Init, DecidedInv, CustodyIsDecided, SessionsWriteTogether, Open

\* However many handlers share a session, custody that started is not
\* restarted by another fact and its decision is not replaced.
THEOREM CustodyNeverRestarts == Spec => CustodyStartsOnce
<1>1. DecidedInv /\ [Next]_vars => [CustodyStays]_vars
  BY SharedStep
<1>. QED  BY <1>1, DecidedInit, SharedStep, PTL DEF Spec, CustodyStartsOnce

-----------------------------------------------------------------------------
(* Until BeginRace: what a step leaves alone *)

\* A handler comes to a transaction through begin(), which refuses it while
\* another of its replica is in one.
LEMMA AloneStep ==
    ASSUME IInv, Typed', [Next]_vars, ~BeginRace'
    PROVE  Alone'
<1>1. /\ TypeOK /\ Alone /\ pc \in [Handlers -> Steps]
  BY DEF IInv, TypeOK
<1>2. CASE \A k \in Handlers : InTransaction(k)' => InTransaction(k)
  BY <1>1, <1>2 DEF Alone
<1>3. CASE \E h \in Handlers : BeginCheck(h)
  <2>1. PICK h \in Handlers : BeginCheck(h)
    BY <1>3
  <2>2. \A k \in Handlers : k # h => pc'[k] = pc[k]
    BY <1>1, <2>1 DEF BeginCheck, Unhandled, AnswerWith, Goto
  <2>3. CASE Open(ReplicaOf[h])
    <3>1. pc'[h] = "answer"
      BY <1>1, <2>1, <2>3 DEF BeginCheck, Unhandled, AnswerWith, Goto
    <3>. QED  BY <1>2, <2>2, <3>1 DEF InTransaction, Working
  <2>4. CASE ~Open(ReplicaOf[h])
    <3>1. pc'[h] = "checked"
      BY <1>1, <2>1, <2>4 DEF BeginCheck, Goto
    <3>2. \A g \in Handlers : g # h /\ ReplicaOf[g] = ReplicaOf[h] => pc[g] \notin Working
      BY <2>4, NoSessionIsNone DEF IInv, HandlerIs, TransactionIs, Work, Open
    <3>3. \A g \in Handlers : g # h /\ ReplicaOf[g] = ReplicaOf[h] => pc[g] # "checked"
      BY <2>2, <3>1 DEF BeginRace
    <3>4. \A g \in Handlers : g # h /\ ReplicaOf[g] = ReplicaOf[h] => ~InTransaction(g)'
      BY <2>2, <3>2, <3>3 DEF InTransaction
    <3>5. \A g \in Handlers : g # h => (InTransaction(g)' <=> InTransaction(g))
      BY <2>2 DEF InTransaction
    <3>. QED  BY <1>1, <3>4, <3>5 DEF Alone
  <2>. QED  BY <2>3, <2>4
<1>4. ASSUME NEW h \in Handlers,
             \A k \in Handlers : k # h => pc'[k] = pc[k], InTransaction(h)' => InTransaction(h)
      PROVE  \A k \in Handlers : InTransaction(k)' => InTransaction(k)
  BY <1>4 DEF InTransaction
<1>5. ASSUME NEW h \in Handlers, NEW step, pc' = [pc EXCEPT ![h] = step],
             InTransaction(h) \/ step \notin Working \cup {"checked"}
      PROVE  \A k \in Handlers : InTransaction(k)' => InTransaction(k)
  BY <1>1, <1>5 DEF InTransaction
<1>6. ASSUME NEW h \in Handlers,
             \/ BeginSet(h) \/ InsertReceived(h) \/ DuplicateReclaim(h) \/ QuarantineExisting(h)
             \/ ReadShipment(h) \/ SaveShipment(h) \/ MarkProcessed(h)
      PROVE  \A k \in Handlers : InTransaction(k)' => InTransaction(k)
  <2>1. InTransaction(h)
    BY <1>6 DEF InTransaction, Working, BeginSet, InsertReceived, DuplicateReclaim,
       QuarantineExisting, ReadShipment, SaveShipment, MarkProcessed
  <2>2. \E step : pc' = [pc EXCEPT ![h] = step]
    BY <1>6, Zenon DEF BeginSet, InsertReceived, DuplicateReclaim, QuarantineExisting, ReadShipment,
       Poison, SaveShipment, MarkProcessed, Goto
  <2>. QED  BY <1>5, <2>1, <2>2
<1>7. ASSUME NEW h \in Handlers,
             \/ DuplicateTerminal(h) \/ DuplicateActive(h) \/ SaveStale(h) \/ Commit(h)
             \/ SessionGone(h) \/ DbError(h) \/ CommitError(h)
      PROVE  \A k \in Handlers : InTransaction(k)' => InTransaction(k)
  <2>1. pc' = [pc EXCEPT ![h] = "answer"]
    BY <1>7 DEF DuplicateTerminal, DuplicateActive, SaveStale, Commit, SessionGone, DbError,
       CommitError, AnswerWith, Goto
  <2>. QED  BY <1>5, <2>1 DEF Working
<1>8. ASSUME NEW h \in Handlers,
             \/ Answer(h) \/ LoseAnswer(h) \/ \E f \in Facts : Fetch(h, f)
      PROVE  \A k \in Handlers : InTransaction(k)' => InTransaction(k)
  <2>1. pc' = [pc EXCEPT ![h] = "idle"] \/ pc' = [pc EXCEPT ![h] = "begin"]
    BY <1>8 DEF Answer, LoseAnswer, Fetch, Goto
  <2>. QED  BY <1>5, <2>1 DEF Working
<1>9. ASSUME NEW r \in Replicas, Crash(r)
      PROVE  \A k \in Handlers : InTransaction(k)' => InTransaction(k)
  BY <1>9 DEF Crash, InTransaction, Working
<1>10. ASSUME (\E f \in Facts : AckWaitPasses(f) \/ LeaseLapses(f)) \/ UNCHANGED vars
       PROVE  \A k \in Handlers : InTransaction(k)' => InTransaction(k)
  BY <1>10 DEF AckWaitPasses, LeaseLapses, vars, thread, InTransaction
<1>. QED  BY <1>2, <1>3, <1>6, <1>7, <1>8, <1>9, <1>10 DEF Next, HandlerStep

\* Nothing of handler g changes, nor the session if it is at work on one.
Stays(g) ==
    /\ pc'[g] = pc[g] /\ fact'[g] = fact[g]
    /\ answer'[g] = answer[g] /\ readVersion'[g] = readVersion[g]
    /\ pc[g] \in Working => /\ session'[ReplicaOf[g]] = session[ReplicaOf[g]]
                            /\ versions'[ReplicaOf[g]] = versions[ReplicaOf[g]]

LEMMA StaysAsItIs ==
    ASSUME NEW g \in Handlers, Stays(g), HandlerIs(g)
    PROVE  /\ HasRow(g)' <=> HasRow(g)
           /\ Decides(g)' <=> Decides(g)
           /\ pc'[g] # "idle" => fact'[g] \in Facts
           /\ pc'[g] \in Working => TransactionIs(g)' /\ Work(g)' = Work(g)
<1>1. (HasRow(g)' <=> HasRow(g)) /\ (Decides(g)' <=> Decides(g))
  BY DEF Stays, HasRow, Decides, Work
<1>2. pc'[g] # "idle" => fact'[g] \in Facts
  BY DEF Stays, HandlerIs
<1>3. ASSUME pc[g] \in Working PROVE TransactionIs(g)' /\ Work(g)' = Work(g)
  <2>1. TransactionIs(g)
    BY <1>3 DEF HandlerIs
  <2>. QED  BY <1>1, <1>3, <2>1 DEF Stays, TransactionIs, Work
<1>. QED  BY <1>1, <1>2, <1>3 DEF Stays

\* A handler's step is its own: if it touches the session, it is the one in the
\* transaction.
LEMMA OthersStay ==
    ASSUME Typed, Alone, NEW h \in Handlers, NEW g \in Handlers, g # h,
           \A k \in Handlers : k # h => /\ pc'[k] = pc[k] /\ fact'[k] = fact[k]
                                        /\ answer'[k] = answer[k] /\ readVersion'[k] = readVersion[k],
           InTransaction(h) \/ UNCHANGED store,
           \A r \in Replicas : r # ReplicaOf[h] => session'[r] = session[r] /\ versions'[r] = versions[r]
    PROVE  Stays(g)
  BY ConsumerConstants DEF Alone, InTransaction, Stays, store

\* The keys and rows a transaction finds free are not another handler's.
LEMMA KeyIsFree ==
    ASSUME IInv, NEW h \in Handlers, InTransaction(h), NEW f \in Facts,
           InboxKeyFree(ReplicaOf[h], f), NEW g \in Handlers, g # h, HasRow(g)
    PROVE  fact[g] # f
<1>1. Usable(ReplicaOf[g]) /\ Work(g).inbox[fact[g]] # "none"
  BY NoSessionIsNone DEF IInv, HandlerIs, TransactionIs, HasRow, Work, Usable, Open
<1>2. ReplicaOf[g] \in Replicas \ {ReplicaOf[h]}
  BY ConsumerConstants DEF IInv, Alone, InTransaction, HasRow
<1>. QED  BY <1>1, <1>2 DEF InboxKeyFree, Others, Work

LEMMA RowIsFree ==
    ASSUME IInv, NEW h \in Handlers, InTransaction(h), NEW s \in Shipments,
           ShipmentRowFree(ReplicaOf[h], s), NEW g \in Handlers, g # h, Decides(g)
    PROVE  ShipmentOf[fact[g]] # s
<1>1. Usable(ReplicaOf[g]) /\ TransactionIs(g)
  BY NoSessionIsNone DEF IInv, HandlerIs, TransactionIs, Decides, Work, Usable, Open
<1>2. ReplicaOf[g] \in Replicas \ {ReplicaOf[h]}
  BY ConsumerConstants DEF IInv, Alone, InTransaction, Decides
<1>3. Work(g).version[ShipmentOf[fact[g]]] = 2
  BY <1>1 DEF TransactionIs
<1>. QED  BY <1>1, <1>2, <1>3 DEF ShipmentRowFree, Others, Work

\* A step of one handler that commits nothing.
LEMMA QuietStep ==
    ASSUME IInv, Typed', Alone', NEW h \in Handlers,
           \A g \in Handlers : g # h => Stays(g),
           UNCHANGED <<inbox, decision, holder, version>>,
           \A f \in Facts : msg'[f] = "acked" => inbox[f] \in Verdicts,
           HandlerIs(h)',
           HasRow(h)' => \A g \in Handlers : g # h /\ HasRow(g) => fact[g] # fact'[h],
           Decides(h)' => \A g \in Handlers : g # h /\ Decides(g)
                             => ShipmentOf[fact[g]] # ShipmentOf[fact'[h]]
    PROVE  IInv'
<1>1. ASSUME NEW g \in Handlers, g # h
      PROVE  /\ HandlerIs(g)'
             /\ HasRow(g)' <=> HasRow(g)
             /\ Decides(g)' <=> Decides(g)
             /\ fact'[g] = fact[g]
  <2>1. HandlerIs(g) /\ Stays(g)
    BY <1>1 DEF IInv
  <2>2. /\ HasRow(g)' <=> HasRow(g)
        /\ Decides(g)' <=> Decides(g)
        /\ pc'[g] # "idle" => fact'[g] \in Facts
        /\ pc'[g] \in Working => TransactionIs(g)' /\ Work(g)' = Work(g)
    BY <2>1, StaysAsItIs
  <2>3. HasRow(g) => Work(g)' = Work(g)
    BY <2>1, <2>2 DEF HasRow, Stays
  <2>4. RowsStand(g)'
    BY <2>1, <2>2, <2>3 DEF HandlerIs, RowsStand, Stays
  <2>. QED  BY <2>1, <2>2, <2>4 DEF HandlerIs, Stays
<1>2. \A g \in Handlers : HandlerIs(g)'
  BY <1>1
<1>3. ASSUME NEW g \in Handlers, NEW k \in Handlers, g # k
      PROVE  Excludes(g, k)'
  <2>1. CASE g # h /\ k # h
    BY <1>1, <1>3, <2>1 DEF IInv, Excludes
  <2>2. CASE g = h
    BY <1>1, <1>3, <2>2 DEF Excludes
  <2>3. CASE k = h
    BY <1>1, <1>3, <2>3 DEF Excludes
  <2>. QED  BY <2>1, <2>2, <2>3
<1>4. ProcessedIsApplied' /\ AckedIsDecided'
  BY DEF IInv, ProcessedIsApplied, AckedIsDecided
<1>. QED  BY <1>2, <1>3, <1>4 DEF IInv, Typed

\* A handler that is in no transaction, and acks only what has a verdict.
LEMMA OutsideIs ==
    ASSUME NEW h \in Handlers, pc'[h] \notin Working,
           pc'[h] # "idle" => fact'[h] \in Facts,
           answer'[h] = "ACK" => pc'[h] = "answer" /\ inbox'[fact'[h]] \in Verdicts
    PROVE  HandlerIs(h)' /\ ~HasRow(h)' /\ ~Decides(h)'
  BY DEF HandlerIs, RowsStand, HasRow, Decides

-----------------------------------------------------------------------------
(* Until BeginRace: the steps *)

\* A handler leaves its transaction, or was in none.
LEMMA OutsideStep ==
    ASSUME IInv, Typed', Alone', NEW h \in Handlers,
           \A k \in Handlers : k # h => /\ pc'[k] = pc[k] /\ fact'[k] = fact[k]
                                        /\ answer'[k] = answer[k] /\ readVersion'[k] = readVersion[k],
           (pc[h] \in Working /\ Rollback(ReplicaOf[h])) \/ UNCHANGED store,
           pc'[h] \notin Working, pc'[h] # "idle" => fact'[h] \in Facts,
           answer'[h] = "ACK" => pc'[h] = "answer" /\ inbox[fact'[h]] \in Verdicts,
           UNCHANGED <<inbox, decision, holder, version>>,
           \A f \in Facts : msg'[f] = "acked" => inbox[f] \in Verdicts
    PROVE  IInv'
<1>1. ReplicaOf[h] \in Replicas /\ Typed
  BY ConsumerConstants DEF IInv, Typed, Busy, HandlerIs
<1>2. InTransaction(h) \/ UNCHANGED store
  BY DEF InTransaction
<1>3. \A r \in Replicas : r # ReplicaOf[h] => session'[r] = session[r] /\ versions'[r] = versions[r]
  BY <1>1 DEF Rollback, SetSession, store, Typed, TypeOK
<1>4. \A g \in Handlers : g # h => Stays(g)
  BY <1>1, <1>2, <1>3, OthersStay DEF IInv
<1>5. HandlerIs(h)' /\ ~HasRow(h)' /\ ~Decides(h)'
  BY OutsideIs
<1>. QED  BY <1>4, <1>5, QuietStep

LEMMA AnswersOutside ==
    ASSUME IInv, Typed', Alone', NEW h \in Handlers, NEW a \in {"ACK", "NAK"},
           AnswerWith(h, a), pc[h] # "idle",
           (pc[h] \in Working /\ Rollback(ReplicaOf[h])) \/ UNCHANGED store,
           a = "ACK" => inbox[fact[h]] \in Verdicts,
           UNCHANGED <<broker, database>>
    PROVE  IInv'
<1>1. Typed /\ fact[h] \in Facts
  BY DEF IInv, Typed, Busy, HandlerIs
<1>2. /\ pc'[h] = "answer" /\ answer'[h] = a /\ fact' = fact /\ readVersion' = readVersion
      /\ \A k \in Handlers : k # h => pc'[k] = pc[k] /\ answer'[k] = answer[k]
  BY <1>1 DEF AnswerWith, Goto, Typed, TypeOK
<1>3. /\ UNCHANGED <<inbox, decision, holder, version>>
      /\ \A f \in Facts : msg'[f] = "acked" => inbox[f] \in Verdicts
  BY DEF broker, database, IInv, AckedIsDecided
<1>. QED  BY <1>1, <1>2, <1>3, OutsideStep DEF Working

\* A write of a transaction, which the handler goes on with.
LEMMA WriteStep ==
    ASSUME IInv, Typed', Alone', NEW h \in Handlers, pc'[h] \in Working, InTransaction(h),
           Goto(h, pc'[h]), UNCHANGED <<fact, answer, broker, database>>,
           \A k \in Handlers : k # h => readVersion'[k] = readVersion[k],
           \A r \in Replicas : r # ReplicaOf[h] => session'[r] = session[r] /\ versions'[r] = versions[r],
           TransactionIs(h)', RowsStand(h)',
           HasRow(h)' => HasRow(h) \/ InboxKeyFree(ReplicaOf[h], fact[h]),
           Decides(h)' => Decides(h) \/ ShipmentRowFree(ReplicaOf[h], ShipmentOf[fact[h]]),
           answer[h] # "ACK"
    PROVE  IInv'
<1>1. /\ Typed /\ fact[h] \in Facts /\ ShipmentOf[fact[h]] \in Shipments /\ ReplicaOf[h] \in Replicas
      /\ fact' = fact
  BY ConsumerConstants DEF IInv, Typed, Busy, HandlerIs, InTransaction, Working
<1>2. \A k \in Handlers : k # h => pc'[k] = pc[k]
  BY <1>1 DEF Goto, Typed, TypeOK
<1>3. \A g \in Handlers : g # h => Stays(g)
  BY <1>1, <1>2, OthersStay DEF IInv
<1>5. HandlerIs(h)'
  BY <1>1 DEF HandlerIs
<1>6. HasRow(h)' => \A g \in Handlers : g # h /\ HasRow(g) => fact[g] # fact'[h]
  BY <1>1, KeyIsFree DEF IInv, Excludes
<1>7. Decides(h)' => \A g \in Handlers : g # h /\ Decides(g) => ShipmentOf[fact[g]] # ShipmentOf[fact'[h]]
  BY <1>1, RowIsFree DEF IInv, Excludes
<1>8. /\ UNCHANGED <<inbox, decision, holder, version>>
      /\ \A f \in Facts : msg'[f] = "acked" => inbox[f] \in Verdicts
  BY DEF broker, database, IInv, AckedIsDecided
<1>. QED  BY <1>3, <1>5, <1>6, <1>7, <1>8, QuietStep

\* What a handler at work on a transaction can rely on.
LEMMA AtWork ==
    ASSUME IInv, NEW h \in Handlers, pc[h] \in Working
    PROVE  /\ Usable(ReplicaOf[h]) /\ TransactionIs(h) /\ answer[h] # "ACK"
           /\ ReplicaOf[h] \in Replicas /\ fact[h] \in Facts /\ ShipmentOf[fact[h]] \in Shipments
           /\ Typed
           /\ Work(h).inbox \in [Facts -> InboxStatus \cup {"none"}]
           /\ Work(h).claimed \in SUBSET Facts /\ Work(h).decided \in SUBSET Facts
           /\ Work(h).holder \in [Shipments -> Facts \cup {NoFact}]
           /\ Work(h).version \in [Shipments -> Nat]
<1>1. /\ Usable(ReplicaOf[h]) /\ TransactionIs(h) /\ answer[h] # "ACK"
      /\ ReplicaOf[h] \in Replicas /\ fact[h] \in Facts /\ ShipmentOf[fact[h]] \in Shipments
      /\ Typed
  BY ConsumerConstants, NoSessionIsNone
     DEF IInv, HandlerIs, TransactionIs, Usable, Open, Work, Working, Typed, Busy
<1>. QED  BY <1>1, SessionFields DEF Usable, Work

LEMMA BeginStep ==
    ASSUME IInv, Typed', Alone', NEW h \in Handlers, BeginCheck(h) \/ BeginSet(h)
    PROVE  IInv'
<1>1. /\ Typed /\ pc[h] \in {"begin", "checked"} /\ pc[h] \notin Working
      /\ answer[h] # "ACK" /\ fact[h] \in Facts /\ ReplicaOf[h] \in Replicas
      /\ UNCHANGED <<broker, database>>
  BY ConsumerConstants DEF IInv, Typed, Busy, HandlerIs, BeginCheck, BeginSet, Working
<1>2. CASE BeginCheck(h) /\ Open(ReplicaOf[h])
  BY <1>1, <1>2, AnswersOutside DEF BeginCheck, Unhandled
<1>3. CASE BeginCheck(h) /\ ~Open(ReplicaOf[h])
  <2>1. /\ Goto(h, "checked") /\ UNCHANGED <<fact, poison, readVersion, answer, store>>
    BY <1>3 DEF BeginCheck
  <2>2. pc' = [pc EXCEPT ![h] = "checked"]
    BY <2>1 DEF Goto
  <2>3. /\ UNCHANGED <<inbox, decision, holder, version>>
        /\ \A f \in Facts : msg'[f] = "acked" => inbox[f] \in Verdicts
    BY <1>1 DEF broker, database, IInv, AckedIsDecided
  <2>4. \A k \in Handlers : k # h => pc'[k] = pc[k]
    BY <1>1, <2>2 DEF Typed, TypeOK
  <2>5. pc'[h] = "checked"
    BY <1>1, <2>2 DEF Typed, TypeOK
  <2>. QED  BY <1>1, <2>1, <2>3, <2>4, <2>5, OutsideStep DEF Working
<1>4. CASE BeginSet(h)
  <2>1. /\ pc' = [pc EXCEPT ![h] = "insert"] /\ UNCHANGED <<fact, poison, readVersion, answer>>
        /\ session' = [session EXCEPT ![ReplicaOf[h]] = EmptySession]
        /\ versions' = [versions EXCEPT ![ReplicaOf[h]] = [s \in Shipments |-> 0]]
    BY <1>4 DEF BeginSet, SetSession, Goto
  <2>6. InTransaction(h)
    BY <1>4 DEF BeginSet, InTransaction
  <2>2. /\ pc'[h] = "insert" /\ Goto(h, pc'[h]) /\ Work(h)' = EmptySession
        /\ \A r \in Replicas : r # ReplicaOf[h] => session'[r] = session[r] /\ versions'[r] = versions[r]
    BY <1>1, <2>1 DEF Goto, Work, Typed, TypeOK
  <2>3. ~HasRow(h)' /\ ~Decides(h)'
    BY <1>1, <2>1, <2>2 DEF HasRow, Decides, EmptySession
  <2>4. TransactionIs(h)'
    <3>1. ShipmentOf[fact[h]] \in Shipments
      BY <1>1, ConsumerConstants
    <3>2. /\ EmptySession \in Session /\ ~EmptySession.broken /\ EmptySession.decided = {}
          /\ \A f \in Facts : EmptySession.inbox[f] = "none"
          /\ \A s \in Shipments : EmptySession.version[s] = 0
      BY EmptyTyped DEF EmptySession
    <3>. QED  BY <2>1, <2>2, <2>3, <3>1, <3>2 DEF TransactionIs
  <2>5. RowsStand(h)'
    BY <2>3 DEF RowsStand
  <2>. QED  BY <1>1, <2>1, <2>2, <2>3, <2>4, <2>5, <2>6, WriteStep DEF Working
<1>. QED  BY <1>2, <1>3, <1>4

\* The handler finds a row, or none, under its key, and writes it.
LEMMA RowStep ==
    ASSUME IInv, Typed', Alone', NEW h \in Handlers,
           InsertReceived(h) \/ DuplicateReclaim(h) \/ QuarantineExisting(h)
    PROVE  IInv'
<1> DEFINE r == ReplicaOf[h]
           f == fact[h]
           s == ShipmentOf[f]
           w == session[r]
           x == session'[r]
           v == IF pc'[h] = "read" THEN "PROCESSING" ELSE "QUARANTINED"
<1>1. /\ pc[h] = "insert" /\ Usable(r) /\ InboxKeyFree(r, f) /\ UNCHANGED <<broker, database>>
      /\ UNCHANGED <<versions, fact, readVersion, answer>>
      /\ RowSeen(r, f) \in {"none", "PROCESSING", "QUARANTINED"}
  BY DEF InsertReceived, DuplicateReclaim, QuarantineExisting, Expired
<1>2. /\ TransactionIs(h) /\ answer[h] # "ACK" /\ Typed
      /\ r \in Replicas /\ f \in Facts /\ s \in Shipments
      /\ w \in Session /\ w.inbox \in [Facts -> InboxStatus \cup {"none"}] /\ w.claimed \in SUBSET Facts
      /\ w.decided = {} /\ w.inbox[f] = "none" /\ w.version[s] = 0
  <2>1. /\ TransactionIs(h) /\ answer[h] # "ACK" /\ Typed
        /\ r \in Replicas /\ f \in Facts /\ s \in Shipments
        /\ w \in Session /\ w.inbox \in [Facts -> InboxStatus \cup {"none"}] /\ w.claimed \in SUBSET Facts
    BY <1>1, AtWork DEF Working, TransactionIs, Work
  <2>2. ~HasRow(h) /\ ~Decides(h) /\ w.decided \subseteq {f} /\ w.version[s] = 0
    BY <1>1, <2>1 DEF TransactionIs, Work
  <2>. QED  BY <1>1, <2>1, <2>2 DEF HasRow, Decides, Work, Working
<1>3. /\ pc'[h] \in {"read", "commit"} /\ Goto(h, pc'[h])
      /\ \E c \in SUBSET Facts :
           \E y : /\ session' = [session EXCEPT ![r] = y]
                  /\ \/ y = [w EXCEPT !.inbox[f] = v, !.claimed = c]
                     \/ y = [w EXCEPT !.inbox[f] = v]
  <2>1. CASE InsertReceived(h)
    <3>1. /\ session' = [session EXCEPT ![r] = [w EXCEPT
                !.inbox[f] = IF poison[h] THEN "QUARANTINED" ELSE "PROCESSING",
                !.claimed = @ \cup {f}]]
          /\ pc' = [pc EXCEPT ![h] = IF poison[h] THEN "commit" ELSE "read"]
      BY <2>1, Zenon DEF InsertReceived, Goto
    <3>2. /\ pc'[h] = IF poison[h] THEN "commit" ELSE "read"
          /\ v = IF poison[h] THEN "QUARANTINED" ELSE "PROCESSING"
      BY <1>2, <3>1 DEF Typed, TypeOK
    <3>. QED  BY <1>2, <3>1, <3>2 DEF Goto
  <2>2. CASE DuplicateReclaim(h)
    <3> DEFINE exhausted == MaxAttempts > 0 /\ attempts[f] + 1 >= MaxAttempts
    <3>1. /\ session' = [session EXCEPT ![r] = [w EXCEPT
                !.inbox[f] = IF exhausted THEN "QUARANTINED" ELSE "PROCESSING",
                !.claimed = IF exhausted THEN @ ELSE @ \cup {f}]]
          /\ pc' = [pc EXCEPT ![h] = IF exhausted THEN "commit" ELSE "read"]
      BY <2>2, Zenon DEF DuplicateReclaim, Goto
    <3> HIDE DEF exhausted
    <3>2. /\ pc'[h] = IF exhausted THEN "commit" ELSE "read"
          /\ v = IF exhausted THEN "QUARANTINED" ELSE "PROCESSING"
      BY <1>2, <3>1 DEF Typed, TypeOK
    <3>. QED  BY <1>2, <3>1, <3>2 DEF Goto
  <2>3. CASE QuarantineExisting(h)
    <3>1. /\ session' = [session EXCEPT ![r] = [w EXCEPT !.inbox[f] = "QUARANTINED"]]
          /\ pc' = [pc EXCEPT ![h] = "commit"]
      BY <2>3, Zenon DEF QuarantineExisting, Goto
    <3>2. pc'[h] = "commit" /\ v = "QUARANTINED"
      BY <1>2, <3>1 DEF Typed, TypeOK
    <3>. QED  BY <1>2, <3>1, <3>2 DEF Goto
  <2>. QED  BY <2>1, <2>2, <2>3
<1>4. /\ x \in Session /\ x.broken = w.broken /\ x.decided = w.decided
      /\ x.version = w.version /\ x.inbox = [w.inbox EXCEPT ![f] = v]
      /\ \A q \in Replicas : q # r => session'[q] = session[q]
  <2>1. v \in InboxStatus
    BY DEF InboxStatus
  <2>2. session \in [Replicas -> Session \cup {NoSession}] /\ x = session'[r]
    BY <1>2 DEF Typed, TypeOK
  <2> HIDE DEF v, w, x, f, r
  <2>7. PICK c \in SUBSET Facts :
           \E y : /\ session' = [session EXCEPT ![r] = y]
                  /\ \/ y = [w EXCEPT !.inbox[f] = v, !.claimed = c]
                     \/ y = [w EXCEPT !.inbox[f] = v]
    BY <1>3
  <2>3. PICK y : /\ session' = [session EXCEPT ![r] = y]
                 /\ \/ y = [w EXCEPT !.inbox[f] = v, !.claimed = c]
                    \/ y = [w EXCEPT !.inbox[f] = v]
    BY <2>7
  <2>4. x = y /\ \A q \in Replicas : q # r => session'[q] = session[q]
    BY <1>2, <2>2, <2>3
  <2>5. /\ y \in Session /\ y.broken = w.broken /\ y.decided = w.decided
        /\ y.version = w.version /\ y.inbox = [w.inbox EXCEPT ![f] = v]
    <3>1. [w.inbox EXCEPT ![f] = v] \in [Facts -> InboxStatus \cup {"none"}]
      BY <1>2, <2>1
    <3>2. CASE y = [w EXCEPT !.inbox[f] = v, !.claimed = c]
      BY <1>2, <3>1, <3>2 DEF Session
    <3>3. CASE y = [w EXCEPT !.inbox[f] = v]
      BY <1>2, <3>1, <3>3 DEF Session
    <3>. QED  BY <2>3, <3>2, <3>3
  <2>. QED  BY <2>4, <2>5
<1>5. RowSeen(r, f) = inbox[f] /\ (pc'[h] = "read" => inbox[f] # "QUARANTINED")
  <2>1. RowSeen(r, f) = inbox[f]
    BY <1>2 DEF RowSeen
  <2>. QED  BY <1>1, <1>2, <2>1 DEF InsertReceived, DuplicateReclaim, QuarantineExisting, Expired,
     Goto, Typed, TypeOK
<1>6. /\ fact'[h] = f /\ Work(h)' = x /\ inbox' = inbox
      /\ x.inbox[f] = v /\ \A g \in Facts : x.inbox[g] # "none" => g = f
  BY <1>1, <1>2, <1>4 DEF Work, database, TransactionIs
<1>7. ~Decides(h)'
  BY <1>2, <1>4, <1>6 DEF Decides
<1>8. TransactionIs(h)'
  <2>1. /\ ~w.broken /\ \A t \in Shipments : w.version[t] # 0 => t = s
    BY <1>2 DEF TransactionIs, Work
  <2> HIDE DEF w, x, s, f
  <2>. QED  BY <1>2, <1>3, <1>4, <1>6, <1>7, <2>1 DEF TransactionIs, s
<1>9. RowsStand(h)'
  BY <1>1, <1>3, <1>5, <1>6, <1>7 DEF RowsStand, Verdicts
<1>. QED  BY <1>1, <1>2, <1>3, <1>4, <1>7, <1>8, <1>9, WriteStep DEF Working, InTransaction

\* A duplicate is acked when its row has a verdict, deferred otherwise; the
\* other answers of a transaction that comes to nothing are NAKs.
LEMMA DuplicateStep ==
    ASSUME IInv, Typed', Alone', NEW h \in Handlers,
           DuplicateTerminal(h) \/ DuplicateActive(h) \/ SaveStale(h) \/ SessionGone(h)
    PROVE  IInv'
<1>1. pc[h] \in Working /\ UNCHANGED <<broker, database>>
  BY DEF DuplicateTerminal, DuplicateActive, SaveStale, SessionGone, Working
<1>2. CASE DuplicateTerminal(h)
  <2>1. /\ pc[h] = "insert" /\ Rollback(ReplicaOf[h]) /\ AnswerWith(h, "ACK")
        /\ RowSeen(ReplicaOf[h], fact[h]) \in Verdicts
    BY <1>2 DEF DuplicateTerminal, Verdicts
  <2>2. Work(h).inbox[fact[h]] = "none"
    BY <1>1, <2>1, AtWork DEF TransactionIs, HasRow
  <2>3. inbox[fact[h]] \in Verdicts
    BY <2>1, <2>2 DEF RowSeen, Work
  <2>. QED  BY <1>1, <2>1, <2>3, AnswersOutside
<1>3. CASE DuplicateActive(h) \/ SaveStale(h)
  <2>1. Rollback(ReplicaOf[h]) /\ AnswerWith(h, "NAK") /\ pc[h] # "idle"
    BY <1>3 DEF DuplicateActive, SaveStale
  <2>. QED  BY <1>1, <2>1, AnswersOutside
<1>4. ~SessionGone(h)
  <2>1. Usable(ReplicaOf[h]) /\ TransactionIs(h)
    BY <1>1, AtWork
  <2>2. pc[h] = "mark" => RowSeen(ReplicaOf[h], fact[h]) = "PROCESSING"
    BY <2>1 DEF TransactionIs, RowSeen, Work
  <2>. QED  BY <2>1, <2>2 DEF SessionGone
<1>. QED  BY <1>2, <1>3, <1>4

\* The shipment that is read is the committed one: no write of the session is
\* on it yet, and with no decision on it its version is the first.
LEMMA ReadStep ==
    ASSUME IInv, Typed', Alone', NEW h \in Handlers, ReadShipment(h)
    PROVE  IInv'
<1> DEFINE r == ReplicaOf[h]
           f == fact[h]
           s == ShipmentOf[f]
           refused == \/ f \in Unfit \/ decision[s] # NoFact \/ HolderSeen(r, s) # NoFact
<1>1. /\ pc[h] = "read" /\ pc[h] \in Working /\ UNCHANGED <<broker, database>>
      /\ IF refused THEN Poison(h)
         ELSE /\ versions' = [versions EXCEPT ![r][s] = VersionSeen(r, s)]
              /\ readVersion' = [readVersion EXCEPT ![h] = VersionSeen(r, s)]
              /\ Goto(h, "save")
              /\ UNCHANGED <<session, fact, poison, answer>>
  BY DEF ReadShipment, Working
<1>2. /\ TransactionIs(h) /\ Usable(r) /\ answer[h] # "ACK" /\ Typed
      /\ r \in Replicas /\ f \in Facts /\ s \in Shipments
  BY <1>1, AtWork
<1>3. CASE refused
  <2>1. /\ pc[h] \in Working /\ Rollback(r)
        /\ pc' = [pc EXCEPT ![h] = "begin"] /\ UNCHANGED <<fact, readVersion, answer>>
    BY <1>1, <1>3 DEF Poison, Goto
  <2>2. pc'[h] = "begin" /\ \A k \in Handlers : k # h => pc'[k] = pc[k]
    BY <1>2, <2>1 DEF Typed, TypeOK
  <2>3. /\ UNCHANGED <<inbox, decision, holder, version>>
        /\ \A g \in Facts : msg'[g] = "acked" => inbox[g] \in Verdicts
    BY <1>1 DEF broker, database, IInv, AckedIsDecided
  <2> HIDE DEF r, f, s, refused
  <2>. QED  BY <1>2, <2>1, <2>2, <2>3, OutsideStep DEF Working, r, f
<1>4. CASE ~refused
  <2>1. /\ versions' = [versions EXCEPT ![r][s] = VersionSeen(r, s)]
        /\ readVersion' = [readVersion EXCEPT ![h] = VersionSeen(r, s)]
        /\ pc' = [pc EXCEPT ![h] = "save"] /\ UNCHANGED <<session, fact, poison, answer>>
    BY <1>1, <1>4 DEF Goto
  <2>2. ~Decides(h) /\ Work(h).inbox[f] = "PROCESSING" /\ HasRow(h)
    BY <1>1, <1>2 DEF TransactionIs, HasRow
  <2>3. session[r].version[s] = 0
    BY <1>2, <2>2 DEF TransactionIs, Work
  <2>4. VersionSeen(r, s) = version[s] /\ decision[s] = NoFact
    BY <1>4, <2>3 DEF VersionSeen
  <2>5. holder[s] = NoFact /\ version[s] = 1
    BY <1>2, <2>4 DEF IInv, ProcessedIsApplied
  <2>6. /\ versions'[r][s] = 1 /\ readVersion'[h] = 1 /\ pc'[h] = "save" /\ Goto(h, pc'[h])
        /\ \A k \in Handlers : k # h => readVersion'[k] = readVersion[k]
        /\ \A q \in Replicas : q # r => session'[q] = session[q] /\ versions'[q] = versions[q]
    <3> HIDE DEF r, f, s
    <3>1. versions[r] \in [Shipments -> Nat]
      BY <1>2 DEF Typed, TypeOK
    <3>. QED  BY <1>2, <2>1, <2>4, <2>5, <3>1 DEF Goto, Typed, TypeOK
  <2>7. Work(h)' = Work(h) /\ (HasRow(h)' <=> HasRow(h)) /\ (Decides(h)' <=> Decides(h))
    BY <1>1, <2>1, <2>6 DEF Work, HasRow, Decides, Working
  <2>8. TransactionIs(h)'
    BY <1>1, <1>2, <2>1, <2>2, <2>6, <2>7 DEF TransactionIs
  <2>9. RowsStand(h)'
    BY <1>1, <2>1, <2>7 DEF RowsStand, IInv, HandlerIs, database
  <2>. QED
    BY <1>1, <1>2, <2>1, <2>2, <2>6, <2>7, <2>8, <2>9, WriteStep DEF Working, InTransaction
<1>. QED  BY <1>3, <1>4

\* save_shipment finds the version it read: the shipment is nobody's, and the
\* row it locks is no other transaction's.
LEMMA SaveStep ==
    ASSUME IInv, Typed', Alone', NEW h \in Handlers, SaveShipment(h)
    PROVE  IInv'
<1> DEFINE r == ReplicaOf[h]
           f == fact[h]
           s == ShipmentOf[f]
           w == session[r]
           x == [w EXCEPT !.decided = @ \cup {f}, !.holder[s] = f, !.version[s] = 2]
<1>1. /\ pc[h] = "save" /\ pc[h] \in Working /\ UNCHANGED <<broker, database>>
      /\ UNCHANGED <<fact, poison, readVersion, answer>>
      /\ ShipmentRowFree(r, s) /\ VersionSeen(r, s) = ExpectedVersion(r, s)
      /\ pc' = [pc EXCEPT ![h] = "mark"]
  BY DEF SaveShipment, Working, Goto
<1>2. /\ TransactionIs(h) /\ Usable(r) /\ answer[h] # "ACK" /\ Typed
      /\ r \in Replicas /\ f \in Facts /\ s \in Shipments
      /\ w.inbox \in [Facts -> InboxStatus \cup {"none"}]
      /\ w.claimed \in SUBSET Facts /\ w.decided \in SUBSET Facts
      /\ w.holder \in [Shipments -> Facts \cup {NoFact}]
      /\ w.version \in [Shipments -> Nat]
  BY <1>1, AtWork DEF Work
<1>3. /\ w \in Session /\ ~w.broken /\ ~Decides(h) /\ w.inbox[f] = "PROCESSING" /\ HasRow(h)
      /\ w.version[s] = 0 /\ readVersion[h] = 1 /\ versions[r][s] = 1
      /\ \A g \in Facts : w.inbox[g] # "none" => g = f
      /\ \A t \in Shipments : w.version[t] # 0 => t = s
      /\ w.decided \subseteq {f}
  BY <1>1, <1>2 DEF TransactionIs, Work, HasRow
<1>4. version[s] = 1 /\ holder[s] = NoFact
  <2>1. version[s] = 1
    BY <1>1, <1>3 DEF VersionSeen, ExpectedVersion
  <2>. QED  BY <1>2, <2>1 DEF IInv, ProcessedIsApplied
<1>5. session' = [session EXCEPT ![r] = x]
  <2>1. session' = [session EXCEPT ![r].decided = @ \cup {f}, ![r].holder[s] = f,
                                   ![r].version[s] = readVersion[h] + 1]
    BY DEF SaveShipment
  <2>2. readVersion[h] + 1 = 2
    BY <1>3
  <2>. QED  BY <2>1, <2>2, Zenon
<1>6. /\ x \in Session /\ x.broken = w.broken /\ x.inbox = w.inbox
      /\ x.decided = w.decided \cup {f}
      /\ x.holder = [w.holder EXCEPT ![s] = f] /\ x.version = [w.version EXCEPT ![s] = 2]
  <2> HIDE DEF w, f, s
  <2>. QED  BY <1>2, <1>3 DEF Session
<1>7. /\ pc'[h] = "mark" /\ Goto(h, pc'[h]) /\ Work(h)' = x
      /\ \A q \in Replicas : q # r => session'[q] = session[q] /\ versions'[q] = versions[q]
  <2>1. versions' = [versions EXCEPT ![r][s] = readVersion[h] + 1]
    BY DEF SaveShipment
  <2> HIDE DEF w, x, f, s
  <2>. QED  BY <1>1, <1>2, <1>5, <2>1 DEF Goto, Work, Typed, TypeOK
<1>8. HasRow(h)' /\ Decides(h)'
  <2> HIDE DEF w, x, r
  <2>. QED  BY <1>1, <1>2, <1>3, <1>6, <1>7 DEF HasRow, Decides, Working, Work
<1>9. TransactionIs(h)'
  <2>1. \A t \in Shipments : x.version[t] # 0 => t = s
    <3> HIDE DEF x, w, f, s
    <3>. QED  BY <1>2, <1>3, <1>6
  <2>2. x.version[s] = 2 /\ x.holder[s] = f
    <3> HIDE DEF x, w, f, s
    <3>. QED  BY <1>2, <1>6
  <2> HIDE DEF w, x, r
  <2>. QED  BY <1>1, <1>2, <1>3, <1>6, <1>7, <1>8, <2>1, <2>2 DEF TransactionIs
<1>10. RowsStand(h)'
  BY <1>1, <1>3, <1>4, <1>6, <1>7, <1>8 DEF RowsStand, IInv, HandlerIs, database, Work
<1> HIDE DEF w, x
<1>. QED
  BY <1>1, <1>2, <1>3, <1>7, <1>9, <1>10, WriteStep DEF Working, InTransaction

LEMMA MarkStep ==
    ASSUME IInv, Typed', Alone', NEW h \in Handlers, MarkProcessed(h)
    PROVE  IInv'
<1> DEFINE r == ReplicaOf[h]
           f == fact[h]
           s == ShipmentOf[f]
           w == session[r]
           x == [w EXCEPT !.inbox[f] = "PROCESSED"]
<1>1. /\ pc[h] = "mark" /\ pc[h] \in Working /\ UNCHANGED <<broker, database>>
      /\ UNCHANGED <<versions, fact, poison, readVersion, answer>>
      /\ pc' = [pc EXCEPT ![h] = "commit"]
  BY DEF MarkProcessed, Working, Goto
<1>2. /\ TransactionIs(h) /\ Usable(r) /\ answer[h] # "ACK" /\ Typed
      /\ r \in Replicas /\ f \in Facts /\ s \in Shipments
      /\ w.inbox \in [Facts -> InboxStatus \cup {"none"}]
  BY <1>1, AtWork DEF Work
<1>3. /\ w \in Session /\ Decides(h) /\ HasRow(h) /\ w.inbox[f] = "PROCESSING"
  BY <1>1, <1>2 DEF TransactionIs, Work, HasRow
<1>4. session' = [session EXCEPT ![r] = x]
  BY Zenon DEF MarkProcessed
<1>5. /\ x \in Session /\ x.broken = w.broken /\ x.decided = w.decided
      /\ x.holder = w.holder /\ x.version = w.version
      /\ x.inbox = [w.inbox EXCEPT ![f] = "PROCESSED"]
  <2>1. [w.inbox EXCEPT ![f] = "PROCESSED"] \in [Facts -> InboxStatus \cup {"none"}]
    BY <1>2 DEF InboxStatus
  <2> HIDE DEF w, f
  <2>. QED  BY <1>2, <1>3, <2>1 DEF Session
<1>6. /\ pc'[h] = "commit" /\ Goto(h, pc'[h]) /\ Work(h)' = x
      /\ \A q \in Replicas : q # r => session'[q] = session[q] /\ versions'[q] = versions[q]
  <2> HIDE DEF w, x, f
  <2>. QED  BY <1>1, <1>2, <1>4 DEF Goto, Work, Typed, TypeOK
<1>7. x.inbox[f] = "PROCESSED" /\ \A g \in Facts : x.inbox[g] # "none" => g = f
  <2>1. \A g \in Facts : w.inbox[g] # "none" => g = f
    BY <1>2 DEF TransactionIs, Work
  <2> HIDE DEF w, x, f
  <2>. QED  BY <1>2, <1>5, <2>1
<1>8. HasRow(h)' /\ Decides(h)'
  <2>1. pc'[h] \in Working /\ fact'[h] = f /\ Work(h)' = x
    BY <1>1, <1>6 DEF Working
  <2>2. f \in x.decided /\ x.inbox[f] # "none"
    BY <1>3, <1>5, <1>7 DEF Decides, Work
  <2> HIDE DEF w, x, r, f
  <2>. QED  BY <2>1, <2>2 DEF HasRow, Decides
<1>9. TransactionIs(h)'
  <2>1. /\ ~w.broken /\ w.decided \subseteq {f} /\ w.version[s] = 2 /\ w.holder[s] = f
        /\ \A t \in Shipments : w.version[t] # 0 => t = s
    BY <1>2, <1>3 DEF TransactionIs, Work
  <2> HIDE DEF w, x, r
  <2>. QED  BY <1>1, <1>2, <1>3, <1>5, <1>6, <1>7, <1>8, <2>1 DEF TransactionIs
<1>10. RowsStand(h)'
  <2>1. RowsStand(h) /\ inbox[f] \notin Verdicts
    BY <1>2, <1>3 DEF IInv, HandlerIs, RowsStand, Work
  <2>. QED  BY <1>1, <1>3, <1>6, <1>7, <1>8, <2>1 DEF RowsStand, database, Verdicts
<1> HIDE DEF w, x
<1>. QED
  BY <1>1, <1>2, <1>3, <1>6, <1>9, <1>10, WriteStep DEF Working, InTransaction

\* What becomes durable when handler h commits: its fact's verdict, and the
\* custody its fact starts.
Records(h) ==
    /\ inbox' = [inbox EXCEPT ![fact[h]] = IF Decides(h) THEN "PROCESSED" ELSE "QUARANTINED"]
    /\ IF Decides(h)
       THEN /\ decision' = [decision EXCEPT ![ShipmentOf[fact[h]]] = fact[h]]
            /\ holder' = [holder EXCEPT ![ShipmentOf[fact[h]]] = fact[h]]
            /\ version' = [version EXCEPT ![ShipmentOf[fact[h]]] = 2]
       ELSE UNCHANGED <<decision, holder, version>>

LEMMA CommitRecords ==
    ASSUME IInv, NEW h \in Handlers, pc[h] = "commit", CommitWrites(ReplicaOf[h])
    PROVE  Records(h)
<1> DEFINE f == fact[h]
           s == ShipmentOf[f]
           w == session[ReplicaOf[h]]
<1>1. pc[h] \in Working
  BY DEF Working
<1>2. /\ TransactionIs(h) /\ Typed /\ f \in Facts /\ s \in Shipments
      /\ w.decided \in SUBSET Facts
  BY <1>1, AtWork DEF Work
<1>3. /\ w.inbox[f] = IF Decides(h) THEN "PROCESSED" ELSE "QUARANTINED"
      /\ \A g \in Facts : w.inbox[g] # "none" => g = f
      /\ \A t \in Shipments : w.version[t] # 0 => t = s
      /\ w.decided \subseteq {f}
      /\ Decides(h) => w.version[s] = 2 /\ w.holder[s] = f
      /\ ~Decides(h) => w.version[s] = 0
      /\ Decides(h) <=> f \in w.decided
  BY <1>1, <1>2 DEF TransactionIs, Work, Decides
<1>4. /\ inbox' = [g \in Facts |-> IF w.inbox[g] # "none" THEN w.inbox[g] ELSE inbox[g]]
      /\ decision' = [t \in Shipments |->
             IF \E g \in w.decided : ShipmentOf[g] = t
             THEN CHOOSE g \in w.decided : ShipmentOf[g] = t ELSE decision[t]]
      /\ holder' = [t \in Shipments |-> IF w.version[t] # 0 THEN w.holder[t] ELSE holder[t]]
      /\ version' = [t \in Shipments |-> IF w.version[t] # 0 THEN w.version[t] ELSE version[t]]
  BY DEF CommitWrites
<1>5. /\ inbox \in [Facts -> InboxStatus \cup {"none"}]
      /\ decision \in [Shipments -> Facts \cup {NoFact}]
      /\ holder \in [Shipments -> Facts \cup {NoFact}] /\ version \in [Shipments -> Nat]
  BY <1>2 DEF Typed, TypeOK
<1>6. s = ShipmentOf[f]
  OBVIOUS
<1> HIDE DEF w, f, s
<1>7. inbox' = [inbox EXCEPT ![f] = IF Decides(h) THEN "PROCESSED" ELSE "QUARANTINED"]
  BY <1>2, <1>3, <1>4, <1>5
<1>8. CASE Decides(h)
  <2>1. /\ holder' = [holder EXCEPT ![s] = f] /\ version' = [version EXCEPT ![s] = 2]
    <3>1. w.version[s] = 2 /\ w.holder[s] = f /\ \A t \in Shipments : t # s => w.version[t] = 0
      BY <1>3, <1>8
    <3>2. \A t \in Shipments : /\ holder'[t] = IF t = s THEN f ELSE holder[t]
                              /\ version'[t] = IF t = s THEN 2 ELSE version[t]
      BY <1>4, <3>1
    <3>3. /\ holder' = [t \in Shipments |-> IF t = s THEN f ELSE holder[t]]
          /\ version' = [t \in Shipments |-> IF t = s THEN 2 ELSE version[t]]
      BY <1>4, <3>2
    <3>. QED  BY <1>2, <1>5, <3>3
  <2>2. w.decided = {f}
    BY <1>3, <1>8
  <2>3. (CHOOSE g \in {f} : ShipmentOf[g] = s) = f
    <3>1. \E g \in {f} : ShipmentOf[g] = s
      BY <1>6
    <3>. QED  BY <3>1
  <2>4. decision' = [t \in Shipments |-> IF t = s THEN f ELSE decision[t]]
    <3>1. ASSUME NEW t \in Shipments
          PROVE  decision'[t] = IF t = s THEN f ELSE decision[t]
      <4>1. CASE t = s
        BY <1>4, <1>6, <2>2, <2>3, <4>1
      <4>2. CASE t # s
        BY <1>4, <1>6, <2>2, <4>2
      <4>. QED  BY <4>1, <4>2
    <3>. QED  BY <1>4, <3>1
  <2>5. decision' = [decision EXCEPT ![s] = f]
    BY <1>2, <1>5, <2>4
  <2>. QED  BY <1>7, <1>8, <2>1, <2>5 DEF Records, f, s
<1>9. CASE ~Decides(h)
  <2>1. w.decided = {} /\ \A t \in Shipments : w.version[t] = 0
    BY <1>3, <1>9
  <2>2. holder' = holder /\ version' = version
    BY <1>4, <1>5, <2>1
  <2>3. decision' = decision
    BY <1>4, <1>5, <2>1
  <2>. QED  BY <1>7, <1>9, <2>2, <2>3 DEF Records, f
<1>. QED  BY <1>8, <1>9

LEMMA CommitStep ==
    ASSUME IInv, Typed', Alone', NEW h \in Handlers, pc[h] = "commit",
           CommitWrites(ReplicaOf[h]), Rollback(ReplicaOf[h]), NEW a \in {"ACK", "NAK"},
           AnswerWith(h, a), UNCHANGED broker
    PROVE  IInv'
<1> DEFINE f == fact[h]
           s == ShipmentOf[f]
<1>1. pc[h] \in Working
  BY DEF Working
<1>2. /\ TransactionIs(h) /\ Typed /\ f \in Facts /\ s \in Shipments /\ ReplicaOf[h] \in Replicas
      /\ RowsStand(h) /\ Records(h)
  BY <1>1, AtWork, CommitRecords DEF IInv, HandlerIs
<1>3. HasRow(h)
  BY <1>1, <1>2 DEF TransactionIs, HasRow
<1>4. inbox[f] # "PROCESSED" /\ (Decides(h) => holder[s] = NoFact)
  BY <1>2, <1>3 DEF RowsStand
<1>5. /\ inbox \in [Facts -> InboxStatus \cup {"none"}]
      /\ decision \in [Shipments -> Facts \cup {NoFact}]
      /\ holder \in [Shipments -> Facts \cup {NoFact}] /\ version \in [Shipments -> Nat]
      /\ NoFact \notin Facts /\ \A g \in Facts : ShipmentOf[g] \in Shipments
  BY <1>2, ConsumerConstants DEF Typed, TypeOK
<1>6. /\ inbox'[f] = IF Decides(h) THEN "PROCESSED" ELSE "QUARANTINED"
      /\ \A g \in Facts : g # f => inbox'[g] = inbox[g]
      /\ \A t \in Shipments : ~Decides(h) \/ t # s =>
             holder'[t] = holder[t] /\ decision'[t] = decision[t] /\ version'[t] = version[t]
      /\ Decides(h) => holder'[s] = f /\ decision'[s] = f /\ version'[s] = 2
  <2>1. CASE Decides(h)
    <3>1. /\ inbox' = [inbox EXCEPT ![f] = "PROCESSED"] /\ decision' = [decision EXCEPT ![s] = f]
          /\ holder' = [holder EXCEPT ![s] = f] /\ version' = [version EXCEPT ![s] = 2]
      BY <1>2, <2>1 DEF Records
    <3> HIDE DEF s, f
    <3>. QED  BY <1>2, <1>5, <2>1, <3>1
  <2>2. CASE ~Decides(h)
    <3>1. inbox' = [inbox EXCEPT ![f] = "QUARANTINED"] /\ UNCHANGED <<decision, holder, version>>
      BY <1>2, <2>2 DEF Records
    <3> HIDE DEF s, f
    <3>. QED  BY <1>2, <1>5, <2>2, <3>1
  <2>. QED  BY <2>1, <2>2
<1>7. \A g \in Facts : inbox[g] \in Verdicts => inbox'[g] \in Verdicts
  BY <1>6 DEF Verdicts
<1>8. ProcessedIsApplied'
  <2>1. ASSUME NEW g \in Facts PROVE inbox'[g] = "PROCESSED" <=> holder'[ShipmentOf[g]] = g
    <3>1. inbox[g] = "PROCESSED" <=> holder[ShipmentOf[g]] = g
      BY DEF IInv, ProcessedIsApplied
    <3>2. CASE g = f
      <4>1. CASE Decides(h)
        BY <1>6, <3>2, <4>1
      <4>2. CASE ~Decides(h)
        BY <1>2, <1>4, <1>6, <3>1, <3>2, <4>2
      <4>. QED  BY <4>1, <4>2
    <3>3. CASE g # f
      BY <1>4, <1>5, <1>6, <3>1, <3>3
    <3>. QED  BY <3>2, <3>3
  <2>2. ASSUME NEW t \in Shipments
        PROVE  decision'[t] = holder'[t] /\ version'[t] = IF holder'[t] = NoFact THEN 1 ELSE 2
    BY <1>2, <1>5, <1>6, <2>2 DEF IInv, ProcessedIsApplied
  <2>. QED  BY <2>1, <2>2 DEF ProcessedIsApplied
<1>9. AckedIsDecided'
  BY <1>7 DEF IInv, AckedIsDecided, broker
<1>10. /\ pc'[h] = "answer" /\ answer'[h] = a /\ fact' = fact /\ readVersion' = readVersion
       /\ \A k \in Handlers : k # h => pc'[k] = pc[k] /\ answer'[k] = answer[k]
  BY <1>2 DEF AnswerWith, Goto, Typed, TypeOK
<1>11. /\ InTransaction(h) /\ Alone
       /\ \A q \in Replicas : q # ReplicaOf[h] => session'[q] = session[q] /\ versions'[q] = versions[q]
  BY <1>1, <1>2 DEF Rollback, SetSession, Typed, TypeOK, InTransaction, IInv
<1>12. HandlerIs(h)' /\ ~HasRow(h)' /\ ~Decides(h)'
  BY <1>2, <1>6, <1>10, OutsideIs DEF Working, Verdicts
<1>13. ASSUME NEW g \in Handlers, g # h
       PROVE  /\ HandlerIs(g)' /\ (HasRow(g)' <=> HasRow(g)) /\ (Decides(g)' <=> Decides(g))
              /\ fact'[g] = fact[g]
  <2>1. Stays(g)
    BY <1>2, <1>10, <1>11, <1>13, OthersStay
  <2>2. HandlerIs(g) /\ Excludes(h, g)
    BY <1>13 DEF IInv
  <2>3. /\ HasRow(g)' <=> HasRow(g)
        /\ Decides(g)' <=> Decides(g)
        /\ pc'[g] # "idle" => fact'[g] \in Facts
        /\ pc'[g] \in Working => TransactionIs(g)' /\ Work(g)' = Work(g)
    BY <2>1, <2>2, StaysAsItIs
  <2>4. RowsStand(g)'
    <3>1. ASSUME HasRow(g) PROVE inbox'[fact[g]] = inbox[fact[g]] /\ Work(g)' = Work(g)
      <4>1. fact[g] \in Facts /\ fact[g] # f
        BY <1>3, <2>2, <3>1 DEF HandlerIs, HasRow, Excludes, Working
      <4>. QED  BY <1>6, <2>1, <2>3, <3>1, <4>1 DEF Stays, HasRow
    <3>2. ASSUME Decides(g) PROVE holder'[ShipmentOf[fact[g]]] = holder[ShipmentOf[fact[g]]]
      <4>1. fact[g] \in Facts
        BY <2>2, <3>2 DEF HandlerIs, Decides, Working
      <4>2. ~Decides(h) \/ ShipmentOf[fact[g]] # s
        BY <2>2, <3>2 DEF Excludes
      <4>. QED  BY <1>5, <1>6, <4>1, <4>2
    <3>. QED  BY <2>1, <2>2, <2>3, <3>1, <3>2 DEF RowsStand, HandlerIs, Stays
  <2>5. answer'[g] = "ACK" => pc'[g] = "answer" /\ inbox'[fact'[g]] \in Verdicts
    BY <1>7, <2>1, <2>2 DEF HandlerIs, Stays
  <2>. QED  BY <2>1, <2>3, <2>4, <2>5 DEF HandlerIs, Stays
<1>14. ASSUME NEW g \in Handlers, NEW k \in Handlers, g # k PROVE Excludes(g, k)'
  BY <1>12, <1>13, <1>14 DEF IInv, Excludes
<1>. QED  BY <1>8, <1>9, <1>12, <1>13, <1>14 DEF IInv, Typed

\* A step of the broker or of time, or a crash: each handler stays as it is, or
\* is idle again.
LEMMA AllStay ==
    ASSUME IInv, Typed', Alone',
           \A g \in Handlers : Stays(g) \/ (pc'[g] = "idle" /\ answer'[g] = "none"),
           UNCHANGED <<inbox, decision, holder, version>>,
           \A f \in Facts : msg'[f] = "acked" => inbox[f] \in Verdicts
    PROVE  IInv'
<1>1. ASSUME NEW g \in Handlers
      PROVE  /\ HandlerIs(g)'
             /\ HasRow(g)' => HasRow(g) /\ fact'[g] = fact[g]
             /\ Decides(g)' => Decides(g) /\ fact'[g] = fact[g]
  <2>1. CASE Stays(g)
    <3>1. HandlerIs(g)
      BY DEF IInv
    <3>2. /\ HasRow(g)' <=> HasRow(g)
          /\ Decides(g)' <=> Decides(g)
          /\ pc'[g] # "idle" => fact'[g] \in Facts
          /\ pc'[g] \in Working => TransactionIs(g)' /\ Work(g)' = Work(g)
      BY <2>1, <3>1, StaysAsItIs
    <3>3. HasRow(g) => Work(g)' = Work(g)
      BY <2>1, <3>2 DEF HasRow, Stays
    <3>4. RowsStand(g)'
      BY <2>1, <3>1, <3>2, <3>3 DEF HandlerIs, RowsStand, Stays
    <3>. QED  BY <2>1, <3>1, <3>2, <3>4 DEF HandlerIs, Stays
  <2>2. CASE pc'[g] = "idle" /\ answer'[g] = "none"
    BY <2>2 DEF HandlerIs, RowsStand, HasRow, Decides, Working
  <2>. QED  BY <2>1, <2>2
<1>2. ASSUME NEW g \in Handlers, NEW k \in Handlers, g # k PROVE Excludes(g, k)'
  BY <1>1, <1>2 DEF IInv, Excludes
<1>3. ProcessedIsApplied' /\ AckedIsDecided'
  BY DEF IInv, ProcessedIsApplied, AckedIsDecided
<1>. QED  BY <1>1, <1>2, <1>3 DEF IInv, Typed

\* The broker's side of a handler: it takes a message and gives its answer.
LEMMA BrokerStep ==
    ASSUME IInv, Typed', Alone', NEW h \in Handlers,
           (\E f \in Facts : Fetch(h, f)) \/ Answer(h) \/ LoseAnswer(h)
    PROVE  IInv'
<1>1. /\ Typed /\ HandlerIs(h) /\ AckedIsDecided
      /\ msg \in [Facts -> {"ready", "out", "acked"}]
      /\ pc \in [Handlers -> Steps] /\ fact \in [Handlers -> Facts \cup {NoFact}]
      /\ answer \in [Handlers -> {"none", "ACK", "NAK"}]
  BY DEF IInv, Typed, TypeOK, Busy, HandlerIs
<1>2. CASE \E f \in Facts : Fetch(h, f)
  <2>1. PICK f \in Facts : Fetch(h, f)
    BY <1>2
  <2>2. /\ pc[h] = "idle" /\ msg[f] = "ready" /\ msg' = [msg EXCEPT ![f] = "out"]
        /\ pc' = [pc EXCEPT ![h] = "begin"] /\ fact' = [fact EXCEPT ![h] = f]
        /\ UNCHANGED <<readVersion, answer, store, inbox, decision, holder, version>>
    BY <2>1 DEF Fetch, Deliverable, Goto, database
  <2>3. \A g \in Facts : msg'[g] = "acked" => inbox[g] \in Verdicts
    BY <1>1, <2>2 DEF AckedIsDecided
  <2>4. /\ pc'[h] = "begin" /\ fact'[h] = f /\ answer'[h] # "ACK"
        /\ \A k \in Handlers : k # h => /\ pc'[k] = pc[k] /\ fact'[k] = fact[k]
                                        /\ answer'[k] = answer[k] /\ readVersion'[k] = readVersion[k]
    BY <1>1, <2>2 DEF HandlerIs
  <2>. QED  BY <2>2, <2>3, <2>4, OutsideStep DEF Working
<1>3. CASE Answer(h) \/ LoseAnswer(h)
  <2>1. /\ pc[h] = "answer"
        /\ pc' = [pc EXCEPT ![h] = "idle"] /\ answer' = [answer EXCEPT ![h] = "none"]
        /\ fact' = [fact EXCEPT ![h] = NoFact]
        /\ UNCHANGED <<readVersion, store, inbox, decision, holder, version>>
    BY <1>3 DEF Answer, LoseAnswer, Goto, database
  <2>2. \A g \in Facts : msg'[g] = "acked" => inbox[g] \in Verdicts
    BY <1>1, <1>3 DEF Answer, LoseAnswer, broker, AckedIsDecided, HandlerIs
  <2>3. /\ pc'[h] = "idle" /\ answer'[h] = "none"
        /\ \A k \in Handlers : k # h => /\ pc'[k] = pc[k] /\ fact'[k] = fact[k]
                                        /\ answer'[k] = answer[k] /\ readVersion'[k] = readVersion[k]
    BY <1>1, <2>1
  <2>. QED  BY <2>1, <2>2, <2>3, OutsideStep DEF Working
<1>. QED  BY <1>2, <1>3

\* A failed statement leaves a broken session behind, and nothing durable.
LEMMA DbErrorStep ==
    ASSUME IInv, Typed', Alone', NEW h \in Handlers, DbError(h)
    PROVE  IInv'
<1> DEFINE r == ReplicaOf[h]
           x == [EmptySession EXCEPT !.broken = TRUE]
<1>1. /\ pc[h] \in Working /\ AnswerWith(h, "NAK") /\ session' = [session EXCEPT ![r] = x]
      /\ UNCHANGED <<versions, broker, database>>
  BY DEF DbError, Working
<1>2. Typed /\ r \in Replicas /\ fact[h] \in Facts
  BY <1>1, AtWork
<1>4. /\ InTransaction(h) /\ Alone
      /\ \A q \in Replicas : q # r => session'[q] = session[q] /\ versions'[q] = versions[q]
  <2> HIDE DEF x
  <2>. QED  BY <1>1, <1>2 DEF Typed, TypeOK, InTransaction, IInv
<1>5. /\ pc'[h] = "answer" /\ answer'[h] = "NAK" /\ fact' = fact /\ readVersion' = readVersion
      /\ \A k \in Handlers : k # h => pc'[k] = pc[k] /\ answer'[k] = answer[k]
  BY <1>1, <1>2 DEF AnswerWith, Goto, Typed, TypeOK
<1>6. /\ UNCHANGED <<inbox, decision, holder, version>>
      /\ \A f \in Facts : msg'[f] = "acked" => inbox[f] \in Verdicts
  BY <1>1 DEF broker, database, IInv, AckedIsDecided
<1>7. \A g \in Handlers : g # h => Stays(g)
  BY <1>2, <1>4, <1>5, OthersStay
<1>8. HandlerIs(h)' /\ ~HasRow(h)' /\ ~Decides(h)'
  BY <1>2, <1>5, OutsideIs DEF Working
<1>. QED  BY <1>6, <1>7, <1>8, QuietStep

\* A crash is the end of whatever the handlers of its replica were doing.
LEMMA CrashStep ==
    ASSUME IInv, Typed', Alone', NEW r \in Replicas, Crash(r)
    PROVE  IInv'
<1>1. /\ Typed /\ AckedIsDecided /\ Rollback(r) /\ readVersion' = readVersion
      /\ pc' = [h \in Handlers |-> IF ReplicaOf[h] = r THEN "idle" ELSE pc[h]]
      /\ fact' = [h \in Handlers |-> IF ReplicaOf[h] = r THEN NoFact ELSE fact[h]]
      /\ answer' = [h \in Handlers |-> IF ReplicaOf[h] = r THEN "none" ELSE answer[h]]
      /\ UNCHANGED <<msg, inbox, decision, holder, version>>
  BY DEF IInv, Typed, Busy, HandlerIs, Crash, broker, database
<1>2. \A f \in Facts : msg'[f] = "acked" => inbox[f] \in Verdicts
  BY <1>1 DEF AckedIsDecided
<1>3. \A q \in Replicas : q # r => session'[q] = session[q] /\ versions'[q] = versions[q]
  BY <1>1 DEF Rollback, SetSession, Typed, TypeOK
<1>4. ASSUME NEW g \in Handlers
      PROVE  Stays(g) \/ (pc'[g] = "idle" /\ answer'[g] = "none")
  BY <1>1, <1>3, ConsumerConstants DEF Stays
<1>. QED  BY <1>1, <1>2, <1>4, AllStay

LEMMA InvStep ==
    ASSUME IInv, [Next]_vars, ~BeginRace'
    PROVE  IInv'
<1>1. Typed /\ Typed' /\ Alone'
  BY TypedStep, AloneStep DEF IInv, Typed, Busy, HandlerIs
<1>2. ASSUME NEW h \in Handlers, Commit(h) \/ CommitError(h)
      PROVE  IInv'
  <2> DEFINE r == ReplicaOf[h]
  <2>1. PICK a \in {"ACK", "NAK"} :
           /\ pc[h] = "commit" /\ AnswerWith(h, a) /\ Rollback(r) /\ UNCHANGED broker
           /\ CommitWrites(r) \/ (UNCHANGED database /\ a = "NAK")
    BY <1>2 DEF Commit, CommitError
  <2>2. CASE CommitWrites(r)
    BY <1>1, <2>1, <2>2, CommitStep
  <2>3. CASE UNCHANGED database /\ a = "NAK"
    BY <1>1, <2>1, <2>3, AnswersOutside DEF Working
  <2>. QED  BY <2>1, <2>2, <2>3
<1>3. ASSUME \/ \E f \in Facts : AckWaitPasses(f) \/ LeaseLapses(f)
             \/ UNCHANGED vars
      PROVE  IInv'
  <2>1. /\ UNCHANGED <<store, pc, fact, readVersion, answer, inbox, decision, holder, version>>
        /\ \A f \in Facts : msg'[f] = "acked" => msg[f] = "acked"
    BY <1>1, <1>3 DEF AckWaitPasses, LeaseLapses, vars, broker, database, thread, Typed, TypeOK
  <2>2. \A g \in Handlers : Stays(g)
    BY <2>1 DEF Stays, store
  <2>. QED  BY <1>1, <2>1, <2>2, AllStay DEF IInv, AckedIsDecided
<1>. QED
  BY <1>1, <1>2, <1>3, BeginStep, RowStep, DuplicateStep, ReadStep, SaveStep, MarkStep, BrokerStep,
     DbErrorStep, CrashStep DEF Next, HandlerStep

LEMMA InvInit == Init => IInv
<1> SUFFICES ASSUME Init PROVE IInv
  OBVIOUS
<1>1. TypeOK
  BY ConsumerConstants DEF Init, TypeOK, Steps, InboxStatus
<1>2. ProcessedIsApplied /\ AckedIsDecided
  BY ConsumerConstants DEF Init, ProcessedIsApplied, AckedIsDecided
<1>3. ASSUME NEW h \in Handlers PROVE HandlerIs(h) /\ ~HasRow(h) /\ ~Decides(h)
  <2>1. pc[h] = "idle" /\ answer[h] = "none" /\ session[ReplicaOf[h]] = NoSession
    BY ConsumerConstants DEF Init
  <2>. QED  BY <2>1 DEF HandlerIs, RowsStand, HasRow, Decides, Working
<1>4. Alone
  BY DEF Init, Alone, InTransaction, Working
<1>. QED  BY <1>1, <1>2, <1>3, <1>4 DEF IInv, Excludes

LEMMA InvAlways == Spec /\ []~BeginRace => []IInv
BY InvInit, InvStep, PTL DEF Spec

\* However many handlers share a replica: until two of them race at begin(), the
\* inbox row of a fact says PROCESSED exactly when its acceptance is the decision
\* and the custody of its shipment; what the transaction wrote is what is
\* committed, on every interleaving.
THEOREM RowAndCustodyAgree == Spec /\ []~BeginRace => []ProcessedIsApplied
BY InvAlways, PTL DEF IInv

\* However many handlers share a replica: until two of them race at begin(),
\* JetStream forgets a fact only after the commit that decided it, whatever
\* crashes, lost answers, failed statements and redeliveries intervene.
THEOREM AcksFollowVerdicts == Spec /\ []~BeginRace => []AckedIsDecided
BY InvAlways, PTL DEF IInv

-----------------------------------------------------------------------------
(* The refinement *)

\* A step that changes no verdict, no custody and no ack is a stutter.
LEMMA StepStutters ==
    ASSUME \A f \in Facts : msg'[f] = "acked" <=> msg[f] = "acked",
           inbox' = inbox, holder' = holder
    PROVE  UNCHANGED Promise!vars
<1>1. VerdictOf' = VerdictOf
  BY DEF VerdictOf
<1>2. Acked' = Acked
  BY DEF Acked
<1>. QED  BY <1>1, <1>2 DEF Promise!vars

\* A commit applies the fact, refuses it, or repeats a refusal.
LEMMA CommitPromises ==
    ASSUME IInv, NEW h \in Handlers, pc[h] = "commit", CommitWrites(ReplicaOf[h]), UNCHANGED broker
    PROVE  Promise!Next \/ UNCHANGED Promise!vars
<1> DEFINE f == fact[h]
           s == ShipmentOf[f]
<1>1. pc[h] \in Working
  BY DEF Working
<1>2. /\ TransactionIs(h) /\ Typed /\ f \in Facts /\ s \in Shipments /\ RowsStand(h) /\ Records(h)
  BY <1>1, AtWork, CommitRecords DEF IInv, HandlerIs
<1>3. HasRow(h) /\ Work(h).inbox[f] = IF Decides(h) THEN "PROCESSED" ELSE "QUARANTINED"
  BY <1>1, <1>2 DEF TransactionIs, HasRow
<1>4. /\ inbox \in [Facts -> InboxStatus \cup {"none"}] /\ inbox[f] # "PROCESSED"
      /\ Decides(h) => inbox[f] \notin Verdicts /\ holder[s] = NoFact
  BY <1>2, <1>3 DEF RowsStand, Typed, TypeOK
<1>5. Acked' = Acked /\ msg' = msg
  BY DEF Acked, broker
<1>6. VerdictOf \in [Facts -> {"none", "applied", "refused"}]
  BY DEF VerdictOf
<1>7. CASE Decides(h)
  <2>1. /\ inbox' = [inbox EXCEPT ![f] = "PROCESSED"] /\ holder' = [holder EXCEPT ![s] = f]
    BY <1>2, <1>7 DEF Records
  <2>2. VerdictOf[f] = "none"
    BY <1>2, <1>4, <1>7 DEF VerdictOf, Verdicts
  <2>3. VerdictOf' = [VerdictOf EXCEPT ![f] = "applied"]
    <3> HIDE DEF f
    <3>. QED  BY <1>2, <1>4, <2>1 DEF VerdictOf
  <2>4. Promise!Apply(f)
    BY <1>4, <1>5, <1>7, <2>1, <2>2, <2>3 DEF Promise!Apply
  <2>. QED  BY <1>2, <2>4 DEF Promise!Next
<1>8. CASE ~Decides(h)
  <2>1. inbox' = [inbox EXCEPT ![f] = "QUARANTINED"] /\ holder' = holder
    BY <1>2, <1>8 DEF Records
  <2>2. CASE inbox[f] = "QUARANTINED"
    <3>1. inbox' = inbox
      BY <1>2, <1>4, <2>1, <2>2
    <3>. QED  BY <1>5, <2>1, <3>1, StepStutters
  <2>3. CASE inbox[f] # "QUARANTINED"
    <3>1. VerdictOf[f] = "none"
      BY <1>2, <1>4, <2>3 DEF VerdictOf
    <3>2. VerdictOf' = [VerdictOf EXCEPT ![f] = "refused"]
      <4> HIDE DEF f
      <4>. QED  BY <1>2, <1>4, <2>1 DEF VerdictOf
    <3>3. Promise!Refuse(f)
      BY <1>5, <2>1, <3>1, <3>2 DEF Promise!Refuse
    <3>. QED  BY <1>2, <3>3 DEF Promise!Next
  <2>. QED  BY <2>2, <2>3
<1>. QED  BY <1>7, <1>8

\* An ACK forgets a fact that has its verdict.
LEMMA AnswerPromises ==
    ASSUME IInv, NEW h \in Handlers, Answer(h)
    PROVE  Promise!Next \/ UNCHANGED Promise!vars
<1> DEFINE f == fact[h]
<1>1. /\ pc[h] = "answer" /\ f \in Facts /\ HandlerIs(h) /\ inbox' = inbox /\ holder' = holder
      /\ msg \in [Facts -> {"ready", "out", "acked"}]
      /\ msg' = [msg EXCEPT ![f] = IF @ = "acked" \/ answer[h] = "ACK" THEN "acked" ELSE "ready"]
  BY DEF IInv, HandlerIs, Answer, database, TypeOK
<1>2. CASE answer[h] = "ACK"
  <2>1. inbox[f] \in Verdicts
    BY <1>1, <1>2 DEF HandlerIs
  <2>2. VerdictOf[f] # "none"
    BY <1>1, <2>1 DEF VerdictOf, Verdicts
  <2>3. Acked' = Acked \cup {f}
    <3> HIDE DEF f
    <3>. QED  BY <1>1, <1>2 DEF Acked
  <2>4. VerdictOf' = VerdictOf
    BY <1>1 DEF VerdictOf
  <2>5. Promise!Forget(f)
    BY <1>1, <2>2, <2>3, <2>4 DEF Promise!Forget
  <2>. QED  BY <1>1, <2>5 DEF Promise!Next
<1>3. CASE answer[h] # "ACK"
  <2>1. \A g \in Facts : msg'[g] = "acked" <=> msg[g] = "acked"
    <3> HIDE DEF f
    <3>. QED  BY <1>1, <1>3
  <2>. QED  BY <1>1, <2>1, StepStutters
<1>. QED  BY <1>2, <1>3

LEMMA StepPromises ==
    ASSUME IInv, [Next]_vars
    PROVE  [Promise!Next]_(Promise!vars)
<1>1. /\ msg \in [Facts -> {"ready", "out", "acked"}]
  BY DEF IInv, TypeOK
<1>2. ASSUME NEW h \in Handlers, Commit(h) \/ CommitError(h)
      PROVE  [Promise!Next]_(Promise!vars)
  <2>1. /\ pc[h] = "commit" /\ UNCHANGED broker
        /\ CommitWrites(ReplicaOf[h]) \/ UNCHANGED database
    BY <1>2 DEF Commit, CommitError
  <2>2. CASE CommitWrites(ReplicaOf[h])
    BY <2>1, <2>2, CommitPromises
  <2>3. CASE UNCHANGED database
    BY <2>1, <2>3, StepStutters DEF broker, database
  <2>. QED  BY <2>1, <2>2, <2>3
<1>3. ASSUME NEW h \in Handlers, Answer(h)
      PROVE  [Promise!Next]_(Promise!vars)
  BY <1>3, AnswerPromises
<1>4. ASSUME NEW h \in Handlers,
             \/ BeginCheck(h) \/ BeginSet(h) \/ InsertReceived(h) \/ DuplicateTerminal(h)
             \/ DuplicateActive(h) \/ DuplicateReclaim(h) \/ QuarantineExisting(h)
             \/ ReadShipment(h) \/ SaveShipment(h) \/ SaveStale(h) \/ MarkProcessed(h)
             \/ SessionGone(h) \/ DbError(h) \/ LoseAnswer(h)
      PROVE  [Promise!Next]_(Promise!vars)
  <2>1. UNCHANGED <<msg, inbox, holder>>
    BY <1>4 DEF BeginCheck, BeginSet, InsertReceived, DuplicateTerminal, DuplicateActive,
       DuplicateReclaim, QuarantineExisting, ReadShipment, SaveShipment, SaveStale, MarkProcessed,
       SessionGone, DbError, LoseAnswer, broker, database
  <2>. QED  BY <2>1, StepStutters
<1>5. ASSUME \/ \E h \in Handlers, f \in Facts : Fetch(h, f)
             \/ \E r \in Replicas : Crash(r)
             \/ \E f \in Facts : AckWaitPasses(f) \/ LeaseLapses(f)
             \/ UNCHANGED vars
      PROVE  [Promise!Next]_(Promise!vars)
  <2>1. UNCHANGED <<inbox, holder>> /\ \A f \in Facts : msg'[f] = "acked" <=> msg[f] = "acked"
    BY <1>1, <1>5 DEF Fetch, Deliverable, Crash, AckWaitPasses, LeaseLapses, vars, broker, database
  <2>. QED  BY <2>1, StepStutters
<1>. QED  BY <1>2, <1>3, <1>4, <1>5 DEF Next, HandlerStep

\* However many handlers share a replica: until two of them race at begin(), the
\* consumer implements AcceptOnce: verdicts are final, only the one fact that is
\* applied starts custody of a shipment, and a fact is forgotten after its verdict.
THEOREM ImplementsAcceptOnce == Spec /\ []~BeginRace => AcceptsOnce
<1>1. Init => Promise!Init
  <2> SUFFICES ASSUME Init PROVE Promise!Init
    OBVIOUS
  <2>1. VerdictOf = [f \in Facts |-> "none"] /\ Acked = {}
    BY DEF Init, VerdictOf, Acked
  <2>. QED  BY <2>1 DEF Init, Promise!Init
<1>2. IInv /\ [Next]_vars => [Promise!Next]_(Promise!vars)
  BY StepPromises
<1>. QED  BY <1>1, <1>2, InvAlways, PTL DEF Spec, AcceptsOnce, Promise!Spec
=============================================================================
