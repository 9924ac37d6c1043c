--------------------------- MODULE LastMileProofs ---------------------------
(***************************************************************************)
(* The last mile for any number of shipments, requests, drop-offs, parcels, *)
(* consignments and stops: the invariant of each place, and with them what  *)
(* a behaviour of the service keeps.                                        *)
(***************************************************************************)
EXTENDS LastMile, FiniteSetTheorems, TLAPS

-----------------------------------------------------------------------------
(* Custody *)

(* What optimistic concurrency gives: a row whose version did not move      *)
(* since a transaction read it did not change, and transfers stay.          *)
SeenIsCurrent ==
    \A w \in Workers : request[w] # None =>
        LET s == ShipmentOf[request[w]]
        IN  /\ seen[w].shipment.version <= shipment[s].version
            /\ seen[w].shipment.version = shipment[s].version
                  => seen[w].shipment = shipment[s]
            /\ seen[w].transfer # None => transfer[s] = seen[w].transfer

(* A shipment that was never created has no row and no records. *)
AbsentIsNew ==
    \A s \in Shipments : shipment[s].status = "ABSENT" =>
        shipment[s] = NoShipment /\ decision[s] = None /\ events[s] = {}

IInv == /\ TypeOK /\ SeenIsCurrent /\ AbsentIsNew
        /\ CustodyExplained /\ VersionCountsWrites /\ AnswersAreTrue

-----------------------------------------------------------------------------
(* Rows: the initial ones and the ones a write makes. *)
LEMMA NoRows == NoShipment \in ShipmentRow /\ NoTask \in TaskRow /\ NothingSeen \in Snapshot
  <1>1. NewShipment \in ShipmentRow
    BY DEF NewShipment, ShipmentRow, Status
  <1>2. NoShipment \in ShipmentRow
    BY <1>1 DEF NoShipment, ShipmentRow, Status
  <1> QED
    BY <1>2 DEF NoTask, NothingSeen, TaskRow, TaskState, Snapshot

LEMMA WrittenRow ==
  ASSUME NEW row \in ShipmentRow,
         NEW st \in Status, NEW c \in Drivers \cup Hubs \cup {None}
  PROVE  /\ [row EXCEPT !.version = @ + 1] \in ShipmentRow
         /\ [row EXCEPT !.status = st, !.custody = c, !.version = @ + 1] \in ShipmentRow
  <1>1. row.version \in Nat
    BY DEF ShipmentRow
  <1>2. PICK n \in Nat : n = row.version + 1
    BY <1>1
  <1>3. /\ [row EXCEPT !.version = n] \in ShipmentRow
        /\ [row EXCEPT !.status = st, !.custody = c, !.version = n] \in ShipmentRow
    BY DEF ShipmentRow
  <1> QED
    BY <1>2, <1>3

(* Every variable keeps its type. *)
LEMMA TypeInit == Init => TypeOK
  BY NoRows, CustodyConstants DEF Init, TypeOK

(* Ending or beginning a transaction keeps the workers' variables typed.    *)
LEMMA TypeEnd ==
  ASSUME TypeOK, NEW w \in Workers, End(w)
  PROVE  request' \in [Workers -> Requests \cup {None}] /\ seen' \in [Workers -> Snapshot]
  BY NoRows DEF End, TypeOK

LEMMA TypeBegin ==
  ASSUME TypeOK, NEW w \in Workers, NEW q \in Requests, Begin(w, q)
  PROVE  request' \in [Workers -> Requests \cup {None}] /\ seen' \in [Workers -> Snapshot]
  <1> DEFINE s == ShipmentOf[q]
  <1>1. s \in Shipments
    BY CustodyConstants
  <1>2. [shipment |-> shipment[s], task |-> task[s],
         decision |-> decision[s], transfer |-> transfer[s]] \in Snapshot
    BY <1>1 DEF TypeOK, Snapshot
  <1> QED
    BY <1>2 DEF Begin, TypeOK

LEMMA TypeStep == TypeOK /\ [Next]_vars => TypeOK'
  <1> SUFFICES ASSUME TypeOK, [Next]_vars PROVE TypeOK'
    OBVIOUS
  <1> USE CustodyConstants
  <1>1. ASSUME NEW s \in Shipments, CreateOrderIntent(s) PROVE TypeOK'
    BY <1>1 DEF TypeOK, CreateOrderIntent, NewShipment, ShipmentRow, Status, bounds
  <1>2. ASSUME NEW s \in Shipments, NEW d \in Drivers, RegisterPickupTask(s, d) PROVE TypeOK'
    <2>1. task' \in [Shipments -> TaskRow]
      BY <1>2 DEF TypeOK, RegisterPickupTask, TaskRow, TaskState
    <2> QED
      BY <1>2, <2>1 DEF TypeOK, RegisterPickupTask, bounds
  <1>3. CASE SwitchMode
    BY <1>3 DEF TypeOK, SwitchMode, db, bounds
  <1>4. ASSUME NEW w \in Workers, NEW f \in Facts, BeginFact(w, f) PROVE TypeOK'
    BY <1>4, TypeBegin DEF TypeOK, BeginFact, db, bounds, Requests
  <1>5. ASSUME NEW w \in Workers, NEW c \in Scans, BeginScan(w, c) PROVE TypeOK'
    BY <1>5, TypeBegin DEF TypeOK, BeginScan, db, bounds, Requests
  <1>6. ASSUME NEW w \in Workers, GiveUp(w) PROVE TypeOK'
    BY <1>6, TypeEnd DEF TypeOK, GiveUp, db, bounds
  <1>7. ASSUME NEW w \in Workers, request[w] \in Facts, Quarantine(w) PROVE TypeOK'
    BY <1>7, TypeEnd DEF TypeOK, Quarantine, bounds
  <1>8. ASSUME NEW w \in Workers, ApplyAccept(w) PROVE TypeOK'
    <2> DEFINE f == request[w]
               s == ShipmentOf[f]
    <2>1. f \in Accepts /\ f \in Facts /\ f \in Requests /\ s \in Shipments
          /\ DriverOf[f] \in Drivers
      BY <1>8 DEF ApplyAccept, Facts, Requests
    <2>2. seen[w].shipment \in ShipmentRow
      BY DEF TypeOK, Snapshot
    <2>3. [seen[w].shipment EXCEPT !.status = "IN_CUSTODY", !.custody = DriverOf[f],
                                   !.version = @ + 1] \in ShipmentRow
      BY <2>1, <2>2, WrittenRow DEF Status
    <2>4. shipment' \in [Shipments -> ShipmentRow]
      BY <1>8, <2>1, <2>3 DEF ApplyAccept, TypeOK
    <2> QED
      BY <1>8, <2>1, <2>4, TypeEnd DEF TypeOK, ApplyAccept, EventType, bounds
  <1>9. ASSUME NEW w \in Workers, ConvergeHandover(w) PROVE TypeOK'
    BY <1>9, TypeEnd DEF TypeOK, ConvergeHandover, bounds, Facts
  <1>10. ASSUME NEW w \in Workers, ApplyHandover(w) PROVE TypeOK'
    <2> DEFINE f == request[w]
               s == ShipmentOf[f]
    <2>1. f \in Handovers /\ f \in Facts /\ f \in Requests /\ s \in Shipments
          /\ HubOf[f] \in Hubs
      BY <1>10 DEF ApplyHandover, Facts, Requests
    <2>2. seen[w].shipment \in ShipmentRow /\ shipment[s] \in ShipmentRow
      BY <2>1 DEF TypeOK, Snapshot
    <2>3. seen[w].shipment.version \in Nat /\ seen[w].shipment.status \in Status
      BY <2>2 DEF ShipmentRow
    <2>4. PICK n \in Nat : n = seen[w].shipment.version + 1
      BY <2>3
    <2>5. [shipment[s] EXCEPT !.status = seen[w].shipment.status, !.custody = HubOf[f],
                              !.version = n] \in ShipmentRow
      BY <2>1, <2>2, <2>3 DEF ShipmentRow
    <2>6. shipment' \in [Shipments -> ShipmentRow]
      BY <1>10, <2>1, <2>4, <2>5 DEF ApplyHandover, TypeOK
    <2> QED
      BY <1>10, <2>1, <2>6, TypeEnd DEF TypeOK, ApplyHandover, EventType, bounds
  <1>11. ASSUME NEW w \in Workers, CollideHandover(w) PROVE TypeOK'
    BY <1>11, TypeEnd DEF TypeOK, CollideHandover, db, bounds
  <1>12. ASSUME NEW w \in Workers, Restart(w) PROVE TypeOK'
    BY <1>12, TypeEnd DEF TypeOK, Restart, db
  <1>13. ASSUME NEW w \in Workers, ApplyScan(w) PROVE TypeOK'
    <2> DEFINE c == request[w]
               s == ShipmentOf[c]
    <2>1. c \in Scans /\ c \in Requests /\ s \in Shipments /\ KeyOf[c] \in Keys
      BY <1>13 DEF ApplyScan, Requests
    <2>2. seen[w].shipment \in ShipmentRow /\ seen[w].task.driver \in Drivers \cup {None}
      BY DEF TypeOK, Snapshot, TaskRow
    <2>3. /\ [seen[w].shipment EXCEPT !.version = @ + 1] \in ShipmentRow
          /\ [seen[w].shipment EXCEPT !.status = "IN_CUSTODY",
                  !.custody = seen[w].task.driver, !.version = @ + 1] \in ShipmentRow
      BY <2>2, WrittenRow DEF Status
    <2>4. shipment' \in [Shipments -> ShipmentRow]
      BY <1>13, <2>1, <2>3 DEF ApplyScan, TypeOK
    <2>5. PICK n \in Nat : n = task[s].version + 1
      BY <2>1 DEF TypeOK, TaskRow
    <2>6. PICK st \in TaskState :
             task' = [task EXCEPT ![s] = [@ EXCEPT !.state = st, !.version = n]]
      BY <1>13, <2>5 DEF ApplyScan, TaskState
    <2>7. task[s] \in TaskRow
      BY <2>1 DEF TypeOK
    <2>8. [task[s] EXCEPT !.state = st, !.version = n] \in TaskRow
      BY <2>7 DEF TaskRow
    <2>9. task' \in [Shipments -> TaskRow]
      BY <2>1, <2>6, <2>8 DEF TypeOK
    <2> QED
      BY <1>13, <2>1, <2>4, <2>9, TypeEnd DEF TypeOK, ApplyScan, EventType, bounds
  <1>14. CASE UNCHANGED vars
    BY <1>14 DEF TypeOK, vars, db, bounds
  <1> QED
    BY <1>1, <1>2, <1>3, <1>4, <1>5, <1>6, <1>7, <1>8, <1>9, <1>10, <1>11, <1>12,
       <1>13, <1>14
    DEF Next, WorkerStep, RefuseAccept, RefuseHandover, LoseFact, RefuseScan, LoseScan, Facts

-----------------------------------------------------------------------------
(* What each transaction that succeeds does to the shipment it is about.    *)
LEMMA CreateWrites ==
  ASSUME TypeOK, AbsentIsNew, NEW s \in Shipments, CreateOrderIntent(s)
  PROVE  /\ shipment[s] = NoShipment /\ shipment'[s] = NewShipment
         /\ \A x \in Shipments \ {s} : shipment'[x] = shipment[x]
         /\ UNCHANGED <<decision, transfer, events, inbox, idem, request, seen>>
  BY DEF CreateOrderIntent, TypeOK, AbsentIsNew

LEMMA AcceptWrites ==
  ASSUME TypeOK, SeenIsCurrent, NEW w \in Workers, ApplyAccept(w),
         NEW f, f = request[w], NEW s, s = ShipmentOf[f]
  PROVE  /\ f \in Accepts /\ s \in Shipments
         /\ shipment[s].status = "CREATED" /\ decision[s] = None
         /\ shipment'[s].status = "IN_CUSTODY" /\ shipment'[s].custody = DriverOf[f]
         /\ shipment'[s].version = shipment[s].version + 1
         /\ \A x \in Shipments \ {s} : shipment'[x] = shipment[x]
         /\ decision' = [decision EXCEPT ![s] = f]
         /\ events' = [events EXCEPT ![s] = @ \cup {"ACCEPTANCE_SCAN"}]
         /\ inbox' = [inbox EXCEPT ![f] = "PROCESSED"]
         /\ UNCHANGED <<transfer, idem>>
  <1>1. f \in Accepts /\ f # None /\ f \in Requests /\ s \in Shipments
    BY CustodyConstants DEF ApplyAccept, Facts, Requests
  <1>2. seen[w].shipment = shipment[s] /\ shipment[s] \in ShipmentRow
    BY <1>1 DEF ApplyAccept, Fresh, SeenIsCurrent, TypeOK
  <1>3. shipment' = [shipment EXCEPT ![s] =
           [shipment[s] EXCEPT !.status = "IN_CUSTODY", !.custody = DriverOf[f],
                               !.version = @ + 1]]
    BY <1>2 DEF ApplyAccept
  <1>4. shipment'[s] = [shipment[s] EXCEPT !.status = "IN_CUSTODY", !.custody = DriverOf[f],
                                           !.version = @ + 1]
    BY <1>1, <1>3 DEF TypeOK
  <1>5. /\ shipment'[s].status = "IN_CUSTODY" /\ shipment'[s].custody = DriverOf[f]
        /\ shipment'[s].version = shipment[s].version + 1
    BY <1>2, <1>4 DEF ShipmentRow
  <1>6. \A x \in Shipments \ {s} : shipment'[x] = shipment[x]
    BY <1>1, <1>3 DEF TypeOK
  <1> QED
    BY <1>1, <1>2, <1>5, <1>6 DEF ApplyAccept, AcceptRefused

LEMMA HandoverWrites ==
  ASSUME TypeOK, SeenIsCurrent, NEW w \in Workers, ApplyHandover(w),
         NEW f, f = request[w], NEW s, s = ShipmentOf[f]
  PROVE  /\ f \in Handovers /\ s \in Shipments
         /\ shipment[s].status = "IN_CUSTODY" /\ shipment[s].custody = DriverOf[f]
         /\ transfer[s] = None
         /\ shipment'[s].status = "IN_CUSTODY" /\ shipment'[s].custody = HubOf[f]
         /\ shipment'[s].version = shipment[s].version + 1
         /\ \A x \in Shipments \ {s} : shipment'[x] = shipment[x]
         /\ transfer' = [transfer EXCEPT ![s] = f]
         /\ events' = [events EXCEPT ![s] = @ \cup {"HUB_HANDOVER_RECEIPT"}]
         /\ inbox' = [inbox EXCEPT ![f] = "PROCESSED"]
         /\ UNCHANGED <<decision, idem>>
  <1>1. f \in Handovers /\ f # None /\ f \in Requests /\ s \in Shipments
    BY CustodyConstants DEF ApplyHandover, Facts, Requests
  <1>2. seen[w].shipment = shipment[s] /\ shipment[s] \in ShipmentRow
    BY <1>1 DEF ApplyHandover, Fresh, SeenIsCurrent, TypeOK
  <1>3. shipment' = [shipment EXCEPT ![s] =
           [shipment[s] EXCEPT !.status = shipment[s].status, !.custody = HubOf[f],
                               !.version = shipment[s].version + 1]]
    BY <1>1, <1>2 DEF ApplyHandover, TypeOK
  <1>4. shipment'[s] = [shipment[s] EXCEPT !.status = shipment[s].status, !.custody = HubOf[f],
                                           !.version = shipment[s].version + 1]
    BY <1>1, <1>3 DEF TypeOK
  <1>5. /\ shipment'[s].status = shipment[s].status /\ shipment'[s].custody = HubOf[f]
        /\ shipment'[s].version = shipment[s].version + 1
    BY <1>2, <1>4 DEF ShipmentRow
  <1>6. \A x \in Shipments \ {s} : shipment'[x] = shipment[x]
    BY <1>1, <1>3 DEF TypeOK
  <1> QED
    BY <1>1, <1>2, <1>5, <1>6 DEF ApplyHandover, Transferable

LEMMA ScanWrites ==
  ASSUME TypeOK, SeenIsCurrent, NEW w \in Workers, ApplyScan(w),
         NEW c, c = request[w], NEW s, s = ShipmentOf[c]
  PROVE  /\ c \in Scans /\ s \in Shipments
         /\ shipment[s].status = "CREATED" /\ decision[s] = None
         /\ c \in Rejects => /\ shipment'[s].status = "CREATED"
                             /\ shipment'[s].custody = shipment[s].custody
         /\ c \notin Rejects => /\ shipment'[s].status = "IN_CUSTODY"
                                /\ shipment'[s].custody = DriverOf[c]
         /\ shipment'[s].version = shipment[s].version + 1
         /\ \A x \in Shipments \ {s} : shipment'[x] = shipment[x]
         /\ decision' = [decision EXCEPT ![s] = c]
         /\ events' = [events EXCEPT ![s] = IF c \in Rejects THEN @
                                             ELSE @ \cup {"ACCEPTANCE_SCAN"}]
         /\ idem' = [idem EXCEPT ![KeyOf[c]] = c]
         /\ UNCHANGED <<transfer, inbox>>
  <1>1. c \in Scans /\ c # None /\ c \in Requests /\ s \in Shipments
    BY CustodyConstants DEF ApplyScan, Requests
  <1>2. seen[w].shipment = shipment[s] /\ shipment[s] \in ShipmentRow
    BY <1>1 DEF ApplyScan, ScanWins, Fresh, SeenIsCurrent, TypeOK
  <1>3. shipment' = [shipment EXCEPT ![s] =
            IF c \in Rejects THEN [shipment[s] EXCEPT !.version = @ + 1]
            ELSE [shipment[s] EXCEPT !.status = "IN_CUSTODY",
                      !.custody = seen[w].task.driver, !.version = @ + 1]]
    BY <1>2 DEF ApplyScan
  <1>4. shipment'[s] = IF c \in Rejects THEN [shipment[s] EXCEPT !.version = @ + 1]
                       ELSE [shipment[s] EXCEPT !.status = "IN_CUSTODY",
                                 !.custody = seen[w].task.driver, !.version = @ + 1]
    BY <1>1, <1>3 DEF TypeOK
  <1>5. c \in Rejects => /\ shipment'[s].status = shipment[s].status
                        /\ shipment'[s].custody = shipment[s].custody
                        /\ shipment'[s].version = shipment[s].version + 1
    BY <1>2, <1>4 DEF ShipmentRow
  <1>6. c \notin Rejects => /\ shipment'[s].status = "IN_CUSTODY"
                           /\ shipment'[s].custody = seen[w].task.driver
                           /\ shipment'[s].version = shipment[s].version + 1
    BY <1>2, <1>4 DEF ShipmentRow
  <1>7. \A x \in Shipments \ {s} : shipment'[x] = shipment[x]
    BY <1>1, <1>3 DEF TypeOK
  <1>8. shipment[s].status = "CREATED" /\ seen[w].task.driver = DriverOf[c] /\ decision[s] = None
    BY <1>2 DEF ApplyScan, ScanAllowed, ScanWins
  <1> QED
    BY <1>1, <1>5, <1>6, <1>7, <1>8 DEF ApplyScan

(* Every step is one of these writes, the quarantine or convergence of a    *)
(* fact, or leaves the records of custody alone.                            *)
LEMMA StepKinds ==
  ASSUME [Next]_vars
  PROVE  \/ \E s \in Shipments : CreateOrderIntent(s)
         \/ \E w \in Workers : \/ ApplyAccept(w) \/ ApplyHandover(w) \/ ApplyScan(w)
                               \/ ConvergeHandover(w)
                               \/ RefuseAccept(w) \/ RefuseHandover(w)
         \/ UNCHANGED <<shipment, decision, transfer, events, inbox, idem>>
  <1>1. ASSUME NEW w \in Workers, GiveUp(w)
        PROVE  UNCHANGED <<shipment, decision, transfer, events, inbox, idem>>
    BY <1>1 DEF GiveUp, db
  <1>2. ASSUME NEW w \in Workers, CollideHandover(w) \/ Restart(w)
        PROVE  UNCHANGED <<shipment, decision, transfer, events, inbox, idem>>
    BY <1>2 DEF CollideHandover, Restart, db
  <1>3. ASSUME NEW s \in Shipments, NEW d \in Drivers, RegisterPickupTask(s, d)
        PROVE  UNCHANGED <<shipment, decision, transfer, events, inbox, idem>>
    BY <1>3 DEF RegisterPickupTask
  <1>4. ASSUME NEW w \in Workers, NEW q \in Requests, BeginFact(w, q) \/ BeginScan(w, q)
        PROVE  UNCHANGED <<shipment, decision, transfer, events, inbox, idem>>
    BY <1>4 DEF BeginFact, BeginScan, db
  <1>5. CASE SwitchMode
    BY <1>5 DEF SwitchMode, db
  <1>6. CASE UNCHANGED vars
    BY <1>6 DEF vars, db
  <1> QED
    BY <1>1, <1>2, <1>3, <1>4, <1>5, <1>6
    DEF Next, WorkerStep, LoseFact, RefuseScan, LoseScan, Requests

-----------------------------------------------------------------------------
(* A write of a shipment moves its version on, and transfers are kept. *)
LEMMA RowsMove ==
  ASSUME TypeOK, SeenIsCurrent, AbsentIsNew, [Next]_vars, NEW s \in Shipments
  PROVE  /\ shipment'[s] = shipment[s] \/ shipment'[s].version > shipment[s].version
         /\ transfer[s] # None => transfer'[s] = transfer[s]
  <1> DEFINE Goal == /\ shipment'[s] = shipment[s] \/ shipment'[s].version > shipment[s].version
                     /\ transfer[s] # None => transfer'[s] = transfer[s]
  <1>1. shipment[s].version \in Nat
    BY DEF TypeOK, ShipmentRow
  <1>2. ASSUME NEW x \in Shipments, CreateOrderIntent(x) PROVE Goal
    <2>1. /\ shipment[x] = NoShipment /\ shipment'[x] = NewShipment
          /\ \A y \in Shipments \ {x} : shipment'[y] = shipment[y]
          /\ UNCHANGED transfer
      BY <1>2, CreateWrites
    <2>2. NoShipment.version = 0 /\ NewShipment.version = 1
      BY DEF NoShipment, NewShipment
    <2> QED
      BY <2>1, <2>2
  <1>3. ASSUME NEW w \in Workers, ApplyAccept(w) PROVE Goal
    BY <1>1, <1>3, AcceptWrites
  <1>4. ASSUME NEW w \in Workers, ApplyHandover(w) PROVE Goal
    <2>1. /\ transfer[ShipmentOf[request[w]]] = None
          /\ transfer' = [transfer EXCEPT ![ShipmentOf[request[w]]] = request[w]]
      BY <1>4, HandoverWrites
    <2>2. transfer[s] # None => transfer'[s] = transfer[s]
      BY <2>1 DEF TypeOK
    <2> QED
      BY <1>1, <1>4, <2>2, HandoverWrites
  <1>5. ASSUME NEW w \in Workers, ApplyScan(w) PROVE Goal
    BY <1>1, <1>5, ScanWrites
  <1>6. ASSUME NEW w \in Workers, ConvergeHandover(w) \/ RefuseAccept(w) \/ RefuseHandover(w)
        PROVE  Goal
    BY <1>6 DEF ConvergeHandover, RefuseAccept, RefuseHandover, Quarantine
  <1> QED
    BY <1>2, <1>3, <1>4, <1>5, <1>6, StepKinds

(* A transaction that is open after a step was open before it with the same *)
(* reads, or has just read.                                                 *)
LEMMA OpenTransactions ==
  ASSUME TypeOK, [Next]_vars, NEW w \in Workers, request'[w] # None
  PROVE  \/ request'[w] = request[w] /\ seen'[w] = seen[w]
         \/ /\ request'[w] \in Requests
            /\ UNCHANGED <<shipment, transfer>>
            /\ seen'[w].shipment = shipment[ShipmentOf[request'[w]]]
            /\ seen'[w].transfer = transfer[ShipmentOf[request'[w]]]
  <1> DEFINE Goal == \/ request'[w] = request[w] /\ seen'[w] = seen[w]
                     \/ /\ request'[w] \in Requests
                        /\ UNCHANGED <<shipment, transfer>>
                        /\ seen'[w].shipment = shipment[ShipmentOf[request'[w]]]
                        /\ seen'[w].transfer = transfer[ShipmentOf[request'[w]]]
  <1>1. ASSUME NEW v \in Workers, End(v) PROVE Goal
    BY <1>1 DEF End, TypeOK
  <1>2. ASSUME NEW v \in Workers, NEW q \in Requests, BeginFact(v, q) \/ BeginScan(v, q)
        PROVE  Goal
    <2>1. Begin(v, q) /\ UNCHANGED <<shipment, transfer>>
      BY <1>2 DEF BeginFact, BeginScan, db
    <2>2. CASE w = v
      <3>1. /\ request'[w] = q
            /\ seen'[w] = [shipment |-> shipment[ShipmentOf[q]], task |-> task[ShipmentOf[q]],
                           decision |-> decision[ShipmentOf[q]],
                           transfer |-> transfer[ShipmentOf[q]]]
        BY <2>1, <2>2 DEF Begin, TypeOK
      <3> QED
        BY <2>1, <3>1
    <2>3. CASE w # v
      BY <2>1, <2>3 DEF Begin, TypeOK
    <2> QED
      BY <2>2, <2>3
  <1>3. ASSUME UNCHANGED <<request, seen>> PROVE Goal
    BY <1>3
  <1>4. ASSUME NEW s \in Shipments, NEW d \in Drivers,
               CreateOrderIntent(s) \/ RegisterPickupTask(s, d)
        PROVE  UNCHANGED <<request, seen>>
    BY <1>4 DEF CreateOrderIntent, RegisterPickupTask
  <1>5. ASSUME NEW s \in Shipments, CreateOrderIntent(s) PROVE UNCHANGED <<request, seen>>
    BY <1>5 DEF CreateOrderIntent
  <1>6. ASSUME SwitchMode \/ UNCHANGED vars PROVE UNCHANGED <<request, seen>>
    BY <1>6 DEF SwitchMode, vars
  <1>7. ASSUME NEW v \in Workers, WorkerStep(v) \/ Restart(v) PROVE End(v)
    BY <1>7 DEF WorkerStep, RefuseAccept, ApplyAccept, RefuseHandover, ConvergeHandover,
                ApplyHandover, CollideHandover, LoseFact, RefuseScan, LoseScan, ApplyScan,
                Quarantine, GiveUp, Restart
  <1> QED
    BY <1>1, <1>2, <1>3, <1>4, <1>5, <1>6, <1>7 DEF Next, Requests

LEMMA SeenStep ==
  TypeOK /\ TypeOK' /\ SeenIsCurrent /\ AbsentIsNew /\ [Next]_vars => SeenIsCurrent'
  <1> SUFFICES ASSUME TypeOK, TypeOK', SeenIsCurrent, AbsentIsNew, [Next]_vars,
                      NEW w \in Workers, request'[w] # None
               PROVE  LET s == ShipmentOf[request'[w]]
                      IN  /\ seen'[w].shipment.version <= shipment'[s].version
                          /\ seen'[w].shipment.version = shipment'[s].version
                                => seen'[w].shipment = shipment'[s]
                          /\ seen'[w].transfer # None => transfer'[s] = seen'[w].transfer
    BY DEF SeenIsCurrent
  <1> DEFINE s == ShipmentOf[request'[w]]
  <1>1. s \in Shipments
    BY CustodyConstants DEF TypeOK
  <1>2. /\ shipment[s].version \in Nat /\ shipment'[s].version \in Nat
        /\ seen[w].shipment.version \in Nat
    BY <1>1 DEF TypeOK, ShipmentRow, Snapshot
  <1>3. CASE request'[w] = request[w] /\ seen'[w] = seen[w]
    <2>1. /\ seen[w].shipment.version <= shipment[s].version
          /\ seen[w].shipment.version = shipment[s].version => seen[w].shipment = shipment[s]
          /\ seen[w].transfer # None => transfer[s] = seen[w].transfer
      BY <1>3 DEF SeenIsCurrent
    <2>2. /\ shipment'[s] = shipment[s] \/ shipment'[s].version > shipment[s].version
          /\ transfer[s] # None => transfer'[s] = transfer[s]
      BY <1>1, RowsMove
    <2> QED
      BY <1>2, <1>3, <2>1, <2>2
  <1>4. CASE /\ UNCHANGED <<shipment, transfer>>
             /\ seen'[w].shipment = shipment[s] /\ seen'[w].transfer = transfer[s]
    BY <1>2, <1>4
  <1> QED
    BY <1>3, <1>4, OpenTransactions

(* No write makes a shipment absent. *)
LEMMA AbsentStep == IInv /\ [Next]_vars => AbsentIsNew'
  <1> SUFFICES ASSUME IInv, [Next]_vars, NEW s \in Shipments
               PROVE  (shipment[s].status = "ABSENT" => shipment[s] = NoShipment
                         /\ decision[s] = None /\ events[s] = {})'
    BY DEF AbsentIsNew
  <1> USE DEF IInv
  <1> DEFINE Goal == (shipment[s].status = "ABSENT" => shipment[s] = NoShipment
                         /\ decision[s] = None /\ events[s] = {})'
  <1>1. ASSUME UNCHANGED <<decision, events>>, shipment'[s] = shipment[s] PROVE Goal
    BY <1>1 DEF AbsentIsNew
  <1>2. ASSUME NEW x \in Shipments, CreateOrderIntent(x) PROVE Goal
    BY <1>1, <1>2, CreateWrites DEF NewShipment
  <1>3. ASSUME NEW w \in Workers, ApplyAccept(w) PROVE Goal
    <2>1. CASE s = ShipmentOf[request[w]]
      BY <1>3, <2>1, AcceptWrites
    <2>2. CASE s # ShipmentOf[request[w]]
      <3>1. shipment'[s] = shipment[s] /\ decision'[s] = decision[s] /\ events'[s] = events[s]
        BY <1>3, <2>2, AcceptWrites DEF TypeOK
      <3> QED
        BY <3>1 DEF AbsentIsNew
    <2> QED
      BY <2>1, <2>2
  <1>4. ASSUME NEW w \in Workers, ApplyHandover(w) PROVE Goal
    <2>1. CASE s = ShipmentOf[request[w]]
      BY <1>4, <2>1, HandoverWrites
    <2>2. CASE s # ShipmentOf[request[w]]
      <3>1. shipment'[s] = shipment[s] /\ decision'[s] = decision[s] /\ events'[s] = events[s]
        BY <1>4, <2>2, HandoverWrites DEF TypeOK
      <3> QED
        BY <3>1 DEF AbsentIsNew
    <2> QED
      BY <2>1, <2>2
  <1>5. ASSUME NEW w \in Workers, ApplyScan(w) PROVE Goal
    <2>1. CASE s = ShipmentOf[request[w]]
      BY <1>5, <2>1, ScanWrites
    <2>2. CASE s # ShipmentOf[request[w]]
      <3>1. shipment'[s] = shipment[s] /\ decision'[s] = decision[s] /\ events'[s] = events[s]
        BY <1>5, <2>2, ScanWrites DEF TypeOK
      <3> QED
        BY <3>1 DEF AbsentIsNew
    <2> QED
      BY <2>1, <2>2
  <1>6. ASSUME NEW w \in Workers, ConvergeHandover(w) \/ RefuseAccept(w) \/ RefuseHandover(w)
        PROVE  Goal
    BY <1>1, <1>6 DEF ConvergeHandover, RefuseAccept, RefuseHandover, Quarantine
  <1> QED
    BY <1>1, <1>2, <1>3, <1>4, <1>5, <1>6, StepKinds

-----------------------------------------------------------------------------
(* The conjuncts of the invariant, one shipment at a time. *)
CustodyAt(s) ==
    LET row == shipment[s]
        accepted == decision[s] # None /\ Accepting(decision[s])
    IN  /\ row.status = "IN_CUSTODY" <=> accepted
        /\ transfer[s] # None => accepted
        /\ row.custody = IF ~accepted THEN None
                         ELSE IF transfer[s] = None THEN DriverOf[decision[s]]
                         ELSE HubOf[transfer[s]]
        /\ transfer[s] # None => DriverOf[transfer[s]] = DriverOf[decision[s]]

VersionAt(s) ==
    shipment[s].status # "ABSENT" =>
        /\ shipment[s].version = 1 + (IF decision[s] # None THEN 1 ELSE 0)
                                   + (IF transfer[s] # None THEN 1 ELSE 0)
        /\ "ACCEPTANCE_SCAN" \in events[s] <=> shipment[s].status = "IN_CUSTODY"
        /\ "HUB_HANDOVER_RECEIPT" \in events[s] <=> transfer[s] # None

(* A new shipment has no custody; accepting gives it to the driver of the   *)
(* decision; a transfer moves it from that driver to the hub.               *)
LEMMA RecordsStep ==
  ASSUME IInv, [Next]_vars, NEW s \in Shipments
  PROVE  CustodyAt(s)' /\ VersionAt(s)'
  <1> DEFINE Goal == CustodyAt(s)' /\ VersionAt(s)'
  <1> USE DEF IInv
  <1>1. CustodyAt(s) /\ VersionAt(s)
    BY DEF CustodyExplained, CustodyAt, VersionCountsWrites, VersionAt
  <1>2. ASSUME shipment'[s] = shipment[s], decision'[s] = decision[s],
               transfer'[s] = transfer[s], events'[s] = events[s]
        PROVE  Goal
    BY <1>1, <1>2 DEF CustodyAt, VersionAt, Accepting
  <1>3. ASSUME NEW x \in Shipments, CreateOrderIntent(x) PROVE Goal
    <2>1. CASE s # x
      BY <1>2, <1>3, <2>1, CreateWrites
    <2>2. CASE s = x
      <3>1. /\ shipment[s] = NoShipment /\ shipment'[s] = NewShipment
            /\ UNCHANGED <<decision, transfer, events>>
        BY <1>3, <2>2, CreateWrites
      <3>2. /\ decision[s] = None /\ transfer[s] = None /\ events[s] = {}
        BY <1>1, <3>1 DEF AbsentIsNew, CustodyAt, NoShipment, NewShipment
      <3>3. NewShipment.status = "CREATED" /\ NewShipment.custody = None /\ NewShipment.version = 1
        BY DEF NewShipment
      <3> QED
        BY <3>1, <3>2, <3>3 DEF CustodyAt, VersionAt
    <2> QED
      BY <2>1, <2>2
  <1>4. ASSUME NEW w \in Workers, ApplyAccept(w) PROVE Goal
    <2> DEFINE f == request[w]
    <2>1. CASE s # ShipmentOf[f]
      <3>1. shipment'[s] = shipment[s] /\ decision'[s] = decision[s] /\ events'[s] = events[s]
            /\ transfer' = transfer
        BY <1>4, <2>1, AcceptWrites DEF TypeOK
      <3> QED
        BY <1>2, <3>1
    <2>2. CASE s = ShipmentOf[f]
      <3>0. /\ f \in Accepts
            /\ shipment[s].status = "CREATED" /\ decision[s] = None
            /\ shipment'[s].status = "IN_CUSTODY" /\ shipment'[s].custody = DriverOf[f]
            /\ shipment'[s].version = shipment[s].version + 1
            /\ decision' = [decision EXCEPT ![s] = f]
            /\ events' = [events EXCEPT ![s] = @ \cup {"ACCEPTANCE_SCAN"}]
            /\ transfer' = transfer
        BY <1>4, <2>2, AcceptWrites
      <3>1. f # None
        BY <3>0, CustodyConstants DEF Requests, Facts
      <3>3. decision'[s] = f /\ events'[s] = events[s] \cup {"ACCEPTANCE_SCAN"}
        BY <3>0 DEF TypeOK
      <3>2. transfer[s] = None /\ shipment[s].version = 1
        BY <1>1, <3>0 DEF CustodyAt, VersionAt
      <3> QED
        BY <1>1, <3>0, <3>1, <3>2, <3>3 DEF CustodyAt, VersionAt, Accepting
    <2> QED
      BY <2>1, <2>2
  <1>5. ASSUME NEW w \in Workers, ApplyHandover(w) PROVE Goal
    <2> DEFINE f == request[w]
    <2>1. CASE s # ShipmentOf[f]
      <3>1. shipment'[s] = shipment[s] /\ transfer'[s] = transfer[s] /\ events'[s] = events[s]
            /\ decision' = decision
        BY <1>5, <2>1, HandoverWrites DEF TypeOK
      <3> QED
        BY <1>2, <3>1
    <2>2. CASE s = ShipmentOf[f]
      <3>0. /\ f \in Handovers
            /\ shipment[s].status = "IN_CUSTODY" /\ shipment[s].custody = DriverOf[f]
            /\ transfer[s] = None
            /\ shipment'[s].status = "IN_CUSTODY" /\ shipment'[s].custody = HubOf[f]
            /\ shipment'[s].version = shipment[s].version + 1
            /\ transfer' = [transfer EXCEPT ![s] = f]
            /\ events' = [events EXCEPT ![s] = @ \cup {"HUB_HANDOVER_RECEIPT"}]
            /\ decision' = decision
        BY <1>5, <2>2, HandoverWrites
      <3>1. f # None
        BY <3>0, CustodyConstants DEF Requests, Facts
      <3>3. transfer'[s] = f /\ events'[s] = events[s] \cup {"HUB_HANDOVER_RECEIPT"}
        BY <3>0 DEF TypeOK
      <3>2. /\ decision[s] # None /\ Accepting(decision[s])
            /\ DriverOf[decision[s]] = DriverOf[f] /\ shipment[s].version = 2
        BY <1>1, <3>0 DEF CustodyAt, VersionAt
      <3> QED
        BY <1>1, <3>0, <3>1, <3>2, <3>3 DEF CustodyAt, VersionAt, Accepting
    <2> QED
      BY <2>1, <2>2
  <1>6. ASSUME NEW w \in Workers, ApplyScan(w) PROVE Goal
    <2> DEFINE c == request[w]
    <2>1. CASE s # ShipmentOf[c]
      <3>1. shipment'[s] = shipment[s] /\ decision'[s] = decision[s] /\ events'[s] = events[s]
            /\ transfer' = transfer
        BY <1>6, <2>1, ScanWrites DEF TypeOK
      <3> QED
        BY <1>2, <3>1
    <2>2. CASE s = ShipmentOf[c]
      <3>0. /\ c \in Scans
            /\ shipment[s].status = "CREATED" /\ decision[s] = None
            /\ shipment'[s].version = shipment[s].version + 1
            /\ decision' = [decision EXCEPT ![s] = c] /\ transfer' = transfer
        BY <1>6, <2>2, ScanWrites
      <3>1. c # None /\ c \notin Accepts /\ decision'[s] = c
        BY <3>0, CustodyConstants DEF TypeOK, Requests, Facts
      <3>2. transfer[s] = None /\ shipment[s].version = 1 /\ shipment[s].custody = None
            /\ "ACCEPTANCE_SCAN" \notin events[s] /\ "HUB_HANDOVER_RECEIPT" \notin events[s]
        BY <1>1, <3>0 DEF CustodyAt, VersionAt
      <3>3. CASE c \in Rejects
        <4>1. /\ shipment'[s].status = "CREATED" /\ shipment'[s].custody = None
              /\ events'[s] = events[s]
          BY <1>6, <2>2, <3>2, <3>3, ScanWrites DEF TypeOK
        <4> QED
          BY <3>0, <3>1, <3>2, <3>3, <4>1 DEF CustodyAt, VersionAt, Accepting
      <3>4. CASE c \notin Rejects
        <4>1. /\ shipment'[s].status = "IN_CUSTODY" /\ shipment'[s].custody = DriverOf[c]
              /\ events' = [events EXCEPT ![s] = @ \cup {"ACCEPTANCE_SCAN"}]
          BY <1>6, <2>2, <3>4, ScanWrites
        <4>2. events'[s] = events[s] \cup {"ACCEPTANCE_SCAN"}
          BY <4>1 DEF TypeOK
        <4> QED
          BY <3>0, <3>1, <3>2, <3>4, <4>1, <4>2 DEF CustodyAt, VersionAt, Accepting
      <3> QED
        BY <3>3, <3>4
    <2> QED
      BY <2>1, <2>2
  <1>7. ASSUME NEW w \in Workers, ConvergeHandover(w) \/ RefuseAccept(w) \/ RefuseHandover(w)
        PROVE  Goal
    BY <1>2, <1>7 DEF ConvergeHandover, RefuseAccept, RefuseHandover, Quarantine
  <1> QED
    BY <1>2, <1>3, <1>4, <1>5, <1>6, <1>7, StepKinds

-----------------------------------------------------------------------------
(* Decisions are made once. *)
LEMMA DecisionsKept ==
  ASSUME IInv, [Next]_vars, NEW s \in Shipments, decision[s] # None
  PROVE  decision'[s] = decision[s]
  <1> USE DEF IInv
  <1>1. ASSUME NEW w \in Workers, ApplyAccept(w) PROVE decision'[s] = decision[s]
    <2>1. /\ decision[ShipmentOf[request[w]]] = None
          /\ decision' = [decision EXCEPT ![ShipmentOf[request[w]]] = request[w]]
      BY <1>1, AcceptWrites
    <2> QED
      BY <2>1 DEF TypeOK
  <1>2. ASSUME NEW w \in Workers, ApplyScan(w) PROVE decision'[s] = decision[s]
    <2>1. /\ decision[ShipmentOf[request[w]]] = None
          /\ decision' = [decision EXCEPT ![ShipmentOf[request[w]]] = request[w]]
      BY <1>2, ScanWrites
    <2> QED
      BY <2>1 DEF TypeOK
  <1>3. ASSUME NEW w \in Workers,
               \/ ApplyHandover(w) \/ ConvergeHandover(w)
               \/ RefuseAccept(w) \/ RefuseHandover(w)
        PROVE  decision' = decision
    BY <1>3 DEF ApplyHandover, ConvergeHandover, RefuseAccept, RefuseHandover, Quarantine
  <1>4. ASSUME NEW x \in Shipments, CreateOrderIntent(x) PROVE decision' = decision
    BY <1>4, CreateWrites
  <1> QED
    BY <1>1, <1>2, <1>3, <1>4, StepKinds

(* What a processed fact and a recorded key stand for, one at a time. *)
FactAnswered(f) ==
    inbox[f] = "PROCESSED" =>
        \/ f \in Accepts /\ decision[ShipmentOf[f]] = f
        \/ f \in Handovers /\ transfer[ShipmentOf[f]] # None
                           /\ SameTransfer(transfer[ShipmentOf[f]], f)

KeyAnswered(k) == idem[k] # None => decision[ShipmentOf[idem[k]]] = idem[k]

LEMMA FactStep ==
  ASSUME IInv, [Next]_vars, NEW f \in Facts PROVE FactAnswered(f)'
  <1> USE DEF IInv
  <1> DEFINE s == ShipmentOf[f]
  <1>0. f \in Requests /\ f # None /\ s \in Shipments
    BY CustodyConstants DEF Requests
  <1>1. FactAnswered(f)
    BY DEF AnswersAreTrue, FactAnswered
  <1>2. ASSUME inbox'[f] = inbox[f] PROVE FactAnswered(f)'
    <2>1. decision[s] # None => decision'[s] = decision[s]
      BY <1>0, DecisionsKept
    <2>2. transfer[s] # None => transfer'[s] = transfer[s]
      BY <1>0, RowsMove
    <2> QED
      BY <1>0, <1>1, <1>2, <2>1, <2>2 DEF FactAnswered
  <1>3. ASSUME NEW w \in Workers, ApplyAccept(w) PROVE FactAnswered(f)'
    <2>1. CASE f # request[w]
      <3>1. inbox' = [inbox EXCEPT ![request[w]] = "PROCESSED"]
        BY <1>3, AcceptWrites
      <3> QED
        BY <1>2, <2>1, <3>1 DEF TypeOK
    <2>2. CASE f = request[w]
      <3>1. f \in Accepts /\ decision' = [decision EXCEPT ![s] = f]
        BY <1>3, <2>2, AcceptWrites
      <3>2. decision'[s] = f
        BY <1>0, <3>1 DEF TypeOK
      <3> QED
        BY <3>1, <3>2 DEF FactAnswered
    <2> QED
      BY <2>1, <2>2
  <1>4. ASSUME NEW w \in Workers, ApplyHandover(w) PROVE FactAnswered(f)'
    <2>1. CASE f # request[w]
      <3>1. inbox' = [inbox EXCEPT ![request[w]] = "PROCESSED"]
        BY <1>4, HandoverWrites
      <3> QED
        BY <1>2, <2>1, <3>1 DEF TypeOK
    <2>2. CASE f = request[w]
      <3>1. f \in Handovers /\ transfer' = [transfer EXCEPT ![s] = f]
        BY <1>4, <2>2, HandoverWrites
      <3>2. transfer'[s] = f
        BY <1>0, <3>1 DEF TypeOK
      <3> QED
        BY <1>0, <3>1, <3>2 DEF FactAnswered, SameTransfer
    <2> QED
      BY <2>1, <2>2
  <1>5. ASSUME NEW w \in Workers, ConvergeHandover(w) PROVE FactAnswered(f)'
    <2>1. CASE f # request[w]
      <3>1. inbox' = [inbox EXCEPT ![request[w]] = "PROCESSED"]
        BY <1>5 DEF ConvergeHandover
      <3> QED
        BY <1>2, <2>1, <3>1 DEF TypeOK
    <2>2. CASE f = request[w]
      <3>1. /\ f \in Handovers /\ transfer' = transfer
            /\ seen[w].transfer # None /\ SameTransfer(seen[w].transfer, f)
        BY <1>5, <2>2 DEF ConvergeHandover
      <3>2. transfer[s] = seen[w].transfer
        BY <1>0, <2>2, <3>1 DEF SeenIsCurrent
      <3> QED
        BY <3>1, <3>2 DEF FactAnswered
    <2> QED
      BY <2>1, <2>2
  <1>6. ASSUME NEW w \in Workers, RefuseAccept(w) \/ RefuseHandover(w) PROVE FactAnswered(f)'
    <2>1. inbox' = [inbox EXCEPT ![request[w]] = "QUARANTINED"]
      BY <1>6 DEF RefuseAccept, RefuseHandover, Quarantine
    <2>2. CASE f = request[w]
      BY <2>1, <2>2 DEF FactAnswered, TypeOK
    <2>3. CASE f # request[w]
      BY <1>2, <2>1, <2>3 DEF TypeOK
    <2> QED
      BY <2>2, <2>3
  <1>7. ASSUME NEW w \in Workers, ApplyScan(w) PROVE inbox' = inbox
    BY <1>7, ScanWrites
  <1>8. ASSUME NEW x \in Shipments, CreateOrderIntent(x) PROVE inbox' = inbox
    BY <1>8, CreateWrites
  <1> QED
    BY <1>2, <1>3, <1>4, <1>5, <1>6, <1>7, <1>8, StepKinds

LEMMA KeyStep ==
  ASSUME IInv, [Next]_vars, NEW k \in Keys PROVE KeyAnswered(k)'
  <1> USE DEF IInv
  <1>1. KeyAnswered(k)
    BY DEF AnswersAreTrue, KeyAnswered
  <1>2. ASSUME idem'[k] = idem[k] PROVE KeyAnswered(k)'
    <2>1. CASE idem[k] = None
      BY <1>2, <2>1 DEF KeyAnswered
    <2>2. CASE idem[k] # None
      <3>1. ShipmentOf[idem[k]] \in Shipments /\ idem[k] # None
        BY <2>2, CustodyConstants DEF TypeOK, Requests
      <3>2. decision[ShipmentOf[idem[k]]] = idem[k]
        BY <1>1, <2>2 DEF KeyAnswered
      <3>3. decision'[ShipmentOf[idem[k]]] = idem[k]
        BY <3>1, <3>2, DecisionsKept
      <3> QED
        BY <1>2, <3>3 DEF KeyAnswered
    <2> QED
      BY <2>1, <2>2
  <1>3. ASSUME NEW w \in Workers, ApplyScan(w) PROVE KeyAnswered(k)'
    <2> DEFINE c == request[w]
    <2>1. /\ c \in Scans /\ ShipmentOf[c] \in Shipments
          /\ idem' = [idem EXCEPT ![KeyOf[c]] = c]
          /\ decision' = [decision EXCEPT ![ShipmentOf[c]] = c]
      BY <1>3, ScanWrites
    <2>2. CASE k = KeyOf[c]
      <3>1. idem'[k] = c /\ decision'[ShipmentOf[c]] = c
        BY <2>1, <2>2 DEF TypeOK
      <3> QED
        BY <3>1 DEF KeyAnswered
    <2>3. CASE k # KeyOf[c]
      BY <1>2, <2>1, <2>3 DEF TypeOK
    <2> QED
      BY <2>2, <2>3
  <1>4. ASSUME NEW w \in Workers,
               \/ ApplyAccept(w) \/ ApplyHandover(w) \/ ConvergeHandover(w)
               \/ RefuseAccept(w) \/ RefuseHandover(w)
        PROVE  idem' = idem
    BY <1>4 DEF ApplyAccept, ApplyHandover, ConvergeHandover, RefuseAccept, RefuseHandover,
                Quarantine
  <1>5. ASSUME NEW x \in Shipments, CreateOrderIntent(x) PROVE idem' = idem
    BY <1>5, CreateWrites
  <1> QED
    BY <1>2, <1>3, <1>4, <1>5, StepKinds

-----------------------------------------------------------------------------
LEMMA InitHolds == Init => IInv
  <1>1. NoShipment.status = "ABSENT" /\ NoShipment.custody = None
    BY DEF NoShipment, NewShipment
  <1> QED
    BY TypeInit, <1>1 DEF Init, IInv, SeenIsCurrent, AbsentIsNew, CustodyExplained,
       VersionCountsWrites, AnswersAreTrue

LEMMA StepHolds == IInv /\ [Next]_vars => IInv'
  <1> SUFFICES ASSUME IInv, [Next]_vars PROVE IInv'
    OBVIOUS
  <1>1. TypeOK'
    BY TypeStep DEF IInv
  <1>2. SeenIsCurrent'
    BY <1>1, SeenStep DEF IInv
  <1>3. AbsentIsNew'
    BY AbsentStep
  <1>4. CustodyExplained' /\ VersionCountsWrites'
    BY RecordsStep DEF CustodyExplained, CustodyAt, VersionCountsWrites, VersionAt
  <1>5. AnswersAreTrue'
    BY FactStep, KeyStep DEF AnswersAreTrue, FactAnswered, KeyAnswered
  <1> QED
    BY <1>1, <1>2, <1>3, <1>4, <1>5 DEF IInv

(* Custody invariant: typing, transactions that read what still is, and the *)
(* agreement of the shipment with its decision, transfer, events, inbox     *)
(* rows and idempotency keys.                                               *)
THEOREM CustodyInvariant == Spec => []IInv
  BY InitHolds, StepHolds, PTL DEF Spec

(* Whoever holds a parcel is named by its decision or its transfer, for any *)
(* number of competing facts, scans and workers.                            *)
THEOREM CustodyIsExplained == Spec => []CustodyExplained
  BY CustodyInvariant, PTL DEF IInv

(* Optimistic concurrency loses no write and applies none twice. *)
THEOREM NoWriteIsLost == Spec => []VersionCountsWrites
  BY CustodyInvariant, PTL DEF IInv

(* Processed facts and recorded keys describe the effect that was made. *)
THEOREM AnswersHold == Spec => []AnswersAreTrue
  BY CustodyInvariant, PTL DEF IInv

(* Custody goes from nobody to a driver and from a driver to a hub only. *)
THEOREM CustodyForward == Spec => CustodyMovesForward
  <1> DEFINE Forward == \A s \in Shipments :
          LET before == shipment[s].custody
              after  == shipment'[s].custody
          IN  \/ after = before
              \/ before = None /\ after \in Drivers
              \/ before \in Drivers /\ after \in Hubs
  <1>1. ASSUME IInv, [Next]_vars, NEW s \in Shipments
        PROVE  \/ shipment'[s].custody = shipment[s].custody
               \/ shipment[s].custody = None /\ shipment'[s].custody \in Drivers
               \/ shipment[s].custody \in Drivers /\ shipment'[s].custody \in Hubs
    <2> DEFINE Goal == \/ shipment'[s].custody = shipment[s].custody
                       \/ shipment[s].custody = None /\ shipment'[s].custody \in Drivers
                       \/ shipment[s].custody \in Drivers /\ shipment'[s].custody \in Hubs
    <2>0. TypeOK /\ SeenIsCurrent /\ AbsentIsNew /\ CustodyAt(s)
      BY <1>1 DEF IInv, CustodyExplained, CustodyAt
    <2>1. shipment[s].status = "CREATED" => shipment[s].custody = None
      BY <2>0 DEF CustodyAt
    <2>2. ASSUME NEW x \in Shipments, CreateOrderIntent(x) PROVE Goal
      <3>1. NoShipment.custody = None /\ NewShipment.custody = None
        BY DEF NoShipment, NewShipment
      <3> QED
        BY <2>0, <2>2, <3>1, CreateWrites
    <2>3. ASSUME NEW w \in Workers, ApplyAccept(w) PROVE Goal
      BY <2>0, <2>1, <2>3, AcceptWrites, CustodyConstants DEF Requests, Facts
    <2>4. ASSUME NEW w \in Workers, ApplyHandover(w) PROVE Goal
      BY <2>0, <2>4, HandoverWrites, CustodyConstants DEF Requests, Facts
    <2>5. ASSUME NEW w \in Workers, ApplyScan(w) PROVE Goal
      BY <2>0, <2>1, <2>5, ScanWrites, CustodyConstants DEF Requests
    <2>6. ASSUME NEW w \in Workers, ConvergeHandover(w) \/ RefuseAccept(w) \/ RefuseHandover(w)
          PROVE  Goal
      BY <2>6 DEF ConvergeHandover, RefuseAccept, RefuseHandover, Quarantine
    <2> QED
      BY <1>1, <2>2, <2>3, <2>4, <2>5, <2>6, StepKinds
  <1>2. IInv /\ [Next]_vars => [Forward]_vars
    BY <1>1
  <1> QED
    BY <1>2, CustodyInvariant, PTL DEF Spec, CustodyMovesForward

(* The records of a shipment tell its custody, for any number of requests. *)
THEOREM CustodyIsRecorded == Spec => []RecordsTellCustody
  <1>1. CustodyExplained /\ VersionCountsWrites /\ AnswersAreTrue => RecordsTellCustody
    BY DEF RecordsTellCustody
  <1> QED
    BY <1>1, CustodyIsExplained, NoWriteIsLost, AnswersHold, PTL

-----------------------------------------------------------------------------
(* Counts *)

LEMMA AtMostOne ==
    ASSUME NEW S, \A x, y \in S : x = y
    PROVE  Cardinality(S) <= 1
<1>1. CASE S = {}
  BY <1>1, FS_EmptySet
<1>2. CASE S # {}
  <2>1. PICK x \in S : TRUE
    BY <1>2
  <2>2. S = {x}
    BY <2>1
  <2>. QED  BY <2>2, FS_Singleton
<1>. QED  BY <1>1, <1>2

-----------------------------------------------------------------------------
(* The counter.  A row moves on along DROP_OFF_TRANSITIONS only, and the    *)
(* two indexes look at every other row.                                     *)

\* What is labelled bears a label; what lapsed, or may lapse, bears none.
LabelFits(row) ==
    /\ row.status \in {"LABELLED", "ACCEPTED"} => row.label # None
    /\ row.status \in {"EXPECTED", "DETAILS_CAPTURED", "EXPIRED"} => row.label = None

CounterInv ==
    /\ Counter!TypeOK
    /\ \A d, e \in DropOffs :
          Counter!IsOpen(d) /\ Counter!IsOpen(e) /\ kDropOff[d].code = kDropOff[e].code => d = e
    /\ \A d, e \in DropOffs :
          Counter!Made(d) /\ Counter!Made(e) /\ d # e /\ kDropOff[d].label # None
          /\ kDropOff[d].label = kDropOff[e].label =>
                kDropOff[d].status = "CANCELLED" \/ kDropOff[e].status = "CANCELLED"
    /\ \A d \in DropOffs :
          /\ d \in kAccepted <=> Counter!Made(d) /\ kDropOff[d].status = "ACCEPTED"
          /\ Counter!Made(d) => LabelFits(kDropOff[d])

LEMMA CountOfCounter == \A S : Counter!Cardinality(S) = Cardinality(S)
  BY Zenon DEF Counter!Cardinality, Cardinality, Counter!IsFiniteSet, IsFiniteSet

LEMMA CounterTells == CounterInv => Counter!CounterIsInOrder
<1>. SUFFICES ASSUME CounterInv PROVE Counter!CounterIsInOrder
  OBVIOUS
<1>. DEFINE Live(code) == {d \in DropOffs : Counter!IsOpen(d) /\ kDropOff[d].code = code}
<1>1. ASSUME NEW code \in Codes PROVE Counter!Cardinality(Live(code)) <= 1
  <2>1. \A d, e \in Live(code) : d = e
    BY DEF CounterInv
  <2>. HIDE DEF Live
  <2>2. Cardinality(Live(code)) <= 1
    BY <2>1, AtMostOne
  <2>. QED  BY <2>2, CountOfCounter
<1>2. \A d, e \in DropOffs :
          Counter!Made(d) /\ Counter!Made(e) /\ d # e /\ kDropOff[d].label # None
          /\ kDropOff[d].label = kDropOff[e].label =>
                "CANCELLED" \in {kDropOff[d].status, kDropOff[e].status}
  BY DEF CounterInv
<1>3. \A d \in DropOffs : Counter!Made(d) =>
          /\ kDropOff[d].status = "ACCEPTED" <=> d \in kAccepted
          /\ kDropOff[d].status = "ACCEPTED" => kDropOff[d].label # None
          /\ kDropOff[d].status = "EXPIRED" => kDropOff[d].label = None
  BY DEF CounterInv, LabelFits
<1>. QED  BY <1>1, <1>2, <1>3 DEF Counter!CounterIsInOrder

LEMMA CounterInit == Counter!Init => CounterInv
  BY DEF Counter!Init, CounterInv, Counter!TypeOK, Counter!Made, Counter!IsOpen

\* A new row of a code nobody else has open, or the next status of one; a label
\* that was the row's own before, or is on no other that counts.
CodeIsFree(d, row) ==
    \/ Counter!IsOpen(d) /\ row.code = kDropOff[d].code
    \/ ~Counter!Made(d) /\ Counter!LiveFor(row.code) = {}

LabelIsFree(d, row) ==
    \/ row.label = None
    \/ Counter!IsOpen(d) /\ row.label = kDropOff[d].label
    \/ ~Counter!LabelTaken(row.label)

LEMMA StatusesInUse ==
    /\ \A d \in DropOffs : Counter!IsOpen(d) =>
          kDropOff[d].status \in {"EXPECTED", "DETAILS_CAPTURED", "LABELLED"}
    /\ \A st \in {"EXPECTED", "DETAILS_CAPTURED", "LABELLED"} : Counter!OnwardOf(st) # {}
    /\ \A st : "DETAILS_CAPTURED" \in Counter!OnwardOf(st) => st = "EXPECTED"
    /\ \A st : "LABELLED" \in Counter!OnwardOf(st) => st = "DETAILS_CAPTURED"
    /\ \A st : "ACCEPTED" \in Counter!OnwardOf(st) => st = "LABELLED"
    /\ \A st : Counter!OnwardOf(st) # {} => st \in {"EXPECTED", "DETAILS_CAPTURED", "LABELLED"}
  BY DEF Counter!IsOpen, Counter!OnwardOf

LEMMA CounterRowMoves ==
    ASSUME CounterInv, NEW d \in DropOffs, NEW row \in Counter!Row,
           kDropOff' = [kDropOff EXCEPT ![d] = row], kOverdue' = kOverdue,
           kAccepted' = IF row.status = "ACCEPTED" THEN kAccepted \cup {d} ELSE kAccepted,
           CodeIsFree(d, row), LabelIsFree(d, row), LabelFits(row)
    PROVE  CounterInv'
<1>1. /\ kDropOff \in [DropOffs -> Counter!Row \cup {None}]
      /\ kOverdue \subseteq DropOffs /\ kAccepted \subseteq DropOffs
      /\ row # None
  BY CounterConstants DEF CounterInv, Counter!TypeOK
<1>2. kDropOff'[d] = row /\ \A e \in DropOffs : e # d => kDropOff'[e] = kDropOff[e]
  BY <1>1
<1>3. Counter!TypeOK'
  BY <1>1 DEF Counter!TypeOK
<1>4. ASSUME NEW a \in DropOffs, NEW b \in DropOffs, Counter!IsOpen(a)', Counter!IsOpen(b)',
             kDropOff'[a].code = kDropOff'[b].code
      PROVE  a = b
  <2>1. \A e \in DropOffs : e # d => (Counter!IsOpen(e)' <=> Counter!IsOpen(e))
    BY <1>2 DEF Counter!IsOpen, Counter!Made
  <2>2. \A e \in DropOffs : e # d /\ Counter!IsOpen(e) => kDropOff[e].code # row.code
    BY DEF CodeIsFree, CounterInv, Counter!LiveFor
  <2>. QED  BY <1>2, <1>4, <2>1, <2>2 DEF CounterInv
<1>5. ASSUME NEW a \in DropOffs, NEW b \in DropOffs, Counter!Made(a)', Counter!Made(b)', a # b,
             kDropOff'[a].label # None, kDropOff'[a].label = kDropOff'[b].label
      PROVE  kDropOff'[a].status = "CANCELLED" \/ kDropOff'[b].status = "CANCELLED"
  <2>1. \A e \in DropOffs : e # d /\ Counter!Made(e) /\ row.label # None
                            /\ kDropOff[e].label = row.label => kDropOff[e].status = "CANCELLED"
    <3>1. Counter!IsOpen(d) => Counter!Made(d) /\ kDropOff[d].status # "CANCELLED"
      BY StatusesInUse DEF Counter!IsOpen
    <3>. QED  BY <3>1 DEF LabelIsFree, CounterInv, Counter!LabelTaken
  <2>2. \A e \in DropOffs : e # d => (Counter!Made(e)' <=> Counter!Made(e))
    BY <1>2 DEF Counter!Made
  <2>. QED  BY <1>2, <1>5, <2>1, <2>2 DEF CounterInv
<1>6. ASSUME NEW a \in DropOffs
      PROVE  /\ a \in kAccepted' <=> Counter!Made(a)' /\ kDropOff'[a].status = "ACCEPTED"
             /\ Counter!Made(a)' => LabelFits(kDropOff'[a])
  <2>1. CASE a = d
    <3>1. d \notin kAccepted
      BY StatusesInUse DEF CodeIsFree, CounterInv, Counter!IsOpen
    <3>. QED  BY <1>1, <1>2, <2>1, <3>1 DEF Counter!Made
  <2>2. CASE a # d
    <3>1. (Counter!Made(a)' <=> Counter!Made(a)) /\ kDropOff'[a] = kDropOff[a]
      BY <1>2, <2>2 DEF Counter!Made
    <3>. QED  BY <2>2, <3>1 DEF CounterInv
  <2>. QED  BY <2>1, <2>2
<1>. QED  BY <1>3, <1>4, <1>5, <1>6 DEF CounterInv

\* A row with a label, or with another status.
Labelled(d, label) == [kDropOff[d] EXCEPT !.status = "LABELLED", !.label = label]

LEMMA CounterLabel ==
    ASSUME Counter!TypeOK, NEW d \in DropOffs, Counter!Made(d), NEW label \in Labels
    PROVE  /\ Labelled(d, label) \in Counter!Row
           /\ Labelled(d, label).code = kDropOff[d].code
           /\ Labelled(d, label).status = "LABELLED" /\ Labelled(d, label).label = label
<1>1. kDropOff[d] \in Counter!Row
  BY DEF Counter!TypeOK, Counter!Made
<1>2. PICK row : row = Labelled(d, label)
  OBVIOUS
<1>3. row = [kDropOff[d] EXCEPT !.status = "LABELLED", !.label = label]
  BY <1>2 DEF Labelled
<1>4. row = [code |-> kDropOff[d].code, label |-> label, status |-> "LABELLED"]
  BY <1>1, <1>3 DEF Counter!Row
<1>5. kDropOff[d].code \in Codes
  BY <1>1 DEF Counter!Row
<1>. QED  BY <1>2, <1>4, <1>5 DEF Counter!Row

LEMMA CounterStatus ==
    ASSUME Counter!TypeOK, NEW d \in DropOffs, Counter!Made(d),
           NEW st \in {"DETAILS_CAPTURED", "LABELLED", "ACCEPTED", "EXPIRED", "CANCELLED"},
           NEW row, row = [kDropOff[d] EXCEPT !.status = st]
    PROVE  /\ row \in Counter!Row /\ row.code = kDropOff[d].code
           /\ row.status = st /\ row.label = kDropOff[d].label
<1>1. kDropOff[d] \in Counter!Row
  BY DEF Counter!TypeOK, Counter!Made
<1>2. row = [code |-> kDropOff[d].code, label |-> kDropOff[d].label, status |-> st]
  BY <1>1 DEF Counter!Row
<1>3. kDropOff[d].code \in Codes /\ kDropOff[d].label \in Labels \cup {None}
  BY <1>1 DEF Counter!Row
<1>. QED  BY <1>2, <1>3 DEF Counter!Row

LEMMA LapseKeeps == CounterInv /\ Counter!ExpireUnclaimed => CounterInv'
<1>. SUFFICES ASSUME CounterInv, Counter!ExpireUnclaimed PROVE CounterInv'
  OBVIOUS
<1>. DEFINE Expired(d) == [kDropOff[d] EXCEPT !.status = "EXPIRED"]
<1>1. /\ kDropOff' = [d \in DropOffs |->
            IF d \in Counter!Lapsed THEN Expired(d) ELSE kDropOff[d]]
      /\ UNCHANGED <<kOverdue, kAccepted>>
  BY DEF Counter!ExpireUnclaimed
<1>2. ASSUME NEW d \in Counter!Lapsed
      PROVE  /\ d \in DropOffs /\ Counter!IsOpen(d)
             /\ Expired(d) \in Counter!Row /\ Expired(d).code = kDropOff[d].code
             /\ Expired(d).status = "EXPIRED" /\ Expired(d).label = None
             /\ d \notin kAccepted
  <2>1. /\ d \in DropOffs /\ Counter!Made(d)
        /\ kDropOff[d].status \in {"EXPECTED", "DETAILS_CAPTURED"}
    BY DEF Counter!Lapsed, Counter!IsExpired
  <2>2. kDropOff[d].label = None /\ d \notin kAccepted
    BY <2>1 DEF CounterInv, LabelFits
  <2>3. /\ Expired(d) \in Counter!Row /\ Expired(d).code = kDropOff[d].code
        /\ Expired(d).status = "EXPIRED" /\ Expired(d).label = None
    <3>1. PICK row : row = Expired(d)
      OBVIOUS
    <3>2. row \in Counter!Row /\ row.code = kDropOff[d].code
          /\ row.status = "EXPIRED" /\ row.label = kDropOff[d].label
      BY <2>1, <3>1, CounterStatus DEF CounterInv
    <3>. QED  BY <2>2, <3>1, <3>2
  <2>. QED  BY <2>1, <2>2, <2>3, StatusesInUse DEF Counter!IsOpen
<1>. HIDE DEF Expired
<1>3. ASSUME NEW d \in DropOffs
      PROVE  \/ d \in Counter!Lapsed /\ kDropOff'[d] = Expired(d)
             \/ d \notin Counter!Lapsed /\ kDropOff'[d] = kDropOff[d]
  BY <1>1
<1>4. Counter!TypeOK'
  <2>1. kDropOff \in [DropOffs -> Counter!Row \cup {None}]
    BY DEF CounterInv, Counter!TypeOK
  <2>2. kDropOff' \in [DropOffs -> Counter!Row \cup {None}]
    BY <1>1, <1>2, <2>1
  <2>. QED  BY <1>1, <2>2 DEF CounterInv, Counter!TypeOK
<1>5. ASSUME NEW d \in DropOffs
      PROVE  /\ Counter!Made(d)' <=> Counter!Made(d)
             /\ Counter!IsOpen(d)' => Counter!IsOpen(d) /\ kDropOff'[d] = kDropOff[d]
  <2>1. CASE d \in Counter!Lapsed
    <3>1. Counter!Made(d) /\ kDropOff'[d] = Expired(d) /\ Expired(d) # None
      BY <1>2, <1>3, <2>1, CounterConstants DEF Counter!IsOpen
    <3>2. Counter!OnwardOf("EXPIRED") = {}
      BY StatusesInUse
    <3>. QED  BY <1>2, <2>1, <3>1, <3>2 DEF Counter!IsOpen, Counter!Made
  <2>2. CASE d \notin Counter!Lapsed
    BY <1>3, <2>2 DEF Counter!IsOpen, Counter!Made
  <2>. QED  BY <2>1, <2>2
<1>6. ASSUME NEW a \in DropOffs, NEW b \in DropOffs, Counter!IsOpen(a)', Counter!IsOpen(b)',
             kDropOff'[a].code = kDropOff'[b].code
      PROVE  a = b
  BY <1>5, <1>6 DEF CounterInv
<1>7. ASSUME NEW a \in DropOffs, NEW b \in DropOffs, Counter!Made(a)', Counter!Made(b)', a # b,
             kDropOff'[a].label # None, kDropOff'[a].label = kDropOff'[b].label
      PROVE  kDropOff'[a].status = "CANCELLED" \/ kDropOff'[b].status = "CANCELLED"
  <2>1. a \notin Counter!Lapsed /\ b \notin Counter!Lapsed
    BY <1>2, <1>3, <1>7
  <2>. QED  BY <1>3, <1>5, <1>7, <2>1 DEF CounterInv
<1>8. ASSUME NEW a \in DropOffs
      PROVE  /\ a \in kAccepted' <=> Counter!Made(a)' /\ kDropOff'[a].status = "ACCEPTED"
             /\ Counter!Made(a)' => LabelFits(kDropOff'[a])
  <2>1. CASE a \in Counter!Lapsed
    BY <1>1, <1>2, <1>3, <2>1 DEF LabelFits
  <2>2. CASE a \notin Counter!Lapsed
    BY <1>1, <1>3, <1>5, <2>2 DEF CounterInv
  <2>. QED  BY <2>1, <2>2
<1>. QED  BY <1>4, <1>6, <1>7, <1>8 DEF CounterInv

LEMMA CounterStep == CounterInv /\ [Counter!Next]_kVars => CounterInv'
<1>. SUFFICES ASSUME CounterInv, [Counter!Next]_kVars PROVE CounterInv'
  OBVIOUS
<1>0. Counter!TypeOK
  BY DEF CounterInv
<1>1. ASSUME NEW d \in DropOffs, NEW code \in Codes,
             Counter!ExpectDropOff(d, code) \/ Counter!CaptureWalkIn(d, code)
      PROVE  CounterInv'
  <2>1. PICK st \in {"EXPECTED", "DETAILS_CAPTURED"} :
           kDropOff' = [kDropOff EXCEPT ![d] = [code |-> code, label |-> None, status |-> st]]
    BY <1>1 DEF Counter!ExpectDropOff, Counter!CaptureWalkIn, Counter!Become
  <2>2. PICK row : row = [code |-> code, label |-> None, status |-> st]
    OBVIOUS
  <2>3. /\ row \in Counter!Row /\ row.code = code /\ row.label = None /\ row.status = st
    BY <2>2 DEF Counter!Row
  <2>4. /\ UNCHANGED <<kOverdue, kAccepted>>
        /\ ~Counter!Made(d) /\ Counter!LiveFor(code) = {}
    BY <1>1 DEF Counter!ExpectDropOff, Counter!CaptureWalkIn, Counter!IsNext
  <2>5. CodeIsFree(d, row) /\ LabelIsFree(d, row) /\ LabelFits(row)
    BY <2>3, <2>4 DEF CodeIsFree, LabelIsFree, LabelFits
  <2>. QED  BY <2>1, <2>2, <2>3, <2>4, <2>5, CounterRowMoves
<1>2. ASSUME NEW d \in DropOffs, Counter!CaptureDetails(d) PROVE CounterInv'
  <2>1. PICK row : row = [kDropOff[d] EXCEPT !.status = "DETAILS_CAPTURED"]
    OBVIOUS
  <2>2. /\ kDropOff' = [kDropOff EXCEPT ![d] = row] /\ UNCHANGED <<kOverdue, kAccepted>>
        /\ Counter!Made(d) /\ kDropOff[d].status = "EXPECTED"
    BY <1>2, <2>1, StatusesInUse DEF Counter!CaptureDetails, Counter!Become
  <2>3. kDropOff[d].label = None /\ Counter!IsOpen(d)
    BY <2>2, StatusesInUse DEF CounterInv, LabelFits, Counter!IsOpen
  <2>4. /\ row \in Counter!Row /\ row.code = kDropOff[d].code
        /\ row.status = "DETAILS_CAPTURED" /\ row.label = None
    <3>1. row.label = kDropOff[d].label /\ row.code = kDropOff[d].code
          /\ row \in Counter!Row /\ row.status = "DETAILS_CAPTURED"
      BY <1>0, <2>1, <2>2, CounterStatus
    <3>. QED  BY <2>3, <3>1
  <2>5. CodeIsFree(d, row) /\ LabelIsFree(d, row) /\ LabelFits(row)
    BY <2>3, <2>4 DEF CodeIsFree, LabelIsFree, LabelFits
  <2>. QED  BY <2>2, <2>4, <2>5, CounterRowMoves
<1>3. ASSUME NEW d \in DropOffs, NEW label \in Labels, Counter!ApplyLabel(d, label)
      PROVE  CounterInv'
  <2>1. PICK row : row = Labelled(d, label)
    OBVIOUS
  <2>2. /\ kDropOff' = [kDropOff EXCEPT ![d] = row] /\ UNCHANGED <<kOverdue, kAccepted>>
        /\ Counter!Made(d) /\ kDropOff[d].status = "DETAILS_CAPTURED"
        /\ ~Counter!LabelTaken(label)
    BY <1>3, <2>1, StatusesInUse DEF Counter!ApplyLabel, Counter!Become, Labelled
  <2>3. label # None /\ Counter!IsOpen(d)
    BY <2>2, StatusesInUse, CounterConstants DEF Counter!IsOpen
  <2>4. /\ row \in Counter!Row /\ row.code = kDropOff[d].code
        /\ row.status = "LABELLED" /\ row.label = label
    <3>1. Counter!Made(d)
      BY <2>2
    <3>. QED  BY <1>0, <2>1, <3>1, CounterLabel
  <2>5. CodeIsFree(d, row) /\ LabelIsFree(d, row) /\ LabelFits(row)
    BY <2>2, <2>3, <2>4 DEF CodeIsFree, LabelIsFree, LabelFits
  <2>. QED  BY <2>2, <2>4, <2>5, CounterRowMoves
<1>4. ASSUME NEW d \in DropOffs, Counter!Accept(d) \/ Counter!Cancel(d) PROVE CounterInv'
  <2>1. PICK st \in {"ACCEPTED", "CANCELLED"} :
           /\ kDropOff' = [kDropOff EXCEPT ![d] = [kDropOff[d] EXCEPT !.status = st]]
           /\ kAccepted' = IF st = "ACCEPTED" THEN kAccepted \cup {d} ELSE kAccepted
           /\ st = "ACCEPTED" => kDropOff[d].label # None
    BY <1>4 DEF Counter!Accept, Counter!Cancel, Counter!Become
  <2>2. PICK row : row = [kDropOff[d] EXCEPT !.status = st]
    OBVIOUS
  <2>3. /\ Counter!Made(d) /\ Counter!IsOpen(d) /\ kOverdue' = kOverdue
        /\ kDropOff[d].label \in Labels \cup {None}
    BY <1>0, <1>4 DEF Counter!Accept, Counter!Cancel, Counter!IsOpen, Counter!TypeOK,
                      Counter!Made, Counter!Row
  <2>4. /\ row \in Counter!Row /\ row.code = kDropOff[d].code
        /\ row.status = st /\ row.label = kDropOff[d].label
    BY <1>0, <2>2, <2>3, CounterStatus
  <2>5. CodeIsFree(d, row) /\ LabelIsFree(d, row) /\ LabelFits(row)
    BY <2>1, <2>3, <2>4 DEF CodeIsFree, LabelIsFree, LabelFits
  <2>. QED  BY <2>1, <2>2, <2>3, <2>4, <2>5, CounterRowMoves
<1>5. ASSUME (\E d \in DropOffs : Counter!DeadlinePasses(d)) \/ UNCHANGED kVars PROVE CounterInv'
  <2>1. UNCHANGED <<kDropOff, kAccepted>> /\ kOverdue' \subseteq DropOffs
    BY <1>0, <1>5 DEF Counter!DeadlinePasses, kVars, Counter!TypeOK
  <2>. QED  BY <2>1 DEF CounterInv, Counter!TypeOK, Counter!Made, Counter!IsOpen
<1>. QED  BY <1>1, <1>2, <1>3, <1>4, <1>5, LapseKeeps DEF Counter!Next

-----------------------------------------------------------------------------
(* The road.  What is grouped is named by its consignment, also if it is    *)
(* added again from what was read before; what has departed belongs to a    *)
(* consignment that is under way.                                           *)

RowTells(p, h, row) ==
    /\ row.consignment # None => Road!Opened(row.consignment)
    /\ row.status = "SORTED" => City[p] # h
    /\ row.status = "GROUPED" =>
          row.consignment # None /\ p \in lConsignment[row.consignment].codes
    /\ row.status = "DEPARTED" =>
          /\ row.consignment # None
          /\ lConsignment[row.consignment].status \in
                {"DISPATCHED", "ARRIVED", "UNDER_TAMPER_INVESTIGATION"}
    /\ row.status = "HELD" => p \in lTold

ParcelsAreTold ==
    \A h \in Hubs, p \in Parcels : Road!Present(h, p) => RowTells(p, h, lPresence[h][p])

ConsignmentsAreSound ==
    \A c \in Consignments :
       /\ Road!Opened(c) => \A p \in lConsignment[c].codes : City[p] # lConsignment[c].from
       /\ lLinehaul[c] # None \/ c \in lFailed => Road!Opened(c)
       /\ lLinehaul[c] = "ARRIVED" =>
             lConsignment[c].status \in {"ARRIVED", "RECONCILED", "UNDER_TAMPER_INVESTIGATION"}
       /\ c \in lFailed => lConsignment[c].status = "UNDER_TAMPER_INVESTIGATION"

\* A repeated addition was asked for when the parcel was sorted and named.
AdditionIsKnown ==
    lAdding # None =>
       /\ Road!Opened(lAdding.consignment)
       /\ lAdding.parcel \in lConsignment[lAdding.consignment].codes
       /\ lAdding.read.status = "SORTED"

RoadInv == Road!TypeOK /\ ParcelsAreTold /\ ConsignmentsAreSound /\ AdditionIsKnown

LEMMA RoadTells == RoadInv => Road!ConsignmentsTellParcels
<1>. SUFFICES ASSUME RoadInv PROVE Road!ConsignmentsTellParcels
  OBVIOUS
<1>1. \A h \in Hubs, p \in Parcels : Road!Present(h, p) =>
         /\ lPresence[h][p].status = "GROUPED" =>
               p \in lConsignment[lPresence[h][p].consignment].codes
         /\ lPresence[h][p].status = "DEPARTED" =>
               lConsignment[lPresence[h][p].consignment].status \in
                   {"DISPATCHED", "ARRIVED", "UNDER_TAMPER_INVESTIGATION"}
         /\ lPresence[h][p].status = "HELD" => p \in lTold
  BY DEF RoadInv, ParcelsAreTold, RowTells
<1>2. \A c \in Consignments : Road!Opened(c) =>
         /\ \A p \in lConsignment[c].codes : City[p] # lConsignment[c].from
         /\ lLinehaul[c] = "ARRIVED" =>
               lConsignment[c].status \in {"ARRIVED", "RECONCILED", "UNDER_TAMPER_INVESTIGATION"}
  BY DEF RoadInv, ConsignmentsAreSound
<1>. QED  BY <1>1, <1>2 DEF Road!ConsignmentsTellParcels

LEMMA RoadInit == Road!Init => RoadInv
  BY RoadConstants DEF Road!Init, RoadInv, Road!TypeOK, ParcelsAreTold, Road!Present,
     ConsignmentsAreSound, Road!Opened, AdditionIsKnown

\* Consignments as they may change under the parcels: codes only grow, and one
\* under way stays so.
Forward ==
    \A c \in Consignments : Road!Opened(c) =>
       /\ lConsignment'[c] # None
       /\ lConsignment[c].codes \subseteq lConsignment'[c].codes
       /\ lConsignment[c].status \in {"DISPATCHED", "ARRIVED", "UNDER_TAMPER_INVESTIGATION"}
             => lConsignment'[c].status \in {"DISPATCHED", "ARRIVED", "UNDER_TAMPER_INVESTIGATION"}

\* Rows that stay tell the same of consignments that went forward.
LEMMA RowsStillTell ==
    ASSUME RoadInv, Forward, lTold \subseteq lTold',
           NEW h \in Hubs, NEW p \in Parcels, NEW row \in Road!PresenceRow, RowTells(p, h, row)
    PROVE  RowTells(p, h, row)'
<1>1. row.consignment \in Consignments \cup {None}
  BY DEF Road!PresenceRow
<1>. QED  BY <1>1 DEF RowTells, Forward, Road!Opened

\* A step of one row in a hub.
LEMMA PresenceMoves ==
    ASSUME RoadInv, NEW h \in Hubs, NEW p \in Parcels, NEW row \in Road!PresenceRow,
           Road!Store(h, p, row)
    PROVE  /\ lPresence' \in [Hubs -> [Parcels -> Road!PresenceRow \cup {None}]]
           /\ \A k \in Hubs, q \in Parcels :
                 lPresence'[k][q] = IF k = h /\ q = p THEN row ELSE lPresence[k][q]
<1>1. /\ lPresence \in [Hubs -> [Parcels -> Road!PresenceRow \cup {None}]]
      /\ lPresence' = [lPresence EXCEPT ![h][p] = row]
  BY DEF RoadInv, Road!TypeOK, Road!Store
<1>. QED  BY <1>1

LEMMA PresenceIs ==
    ASSUME RoadInv, NEW h \in Hubs, NEW p \in Parcels
    PROVE  /\ Road!Present(h, p) => lPresence[h][p] \in Road!PresenceRow
                                    /\ RowTells(p, h, lPresence[h][p])
           /\ lPresence[h][p] \in Road!PresenceRow => Road!Present(h, p)
  BY RoadConstants DEF RoadInv, Road!TypeOK, Road!Present, ParcelsAreTold

\* One row is stored and the consignments stay as they are.
LEMMA StoreKeeps ==
    ASSUME RoadInv, NEW h \in Hubs, NEW p \in Parcels, NEW row \in Road!PresenceRow,
           Road!Store(h, p, row), lTold \subseteq lTold', lTold' \subseteq Parcels,
           UNCHANGED <<lConsignment, lLinehaul, lFailed>>,
           lAdding' = lAdding \/ lAdding' = None,
           RowTells(p, h, row)'
    PROVE  RoadInv'
<1>1. /\ lPresence' \in [Hubs -> [Parcels -> Road!PresenceRow \cup {None}]]
      /\ \A k \in Hubs, q \in Parcels :
            lPresence'[k][q] = IF k = h /\ q = p THEN row ELSE lPresence[k][q]
  BY PresenceMoves
<1>2. Road!TypeOK'
  BY <1>1 DEF RoadInv, Road!TypeOK
<1>3. Forward
  BY DEF Forward, Road!Opened
<1>4. ASSUME NEW k \in Hubs, NEW q \in Parcels, Road!Present(k, q)'
      PROVE  RowTells(q, k, lPresence[k][q])'
  <2>1. CASE k = h /\ q = p
    <3>1. lPresence'[k][q] = row
      BY <1>1, <2>1
    <3>. QED  BY <2>1, <3>1 DEF RowTells, Road!Opened
  <2>2. CASE ~(k = h /\ q = p)
    <3>1. lPresence'[k][q] = lPresence[k][q] /\ Road!Present(k, q)
      BY <1>1, <1>4, <2>2 DEF Road!Present
    <3>2. PICK old : old = lPresence[k][q]
      OBVIOUS
    <3>3. old \in Road!PresenceRow /\ RowTells(q, k, old)
      BY <3>1, <3>2, PresenceIs
    <3>4. RowTells(q, k, old)'
      BY <1>3, <3>3, RowsStillTell
    <3>. QED  BY <3>1, <3>2, <3>4 DEF RowTells, Road!Opened
  <2>. QED  BY <2>1, <2>2
<1>5. ConsignmentsAreSound'
  BY DEF RoadInv, ConsignmentsAreSound, Road!Opened
<1>6. AdditionIsKnown'
  BY DEF RoadInv, AdditionIsKnown, Road!Opened
<1>. QED  BY <1>2, <1>4, <1>5, <1>6 DEF RoadInv, ParcelsAreTold

\* A step that writes one consignment, and with it perhaps its linehaul and the
\* record of a failed check.
ConsignmentBecomes(c, row) ==
    /\ lConsignment' = [lConsignment EXCEPT ![c] = row]
    /\ \A d \in Consignments : d # c => lLinehaul'[d] = lLinehaul[d]
    /\ lLinehaul' \in [Consignments -> {"PLANNED", "DEPARTED", "ARRIVED", None}]
    /\ lFailed' = lFailed \/ lFailed' = lFailed \cup {c}
    /\ \A q \in row.codes : City[q] # row.from
    /\ lLinehaul'[c] = "ARRIVED" =>
          row.status \in {"ARRIVED", "RECONCILED", "UNDER_TAMPER_INVESTIGATION"}
    /\ c \in lFailed' => row.status = "UNDER_TAMPER_INVESTIGATION"

LEMMA ConsignmentMoves ==
    ASSUME RoadInv, NEW c \in Consignments, NEW row \in Road!ConsignmentRow,
           ConsignmentBecomes(c, row)
    PROVE  /\ lConsignment' \in [Consignments -> Road!ConsignmentRow \cup {None}]
           /\ \A d \in Consignments : lConsignment'[d] = IF d = c THEN row ELSE lConsignment[d]
           /\ ConsignmentsAreSound' /\ lFailed' \subseteq Consignments
<1>0. row # None
  BY RoadConstants
<1>1. /\ lConsignment \in [Consignments -> Road!ConsignmentRow \cup {None}]
      /\ lConsignment' = [lConsignment EXCEPT ![c] = row] /\ lFailed \subseteq Consignments
  BY DEF RoadInv, Road!TypeOK, ConsignmentBecomes
<1>2. /\ lConsignment' \in [Consignments -> Road!ConsignmentRow \cup {None}]
      /\ \A d \in Consignments : lConsignment'[d] = IF d = c THEN row ELSE lConsignment[d]
  BY <1>1
<1>3. lFailed' \subseteq Consignments
  BY <1>1 DEF ConsignmentBecomes
<1>4. ASSUME NEW d \in Consignments
      PROVE  /\ Road!Opened(d)' => \A p \in lConsignment'[d].codes :
                                      City[p] # lConsignment'[d].from
             /\ lLinehaul'[d] # None \/ d \in lFailed' => Road!Opened(d)'
             /\ lLinehaul'[d] = "ARRIVED" => lConsignment'[d].status \in
                   {"ARRIVED", "RECONCILED", "UNDER_TAMPER_INVESTIGATION"}
             /\ d \in lFailed' => lConsignment'[d].status = "UNDER_TAMPER_INVESTIGATION"
  <2>1. CASE d = c
    <3>1. lConsignment'[d] = row
      BY <1>2, <2>1
    <3>. QED  BY <1>0, <2>1, <3>1 DEF ConsignmentBecomes, Road!Opened
  <2>2. CASE d # c
    <3>1. /\ lConsignment'[d] = lConsignment[d] /\ lLinehaul'[d] = lLinehaul[d]
          /\ d \in lFailed' <=> d \in lFailed
      BY <1>2, <2>2 DEF ConsignmentBecomes
    <3>. QED  BY <3>1 DEF RoadInv, ConsignmentsAreSound, Road!Opened
  <2>. QED  BY <2>1, <2>2
<1>5. ConsignmentsAreSound'
  BY <1>4 DEF ConsignmentsAreSound
<1>. QED  BY <1>2, <1>3, <1>5

\* Such a step, where the consignment goes forward and what it changes among
\* the parcels tells of it.
LEMMA ConsignmentKeeps ==
    ASSUME RoadInv, NEW c \in Consignments, NEW row \in Road!ConsignmentRow,
           ConsignmentBecomes(c, row),
           Road!Opened(c) =>
              /\ lConsignment[c].codes \subseteq row.codes
              /\ lConsignment[c].status \in {"DISPATCHED", "ARRIVED", "UNDER_TAMPER_INVESTIGATION"}
                    => row.status \in {"DISPATCHED", "ARRIVED", "UNDER_TAMPER_INVESTIGATION"},
           UNCHANGED <<lTold, lAdding>>,
           lPresence' \in [Hubs -> [Parcels -> Road!PresenceRow \cup {None}]],
           \A h \in Hubs, p \in Parcels : Road!Present(h, p)' =>
              \/ lPresence'[h][p] = lPresence[h][p]
              \/ RowTells(p, h, lPresence[h][p])'
    PROVE  RoadInv'
<1>1. /\ lConsignment' \in [Consignments -> Road!ConsignmentRow \cup {None}]
      /\ \A d \in Consignments : lConsignment'[d] = IF d = c THEN row ELSE lConsignment[d]
      /\ ConsignmentsAreSound' /\ lFailed' \subseteq Consignments
  BY ConsignmentMoves
<1>2. Forward
  <2>1. row # None
    BY RoadConstants
  <2>. QED  BY <1>1, <2>1 DEF Forward, Road!Opened
<1>3. ASSUME NEW h \in Hubs, NEW p \in Parcels, Road!Present(h, p)'
      PROVE  RowTells(p, h, lPresence[h][p])'
  <2>1. CASE lPresence'[h][p] = lPresence[h][p]
    <3>1. PICK old : old = lPresence[h][p]
      OBVIOUS
    <3>2. old \in Road!PresenceRow /\ RowTells(p, h, old)
      BY <1>3, <2>1, <3>1, PresenceIs DEF Road!Present
    <3>3. RowTells(p, h, old)'
      BY <1>2, <3>2, RowsStillTell
    <3>. QED  BY <2>1, <3>1, <3>3 DEF RowTells, Road!Opened
  <2>. QED  BY <1>3, <2>1
<1>4. AdditionIsKnown'
  <2>1. lAdding # None => lAdding.consignment \in Consignments
    BY DEF RoadInv, Road!TypeOK
  <2>. QED  BY <1>2, <2>1 DEF RoadInv, AdditionIsKnown, Forward, Road!Opened
<1>5. Road!TypeOK'
  BY <1>1 DEF RoadInv, Road!TypeOK, ConsignmentBecomes
<1>. QED  BY <1>1, <1>3, <1>4, <1>5 DEF RoadInv, ParcelsAreTold

LEMMA ConsignmentIs ==
    ASSUME RoadInv, NEW c \in Consignments, Road!Opened(c)
    PROVE  /\ lConsignment[c] \in Road!ConsignmentRow
           /\ lConsignment[c].from \in Hubs /\ lConsignment[c].to \in Hubs
           /\ lConsignment[c].codes \subseteq Parcels
  BY DEF RoadInv, Road!TypeOK, Road!Opened, Road!ConsignmentRow

\* Where a consignment may go from each status.
LEMMA MayBecomeIs ==
    ASSUME NEW from
    PROVE  /\ Road!MayBecome(from, "SEALED") => from = "OPEN"
           /\ Road!MayBecome(from, "DISPATCHED") => from \in {"OPEN", "SEALED"}
           /\ Road!MayBecome(from, "ARRIVED") => from = "DISPATCHED"
           /\ Road!MayBecome(from, "RECONCILED") => from = "ARRIVED"
  BY DEF Road!MayBecome

ConsignmentStatus ==
    {"OPEN", "SEALED", "DISPATCHED", "ARRIVED", "RECONCILED", "UNDER_TAMPER_INVESTIGATION"}

\* A consignment with another status.
LEMMA ConsignmentRows ==
    ASSUME RoadInv, NEW c \in Consignments, Road!Opened(c), NEW st \in ConsignmentStatus,
           NEW row, row = [lConsignment[c] EXCEPT !.status = st]
    PROVE  /\ row \in Road!ConsignmentRow /\ row.status = st
           /\ row.codes = lConsignment[c].codes /\ row.from = lConsignment[c].from
<1>1. PICK old : old = lConsignment[c]
  OBVIOUS
<1>2. old \in Road!ConsignmentRow
  BY <1>1, ConsignmentIs
<1>3. row = [from |-> old.from, to |-> old.to, sealed |-> old.sealed, codes |-> old.codes,
             status |-> st]
  BY <1>1, <1>2 DEF Road!ConsignmentRow
<1>4. row \in Road!ConsignmentRow
  BY <1>2, <1>3 DEF Road!ConsignmentRow, ConsignmentStatus
<1>. QED  BY <1>1, <1>3, <1>4

\* What a hub does with a parcel it has.
LEMMA RoadInHub ==
    ASSUME RoadInv, NEW h \in Hubs, NEW p \in Parcels,
           Road!ScanIn(h, p) \/ Road!Sort(h, p) \/ Road!HandToLastMile(h, p)
    PROVE  RoadInv'
<1>1. /\ UNCHANGED <<lTold, lAdding, lConsignment, lLinehaul, lFailed>> /\ lTold \subseteq Parcels
      /\ lTold \subseteq lTold' /\ lTold' \subseteq Parcels
  BY DEF RoadInv, Road!TypeOK, Road!ScanIn, Road!Sort, Road!HandToLastMile, Road!road
<1>2. CASE Road!ScanIn(h, p)
  <2>1. PICK row : row = [status |-> "RECEIVED", routing |-> None, consignment |-> None]
    OBVIOUS
  <2>2. Road!Store(h, p, row) /\ row \in Road!PresenceRow
    BY <1>2, <2>1 DEF Road!ScanIn, Road!PresenceRow
  <2>3. RowTells(p, h, row)'
    BY <2>1 DEF RowTells
  <2>. QED  BY <1>1, <2>2, <2>3, StoreKeeps
<1>3. CASE Road!Sort(h, p) \/ Road!HandToLastMile(h, p)
  <2>1. PICK old : old = lPresence[h][p]
    OBVIOUS
  <2>2. old \in Road!PresenceRow /\ RowTells(p, h, old)
    BY <1>3, <2>1, PresenceIs DEF Road!Sort, Road!HandToLastMile
  <2>3. PICK row : /\ Road!Store(h, p, row)
                   /\ \E st \in {"SORTED", "READY_FOR_LAST_MILE", "HANDED_TO_LAST_MILE"},
                         rt \in {"SAME_CITY_DIRECT", "INTER_CITY_LINEHAUL", None} :
                         /\ row = [status |-> st, routing |-> rt, consignment |-> old.consignment]
                         /\ st = "SORTED" => City[p] # h
    <3>1. CASE Road!Sort(h, p) /\ City[p] = h
      <4>1. PICK row : row = [old EXCEPT !.status = "READY_FOR_LAST_MILE",
                                         !.routing = "SAME_CITY_DIRECT"]
        OBVIOUS
      <4>2. Road!Store(h, p, row)
        BY <2>1, <3>1, <4>1 DEF Road!Sort
      <4>3. row = [status |-> "READY_FOR_LAST_MILE", routing |-> "SAME_CITY_DIRECT",
                   consignment |-> old.consignment]
        BY <2>2, <4>1 DEF Road!PresenceRow
      <4>. QED  BY <4>2, <4>3
    <3>2. CASE Road!Sort(h, p) /\ City[p] # h
      <4>1. PICK row : row = [old EXCEPT !.status = "SORTED", !.routing = "INTER_CITY_LINEHAUL"]
        OBVIOUS
      <4>2. Road!Store(h, p, row)
        BY <2>1, <3>2, <4>1 DEF Road!Sort
      <4>3. row = [status |-> "SORTED", routing |-> "INTER_CITY_LINEHAUL",
                   consignment |-> old.consignment]
        BY <2>2, <4>1 DEF Road!PresenceRow
      <4>. QED  BY <3>2, <4>2, <4>3
    <3>3. CASE Road!HandToLastMile(h, p)
      <4>1. PICK row : row = [old EXCEPT !.status = "HANDED_TO_LAST_MILE"]
        OBVIOUS
      <4>2. Road!Store(h, p, row)
        BY <2>1, <3>3, <4>1 DEF Road!HandToLastMile
      <4>3. /\ row = [status |-> "HANDED_TO_LAST_MILE", routing |-> old.routing,
                      consignment |-> old.consignment]
            /\ old.routing \in {"SAME_CITY_DIRECT", "INTER_CITY_LINEHAUL", None}
        BY <2>2, <4>1 DEF Road!PresenceRow
      <4>. QED  BY <4>2, <4>3
    <3>. QED  BY <1>3, <3>1, <3>2, <3>3
  <2>4. /\ row \in Road!PresenceRow /\ row.consignment = old.consignment
        /\ row.status \in {"SORTED", "READY_FOR_LAST_MILE", "HANDED_TO_LAST_MILE"}
        /\ row.status = "SORTED" => City[p] # h
    BY <2>2, <2>3 DEF Road!PresenceRow
  <2>5. RowTells(p, h, row)
    BY <2>2, <2>4 DEF RowTells
  <2>6. RowTells(p, h, row)'
    BY <1>1, <2>5 DEF RowTells, Road!Opened
  <2>. QED  BY <1>1, <2>3, <2>4, <2>6, StoreKeeps
<1>. QED  BY <1>2, <1>3

LEMMA RoadHold ==
    ASSUME RoadInv, NEW h \in Hubs, NEW p \in Parcels,
           NEW c \in {d \in Consignments : Road!Opened(d)} \cup {None}, Road!Hold(h, p, c)
    PROVE  RoadInv'
<1>1. /\ UNCHANGED <<lAdding, lConsignment, lLinehaul, lFailed>>
      /\ lTold' = lTold \cup {p} /\ lTold \subseteq Parcels
  BY DEF RoadInv, Road!TypeOK, Road!Hold, Road!road
<1>2. PICK old : old = lPresence[h][p]
  OBVIOUS
<1>3. old \in Road!PresenceRow /\ RowTells(p, h, old)
  BY <1>2, PresenceIs DEF Road!Hold
<1>4. PICK row : row = [old EXCEPT !.status = "HELD", !.consignment = IF c = None THEN @ ELSE c]
  OBVIOUS
<1>5. Road!Store(h, p, row)
  BY <1>2, <1>4 DEF Road!Hold
<1>6. PICK d \in Consignments \cup {None} :
         /\ row = [status |-> "HELD", routing |-> old.routing, consignment |-> d]
         /\ d # None => Road!Opened(d)
  <2>1. CASE c = None
    <3>1. row = [status |-> "HELD", routing |-> old.routing, consignment |-> old.consignment]
      BY <1>3, <1>4, <2>1 DEF Road!PresenceRow
    <3>2. old.consignment \in Consignments \cup {None}
      BY <1>3 DEF Road!PresenceRow
    <3>. QED  BY <1>3, <3>1, <3>2 DEF RowTells
  <2>2. CASE c # None
    <3>1. row = [status |-> "HELD", routing |-> old.routing, consignment |-> c]
      BY <1>3, <1>4, <2>2 DEF Road!PresenceRow
    <3>. QED  BY <2>2, <3>1
  <2>. QED  BY <2>1, <2>2
<1>7. row \in Road!PresenceRow
  BY <1>3, <1>6 DEF Road!PresenceRow
<1>8. RowTells(p, h, row)'
  <2>1. row.status = "HELD" /\ row.consignment = d
    BY <1>6
  <2>2. d # None => lConsignment'[d] # None
    BY <1>1, <1>6 DEF Road!Opened
  <2>. QED  BY <1>1, <2>1, <2>2 DEF RowTells, Road!Opened
<1>. QED  BY <1>1, <1>5, <1>7, <1>8, StoreKeeps

\* A grouped row is one that was sorted, now with the consignment that names it.
LEMMA GroupedIs ==
    ASSUME NEW old \in Road!PresenceRow, NEW c \in Consignments
    PROVE  /\ Road!Grouped(old, c) \in Road!PresenceRow
           /\ Road!Grouped(old, c).status = "GROUPED" /\ Road!Grouped(old, c).consignment = c
<1>1. PICK row : row = Road!Grouped(old, c)
  OBVIOUS
<1>2. row = [status |-> "GROUPED", routing |-> old.routing, consignment |-> c]
  BY <1>1 DEF Road!Grouped, Road!PresenceRow
<1>3. row \in Road!PresenceRow
  BY <1>2 DEF Road!PresenceRow
<1>. QED  BY <1>1, <1>2, <1>3

\* A parcel may be grouped from a hub that is not that of its city.
LEMMA GroupedElsewhere ==
    ASSUME RoadInv, NEW c \in Consignments, NEW p \in Parcels, Road!MayGroup(c, p)
    PROVE  /\ Road!Opened(c) /\ lConsignment[c].status = "OPEN"
           /\ lConsignment[c].from \in Hubs
           /\ lPresence[lConsignment[c].from][p] \in Road!PresenceRow
           /\ lPresence[lConsignment[c].from][p].status = "SORTED"
           /\ City[p] # lConsignment[c].from
<1>1. Road!Opened(c)
  BY DEF Road!MayGroup
<1>2. PICK h \in Hubs : h = lConsignment[c].from
  BY <1>1, ConsignmentIs
<1>3. /\ lConsignment[c].status = "OPEN" /\ Road!Present(h, p)
      /\ lPresence[h][p].status = "SORTED"
  BY <1>2 DEF Road!MayGroup
<1>4. lPresence[h][p] \in Road!PresenceRow /\ RowTells(p, h, lPresence[h][p])
  BY <1>3, PresenceIs
<1>. QED  BY <1>1, <1>2, <1>3, <1>4 DEF RowTells

LEMMA RoadAddAgain ==
    ASSUME RoadInv, \/ \E c \in Consignments, p \in Parcels : Road!BeginAddAgain(c, p)
                    \/ Road!FinishAddAgain
    PROVE  RoadInv'
<1>1. ASSUME NEW c \in Consignments, NEW p \in Parcels, Road!BeginAddAgain(c, p)
      PROVE  RoadInv'
  <2>1. PICK old : old = lPresence[lConsignment[c].from][p]
    OBVIOUS
  <2>2. PICK asked : asked = [consignment |-> c, parcel |-> p, read |-> old]
    OBVIOUS
  <2>3. /\ lAdding' = asked /\ p \in lConsignment[c].codes
        /\ UNCHANGED <<lPresence, lTold, lConsignment, lLinehaul, lFailed>>
        /\ Road!Opened(c) /\ old \in Road!PresenceRow /\ old.status = "SORTED"
    BY <1>1, <2>1, <2>2, GroupedElsewhere DEF Road!BeginAddAgain, Road!road
  <2>4. asked \in [consignment: Consignments, parcel: Parcels, read: Road!PresenceRow]
    BY <2>2, <2>3
  <2>5. AdditionIsKnown'
    BY <2>2, <2>3 DEF AdditionIsKnown, Road!Opened
  <2>6. Road!TypeOK' /\ ConsignmentsAreSound'
    BY <2>3, <2>4 DEF RoadInv, Road!TypeOK, ConsignmentsAreSound, Road!Opened
  <2>7. ParcelsAreTold'
    BY <2>3 DEF RoadInv, ParcelsAreTold, Road!Present, RowTells, Road!Opened
  <2>. QED  BY <2>5, <2>6, <2>7 DEF RoadInv
<1>2. CASE Road!FinishAddAgain
  <2>1. PICK c, p, old : c = lAdding.consignment /\ p = lAdding.parcel /\ old = lAdding.read
    OBVIOUS
  <2>2. /\ c \in Consignments /\ p \in Parcels /\ old \in Road!PresenceRow
        /\ Road!Opened(c) /\ p \in lConsignment[c].codes
        /\ lAdding' = None /\ UNCHANGED <<lTold, lConsignment, lLinehaul, lFailed>>
    BY <1>2, <2>1 DEF RoadInv, AdditionIsKnown, Road!FinishAddAgain, Road!TypeOK, Road!road
  <2>3. PICK h \in Hubs : h = lConsignment[c].from
    BY <2>2, ConsignmentIs
  <2>4. \/ Road!Store(h, p, Road!Grouped(old, c))
        \/ UNCHANGED lPresence
    BY <1>2, <2>1, <2>3 DEF Road!FinishAddAgain
  <2>5. CASE Road!Store(h, p, Road!Grouped(old, c))
    <3>1. PICK row : row = Road!Grouped(old, c)
      OBVIOUS
    <3>2. /\ Road!Store(h, p, row) /\ row \in Road!PresenceRow
          /\ row.status = "GROUPED" /\ row.consignment = c
      BY <2>2, <2>5, <3>1, GroupedIs
    <3>3. RowTells(p, h, row)'
      BY <2>2, <3>2, RoadConstants DEF RowTells, Road!Opened
    <3>4. lTold \subseteq lTold' /\ lTold' \subseteq Parcels
      BY <2>2 DEF RoadInv, Road!TypeOK
    <3>. QED  BY <2>2, <3>2, <3>3, <3>4, StoreKeeps
  <2>6. CASE UNCHANGED lPresence
    BY <2>2, <2>6 DEF RoadInv, Road!TypeOK, ParcelsAreTold, ConsignmentsAreSound,
                      AdditionIsKnown, Road!Present, RowTells, Road!Opened
  <2>. QED  BY <2>4, <2>5, <2>6
<1>. QED  BY <1>1, <1>2

\* A consignment is written and no parcel is.
LEMMA YardKeeps ==
    ASSUME RoadInv, NEW c \in Consignments, NEW row \in Road!ConsignmentRow,
           ConsignmentBecomes(c, row), UNCHANGED Road!yard,
           Road!Opened(c) =>
              /\ lConsignment[c].codes \subseteq row.codes
              /\ lConsignment[c].status \in {"DISPATCHED", "ARRIVED", "UNDER_TAMPER_INVESTIGATION"}
                    => row.status \in {"DISPATCHED", "ARRIVED", "UNDER_TAMPER_INVESTIGATION"}
    PROVE  RoadInv'
<1>1. UNCHANGED <<lTold, lAdding>> /\ lPresence' = lPresence
  BY DEF Road!yard
<1>2. /\ lPresence' \in [Hubs -> [Parcels -> Road!PresenceRow \cup {None}]]
      /\ \A h \in Hubs, p \in Parcels : Road!Present(h, p)' =>
            \/ lPresence'[h][p] = lPresence[h][p]
            \/ RowTells(p, h, lPresence[h][p])'
  BY <1>1 DEF RoadInv, Road!TypeOK
<1>. QED  BY <1>1, <1>2, ConsignmentKeeps

LEMMA RoadOpens ==
    ASSUME RoadInv, NEW c \in Consignments, NEW route \in Routes,
           Road!OpenConsignment(c, route[1], route[2])
    PROVE  RoadInv'
<1>1. PICK row : row = [from |-> route[1], to |-> route[2], sealed |-> FALSE, codes |-> {},
                        status |-> "OPEN"]
  OBVIOUS
<1>2. row \in Road!ConsignmentRow
  <2>1. route[1] \in Hubs /\ route[2] \in Hubs
    BY RoadConstants
  <2>. QED  BY <1>1, <2>1 DEF Road!ConsignmentRow
<1>3. /\ lConsignment' = [lConsignment EXCEPT ![c] = row] /\ ~Road!Opened(c)
      /\ UNCHANGED Road!yard /\ UNCHANGED <<lLinehaul, lFailed>>
  BY <1>1 DEF Road!OpenConsignment
<1>4. lLinehaul[c] = None /\ c \notin lFailed
  BY <1>3 DEF RoadInv, ConsignmentsAreSound
<1>5. ConsignmentBecomes(c, row)
  <2>1. lLinehaul \in [Consignments -> {"PLANNED", "DEPARTED", "ARRIVED", None}]
        /\ None # "ARRIVED"
    BY RoadConstants DEF RoadInv, Road!TypeOK
  <2>. QED  BY <1>1, <1>3, <1>4, <2>1 DEF ConsignmentBecomes
<1>. QED  BY <1>2, <1>3, <1>5, YardKeeps

LEMMA RoadSeals ==
    ASSUME RoadInv, NEW c \in Consignments, Road!ApplySeal(c)
    PROVE  RoadInv'
<1>1. PICK old : old = lConsignment[c]
  OBVIOUS
<1>2. old \in Road!ConsignmentRow /\ Road!Opened(c) /\ old.status = "OPEN"
  BY <1>1, ConsignmentIs, MayBecomeIs DEF Road!ApplySeal
<1>3. PICK row : row = [old EXCEPT !.status = "SEALED", !.sealed = TRUE]
  OBVIOUS
<1>4. row = [from |-> old.from, to |-> old.to, sealed |-> TRUE, codes |-> old.codes,
             status |-> "SEALED"]
  BY <1>2, <1>3 DEF Road!ConsignmentRow
<1>5. row \in Road!ConsignmentRow
  BY <1>2, <1>4 DEF Road!ConsignmentRow
<1>6. lConsignment' = [lConsignment EXCEPT ![c] = row]
  <2>1. lConsignment \in [Consignments -> Road!ConsignmentRow \cup {None}]
    BY DEF RoadInv, Road!TypeOK
  <2>. QED  BY <1>1, <1>3, <2>1 DEF Road!ApplySeal
<1>7. UNCHANGED Road!yard /\ UNCHANGED <<lLinehaul, lFailed>>
  BY DEF Road!ApplySeal
<1>8. ConsignmentBecomes(c, row)
  <2>1. lLinehaul \in [Consignments -> {"PLANNED", "DEPARTED", "ARRIVED", None}]
        /\ lLinehaul[c] # "ARRIVED" /\ c \notin lFailed /\ \A q \in old.codes : City[q] # old.from
    BY <1>1, <1>2 DEF RoadInv, Road!TypeOK, ConsignmentsAreSound
  <2>. QED  BY <1>4, <1>6, <1>7, <2>1 DEF ConsignmentBecomes
<1>. QED  BY <1>1, <1>2, <1>4, <1>5, <1>7, <1>8, YardKeeps

LEMMA RoadArrives ==
    ASSUME RoadInv, NEW c \in Consignments, Road!RecordArrival(c) \/ Road!CheckSeal(c)
    PROVE  RoadInv'
<1>1. PICK st \in {"ARRIVED", "UNDER_TAMPER_INVESTIGATION"} :
         /\ lConsignment' = [lConsignment EXCEPT ![c].status = st]
         /\ st = "ARRIVED" => /\ lConsignment[c].status = "DISPATCHED"
                              /\ lFailed' = lFailed
                              /\ lLinehaul' = [lLinehaul EXCEPT ![c] =
                                                  IF @ = "DEPARTED" THEN "ARRIVED" ELSE @]
         /\ st # "ARRIVED" => lFailed' = lFailed \cup {c} /\ lLinehaul' = lLinehaul
  BY MayBecomeIs DEF Road!RecordArrival, Road!CheckSeal
<1>2. Road!Opened(c) /\ UNCHANGED Road!yard
  BY DEF Road!RecordArrival, Road!CheckSeal
<1>3. PICK row : row = [lConsignment[c] EXCEPT !.status = st]
  OBVIOUS
<1>4. /\ row \in Road!ConsignmentRow /\ row.status = st
      /\ row.codes = lConsignment[c].codes /\ row.from = lConsignment[c].from
  BY <1>2, <1>3, ConsignmentRows DEF ConsignmentStatus
<1>5. lConsignment' = [lConsignment EXCEPT ![c] = row]
  <2>1. lConsignment \in [Consignments -> Road!ConsignmentRow \cup {None}]
    BY DEF RoadInv, Road!TypeOK
  <2>. QED  BY <1>1, <1>3, <2>1
<1>6. ConsignmentBecomes(c, row)
  <2>1. /\ lLinehaul \in [Consignments -> {"PLANNED", "DEPARTED", "ARRIVED", None}]
        /\ \A q \in lConsignment[c].codes : City[q] # lConsignment[c].from
        /\ c \in lFailed => lConsignment[c].status = "UNDER_TAMPER_INVESTIGATION"
    BY <1>2 DEF RoadInv, Road!TypeOK, ConsignmentsAreSound
  <2>2. CASE st = "ARRIVED"
    <3>1. /\ lLinehaul' \in [Consignments -> {"PLANNED", "DEPARTED", "ARRIVED", None}]
          /\ \A d \in Consignments : d # c => lLinehaul'[d] = lLinehaul[d]
      BY <1>1, <2>1, <2>2
    <3>. QED  BY <1>1, <1>4, <1>5, <2>1, <2>2, <3>1 DEF ConsignmentBecomes
  <2>3. CASE st # "ARRIVED"
    BY <1>1, <1>4, <1>5, <2>1, <2>3 DEF ConsignmentBecomes
  <2>. QED  BY <2>2, <2>3
<1>. QED  BY <1>2, <1>4, <1>6, YardKeeps

LEMMA RoadLinehaul ==
    ASSUME RoadInv, NEW c \in Consignments, Road!PlanLinehaul(c) \/ Road!Depart(c)
    PROVE  RoadInv'
<1>1. PICK st \in {"PLANNED", "DEPARTED"} : lLinehaul' = [lLinehaul EXCEPT ![c] = st]
  BY DEF Road!PlanLinehaul, Road!Depart
<1>2. UNCHANGED <<lPresence, lTold, lAdding, lConsignment, lFailed>> /\ Road!Opened(c)
  <2>1. lLinehaul[c] = "PLANNED" => Road!Opened(c)
    BY RoadConstants DEF RoadInv, ConsignmentsAreSound
  <2>. QED  BY <2>1 DEF Road!PlanLinehaul, Road!Depart, Road!yard
<1>3. /\ lLinehaul' \in [Consignments -> {"PLANNED", "DEPARTED", "ARRIVED", None}]
      /\ \A d \in Consignments : lLinehaul'[d] = IF d = c THEN st ELSE lLinehaul[d]
  BY <1>1 DEF RoadInv, Road!TypeOK
<1>4. Road!TypeOK'
  BY <1>2, <1>3 DEF RoadInv, Road!TypeOK
<1>5. ConsignmentsAreSound'
  <2>1. ASSUME NEW d \in Consignments
        PROVE  /\ Road!Opened(d)' = Road!Opened(d) /\ lConsignment'[d] = lConsignment[d]
               /\ d \in lFailed' <=> d \in lFailed
               /\ lLinehaul'[d] = "ARRIVED" => lLinehaul[d] = "ARRIVED"
               /\ lLinehaul'[d] # None => Road!Opened(d)
    BY <1>2, <1>3 DEF Road!Opened, RoadInv, ConsignmentsAreSound
  <2>. QED  BY <2>1 DEF RoadInv, ConsignmentsAreSound
<1>6. ParcelsAreTold' /\ AdditionIsKnown'
  BY <1>2 DEF RoadInv, ParcelsAreTold, AdditionIsKnown, Road!Present, RowTells, Road!Opened
<1>. QED  BY <1>4, <1>5, <1>6 DEF RoadInv

LEMMA RoadAdds ==
    ASSUME RoadInv, NEW c \in Consignments, NEW p \in Parcels, Road!AddParcel(c, p)
    PROVE  RoadInv'
<1>1. PICK h \in Hubs : h = lConsignment[c].from
  BY ConsignmentIs DEF Road!AddParcel, Road!MayGroup
<1>2. PICK old : old = lPresence[h][p]
  OBVIOUS
<1>3. /\ Road!Opened(c) /\ lConsignment[c].status = "OPEN"
      /\ old \in Road!PresenceRow /\ City[p] # h
  BY <1>1, <1>2, GroupedElsewhere DEF Road!AddParcel
<1>4. PICK row : row = Road!Grouped(old, c)
  OBVIOUS
<1>5. /\ row \in Road!PresenceRow /\ row.status = "GROUPED" /\ row.consignment = c
  BY <1>3, <1>4, GroupedIs
<1>6. PICK cargo : cargo = lConsignment[c]
  OBVIOUS
<1>7. PICK more : more = [cargo EXCEPT !.codes = @ \cup {p}]
  OBVIOUS
<1>8. /\ lConsignment' = [lConsignment EXCEPT ![c] = more] /\ Road!Store(h, p, row)
      /\ UNCHANGED <<lTold, lAdding, lLinehaul, lFailed>>
  <2>1. lConsignment \in [Consignments -> Road!ConsignmentRow \cup {None}]
    BY DEF RoadInv, Road!TypeOK
  <2>. QED  BY <1>1, <1>2, <1>4, <1>6, <1>7, <2>1 DEF Road!AddParcel
<1>9. /\ cargo \in Road!ConsignmentRow /\ cargo.status = "OPEN" /\ cargo.from = h
  BY <1>1, <1>3, <1>6, ConsignmentIs
<1>10. more = [from |-> cargo.from, to |-> cargo.to, sealed |-> cargo.sealed,
               codes |-> cargo.codes \cup {p}, status |-> cargo.status]
  BY <1>7, <1>9 DEF Road!ConsignmentRow
<1>11. more \in Road!ConsignmentRow
  BY <1>9, <1>10 DEF Road!ConsignmentRow
<1>12. ConsignmentBecomes(c, more)
  <2>1. /\ lLinehaul \in [Consignments -> {"PLANNED", "DEPARTED", "ARRIVED", None}]
        /\ lLinehaul[c] # "ARRIVED" /\ c \notin lFailed
        /\ \A q \in cargo.codes : City[q] # cargo.from
    BY <1>3, <1>6 DEF RoadInv, Road!TypeOK, ConsignmentsAreSound
  <2>. QED  BY <1>3, <1>8, <1>9, <1>10, <2>1 DEF ConsignmentBecomes
<1>13. /\ lPresence' \in [Hubs -> [Parcels -> Road!PresenceRow \cup {None}]]
       /\ \A k \in Hubs, q \in Parcels :
             lPresence'[k][q] = IF k = h /\ q = p THEN row ELSE lPresence[k][q]
  BY <1>5, <1>8, PresenceMoves
<1>14. RowTells(p, h, row)'
  <2>1. lConsignment'[c] = more /\ more # None
    BY <1>8, <1>11, RoadConstants DEF RoadInv, Road!TypeOK
  <2>. QED  BY <1>5, <1>10, <2>1, RoadConstants DEF RowTells, Road!Opened
<1>15. ASSUME NEW k \in Hubs, NEW q \in Parcels, Road!Present(k, q)'
       PROVE  \/ lPresence'[k][q] = lPresence[k][q]
              \/ RowTells(q, k, lPresence[k][q])'
  <2>1. CASE k = h /\ q = p
    <3>1. lPresence'[k][q] = row
      BY <1>13, <2>1
    <3>. QED  BY <1>14, <2>1, <3>1 DEF RowTells, Road!Opened
  <2>2. CASE ~(k = h /\ q = p)
    BY <1>13, <2>2
  <2>. QED  BY <2>1, <2>2
<1>16. /\ lConsignment[c].codes \subseteq more.codes
       /\ lConsignment[c].status = "OPEN"
  BY <1>6, <1>9, <1>10
<1>. QED  BY <1>8, <1>11, <1>12, <1>13, <1>15, <1>16, ConsignmentKeeps

\* What a consignment carries has a row that names it.
LEMMA CarriesIs ==
    ASSUME RoadInv, NEW c \in Consignments, NEW h \in Hubs, NEW p \in Parcels
    PROVE  <<h, p>> \in Road!Carries(c) <=>
              /\ lPresence[h][p] \in Road!PresenceRow
              /\ lPresence[h][p].consignment = c
<1>1. <<h, p>> \in Hubs \X Parcels /\ <<h, p>>[1] = h /\ <<h, p>>[2] = p
  OBVIOUS
<1>2. <<h, p>> \in Road!Carries(c) <=>
         Road!Present(h, p) /\ lPresence[h][p].consignment = c
  BY <1>1 DEF Road!Carries
<1>. QED  BY <1>2, PresenceIs

\* A row of the same parcel with another status.
LEMMA PresenceRows ==
    ASSUME NEW old \in Road!PresenceRow, NEW st \in {"DEPARTED", "READY_FOR_LAST_MILE"}
    PROVE  /\ [old EXCEPT !.status = st] \in Road!PresenceRow
           /\ [old EXCEPT !.status = st].status = st
           /\ [old EXCEPT !.status = st].consignment = old.consignment
<1>1. PICK row : row = [old EXCEPT !.status = st]
  OBVIOUS
<1>2. row = [status |-> st, routing |-> old.routing, consignment |-> old.consignment]
  BY <1>1 DEF Road!PresenceRow
<1>3. row \in Road!PresenceRow
  BY <1>2 DEF Road!PresenceRow
<1>. QED  BY <1>1, <1>2, <1>3

\* What a dispatch makes of each row.
LEMMA DispatchIs ==
    ASSUME RoadInv, NEW c \in Consignments, Road!Dispatch(c), NEW h \in Hubs, NEW p \in Parcels
    PROVE  \/ /\ <<h, p>> \notin Road!Carries(c)
              /\ lPresence'[h][p] = lPresence[h][p]
           \/ /\ <<h, p>> \in Road!Carries(c)
              /\ lPresence'[h][p] \in Road!PresenceRow
              /\ lPresence'[h][p].status = "DEPARTED" /\ lPresence'[h][p].consignment = c
<1>1. lPresence'[h][p] = IF <<h, p>> \in Road!Carries(c)
                         THEN [lPresence[h][p] EXCEPT !.status = "DEPARTED"]
                         ELSE lPresence[h][p]
  BY DEF Road!Dispatch
<1>2. CASE <<h, p>> \in Road!Carries(c)
  <2>1. PICK old : old = lPresence[h][p]
    OBVIOUS
  <2>2. old \in Road!PresenceRow /\ old.consignment = c
    BY <1>2, <2>1, CarriesIs
  <2>3. lPresence'[h][p] = [old EXCEPT !.status = "DEPARTED"]
    BY <1>1, <1>2, <2>1
  <2>. QED  BY <1>2, <2>2, <2>3, PresenceRows
<1>3. CASE <<h, p>> \notin Road!Carries(c)
  BY <1>1, <1>3
<1>. QED  BY <1>2, <1>3

LEMMA RoadDispatches ==
    ASSUME RoadInv, NEW c \in Consignments, Road!Dispatch(c)
    PROVE  RoadInv'
<1>1. /\ Road!Opened(c) /\ lConsignment[c].status \in {"OPEN", "SEALED"}
      /\ lConsignment' = [lConsignment EXCEPT ![c].status = "DISPATCHED"]
      /\ UNCHANGED <<lTold, lAdding, lLinehaul, lFailed>>
  BY MayBecomeIs DEF Road!Dispatch
<1>2. PICK row : row = [lConsignment[c] EXCEPT !.status = "DISPATCHED"]
  OBVIOUS
<1>3. /\ row \in Road!ConsignmentRow /\ row.status = "DISPATCHED"
      /\ row.codes = lConsignment[c].codes /\ row.from = lConsignment[c].from
  BY <1>1, <1>2, ConsignmentRows DEF ConsignmentStatus
<1>4. lConsignment' = [lConsignment EXCEPT ![c] = row]
  <2>1. lConsignment \in [Consignments -> Road!ConsignmentRow \cup {None}]
    BY DEF RoadInv, Road!TypeOK
  <2>. QED  BY <1>1, <1>2, <2>1
<1>5. ConsignmentBecomes(c, row)
  <2>1. /\ lLinehaul \in [Consignments -> {"PLANNED", "DEPARTED", "ARRIVED", None}]
        /\ lLinehaul[c] # "ARRIVED" /\ c \notin lFailed
        /\ \A q \in lConsignment[c].codes : City[q] # lConsignment[c].from
    BY <1>1 DEF RoadInv, Road!TypeOK, ConsignmentsAreSound
  <2>. QED  BY <1>1, <1>3, <1>4, <2>1 DEF ConsignmentBecomes
<1>6. lPresence' \in [Hubs -> [Parcels -> Road!PresenceRow \cup {None}]]
  <2>1. ASSUME NEW h \in Hubs, NEW p \in Parcels
        PROVE  lPresence'[h][p] \in Road!PresenceRow \cup {None}
    <3>1. lPresence[h][p] \in Road!PresenceRow \cup {None}
      BY DEF RoadInv, Road!TypeOK
    <3>. QED  BY <3>1, DispatchIs
  <2>2. lPresence' = [h \in Hubs |-> [p \in Parcels |-> lPresence'[h][p]]]
    BY DEF Road!Dispatch
  <2>. QED  BY <2>1, <2>2
<1>7. ASSUME NEW h \in Hubs, NEW p \in Parcels, Road!Present(h, p)'
      PROVE  \/ lPresence'[h][p] = lPresence[h][p]
             \/ RowTells(p, h, lPresence[h][p])'
  <2>1. CASE lPresence'[h][p].status = "DEPARTED" /\ lPresence'[h][p].consignment = c
    <3>1. lConsignment'[c] = row /\ row # None /\ c # None
      BY <1>3, <1>4, RoadConstants DEF RoadInv, Road!TypeOK
    <3>. QED  BY <1>3, <2>1, <3>1 DEF RowTells, Road!Opened
  <2>. QED  BY <2>1, DispatchIs
<1>. QED  BY <1>1, <1>3, <1>5, <1>6, <1>7, ConsignmentKeeps

\* What a reconciliation makes of each row.
LEMMA ReconcileIs ==
    ASSUME RoadInv, NEW c \in Consignments, Road!Reconcile(c), NEW h \in Hubs, NEW p \in Parcels
    PROVE  \/ /\ <<h, p>> \notin Road!Arriving(c)
              /\ lPresence'[h][p] = lPresence[h][p]
           \/ lPresence'[h][p] = None /\ <<h, p>> \in Road!Arriving(c)
           \/ /\ <<h, p>> \in Road!Arriving(c) \/ ~Road!Present(h, p)
              /\ lPresence'[h][p] \in Road!PresenceRow
              /\ lPresence'[h][p].status = "READY_FOR_LAST_MILE"
              /\ lPresence'[h][p].consignment = c
<1>1. lPresence'[h][p] =
         IF h = lConsignment[c].to /\ \E from \in Hubs : <<from, p>> \in Road!Arriving(c)
         THEN LET from == CHOOSE from \in Hubs : <<from, p>> \in Road!Arriving(c)
              IN  [lPresence[from][p] EXCEPT !.status = "READY_FOR_LAST_MILE"]
         ELSE IF <<h, p>> \in Road!Arriving(c) THEN None ELSE lPresence[h][p]
  BY DEF Road!Reconcile
<1>2. CASE h = lConsignment[c].to /\ \E from \in Hubs : <<from, p>> \in Road!Arriving(c)
  <2>1. PICK from : from = CHOOSE at \in Hubs : <<at, p>> \in Road!Arriving(c)
    OBVIOUS
  <2>2. from \in Hubs /\ <<from, p>> \in Road!Arriving(c)
    BY <1>2, <2>1
  <2>3. PICK old : old = lPresence[from][p]
    OBVIOUS
  <2>4. old \in Road!PresenceRow /\ old.consignment = c
    BY <2>2, <2>3, CarriesIs DEF Road!Arriving
  <2>5. lPresence'[h][p] = [old EXCEPT !.status = "READY_FOR_LAST_MILE"]
    BY <1>1, <1>2, <2>1, <2>3
  <2>6. <<h, p>> \in Road!Arriving(c) \/ ~Road!Present(h, p)
    <3>1. PICK at \in Road!Arriving(c) : at = <<from, p>>
      BY <2>2
    <3>2. at[1] = from /\ at[2] = p
      BY <3>1
    <3>3. at[1] # lConsignment[c].to => ~Road!Present(lConsignment[c].to, at[2])
      BY DEF Road!Reconcile, Road!NoneIsThere
    <3>. QED  BY <1>2, <2>2, <3>2, <3>3
  <2>. QED  BY <2>4, <2>5, <2>6, PresenceRows
<1>3. CASE ~(h = lConsignment[c].to /\ \E from \in Hubs : <<from, p>> \in Road!Arriving(c))
  BY <1>1, <1>3
<1>. QED  BY <1>2, <1>3

LEMMA RoadReconciles ==
    ASSUME RoadInv, NEW c \in Consignments, Road!Reconcile(c)
    PROVE  RoadInv'
<1>1. /\ Road!Opened(c) /\ lConsignment[c].status = "ARRIVED"
      /\ lConsignment' = [lConsignment EXCEPT ![c].status = "RECONCILED"]
      /\ UNCHANGED <<lTold, lAdding, lLinehaul, lFailed>>
  BY MayBecomeIs DEF Road!Reconcile
<1>2. PICK row : row = [lConsignment[c] EXCEPT !.status = "RECONCILED"]
  OBVIOUS
<1>3. /\ row \in Road!ConsignmentRow /\ row.status = "RECONCILED"
      /\ row.codes = lConsignment[c].codes /\ row.from = lConsignment[c].from
  BY <1>1, <1>2, ConsignmentRows DEF ConsignmentStatus
<1>4. lConsignment' = [lConsignment EXCEPT ![c] = row]
  <2>1. lConsignment \in [Consignments -> Road!ConsignmentRow \cup {None}]
    BY DEF RoadInv, Road!TypeOK
  <2>. QED  BY <1>1, <1>2, <2>1
<1>5. ConsignmentBecomes(c, row)
  <2>1. /\ lLinehaul \in [Consignments -> {"PLANNED", "DEPARTED", "ARRIVED", None}]
        /\ c \notin lFailed
        /\ \A q \in lConsignment[c].codes : City[q] # lConsignment[c].from
    BY <1>1 DEF RoadInv, Road!TypeOK, ConsignmentsAreSound
  <2>. QED  BY <1>1, <1>3, <1>4, <2>1 DEF ConsignmentBecomes
<1>6. /\ lConsignment' \in [Consignments -> Road!ConsignmentRow \cup {None}]
      /\ \A d \in Consignments : lConsignment'[d] = IF d = c THEN row ELSE lConsignment[d]
      /\ ConsignmentsAreSound' /\ row # None
  BY <1>3, <1>5, ConsignmentMoves, RoadConstants
<1>7. lPresence' \in [Hubs -> [Parcels -> Road!PresenceRow \cup {None}]]
  <2>1. ASSUME NEW h \in Hubs, NEW p \in Parcels
        PROVE  lPresence'[h][p] \in Road!PresenceRow \cup {None}
    <3>1. lPresence[h][p] \in Road!PresenceRow \cup {None}
      BY DEF RoadInv, Road!TypeOK
    <3>. QED  BY <3>1, ReconcileIs
  <2>2. lPresence' = [h \in Hubs |-> [p \in Parcels |-> lPresence'[h][p]]]
    BY DEF Road!Reconcile
  <2>. QED  BY <2>1, <2>2
<1>8. Road!TypeOK'
  BY <1>1, <1>6, <1>7 DEF RoadInv, Road!TypeOK
<1>9. AdditionIsKnown'
  BY <1>1, <1>3, <1>6 DEF RoadInv, Road!TypeOK, AdditionIsKnown, Road!Opened
<1>10. ASSUME NEW h \in Hubs, NEW p \in Parcels, Road!Present(h, p)'
       PROVE  RowTells(p, h, lPresence[h][p])'
  <2>1. CASE <<h, p>> \notin Road!Arriving(c) /\ lPresence'[h][p] = lPresence[h][p]
    <3>1. PICK old : old = lPresence[h][p]
      OBVIOUS
    <3>2. old \in Road!PresenceRow /\ RowTells(p, h, old)
      BY <1>10, <2>1, <3>1, PresenceIs DEF Road!Present
    <3>3. old.consignment = c => old.status = "HELD"
      <4>1. <<h, p>> \in Hubs \X Parcels /\ <<h, p>>[1] = h /\ <<h, p>>[2] = p
        OBVIOUS
      <4>2. old.consignment = c => <<h, p>> \in Road!Carries(c)
        BY <3>1, <3>2, CarriesIs
      <4>. QED  BY <2>1, <3>1, <4>1, <4>2 DEF Road!Arriving, Road!IsHeld
    <3>4. old.consignment \in Consignments \cup {None}
      BY <3>2 DEF Road!PresenceRow
    <3>5. RowTells(p, h, old)'
      BY <1>1, <1>3, <1>6, <3>2, <3>3, <3>4 DEF RowTells, Road!Opened
    <3>. QED  BY <2>1, <3>1, <3>5 DEF RowTells, Road!Opened
  <2>2. CASE /\ lPresence'[h][p].status = "READY_FOR_LAST_MILE"
             /\ lPresence'[h][p].consignment = c
    BY <1>6, <2>2 DEF RowTells, Road!Opened
  <2>. QED  BY <1>10, <2>1, <2>2, ReconcileIs DEF Road!Present
<1>. QED  BY <1>6, <1>8, <1>9, <1>10 DEF RoadInv, ParcelsAreTold

LEMMA RoadStep == RoadInv /\ [Road!Next]_lVars => RoadInv'
<1>. SUFFICES ASSUME RoadInv, [Road!Next]_lVars PROVE RoadInv'
  OBVIOUS
<1>1. CASE UNCHANGED lVars
  BY <1>1 DEF lVars, RoadInv, Road!TypeOK, ParcelsAreTold, ConsignmentsAreSound,
              AdditionIsKnown, Road!Present, RowTells, Road!Opened
<1>. QED  BY <1>1, RoadInHub, RoadHold, RoadOpens, RoadAdds, RoadAddAgain, RoadSeals,
             RoadDispatches, RoadArrives, RoadReconciles, RoadLinehaul DEF Road!Next

\* What is held changes by a dispatch of its consignment only, and a stopped
\* consignment not at all.
HeldStays(h, p) ==
    Road!Present(h, p) /\ Road!IsHeld(h, p) =>
       /\ lPresence'[h][p] # None
       /\ \/ lPresence'[h][p].status = "HELD"
          \/ /\ lPresence'[h][p].status = "DEPARTED"
             /\ lPresence[h][p].consignment # None
             /\ lConsignment[lPresence[h][p].consignment].status \in {"OPEN", "SEALED"}
             /\ lConsignment'[lPresence[h][p].consignment].status = "DISPATCHED"

LEMMA HeldInHub ==
    ASSUME RoadInv, NEW k \in Hubs, NEW q \in Parcels,
           NEW c \in {d \in Consignments : Road!Opened(d)} \cup {None},
           Road!ScanIn(k, q) \/ Road!Sort(k, q) \/ Road!HandToLastMile(k, q) \/ Road!Hold(k, q, c),
           NEW h \in Hubs, NEW p \in Parcels
    PROVE  HeldStays(h, p)
<1>. SUFFICES ASSUME Road!Present(h, p), Road!IsHeld(h, p)
              PROVE  lPresence'[h][p] # None /\ lPresence'[h][p].status = "HELD"
  BY DEF HeldStays
<1>1. lPresence \in [Hubs -> [Parcels -> Road!PresenceRow \cup {None}]]
  BY DEF RoadInv, Road!TypeOK
<1>2. PICK row : Road!Store(k, q, row)
  BY DEF Road!ScanIn, Road!Sort, Road!HandToLastMile, Road!Hold
<1>3. CASE ~(h = k /\ p = q)
  <2>1. lPresence'[h][p] = lPresence[h][p]
    BY <1>1, <1>2, <1>3 DEF Road!Store
  <2>. QED  BY <2>1 DEF Road!Present, Road!IsHeld
<1>4. CASE h = k /\ p = q
  <2>1. Road!Hold(h, p, c)
    BY <1>4 DEF Road!ScanIn, Road!Sort, Road!HandToLastMile, Road!MayLeave, Road!IsHeld
  <2>2. PICK old : old = lPresence[h][p]
    OBVIOUS
  <2>3. PICK held : held = [old EXCEPT !.status = "HELD",
                                       !.consignment = IF c = None THEN @ ELSE c]
    OBVIOUS
  <2>4. old \in Road!PresenceRow
    BY <2>2, PresenceIs
  <2>5. held.status = "HELD" /\ held \in Road!PresenceRow
    <3>1. old.consignment \in Consignments \cup {None} /\ c \in Consignments \cup {None}
      BY <2>4 DEF Road!PresenceRow
    <3>2. PICK d \in Consignments \cup {None} : d = IF c = None THEN old.consignment ELSE c
      BY <3>1
    <3>3. held = [status |-> "HELD", routing |-> old.routing, consignment |-> d]
      BY <2>3, <2>4, <3>2 DEF Road!PresenceRow
    <3>. QED  BY <2>4, <3>3 DEF Road!PresenceRow
  <2>6. lPresence'[h][p] = held
    BY <1>1, <2>1, <2>2, <2>3 DEF Road!Hold, Road!Store
  <2>. QED  BY <2>5, <2>6, RoadConstants
<1>. QED  BY <1>3, <1>4

LEMMA HeldOnTheRoad ==
    ASSUME RoadInv, NEW c \in Consignments, NEW h \in Hubs, NEW p \in Parcels,
           \/ Road!Dispatch(c)
           \/ Road!Reconcile(c)
           \/ \E q \in Parcels : Road!AddParcel(c, q)
           \/ Road!FinishAddAgain
           \/ UNCHANGED lPresence
    PROVE  HeldStays(h, p)
<1>. SUFFICES ASSUME Road!Present(h, p), Road!IsHeld(h, p)
              PROVE  HeldStays(h, p)
  BY DEF HeldStays
<1>0. /\ lPresence \in [Hubs -> [Parcels -> Road!PresenceRow \cup {None}]]
      /\ lPresence[h][p] \in Road!PresenceRow /\ lPresence[h][p].status = "HELD"
  BY PresenceIs DEF RoadInv, Road!TypeOK, Road!IsHeld
<1>1. CASE Road!Dispatch(c)
  <2>1. /\ lConsignment[c].status \in {"OPEN", "SEALED"} /\ lConsignment'[c].status = "DISPATCHED"
    <3>1. PICK row : row = [lConsignment[c] EXCEPT !.status = "DISPATCHED"]
      OBVIOUS
    <3>2. row.status = "DISPATCHED"
      BY <1>1, <3>1, ConsignmentRows DEF ConsignmentStatus, Road!Dispatch
    <3>3. lConsignment'[c] = row
      BY <1>1, <3>1 DEF Road!Dispatch, RoadInv, Road!TypeOK
    <3>. QED  BY <1>1, <3>2, <3>3, MayBecomeIs DEF Road!Dispatch
  <2>2. CASE lPresence'[h][p] = lPresence[h][p]
    BY <1>0, <2>2, RoadConstants DEF HeldStays
  <2>3. CASE /\ <<h, p>> \in Road!Carries(c)
             /\ lPresence'[h][p] \in Road!PresenceRow
             /\ lPresence'[h][p].status = "DEPARTED"
    <3>1. lPresence[h][p].consignment = c
      BY <2>3, CarriesIs
    <3>. QED  BY <2>1, <2>3, <3>1, RoadConstants DEF HeldStays
  <2>. QED  BY <1>1, <2>2, <2>3, DispatchIs
<1>2. CASE Road!Reconcile(c)
  <2>1. <<h, p>> \notin Road!Arriving(c)
    <3>1. <<h, p>>[1] = h /\ <<h, p>>[2] = p
      OBVIOUS
    <3>. QED  BY <3>1 DEF Road!Arriving
  <2>2. lPresence'[h][p] = lPresence[h][p]
    BY <1>2, <2>1, ReconcileIs
  <2>. QED  BY <1>0, <2>2, RoadConstants DEF HeldStays
<1>3. CASE lPresence' = lPresence
  BY <1>0, <1>3, RoadConstants DEF HeldStays
<1>4. ASSUME NEW k \in Hubs, NEW q \in Parcels, NEW row, Road!Store(k, q, row),
             lPresence[k][q].status = "SORTED"
      PROVE  HeldStays(h, p)
  <2>1. ~(h = k /\ p = q)
    BY <1>0, <1>4
  <2>2. lPresence'[h][p] = lPresence[h][p]
    BY <1>0, <1>4, <2>1 DEF Road!Store
  <2>. QED  BY <1>0, <2>2, RoadConstants DEF HeldStays
<1>5. ASSUME NEW q \in Parcels, Road!AddParcel(c, q) PROVE HeldStays(h, p)
  <2>1. /\ lConsignment[c].from \in Hubs
        /\ lPresence[lConsignment[c].from][q].status = "SORTED"
    BY <1>5, GroupedElsewhere DEF Road!AddParcel
  <2>. QED  BY <1>4, <1>5, <2>1 DEF Road!AddParcel
<1>6. CASE Road!FinishAddAgain
  <2>1. PICK d, q, old : d = lAdding.consignment /\ q = lAdding.parcel /\ old = lAdding.read
    OBVIOUS
  <2>2. /\ d \in Consignments /\ q \in Parcels /\ Road!Opened(d) /\ old.status = "SORTED"
    BY <1>6, <2>1 DEF RoadInv, AdditionIsKnown, Road!FinishAddAgain, Road!TypeOK
  <2>3. PICK k \in Hubs : k = lConsignment[d].from
    BY <2>2, ConsignmentIs
  <2>4. \/ lPresence[k][q] = old /\ Road!Store(k, q, Road!Grouped(old, d))
        \/ lPresence' = lPresence
    BY <1>6, <2>1, <2>3 DEF Road!FinishAddAgain
  <2>. QED  BY <1>3, <1>4, <2>2, <2>4
<1>. QED  BY <1>1, <1>2, <1>3, <1>5, <1>6

LEMMA StoppedStays ==
    ASSUME RoadInv, Road!Next, NEW c \in lFailed
    PROVE  lConsignment'[c] = lConsignment[c]
<1>1. /\ c \in Consignments /\ Road!Opened(c)
      /\ lConsignment[c].status = "UNDER_TAMPER_INVESTIGATION"
      /\ lConsignment \in [Consignments -> Road!ConsignmentRow \cup {None}]
  BY DEF RoadInv, Road!TypeOK, ConsignmentsAreSound
<1>2. CASE \E d \in Consignments : \E row : d # c /\ lConsignment' = [lConsignment EXCEPT ![d] = row]
  BY <1>1, <1>2
<1>3. CASE Road!CheckSeal(c)
  <2>1. PICK row : row = lConsignment[c]
    OBVIOUS
  <2>2. row \in Road!ConsignmentRow /\ row.status = "UNDER_TAMPER_INVESTIGATION"
    BY <1>1, <2>1, ConsignmentIs
  <2>3. [row EXCEPT !.status = "UNDER_TAMPER_INVESTIGATION"] = row
    BY <2>2 DEF Road!ConsignmentRow
  <2>4. lConsignment'[c] = [row EXCEPT !.status = "UNDER_TAMPER_INVESTIGATION"]
    BY <1>1, <1>3, <2>1 DEF Road!CheckSeal
  <2>. QED  BY <2>1, <2>3, <2>4
<1>4. CASE lConsignment' = lConsignment
  BY <1>4
<1>5. ASSUME NEW d \in Consignments,
             \/ \E route \in Routes : Road!OpenConsignment(d, route[1], route[2])
             \/ \E p \in Parcels : Road!AddParcel(d, p)
             \/ Road!ApplySeal(d) \/ Road!Dispatch(d) \/ Road!RecordArrival(d)
             \/ Road!Reconcile(d) \/ Road!CheckSeal(d)
      PROVE  lConsignment'[c] = lConsignment[c]
  <2>1. CASE d = c
    <3>1. Road!CheckSeal(c)
      BY <1>1, <1>5, <2>1, MayBecomeIs
         DEF Road!OpenConsignment, Road!AddParcel, Road!MayGroup, Road!ApplySeal, Road!Dispatch,
             Road!RecordArrival, Road!Reconcile
    <3>. QED  BY <1>3, <3>1
  <2>2. CASE d # c
    <3>1. \E row : lConsignment' = [lConsignment EXCEPT ![d] = row]
      BY <1>5 DEF Road!OpenConsignment, Road!AddParcel, Road!ApplySeal, Road!Dispatch,
                  Road!RecordArrival, Road!Reconcile, Road!CheckSeal
    <3>. QED  BY <1>2, <2>2, <3>1
  <2>. QED  BY <2>1, <2>2
<1>. QED  BY <1>4, <1>5 DEF Road!Next, Road!ScanIn, Road!Sort, Road!Hold, Road!HandToLastMile,
             Road!BeginAddAgain, Road!PlanLinehaul, Road!Depart, Road!FinishAddAgain, Road!road

LEMMA DispatchFrees ==
    ASSUME RoadInv, Road!Next, NEW h \in Hubs, NEW p \in Parcels
    PROVE  HeldStays(h, p)
<1>1. CASE UNCHANGED lPresence
  BY <1>1 DEF HeldStays, Road!Present, Road!IsHeld
<1>2. ASSUME NEW k \in Hubs, NEW q \in Parcels,
             \/ Road!ScanIn(k, q) \/ Road!Sort(k, q) \/ Road!HandToLastMile(k, q)
             \/ \E c \in {d \in Consignments : Road!Opened(d)} \cup {None} : Road!Hold(k, q, c)
      PROVE  HeldStays(h, p)
  <2>1. PICK c \in {d \in Consignments : Road!Opened(d)} \cup {None} :
           Road!ScanIn(k, q) \/ Road!Sort(k, q) \/ Road!HandToLastMile(k, q) \/ Road!Hold(k, q, c)
    BY <1>2
  <2>. QED  BY <2>1, HeldInHub
<1>3. CASE Road!FinishAddAgain
  <2>1. lAdding.consignment \in Consignments
    BY <1>3 DEF RoadInv, Road!TypeOK, Road!FinishAddAgain
  <2>. QED  BY <1>3, <2>1, HeldOnTheRoad
<1>4. ASSUME NEW c \in Consignments,
             Road!Dispatch(c) \/ Road!Reconcile(c) \/ \E q \in Parcels : Road!AddParcel(c, q)
      PROVE  HeldStays(h, p)
  BY <1>4, HeldOnTheRoad
<1>. QED  BY <1>1, <1>2, <1>3, <1>4
          DEF Road!Next, Road!OpenConsignment, Road!BeginAddAgain, Road!ApplySeal,
              Road!RecordArrival, Road!CheckSeal, Road!PlanLinehaul, Road!Depart, Road!yard

-----------------------------------------------------------------------------
(* The door.  What a stop's row says is told by the rows beside it and by   *)
(* the outbox, at every step of the visit.                                  *)

FactKinds == {"departed", "delivered", "cod_collected", "attempt_failed"}

Told(s) == {kind \in FactKinds : \E f \in vFacts : f.stop = s /\ f.kind = kind}

\* The row of a stop, with its verifications, photos, payment, what became of
\* a failed attempt, and what is announced.
VisitTells(row, outcomes, stages, paid, decided, kinds) ==
    /\ row.verified => "VERIFIED" \in outcomes
    /\ row.inspection \in {"OPEN_BOX_KEPT", "OPEN_BOX_REFUSED"} /\ row.terms.photos =>
          "BEFORE_OPENING" \in stages
    /\ paid \in {"CASH", "POS_CARD"} => row.terms.cod
    /\ paid = "PREPAID" => ~row.terms.cod
    /\ "delivered" \in kinds <=> row.status = "DELIVERED"
    /\ "attempt_failed" \in kinds <=> row.status \in {"REFUSED", "FAILED"}
    /\ "attempt_failed" \in kinds <=> decided # None
    /\ "cod_collected" \in kinds <=> row.status = "DELIVERED" /\ row.terms.cod
    /\ row.status \in {"EN_ROUTE", "ARRIVED", "WAITING", "AUTHORIZED", "DELIVERED"} =>
          "departed" \in kinds
    /\ row.status = "DELIVERED" =>
          /\ row.verified /\ row.inspection # None
          /\ row.terms.seal => row.seal # None
          /\ row.terms.cod => paid \in {"CASH", "POS_CARD"}
          /\ row.inspection = "OPEN_BOX_KEPT" /\ row.terms.photos => "AFTER_INSPECTION" \in stages

VisitOf(s) ==
    IF Door!Made(s)
    THEN VisitTells(vStop[s], vChecked[s], vPhotos[s], vPayment[s], vFailed[s], Told(s))
    ELSE /\ vChecked[s] = {} /\ vPhotos[s] = {} /\ vPayment[s] = None /\ vFailed[s] = None
         /\ Told(s) = {}

VersionsOrder ==
    /\ \A f \in vFacts : Door!Made(f.stop) /\ f.version <= vStop[f.stop].version
    /\ \A f, g \in vFacts : f.stop = g.stop /\ f.version = g.version => f = g

OnOneRound ==
    \A s, r \in Stops :
       Door!Made(s) /\ vStop[s].status \notin Door!Closed
       /\ Door!Made(r) /\ vStop[r].status \notin Door!Closed
       /\ vStop[s].parcel = vStop[r].parcel => s = r

DoorInv ==
    /\ Door!TypeOK /\ VersionsOrder /\ OnOneRound
    /\ \A s \in Stops : VisitOf(s)

LEMMA DoorInit == Door!Init => DoorInv
<1>. SUFFICES ASSUME Door!Init PROVE DoorInv
  OBVIOUS
<1>1. Door!TypeOK
  BY DEF Door!Init, Door!TypeOK
<1>2. VersionsOrder
  BY DEF Door!Init, VersionsOrder
<1>3. ASSUME NEW s \in Stops PROVE ~Door!Made(s) /\ VisitOf(s)
  <2>1. ~Door!Made(s) /\ Told(s) = {}
    BY DEF Door!Init, Door!Made, Told
  <2>. QED  BY <2>1 DEF Door!Init, VisitOf
<1>4. OnOneRound
  BY <1>3 DEF OnOneRound
<1>. QED  BY <1>1, <1>2, <1>3, <1>4 DEF DoorInv

LEMMA StopIs ==
    ASSUME DoorInv, NEW s \in Stops, Door!Made(s)
    PROVE  vStop[s] \in Door!StopRow
  BY DEF DoorInv, Door!TypeOK, Door!Made

\* What was made is settled in one order: a handover had been verified, seen
\* and paid for.
LEMMA DoorHandsOver == DoorInv => Door!HandedOverInOrder
<1>. SUFFICES ASSUME DoorInv, NEW s \in Stops, Door!Made(s), vStop[s].status = "DELIVERED"
              PROVE  /\ "VERIFIED" \in vChecked[s]
                     /\ vStop[s].inspection # None /\ Door!SealIsChecked(s)
                     /\ vStop[s].terms.cod <=> vPayment[s] \in {"CASH", "POS_CARD"}
                     /\ vStop[s].terms.photos =>
                           CASE vStop[s].inspection = "OPEN_BOX_KEPT" -> vPhotos[s] = Door!Stages
                             [] vStop[s].inspection = "OPEN_BOX_REFUSED" ->
                                   "BEFORE_OPENING" \in vPhotos[s]
                             [] OTHER -> TRUE
  BY DEF Door!HandedOverInOrder
<1>1. VisitTells(vStop[s], vChecked[s], vPhotos[s], vPayment[s], vFailed[s], Told(s))
  BY DEF DoorInv, VisitOf
<1>2. vPhotos[s] \subseteq Door!Stages
  BY DEF DoorInv, Door!TypeOK
<1>3. /\ "VERIFIED" \in vChecked[s]
      /\ vStop[s].inspection # None /\ Door!SealIsChecked(s)
  BY <1>1 DEF VisitTells, Door!SealIsChecked
<1>4. vStop[s].terms.cod <=> vPayment[s] \in {"CASH", "POS_CARD"}
  BY <1>1 DEF VisitTells
<1>5. ASSUME vStop[s].terms.photos
      PROVE  CASE vStop[s].inspection = "OPEN_BOX_KEPT" -> vPhotos[s] = Door!Stages
               [] vStop[s].inspection = "OPEN_BOX_REFUSED" -> "BEFORE_OPENING" \in vPhotos[s]
               [] OTHER -> TRUE
  <2>1. CASE vStop[s].inspection = "OPEN_BOX_KEPT"
    <3>1. vPhotos[s] = Door!Stages
      BY <1>1, <1>2, <1>5, <2>1 DEF VisitTells, Door!Stages
    <3>. QED  BY <2>1, <3>1
  <2>2. CASE vStop[s].inspection = "OPEN_BOX_REFUSED"
    BY <1>1, <1>5, <2>2 DEF VisitTells
  <2>3. CASE vStop[s].inspection \notin {"OPEN_BOX_KEPT", "OPEN_BOX_REFUSED"}
    BY <2>3
  <2>. QED  BY <2>1, <2>2, <2>3
<1>. QED  BY <1>3, <1>4, <1>5

LEMMA CountOfDoor == \A S : Door!Cardinality(S) = Cardinality(S)
  BY Zenon DEF Door!Cardinality, Cardinality, Door!IsFiniteSet, IsFiniteSet

LEMMA DoorTells == DoorInv => Door!FactsTellTheVisit
<1>. SUFFICES ASSUME DoorInv PROVE Door!FactsTellTheVisit
  OBVIOUS
<1>. DEFINE told(s, kind) == \E f \in vFacts : f.stop = s /\ f.kind = kind
            is(s, S) == Door!Made(s) /\ vStop[s].status \in S
<1>1. ASSUME NEW s \in Stops
      PROVE  /\ told(s, "delivered") <=> is(s, {"DELIVERED"})
             /\ told(s, "attempt_failed") <=> is(s, {"REFUSED", "FAILED"})
             /\ told(s, "attempt_failed") <=> vFailed[s] # None
             /\ told(s, "cod_collected") <=> is(s, {"DELIVERED"}) /\ vStop[s].terms.cod
             /\ is(s, {"ARRIVED", "WAITING", "AUTHORIZED", "DELIVERED"}) => told(s, "departed")
  <2>1. \A kind \in FactKinds : told(s, kind) <=> kind \in Told(s)
    BY DEF Told
  <2>2. VisitOf(s)
    BY DEF DoorInv
  <2>. HIDE DEF told
  <2>3. CASE Door!Made(s)
    BY <2>1, <2>2, <2>3 DEF VisitOf, VisitTells, FactKinds
  <2>4. CASE ~Door!Made(s)
    BY <2>1, <2>2, <2>4 DEF VisitOf, FactKinds
  <2>. QED  BY <2>3, <2>4
<1>2. \A f, g \in vFacts : f.stop = g.stop /\ f.version = g.version => f = g
  BY DEF DoorInv, VersionsOrder
<1>3. ASSUME NEW p \in Parcels PROVE Door!Cardinality(Door!LiveStop(p)) <= 1
  <2>1. \A s, r \in Door!LiveStop(p) : s = r
    BY DEF DoorInv, OnOneRound, Door!LiveStop, Door!StopsOf
  <2>2. Cardinality(Door!LiveStop(p)) <= 1
    BY <2>1, AtMostOne
  <2>. QED  BY <2>2, CountOfDoor
<1>. QED  BY <1>1, <1>2, <1>3 DEF Door!FactsTellTheVisit

\* A step of one visit: the row, perhaps further on, the rows beside it, and
\* what is announced of it.
VisitMoves(s, new) ==
    /\ vStop' = [vStop EXCEPT ![s] = new]
    /\ new.parcel = vStop[s].parcel
    /\ vStop[s].status \in Door!Closed => new.status \in Door!Closed
    /\ vStop[s].version <= new.version
    /\ vOpened' = vOpened /\ UNCHANGED <<vWished, vRated, vReported>>

RowsBeside(s) ==
    /\ vChecked' \in [Stops -> SUBSET {"VERIFIED", "CODE_MISMATCH", "ID_MISMATCH"}]
    /\ vPhotos' \in [Stops -> SUBSET Door!Stages]
    /\ vPayment' \in [Stops -> Door!PaymentMethods \cup {None}]
    /\ vFailed' \in [Stops -> Door!Decisions \cup {"UNDECIDED", None}]
    /\ \A r \in Stops \ {s} :
          /\ vChecked'[r] = vChecked[r] /\ vPhotos'[r] = vPhotos[r]
          /\ vPayment'[r] = vPayment[r] /\ vFailed'[r] = vFailed[r]

Announcements ==
    [stop: Stops, version: Nat, kind: {"departed", "delivered", "cod_collected", "attempt_failed"}]

\* What is announced is of this stop, of a version it had not reached before.
Announced(s, new, said) ==
    /\ vFacts' = vFacts \cup said
    /\ said \subseteq Announcements
    /\ \A f \in said : f.stop = s /\ vStop[s].version < f.version /\ f.version <= new.version
    /\ \A f, g \in said : f.version = g.version => f = g

\* One fact of a stop.
LEMMA AnnounceIs ==
    ASSUME NEW s \in Stops, NEW kind \in FactKinds, NEW version \in Nat
    PROVE  /\ Door!Announce(s, kind, version) \in Announcements
           /\ Door!Announce(s, kind, version).stop = s
           /\ Door!Announce(s, kind, version).kind = kind
           /\ Door!Announce(s, kind, version).version = version
  BY DEF Door!Announce, Announcements, FactKinds

LEMMA FactsMove ==
    ASSUME DoorInv, NEW s \in Stops, Door!Made(s), NEW new \in Door!StopRow,
           VisitMoves(s, new), NEW said, Announced(s, new, said)
    PROVE  /\ vFacts' \subseteq Announcements
           /\ VersionsOrder'
           /\ \A r \in Stops \ {s} : Told(r)' = Told(r)
           /\ Told(s)' = Told(s) \cup {kind \in FactKinds : \E f \in said : f.kind = kind}
<1>0. /\ vStop \in [Stops -> Door!StopRow \cup {None}] /\ vFacts \subseteq Announcements
      /\ vStop' = [vStop EXCEPT ![s] = new] /\ new # None
      /\ vFacts' = vFacts \cup said /\ said \subseteq Announcements
  BY DoorConstants DEF DoorInv, Door!TypeOK, Announcements, VisitMoves, Announced
<1>1. vStop[s] \in Door!StopRow /\ vStop[s].version \in Nat /\ new.version \in Nat
      /\ vStop[s].version <= new.version
  BY StopIs DEF Door!StopRow, VisitMoves
<1>2. \A f \in said : f.stop = s /\ vStop[s].version < f.version /\ f.version <= new.version
  BY DEF Announced
<1>3. \A f \in vFacts : f.stop = s => f.version <= vStop[s].version
  BY DEF DoorInv, VersionsOrder
<1>4. \A f \in vFacts \cup said : f.stop \in Stops /\ f.version \in Nat
  BY <1>0 DEF Announcements
<1>5. ASSUME NEW f \in vFacts'
      PROVE  vStop'[f.stop] # None /\ f.version <= vStop'[f.stop].version
  <2>1. CASE f \in said
    BY <1>0, <1>2, <2>1
  <2>2. CASE f \in vFacts
    <3>1. vStop[f.stop] # None /\ f.version <= vStop[f.stop].version /\ f.stop \in Stops
      BY <1>4, <2>2 DEF DoorInv, VersionsOrder, Door!Made
    <3>2. CASE f.stop = s
      BY <1>0, <1>1, <1>4, <2>2, <3>1, <3>2
    <3>3. CASE f.stop # s
      BY <1>0, <3>1, <3>3
    <3>. QED  BY <3>2, <3>3
  <2>. QED  BY <1>0, <2>1, <2>2
<1>6. ASSUME NEW f \in vFacts', NEW g \in vFacts', f.stop = g.stop, f.version = g.version
      PROVE  f = g
  <2>1. CASE f \in vFacts /\ g \in vFacts
    BY <1>6, <2>1 DEF DoorInv, VersionsOrder
  <2>2. CASE f \in said /\ g \in said
    BY <1>6, <2>2 DEF Announced
  <2>3. ASSUME NEW x \in vFacts, NEW y \in said, x.stop = y.stop, x.version = y.version
        PROVE  FALSE
    <3>1. x.version <= vStop[s].version /\ vStop[s].version < y.version
      BY <1>2, <1>3, <2>3
    <3>. QED  BY <1>1, <1>4, <2>3, <3>1
  <2>. QED  BY <1>0, <1>6, <2>1, <2>2, <2>3
<1>7. VersionsOrder'
  BY <1>5, <1>6 DEF VersionsOrder, Door!Made
<1>8. \A r \in Stops \ {s} : Told(r)' = Told(r)
  BY <1>0, <1>2 DEF Told
<1>9. Told(s)' = Told(s) \cup {kind \in FactKinds : \E f \in said : f.kind = kind}
  BY <1>0, <1>2 DEF Told
<1>. QED  BY <1>0, <1>7, <1>8, <1>9

LEMMA VisitKeeps ==
    ASSUME DoorInv, NEW s \in Stops, Door!Made(s), NEW new \in Door!StopRow,
           VisitMoves(s, new), RowsBeside(s), NEW said, Announced(s, new, said),
           VisitTells(new, vChecked'[s], vPhotos'[s], vPayment'[s], vFailed'[s],
                      Told(s) \cup {kind \in FactKinds : \E f \in said : f.kind = kind})
    PROVE  DoorInv'
<1>1. /\ vFacts' \subseteq Announcements /\ VersionsOrder'
      /\ \A r \in Stops \ {s} : Told(r)' = Told(r)
      /\ Told(s)' = Told(s) \cup {kind \in FactKinds : \E f \in said : f.kind = kind}
  BY FactsMove
<1>2. /\ vStop' \in [Stops -> Door!StopRow \cup {None}] /\ new # None
      /\ \A r \in Stops : vStop'[r] = IF r = s THEN new ELSE vStop[r]
  BY DoorConstants DEF DoorInv, Door!TypeOK, VisitMoves
<1>3. Door!TypeOK'
  BY <1>1, <1>2 DEF DoorInv, Door!TypeOK, VisitMoves, RowsBeside, Announcements
<1>4. OnOneRound'
  <2>1. \A r \in Stops :
           Door!Made(r)' /\ vStop'[r].status \notin Door!Closed =>
              /\ Door!Made(r) /\ vStop[r].status \notin Door!Closed
              /\ vStop'[r].parcel = vStop[r].parcel
    BY <1>2 DEF VisitMoves, Door!Made
  <2>2. ASSUME NEW q \in Stops, NEW r \in Stops,
               Door!Made(q)', vStop'[q].status \notin Door!Closed,
               Door!Made(r)', vStop'[r].status \notin Door!Closed,
               vStop'[q].parcel = vStop'[r].parcel
        PROVE  q = r
    <3>1. /\ Door!Made(q) /\ vStop[q].status \notin Door!Closed
          /\ Door!Made(r) /\ vStop[r].status \notin Door!Closed
          /\ vStop[q].parcel = vStop[r].parcel
      BY <2>1, <2>2
    <3>. QED  BY <3>1 DEF DoorInv, OnOneRound
  <2>. QED  BY <2>2 DEF OnOneRound, Door!Closed
<1>5. ASSUME NEW r \in Stops PROVE VisitOf(r)'
  <2>1. CASE r = s
    BY <1>1, <1>2, <2>1 DEF VisitOf, Door!Made
  <2>2. CASE r # s
    <3>1. /\ vStop'[r] = vStop[r] /\ Told(r)' = Told(r)
          /\ vChecked'[r] = vChecked[r] /\ vPhotos'[r] = vPhotos[r]
          /\ vPayment'[r] = vPayment[r] /\ vFailed'[r] = vFailed[r]
      BY <1>1, <1>2, <2>2 DEF RowsBeside
    <3>2. VisitOf(r)
      BY DEF DoorInv
    <3>. QED  BY <3>1, <3>2 DEF VisitOf, Door!Made
  <2>. QED  BY <2>1, <2>2
<1>. QED  BY <1>1, <1>3, <1>4, <1>5 DEF DoorInv

\* Nothing but rows beside the stop is written.
LEMMA BesideKeeps ==
    ASSUME DoorInv, NEW s \in Stops, Door!Made(s), RowsBeside(s),
           UNCHANGED <<vOpened, vStop, vFacts, vWished, vRated, vReported>>,
           VisitTells(vStop[s], vChecked'[s], vPhotos'[s], vPayment'[s], vFailed'[s], Told(s))
    PROVE  DoorInv'
<1>1. PICK row : row = vStop[s]
  OBVIOUS
<1>2. row \in Door!StopRow /\ row.version \in Nat
  BY <1>1, StopIs DEF Door!StopRow
<1>3. vStop \in [Stops -> Door!StopRow \cup {None}]
  BY DEF DoorInv, Door!TypeOK
<1>4. VisitMoves(s, row)
  BY <1>1, <1>2, <1>3 DEF VisitMoves
<1>5. PICK said : said = {}
  OBVIOUS
<1>6. Announced(s, row, said)
  BY <1>5 DEF Announced
<1>7. Told(s) \cup {kind \in FactKinds : \E f \in said : f.kind = kind} = Told(s)
  BY <1>5
<1>8. VisitTells(row, vChecked'[s], vPhotos'[s], vPayment'[s], vFailed'[s],
                 Told(s) \cup {kind \in FactKinds : \E f \in said : f.kind = kind})
  BY <1>1, <1>7
<1>. QED  BY <1>2, <1>4, <1>6, <1>8, VisitKeeps

LEMMA NothingBeside ==
    ASSUME DoorInv, NEW s \in Stops, UNCHANGED <<vChecked, vPhotos, vPayment, vFailed>>
    PROVE  RowsBeside(s)
  BY DEF DoorInv, Door!TypeOK, RowsBeside

\* A row of the same stop; its version is that of the row read.
AsRow(old, status, waited, verified, seal, inspection, guesses) ==
    [parcel |-> old.parcel, terms |-> old.terms, status |-> status, waited |-> waited,
     verified |-> verified, seal |-> seal, inspection |-> inspection, guesses |-> guesses,
     version |-> old.version]

StopStatuses ==
    {"IN_CUSTODY", "EN_ROUTE", "ARRIVED", "WAITING", "AUTHORIZED", "DELIVERED", "REFUSED", "FAILED"}

LEMMA StopFields ==
    ASSUME NEW row \in Door!StopRow
    PROVE  /\ row = AsRow(row, row.status, row.waited, row.verified, row.seal, row.inspection,
                          row.guesses)
           /\ row.status \in StopStatuses /\ row.waited \in BOOLEAN /\ row.verified \in BOOLEAN
           /\ row.seal \in {"INTACT", "BROKEN", None}
           /\ row.inspection \in Door!Inspections \cup {None}
           /\ row.guesses \in 0 .. MaxGuesses /\ row.version \in Nat /\ row.parcel \in Parcels
           /\ row.terms \in Door!ParcelTerms
  BY DEF Door!StopRow, AsRow, StopStatuses, Door!Closed

AsExpected(row, old, status, verified, seal, inspection) ==
    /\ row \in Door!StopRow
    /\ row.parcel = old.parcel /\ row.terms = old.terms /\ row.status = status
    /\ row.verified = verified /\ row.seal = seal /\ row.inspection = inspection
    /\ row.version = old.version

LEMMA AsRowIs ==
    ASSUME NEW old \in Door!StopRow, NEW status \in StopStatuses, NEW waited \in BOOLEAN,
           NEW verified \in BOOLEAN, NEW seal \in {"INTACT", "BROKEN", None},
           NEW inspection \in Door!Inspections \cup {None}, NEW guesses \in 0 .. MaxGuesses
    PROVE  AsExpected(AsRow(old, status, waited, verified, seal, inspection, guesses),
                      old, status, verified, seal, inspection)
<1>0. PICK row : row = AsRow(old, status, waited, verified, seal, inspection, guesses)
  OBVIOUS
<1>1. old.parcel \in Parcels /\ old.terms \in Door!ParcelTerms /\ old.version \in Nat
  BY DEF Door!StopRow
<1>2. row \in Door!StopRow
  BY <1>0, <1>1 DEF AsRow, Door!StopRow, StopStatuses, Door!Closed
<1>. QED  BY <1>0, <1>2 DEF AsRow, AsExpected

\* The row that is saved, with its next version.
SameVisit(new, row) ==
    /\ new.parcel = row.parcel /\ new.terms = row.terms /\ new.status = row.status
    /\ new.verified = row.verified /\ new.seal = row.seal /\ new.inspection = row.inspection

LEMMA SavedIs ==
    ASSUME DoorInv, NEW s \in Stops, Door!Made(s), NEW row \in Door!StopRow,
           row.version = vStop[s].version, NEW saves \in {1, 2}, Door!Save(s, row, saves)
    PROVE  \E new \in Door!StopRow :
              /\ vStop' = [vStop EXCEPT ![s] = new]
              /\ new.version = vStop[s].version + saves
              /\ SameVisit(new, row)
<1>1. PICK new : new = [row EXCEPT !.version = @ + saves]
  OBVIOUS
<1>2. row.version \in Nat
  BY StopFields
<1>3. new = [parcel |-> row.parcel, terms |-> row.terms, status |-> row.status,
             waited |-> row.waited, verified |-> row.verified, seal |-> row.seal,
             inspection |-> row.inspection, guesses |-> row.guesses,
             version |-> row.version + saves]
  BY <1>1 DEF Door!StopRow
<1>4. new \in Door!StopRow
  BY <1>2, <1>3 DEF Door!StopRow
<1>5. SameVisit(new, row) /\ new.version = row.version + saves
  BY <1>3 DEF SameVisit
<1>. QED  BY <1>1, <1>4, <1>5 DEF Door!Save

LEMMA SameTells ==
    ASSUME NEW new, NEW row, SameVisit(new, row), NEW outcomes, NEW stages, NEW paid,
           NEW decided, NEW kinds, VisitTells(row, outcomes, stages, paid, decided, kinds)
    PROVE  VisitTells(new, outcomes, stages, paid, decided, kinds)
  BY DEF SameVisit, VisitTells

\* What is said at a stop is of the versions it is saved with.
SaidOf(s, said, saves) ==
    /\ said \subseteq Announcements
    /\ \A f \in said : /\ f.stop = s /\ vStop[s].version < f.version
                       /\ f.version <= vStop[s].version + saves
    /\ \A f, g \in said : f.version = g.version => f = g

KindsOf(said) == {kind \in FactKinds : \E f \in said : f.kind = kind}

LEMMA SaveKeeps ==
    ASSUME DoorInv, NEW s \in Stops, Door!Made(s), NEW row \in Door!StopRow,
           row.parcel = vStop[s].parcel, row.version = vStop[s].version,
           vStop[s].status \in Door!Closed => row.status \in Door!Closed,
           NEW saves \in {1, 2}, Door!Save(s, row, saves),
           UNCHANGED <<vOpened, vWished, vRated, vReported>>, RowsBeside(s),
           NEW said, vFacts' = vFacts \cup said, SaidOf(s, said, saves),
           VisitTells(row, vChecked'[s], vPhotos'[s], vPayment'[s], vFailed'[s],
                      Told(s) \cup KindsOf(said))
    PROVE  DoorInv'
<1>1. PICK new \in Door!StopRow :
         /\ vStop' = [vStop EXCEPT ![s] = new]
         /\ new.version = vStop[s].version + saves
         /\ SameVisit(new, row)
  BY SavedIs
<1>2. VisitMoves(s, new)
  <2>1. vStop[s].version \in Nat
    BY StopIs, StopFields
  <2>. QED  BY <1>1, <2>1 DEF VisitMoves, SameVisit
<1>3. Announced(s, new, said)
  BY <1>1 DEF Announced, SaidOf
<1>4. VisitTells(new, vChecked'[s], vPhotos'[s], vPayment'[s], vFailed'[s],
                 Told(s) \cup KindsOf(said))
  BY <1>1, SameTells
<1>. QED  BY <1>2, <1>3, <1>4, VisitKeeps DEF KindsOf

\* A row is saved once and nothing is announced.
LEMMA QuietKeeps ==
    ASSUME DoorInv, NEW s \in Stops, Door!Made(s), NEW row \in Door!StopRow,
           row.parcel = vStop[s].parcel, row.version = vStop[s].version,
           vStop[s].status \in Door!Closed => row.status \in Door!Closed,
           Door!Save(s, row, 1), RowsBeside(s),
           UNCHANGED <<vOpened, vWished, vRated, vReported, vFacts>>,
           VisitTells(row, vChecked'[s], vPhotos'[s], vPayment'[s], vFailed'[s], Told(s))
    PROVE  DoorInv'
<1>1. PICK said : said = {}
  OBVIOUS
<1>2. /\ vFacts' = vFacts \cup said /\ SaidOf(s, said, 1)
      /\ Told(s) \cup KindsOf(said) = Told(s)
  BY <1>1 DEF SaidOf, KindsOf
<1>3. VisitTells(row, vChecked'[s], vPhotos'[s], vPayment'[s], vFailed'[s],
                 Told(s) \cup KindsOf(said))
  BY <1>2
<1>4. 1 \in {1, 2}
  OBVIOUS
<1>. QED  BY <1>2, <1>3, <1>4, SaveKeeps

\* What a stop was told before a step.
LEMMA VisitIs ==
    ASSUME DoorInv, NEW s \in Stops, Door!Made(s)
    PROVE  VisitTells(vStop[s], vChecked[s], vPhotos[s], vPayment[s], vFailed[s], Told(s))
  BY DEF DoorInv, VisitOf

LEMMA DoorMayBecomeIs ==
    ASSUME NEW from, NEW to, Door!MayBecome(from, to)
    PROVE  /\ from \notin Door!Closed
           /\ to = "EN_ROUTE"  => from = "IN_CUSTODY"
           /\ to = "ARRIVED"   => from = "EN_ROUTE"
           /\ to = "WAITING"   => from = "ARRIVED"
           /\ to = "DELIVERED" => from = "AUTHORIZED"
  BY DEF Door!MayBecome, Door!Closed

\* No stop is touched.
LEMMA ElsewhereKeeps ==
    ASSUME DoorInv, UNCHANGED <<vStop, vChecked, vPhotos, vPayment, vFailed, vFacts>>,
           vOpened' \in BOOLEAN, vWished' \subseteq Parcels, vRated' \subseteq Parcels,
           vReported' \subseteq Parcels
    PROVE  DoorInv'
<1>1. Door!TypeOK'
  BY DEF DoorInv, Door!TypeOK
<1>2. VersionsOrder' /\ OnOneRound'
  BY DEF DoorInv, VersionsOrder, OnOneRound, Door!Made, Door!Closed
<1>3. ASSUME NEW s \in Stops PROVE VisitOf(s)'
  <2>1. VisitOf(s) /\ Told(s)' = Told(s)
    BY DEF DoorInv, Told
  <2>. QED  BY <2>1 DEF VisitOf, Door!Made
<1>. QED  BY <1>1, <1>2, <1>3 DEF DoorInv

LEMMA DoorOpensScans ==
    ASSUME DoorInv,
           \/ Door!OpenManifest
           \/ \E p \in Parcels, s \in Stops, terms \in Terms : Door!ScanOntoManifest(s, p, terms)
    PROVE  DoorInv'
<1>1. CASE Door!OpenManifest
  <2>1. vOpened' \in BOOLEAN /\ UNCHANGED <<vStop, vChecked, vPhotos, vPayment, vFailed, vFacts,
                                            vWished, vRated, vReported>>
    BY <1>1 DEF Door!OpenManifest, Door!receiver
  <2>2. vWished \subseteq Parcels /\ vRated \subseteq Parcels /\ vReported \subseteq Parcels
    BY DEF DoorInv, Door!TypeOK
  <2>. QED  BY <2>1, <2>2, ElsewhereKeeps
<1>2. ASSUME NEW p \in Parcels, NEW s \in Stops, NEW terms \in Terms,
             Door!ScanOntoManifest(s, p, terms)
      PROVE  DoorInv'
  <2>1. PICK row : row = [parcel |-> p, terms |-> terms, status |-> "IN_CUSTODY",
           waited |-> FALSE, verified |-> FALSE, seal |-> None, inspection |-> None,
           guesses |-> 0, version |-> 1]
    OBVIOUS
  <2>2. /\ vStop' = [vStop EXCEPT ![s] = row] /\ ~Door!Made(s) /\ Door!LiveStop(p) = {}
        /\ UNCHANGED <<vOpened, vChecked, vPhotos, vPayment, vFailed, vFacts,
                       vWished, vRated, vReported>>
    BY <1>2, <2>1 DEF Door!ScanOntoManifest, Door!receiver, Door!NotYetCarried
  <2>3. row \in Door!StopRow
    <3>1. terms \in Door!ParcelTerms /\ 0 \in 0 .. MaxGuesses
      BY DoorConstants
    <3>. QED  BY <2>1, <3>1 DEF Door!StopRow
  <2>4. /\ vStop \in [Stops -> Door!StopRow \cup {None}]
        /\ \A r \in Stops : vStop'[r] = IF r = s THEN row ELSE vStop[r]
        /\ row # None
    BY <2>2, <2>3, DoorConstants DEF DoorInv, Door!TypeOK
  <2>5. Door!TypeOK'
    BY <2>2, <2>3 DEF DoorInv, Door!TypeOK
  <2>6. VersionsOrder'
    <3>1. ASSUME NEW f \in vFacts
          PROVE  vStop'[f.stop] # None /\ f.version <= vStop'[f.stop].version
      <4>1. f.stop \in Stops /\ f.stop # s
        BY <2>2 DEF DoorInv, VersionsOrder, Door!TypeOK
      <4>. QED  BY <2>4, <4>1 DEF DoorInv, VersionsOrder, Door!Made
    <3>. QED  BY <2>2, <3>1 DEF DoorInv, VersionsOrder, Door!Made
  <2>7. OnOneRound'
    <3>1. ASSUME NEW q \in Stops, NEW r \in Stops,
                 Door!Made(q)', vStop'[q].status \notin Door!Closed,
                 Door!Made(r)', vStop'[r].status \notin Door!Closed,
                 vStop'[q].parcel = vStop'[r].parcel
          PROVE  q = r
      <4>1. row.parcel = p
        BY <2>1
      <4>2. \A x \in Stops : x # s /\ Door!Made(x)' /\ vStop'[x].status \notin Door!Closed =>
               /\ Door!Made(x) /\ vStop[x].status \notin Door!Closed
               /\ vStop'[x].parcel = vStop[x].parcel /\ vStop[x].parcel # p
        BY <2>2, <2>4 DEF Door!Made, Door!LiveStop, Door!StopsOf
      <4>3. CASE q # s /\ r # s
        BY <3>1, <4>2, <4>3 DEF DoorInv, OnOneRound
      <4>4. CASE q = s \/ r = s
        BY <2>4, <3>1, <4>1, <4>2, <4>4
      <4>. QED  BY <4>3, <4>4
    <3>. QED  BY <3>1 DEF OnOneRound, Door!Closed
  <2>8. ASSUME NEW r \in Stops PROVE VisitOf(r)'
    <3>1. VisitOf(r) /\ Told(r)' = Told(r)
      BY <2>2 DEF DoorInv, Told
    <3>2. CASE r # s
      BY <2>2, <2>4, <3>1, <3>2 DEF VisitOf, Door!Made
    <3>3. CASE r = s
      <4>1. /\ vChecked'[s] = {} /\ vPhotos'[s] = {} /\ vPayment'[s] = None
            /\ vFailed'[s] = None /\ Told(s)' = {}
        BY <2>2, <3>1, <3>3 DEF VisitOf
      <4>2. /\ row.verified = FALSE /\ row.inspection = None /\ row.status = "IN_CUSTODY"
        BY <2>1
      <4>3. VisitTells(row, {}, {}, None, None, {})
        BY <4>2, DoorConstants DEF VisitTells, Door!Inspections, Door!PaymentMethods
      <4>. QED  BY <2>4, <3>3, <4>1, <4>3 DEF VisitOf, Door!Made
    <3>. QED  BY <3>2, <3>3
  <2>. QED  BY <2>5, <2>6, <2>7, <2>8 DEF DoorInv
<1>. QED  BY <1>1, <1>2

\* A save with one announcement, as departures and failed attempts are.
LEMMA OneFactKeeps ==
    ASSUME DoorInv, NEW s \in Stops, Door!Made(s), NEW row \in Door!StopRow,
           row.parcel = vStop[s].parcel, row.version = vStop[s].version,
           vStop[s].status \notin Door!Closed, Door!Save(s, row, 1),
           UNCHANGED <<vOpened, vWished, vRated, vReported>>, RowsBeside(s),
           NEW kind \in FactKinds,
           vFacts' = vFacts \cup {Door!Announce(s, kind, vStop[s].version + 1)},
           VisitTells(row, vChecked'[s], vPhotos'[s], vPayment'[s], vFailed'[s],
                      Told(s) \cup {kind})
    PROVE  DoorInv'
<1>1. vStop[s].version \in Nat /\ vStop[s].version + 1 \in Nat
  <2>1. vStop[s].version \in Nat
    BY StopIs, StopFields
  <2>. QED  BY <2>1
<1>2. PICK fact : fact = Door!Announce(s, kind, vStop[s].version + 1)
  OBVIOUS
<1>3. /\ fact \in Announcements /\ fact.stop = s /\ fact.kind = kind
      /\ fact.version = vStop[s].version + 1
  BY <1>1, <1>2, AnnounceIs
<1>4. PICK said : said = {fact}
  OBVIOUS
<1>5. SaidOf(s, said, 1)
  BY <1>1, <1>3, <1>4 DEF SaidOf
<1>6. KindsOf(said) = {kind}
  BY <1>3, <1>4 DEF KindsOf
<1>7. vFacts' = vFacts \cup said
  BY <1>2, <1>4
<1>8. 1 \in {1, 2}
  OBVIOUS
<1>. QED  BY <1>5, <1>6, <1>7, <1>8, SaveKeeps

LEMMA DoorDeparts ==
    ASSUME DoorInv, NEW s \in Stops, Door!AnnounceDeparture(s)
    PROVE  DoorInv'
<1>1. PICK old : old = vStop[s]
  OBVIOUS
<1>2. /\ Door!Made(s) /\ old \in Door!StopRow /\ RowsBeside(s)
      /\ UNCHANGED <<vOpened, vChecked, vPhotos, vPayment, vFailed, vWished, vRated, vReported>>
      /\ VisitTells(old, vChecked[s], vPhotos[s], vPayment[s], vFailed[s], Told(s))
  BY <1>1, StopIs, VisitIs, NothingBeside DEF Door!AnnounceDeparture, Door!receiver
<1>3. PICK row : row = AsRow(old, "EN_ROUTE", old.waited, old.verified, old.seal,
                             old.inspection, old.guesses)
  OBVIOUS
<1>4. row = [old EXCEPT !.status = "EN_ROUTE"]
  BY <1>2, <1>3 DEF AsRow, Door!StopRow
<1>5. AsExpected(row, old, "EN_ROUTE", old.verified, old.seal, old.inspection)
  <2>1. "EN_ROUTE" \in StopStatuses
    BY DEF StopStatuses
  <2>. QED  BY <1>2, <1>3, <2>1, StopFields, AsRowIs
<1>6. /\ Door!Save(s, row, 1) /\ old.status = "IN_CUSTODY"
      /\ vFacts' = vFacts \cup {Door!Announce(s, "departed", old.version + 1)}
  BY <1>1, <1>4, DoorMayBecomeIs DEF Door!AnnounceDeparture
<1>7. VisitTells(row, vChecked'[s], vPhotos'[s], vPayment'[s], vFailed'[s],
                 Told(s) \cup {"departed"})
  BY <1>2, <1>5, <1>6 DEF VisitTells, AsExpected
<1>8. old.status \notin Door!Closed /\ "departed" \in FactKinds
  BY <1>6 DEF Door!Closed, FactKinds
<1>9. row \in Door!StopRow /\ row.parcel = old.parcel /\ row.version = old.version
  BY <1>5 DEF AsExpected
<1>. QED  BY <1>1, <1>2, <1>6, <1>7, <1>8, <1>9, OneFactKeeps

\* A row further on that tells the same of the visit.
LEMMA StatusKeeps ==
    ASSUME DoorInv, NEW s \in Stops, Door!Made(s), NEW st \in {"ARRIVED", "WAITING"},
           NEW waited \in BOOLEAN, vStop[s].status \in {"EN_ROUTE", "ARRIVED"},
           Door!Save(s, AsRow(vStop[s], st, waited, vStop[s].verified, vStop[s].seal,
                              vStop[s].inspection, vStop[s].guesses), 1),
           UNCHANGED <<vOpened, vChecked, vPhotos, vPayment, vFailed, vFacts,
                       vWished, vRated, vReported>>
    PROVE  DoorInv'
<1>1. PICK old : old = vStop[s]
  OBVIOUS
<1>2. /\ old \in Door!StopRow /\ RowsBeside(s)
      /\ VisitTells(old, vChecked[s], vPhotos[s], vPayment[s], vFailed[s], Told(s))
  BY <1>1, StopIs, VisitIs, NothingBeside
<1>3. PICK row : row = AsRow(old, st, waited, old.verified, old.seal, old.inspection, old.guesses)
  OBVIOUS
<1>4. AsExpected(row, old, st, old.verified, old.seal, old.inspection)
  <2>1. st \in StopStatuses
    BY DEF StopStatuses
  <2>. QED  BY <1>2, <1>3, <2>1, StopFields, AsRowIs
<1>5. VisitTells(row, vChecked[s], vPhotos[s], vPayment[s], vFailed[s], Told(s))
  BY <1>1, <1>2, <1>4 DEF VisitTells, AsExpected
<1>6. old.status \notin Door!Closed
  BY <1>1 DEF Door!Closed
<1>7. row \in Door!StopRow /\ row.parcel = old.parcel /\ row.version = old.version
      /\ Door!Save(s, row, 1)
  BY <1>1, <1>3, <1>4 DEF AsExpected
<1>8. VisitTells(row, vChecked'[s], vPhotos'[s], vPayment'[s], vFailed'[s], Told(s))
  BY <1>5
<1>. QED  BY <1>1, <1>2, <1>6, <1>7, <1>8, QuietKeeps

LEMMA DoorArrives ==
    ASSUME DoorInv, NEW s \in Stops, Door!RecordArrival(s) \/ Door!StartWait(s)
    PROVE  DoorInv'
<1>1. PICK old : old = vStop[s]
  OBVIOUS
<1>2. /\ Door!Made(s) /\ old \in Door!StopRow
      /\ UNCHANGED <<vOpened, vChecked, vPhotos, vPayment, vFailed, vFacts,
                     vWished, vRated, vReported>>
  BY <1>1, StopIs DEF Door!RecordArrival, Door!StartWait, Door!receiver
<1>3. CASE Door!RecordArrival(s)
  <2>1. /\ Door!Save(s, [old EXCEPT !.status = "ARRIVED"], 1) /\ old.status = "EN_ROUTE"
    BY <1>1, <1>3, DoorMayBecomeIs DEF Door!RecordArrival
  <2>2. /\ [old EXCEPT !.status = "ARRIVED"] =
              AsRow(old, "ARRIVED", old.waited, old.verified, old.seal, old.inspection, old.guesses)
        /\ old.waited \in BOOLEAN
    BY <1>2 DEF AsRow, Door!StopRow
  <2>. QED  BY <1>1, <1>2, <2>1, <2>2, StatusKeeps
<1>4. CASE Door!StartWait(s)
  <2>1. /\ Door!Save(s, [old EXCEPT !.status = "WAITING", !.waited = TRUE], 1)
        /\ old.status = "ARRIVED"
    BY <1>1, <1>4, DoorMayBecomeIs DEF Door!StartWait
  <2>2. PICK row : row = [old EXCEPT !.status = "WAITING", !.waited = TRUE]
    OBVIOUS
  <2>3. row = AsRow(old, "WAITING", TRUE, old.verified, old.seal, old.inspection, old.guesses)
    BY <1>2, <2>2 DEF AsRow, Door!StopRow
  <2>. QED  BY <1>1, <1>2, <2>1, <2>2, <2>3, StatusKeeps
<1>. QED  BY <1>3, <1>4

\* Outcomes are added to the verifications of one stop.
LEMMA OutcomeBeside ==
    ASSUME DoorInv, NEW s \in Stops, NEW outcome \in {"VERIFIED", "CODE_MISMATCH", "ID_MISMATCH"},
           vChecked' = [vChecked EXCEPT ![s] = @ \cup {outcome}],
           UNCHANGED <<vPhotos, vPayment, vFailed>>
    PROVE  RowsBeside(s) /\ vChecked'[s] = vChecked[s] \cup {outcome}
<1>1. /\ vChecked \in [Stops -> SUBSET {"VERIFIED", "CODE_MISMATCH", "ID_MISMATCH"}]
      /\ vPhotos \in [Stops -> SUBSET Door!Stages]
      /\ vPayment \in [Stops -> Door!PaymentMethods \cup {None}]
      /\ vFailed \in [Stops -> Door!Decisions \cup {"UNDECIDED", None}]
  BY DEF DoorInv, Door!TypeOK
<1>2. /\ vChecked' \in [Stops -> SUBSET {"VERIFIED", "CODE_MISMATCH", "ID_MISMATCH"}]
      /\ vChecked'[s] = vChecked[s] \cup {outcome}
      /\ \A r \in Stops \ {s} : vChecked'[r] = vChecked[r]
  BY <1>1
<1>. QED  BY <1>1, <1>2 DEF RowsBeside

\* Whoever was verified may take the parcel.
LEMMA AuthorizedIs ==
    ASSUME NEW old \in Door!StopRow, NEW guesses \in 0 .. MaxGuesses
    PROVE  /\ [old EXCEPT !.guesses = guesses] =
                 AsRow(old, old.status, old.waited, old.verified, old.seal, old.inspection, guesses)
           /\ Door!Authorized([old EXCEPT !.guesses = guesses]) =
                 AsRow(old, "AUTHORIZED", old.waited, TRUE, old.seal, old.inspection, guesses)
           /\ AsExpected(AsRow(old, "AUTHORIZED", old.waited, TRUE, old.seal, old.inspection, guesses),
                         old, "AUTHORIZED", TRUE, old.seal, old.inspection)
           /\ AsExpected(AsRow(old, old.status, old.waited, old.verified, old.seal, old.inspection,
                               guesses),
                         old, old.status, old.verified, old.seal, old.inspection)
<1>1. PICK tried : tried = [old EXCEPT !.guesses = guesses]
  OBVIOUS
<1>2. tried = AsRow(old, old.status, old.waited, old.verified, old.seal, old.inspection, guesses)
  BY <1>1 DEF AsRow, Door!StopRow
<1>3. PICK row : row = [tried EXCEPT !.status = "AUTHORIZED", !.verified = TRUE]
  OBVIOUS
<1>4. row = AsRow(old, "AUTHORIZED", old.waited, TRUE, old.seal, old.inspection, guesses)
  BY <1>2, <1>3 DEF AsRow
<1>5. /\ old.waited \in BOOLEAN /\ old.verified \in BOOLEAN
      /\ old.seal \in {"INTACT", "BROKEN", None}
      /\ old.inspection \in Door!Inspections \cup {None} /\ old.status \in StopStatuses
  BY StopFields
<1>6. "AUTHORIZED" \in StopStatuses /\ TRUE \in BOOLEAN
  BY DEF StopStatuses
<1>7. AsExpected(AsRow(old, "AUTHORIZED", old.waited, TRUE, old.seal, old.inspection, guesses),
                 old, "AUTHORIZED", TRUE, old.seal, old.inspection)
  BY <1>5, <1>6, AsRowIs
<1>8. AsExpected(AsRow(old, old.status, old.waited, old.verified, old.seal, old.inspection, guesses),
                 old, old.status, old.verified, old.seal, old.inspection)
  BY <1>5, AsRowIs
<1>. QED  BY <1>1, <1>2, <1>3, <1>4, <1>7, <1>8 DEF Door!Authorized

LEMMA DoorChecksCode ==
    ASSUME DoorInv, NEW s \in Stops, NEW correct \in BOOLEAN, Door!VerifyWithCode(s, correct)
    PROVE  DoorInv'
<1>1. PICK old : old = vStop[s]
  OBVIOUS
<1>2. /\ Door!Made(s) /\ old \in Door!StopRow /\ old.status \in {"ARRIVED", "WAITING"}
      /\ UNCHANGED <<vOpened, vPhotos, vPayment, vFailed, vFacts, vWished, vRated, vReported>>
      /\ VisitTells(old, vChecked[s], vPhotos[s], vPayment[s], vFailed[s], Told(s))
  BY <1>1, StopIs, VisitIs DEF Door!VerifyWithCode, Door!AtTheDoor, Door!receiver
<1>3. old.guesses + 1 \in 0 .. MaxGuesses
  <2>1. old.guesses \in 0 .. MaxGuesses /\ old.guesses < MaxGuesses /\ MaxGuesses \in Nat
    BY <1>1, <1>2, StopFields, DoorConstants DEF Door!VerifyWithCode, Door!MayGuess
  <2>. QED  BY <2>1
<1>4. CASE correct
  <2>1. PICK row : row = AsRow(old, "AUTHORIZED", old.waited, TRUE, old.seal, old.inspection,
                               old.guesses + 1)
    OBVIOUS
  <2>2. row = Door!Authorized([old EXCEPT !.guesses = @ + 1])
    BY <1>2, <1>3, <2>1, AuthorizedIs
  <2>3. /\ Door!Save(s, row, 1)
        /\ vChecked' = [vChecked EXCEPT ![s] = @ \cup {"VERIFIED"}]
    BY <1>1, <1>4, <2>2 DEF Door!VerifyWithCode
  <2>4. AsExpected(row, old, "AUTHORIZED", TRUE, old.seal, old.inspection)
    BY <1>2, <1>3, <2>1, AuthorizedIs
  <2>5. RowsBeside(s) /\ vChecked'[s] = vChecked[s] \cup {"VERIFIED"}
    BY <1>2, <2>3, OutcomeBeside
  <2>6. VisitTells(row, vChecked'[s], vPhotos'[s], vPayment'[s], vFailed'[s], Told(s))
    BY <1>2, <2>4, <2>5 DEF VisitTells, AsExpected
  <2>7. /\ row \in Door!StopRow /\ row.parcel = old.parcel /\ row.version = old.version
        /\ old.status \notin Door!Closed
    BY <1>2, <2>4 DEF AsExpected, Door!Closed
  <2>. QED  BY <1>1, <1>2, <2>3, <2>5, <2>6, <2>7, QuietKeeps
<1>5. CASE ~correct
  <2>1. PICK row : row = AsRow(old, old.status, old.waited, old.verified, old.seal,
                               old.inspection, old.guesses + 1)
    OBVIOUS
  <2>2. row = [old EXCEPT !.guesses = @ + 1]
    BY <1>2, <2>1 DEF AsRow, Door!StopRow
  <2>3. /\ Door!Save(s, row, 1)
        /\ vChecked' = [vChecked EXCEPT ![s] = @ \cup {"CODE_MISMATCH"}]
    BY <1>1, <1>5, <2>2 DEF Door!VerifyWithCode
  <2>4. AsExpected(row, old, old.status, old.verified, old.seal, old.inspection)
    BY <1>2, <1>3, <2>1, AuthorizedIs
  <2>5. RowsBeside(s) /\ vChecked'[s] = vChecked[s] \cup {"CODE_MISMATCH"}
    BY <1>2, <2>3, OutcomeBeside
  <2>6. VisitTells(row, vChecked'[s], vPhotos'[s], vPayment'[s], vFailed'[s], Told(s))
    BY <1>2, <2>4, <2>5 DEF VisitTells, AsExpected
  <2>7. /\ row \in Door!StopRow /\ row.parcel = old.parcel /\ row.version = old.version
        /\ old.status \notin Door!Closed
    BY <1>2, <2>4 DEF AsExpected, Door!Closed
  <2>. QED  BY <1>1, <1>2, <2>3, <2>5, <2>6, <2>7, QuietKeeps
<1>. QED  BY <1>4, <1>5

LEMMA DoorChecksId ==
    ASSUME DoorInv, NEW s \in Stops, NEW matches \in BOOLEAN, Door!VerifyWithId(s, matches)
    PROVE  DoorInv'
<1>1. PICK old : old = vStop[s]
  OBVIOUS
<1>2. /\ Door!Made(s) /\ old \in Door!StopRow /\ old.status \in {"ARRIVED", "WAITING"}
      /\ UNCHANGED <<vOpened, vPhotos, vPayment, vFailed, vFacts, vWished, vRated, vReported>>
      /\ VisitTells(old, vChecked[s], vPhotos[s], vPayment[s], vFailed[s], Told(s))
  BY <1>1, StopIs, VisitIs DEF Door!VerifyWithId, Door!AtTheDoor, Door!receiver
<1>3. CASE matches
  <2>1. PICK row : row = AsRow(old, "AUTHORIZED", old.waited, TRUE, old.seal, old.inspection,
                               old.guesses)
    OBVIOUS
  <2>2. row = Door!Authorized(old)
    <3>1. [old EXCEPT !.guesses = old.guesses] = old /\ old.guesses \in 0 .. MaxGuesses
      BY <1>2, StopFields DEF Door!StopRow
    <3>. QED  BY <1>2, <2>1, <3>1, AuthorizedIs
  <2>3. /\ Door!Save(s, row, 1)
        /\ vChecked' = [vChecked EXCEPT ![s] = @ \cup {"VERIFIED"}]
    BY <1>1, <1>3, <2>2 DEF Door!VerifyWithId
  <2>4. AsExpected(row, old, "AUTHORIZED", TRUE, old.seal, old.inspection)
    <3>1. old.guesses \in 0 .. MaxGuesses
      BY <1>2, StopFields
    <3>. QED  BY <1>2, <2>1, <3>1, AuthorizedIs
  <2>5. RowsBeside(s) /\ vChecked'[s] = vChecked[s] \cup {"VERIFIED"}
    BY <1>2, <2>3, OutcomeBeside
  <2>6. VisitTells(row, vChecked'[s], vPhotos'[s], vPayment'[s], vFailed'[s], Told(s))
    BY <1>2, <2>4, <2>5 DEF VisitTells, AsExpected
  <2>7. /\ row \in Door!StopRow /\ row.parcel = old.parcel /\ row.version = old.version
        /\ old.status \notin Door!Closed
    BY <1>2, <2>4 DEF AsExpected, Door!Closed
  <2>. QED  BY <1>1, <1>2, <2>3, <2>5, <2>6, <2>7, QuietKeeps
<1>4. CASE ~matches
  <2>1. /\ vStop' = vStop
        /\ vChecked' = [vChecked EXCEPT ![s] = @ \cup {"ID_MISMATCH"}]
    BY <1>4 DEF Door!VerifyWithId
  <2>2. RowsBeside(s) /\ vChecked'[s] = vChecked[s] \cup {"ID_MISMATCH"}
    BY <1>2, <2>1, OutcomeBeside
  <2>3. VisitTells(old, vChecked'[s], vPhotos'[s], vPayment'[s], vFailed'[s], Told(s))
    BY <1>2, <2>2 DEF VisitTells
  <2>. QED  BY <1>1, <1>2, <2>1, <2>2, <2>3, BesideKeeps
<1>. QED  BY <1>3, <1>4

LEMMA DoorChecksSeal ==
    ASSUME DoorInv, NEW s \in Stops, NEW intact \in BOOLEAN, Door!CheckParcelSeal(s, intact)
    PROVE  DoorInv'
<1>1. PICK old : old = vStop[s]
  OBVIOUS
<1>2. /\ Door!Made(s) /\ old \in Door!StopRow /\ RowsBeside(s)
      /\ UNCHANGED <<vOpened, vChecked, vPhotos, vPayment, vFailed, vFacts,
                     vWished, vRated, vReported>>
      /\ VisitTells(old, vChecked[s], vPhotos[s], vPayment[s], vFailed[s], Told(s))
  BY <1>1, StopIs, VisitIs, NothingBeside DEF Door!CheckParcelSeal, Door!receiver
<1>3. PICK seal \in {"INTACT", "BROKEN"} : seal = IF intact THEN "INTACT" ELSE "BROKEN"
  OBVIOUS
<1>4. PICK row : row = AsRow(old, old.status, old.waited, old.verified, seal, old.inspection,
                             old.guesses)
  OBVIOUS
<1>5. row = [old EXCEPT !.seal = seal]
  BY <1>2, <1>4 DEF AsRow, Door!StopRow
<1>6. Door!Save(s, row, 1)
  BY <1>1, <1>3, <1>5 DEF Door!CheckParcelSeal
<1>7. AsExpected(row, old, old.status, old.verified, seal, old.inspection)
  <2>1. seal \in {"INTACT", "BROKEN", None}
    OBVIOUS
  <2>2. /\ old.waited \in BOOLEAN /\ old.verified \in BOOLEAN /\ old.guesses \in 0 .. MaxGuesses
        /\ old.inspection \in Door!Inspections \cup {None} /\ old.status \in StopStatuses
    BY <1>2, StopFields
  <2>. QED  BY <1>2, <1>4, <2>1, <2>2, AsRowIs
<1>8. VisitTells(row, vChecked'[s], vPhotos'[s], vPayment'[s], vFailed'[s], Told(s))
  BY <1>2, <1>7, DoorConstants DEF VisitTells, AsExpected
<1>9. /\ row \in Door!StopRow /\ row.parcel = old.parcel /\ row.version = old.version
      /\ row.status = old.status
  BY <1>7 DEF AsExpected
<1>. QED  BY <1>1, <1>2, <1>6, <1>8, <1>9, QuietKeeps

LEMMA DoorInspects ==
    ASSUME DoorInv, NEW s \in Stops, NEW outcome \in Door!Inspections,
           Door!RecordInspection(s, outcome)
    PROVE  DoorInv'
<1>1. PICK old : old = vStop[s]
  OBVIOUS
<1>2. /\ Door!Made(s) /\ old \in Door!StopRow /\ RowsBeside(s) /\ old.status = "AUTHORIZED"
      /\ UNCHANGED <<vOpened, vChecked, vPhotos, vPayment, vFailed, vFacts,
                     vWished, vRated, vReported>>
      /\ VisitTells(old, vChecked[s], vPhotos[s], vPayment[s], vFailed[s], Told(s))
      /\ outcome # "SEALED_ACCEPTED" /\ old.terms.photos => "BEFORE_OPENING" \in vPhotos[s]
  BY <1>1, StopIs, VisitIs, NothingBeside DEF Door!RecordInspection, Door!MayInspect, Door!receiver
<1>3. PICK row : row = AsRow(old, old.status, old.waited, old.verified, old.seal, outcome,
                             old.guesses)
  OBVIOUS
<1>4. row = [old EXCEPT !.inspection = outcome]
  BY <1>2, <1>3 DEF AsRow, Door!StopRow
<1>5. Door!Save(s, row, 1)
  BY <1>1, <1>4 DEF Door!RecordInspection
<1>6. AsExpected(row, old, old.status, old.verified, old.seal, outcome)
  <2>1. outcome \in Door!Inspections \cup {None}
    OBVIOUS
  <2>. QED  BY <1>2, <1>3, <2>1, StopFields, AsRowIs
<1>7. VisitTells(row, vChecked'[s], vPhotos'[s], vPayment'[s], vFailed'[s], Told(s))
  BY <1>2, <1>6 DEF VisitTells, AsExpected
<1>8. /\ row \in Door!StopRow /\ row.parcel = old.parcel /\ row.version = old.version
      /\ old.status \notin Door!Closed
  BY <1>2, <1>6 DEF AsExpected, Door!Closed
<1>. QED  BY <1>1, <1>2, <1>5, <1>7, <1>8, QuietKeeps

\* Photos and payments come at any status.
LEMMA DoorAtAnyStatus ==
    ASSUME DoorInv, NEW s \in Stops,
           \/ \E stage \in Door!Stages : Door!AttachPhoto(s, stage)
           \/ Door!ConfirmPrepaid(s) \/ Door!CollectCash(s) \/ Door!RecordCardApproval(s)
    PROVE  DoorInv'
<1>1. /\ Door!Made(s) /\ VisitTells(vStop[s], vChecked[s], vPhotos[s], vPayment[s], vFailed[s], Told(s))
      /\ UNCHANGED <<vOpened, vStop, vChecked, vFailed, vFacts, vWished, vRated, vReported>>
  BY VisitIs DEF Door!AttachPhoto, Door!ConfirmPrepaid, Door!CollectCash, Door!RecordCardApproval,
                 Door!Collect, Door!Unpaid, Door!receiver, Door!doorstep
<1>2. /\ vChecked \in [Stops -> SUBSET {"VERIFIED", "CODE_MISMATCH", "ID_MISMATCH"}]
      /\ vPhotos \in [Stops -> SUBSET Door!Stages]
      /\ vPayment \in [Stops -> Door!PaymentMethods \cup {None}]
      /\ vFailed \in [Stops -> Door!Decisions \cup {"UNDECIDED", None}]
  BY DEF DoorInv, Door!TypeOK
<1>3. ASSUME NEW stage \in Door!Stages, Door!AttachPhoto(s, stage) PROVE DoorInv'
  <2>1. vPhotos' = [vPhotos EXCEPT ![s] = @ \cup {stage}] /\ vPayment' = vPayment
    BY <1>3 DEF Door!AttachPhoto
  <2>2. RowsBeside(s) /\ vPhotos'[s] = vPhotos[s] \cup {stage}
    BY <1>1, <1>2, <2>1 DEF RowsBeside
  <2>3. VisitTells(vStop[s], vChecked'[s], vPhotos'[s], vPayment'[s], vFailed'[s], Told(s))
    BY <1>1, <2>1, <2>2 DEF VisitTells
  <2>. QED  BY <1>1, <2>2, <2>3, BesideKeeps
<1>4. ASSUME NEW method \in Door!PaymentMethods, vPayment[s] = None,
             vPayment' = [vPayment EXCEPT ![s] = method], vPhotos' = vPhotos,
             method \in {"CASH", "POS_CARD"} => vStop[s].terms.cod,
             method = "PREPAID" => ~vStop[s].terms.cod
      PROVE  DoorInv'
  <2>1. RowsBeside(s) /\ vPayment'[s] = method
    BY <1>1, <1>2, <1>4 DEF RowsBeside
  <2>2. None \notin {"CASH", "POS_CARD"}
    BY DoorConstants DEF Door!PaymentMethods
  <2>3. VisitTells(vStop[s], vChecked'[s], vPhotos'[s], vPayment'[s], vFailed'[s], Told(s))
    BY <1>1, <1>4, <2>1, <2>2 DEF VisitTells
  <2>. QED  BY <1>1, <2>1, <2>3, BesideKeeps
<1>5. CASE Door!ConfirmPrepaid(s) \/ Door!CollectCash(s) \/ Door!RecordCardApproval(s)
  BY <1>4, <1>5 DEF Door!ConfirmPrepaid, Door!CollectCash, Door!RecordCardApproval,
                    Door!Collect, Door!Unpaid, Door!doorstep, Door!PaymentMethods
<1>. QED  BY <1>3, <1>5

LEMMA DoorHandsTheParcel ==
    ASSUME DoorInv, NEW s \in Stops, Door!CompleteDelivery(s)
    PROVE  DoorInv'
<1>1. PICK old : old = vStop[s]
  OBVIOUS
<1>2. /\ Door!Made(s) /\ old \in Door!StopRow /\ RowsBeside(s) /\ old.status = "AUTHORIZED"
      /\ UNCHANGED <<vOpened, vChecked, vPhotos, vPayment, vFailed, vWished, vRated, vReported>>
      /\ VisitTells(old, vChecked[s], vPhotos[s], vPayment[s], vFailed[s], Told(s))
  BY <1>1, StopIs, VisitIs, NothingBeside
     DEF Door!CompleteDelivery, Door!ReadyForPayment, Door!receiver
<1>3. PICK row : row = AsRow(old, "DELIVERED", old.waited, old.verified, old.seal,
                             old.inspection, old.guesses)
  OBVIOUS
<1>4. row = [old EXCEPT !.status = "DELIVERED"]
  BY <1>2, <1>3 DEF AsRow, Door!StopRow
<1>5. AsExpected(row, old, "DELIVERED", old.verified, old.seal, old.inspection)
  <2>1. "DELIVERED" \in StopStatuses
    BY DEF StopStatuses
  <2>. QED  BY <1>2, <1>3, <2>1, StopFields, AsRowIs
<1>6. /\ row \in Door!StopRow /\ row.parcel = old.parcel /\ row.version = old.version
      /\ old.status \notin Door!Closed
  BY <1>2, <1>5 DEF AsExpected, Door!Closed
<1>7. /\ old.verified /\ old.inspection # None
      /\ old.terms.seal => old.seal # None
      /\ old.terms.cod => vPayment[s] \in {"CASH", "POS_CARD"}
      /\ old.inspection = "OPEN_BOX_KEPT" /\ old.terms.photos => "AFTER_INSPECTION" \in vPhotos[s]
  BY <1>1 DEF Door!CompleteDelivery, Door!ReadyForPayment, Door!SealIsChecked,
              Door!PaymentSatisfies
<1>8. /\ vPayment[s] \notin {None, "PREPAID"} <=> old.terms.cod
      /\ vPayment[s] \in {None, "PREPAID", "CASH", "POS_CARD"}
  <2>1. vPayment[s] \in {None, "PREPAID", "CASH", "POS_CARD"} /\ None \notin {"CASH", "POS_CARD"}
    BY DoorConstants DEF DoorInv, Door!TypeOK, Door!PaymentMethods
  <2>. QED  BY <1>2, <1>7, <2>1 DEF VisitTells
<1>9. old.version \in Nat /\ old.version + 1 \in Nat /\ old.version + 2 \in Nat
  <2>1. old.version \in Nat
    BY <1>2, StopFields
  <2>. QED  BY <2>1
<1>10. PICK delivered : delivered = Door!Announce(s, "delivered", old.version + 1)
  OBVIOUS
<1>11. /\ delivered \in Announcements /\ delivered.stop = s /\ delivered.kind = "delivered"
       /\ delivered.version = old.version + 1
  BY <1>9, <1>10, AnnounceIs DEF FactKinds
<1>12. CASE vPayment[s] \notin {None, "PREPAID"}
  <2>1. PICK paid : paid = Door!Announce(s, "cod_collected", old.version + 2)
    OBVIOUS
  <2>2. /\ paid \in Announcements /\ paid.stop = s /\ paid.kind = "cod_collected"
        /\ paid.version = old.version + 2
    BY <1>9, <2>1, AnnounceIs DEF FactKinds
  <2>3. PICK said : said = {delivered} \cup {paid}
    OBVIOUS
  <2>4. Door!Save(s, row, 2) /\ vFacts' = vFacts \cup said
    BY <1>1, <1>4, <1>10, <1>12, <2>1, <2>3 DEF Door!CompleteDelivery, Door!FactsOfHandover
  <2>5. SaidOf(s, said, 2)
    BY <1>1, <1>9, <1>11, <2>2, <2>3 DEF SaidOf
  <2>6. KindsOf(said) = {"delivered", "cod_collected"}
    BY <1>11, <2>2, <2>3 DEF KindsOf, FactKinds
  <2>7. VisitTells(row, vChecked[s], vPhotos[s], vPayment[s], vFailed[s],
                   Told(s) \cup {"delivered", "cod_collected"})
    BY <1>2, <1>5, <1>7, <1>8, <1>12 DEF VisitTells, AsExpected
  <2>8. VisitTells(row, vChecked'[s], vPhotos'[s], vPayment'[s], vFailed'[s],
                   Told(s) \cup KindsOf(said))
    BY <1>2, <2>6, <2>7
  <2>9. 2 \in {1, 2}
    OBVIOUS
  <2>. QED  BY <1>1, <1>2, <1>6, <2>4, <2>5, <2>8, <2>9, SaveKeeps
<1>13. CASE vPayment[s] \in {None, "PREPAID"}
  <2>1. /\ Door!Save(s, row, 1)
        /\ vFacts' = vFacts \cup {Door!Announce(s, "delivered", old.version + 1)}
    BY <1>1, <1>4, <1>13 DEF Door!CompleteDelivery, Door!FactsOfHandover
  <2>2. VisitTells(row, vChecked[s], vPhotos[s], vPayment[s], vFailed[s], Told(s) \cup {"delivered"})
    BY <1>2, <1>5, <1>7, <1>8, <1>13 DEF VisitTells, AsExpected
  <2>3. VisitTells(row, vChecked'[s], vPhotos'[s], vPayment'[s], vFailed'[s],
                   Told(s) \cup {"delivered"})
    BY <1>2, <2>2
  <2>4. "delivered" \in FactKinds
    BY DEF FactKinds
  <2>. QED  BY <1>1, <1>2, <1>6, <2>1, <2>3, <2>4, OneFactKeeps
<1>. QED  BY <1>12, <1>13

LEMMA DoorCloses ==
    ASSUME DoorInv, NEW s \in Stops, NEW status \in {"REFUSED", "FAILED"},
           Door!CloseWithoutHandover(s, status)
    PROVE  DoorInv'
<1>1. PICK old : old = vStop[s]
  OBVIOUS
<1>2. /\ Door!Made(s) /\ old \in Door!StopRow /\ old.status \notin Door!Closed
      /\ UNCHANGED <<vOpened, vChecked, vPhotos, vPayment, vWished, vRated, vReported>>
      /\ VisitTells(old, vChecked[s], vPhotos[s], vPayment[s], vFailed[s], Told(s))
      /\ vFailed' = [vFailed EXCEPT ![s] = "UNDECIDED"]
  BY <1>1, StopIs, VisitIs, DoorMayBecomeIs DEF Door!CloseWithoutHandover, Door!receiver
<1>3. PICK row : row = AsRow(old, status, old.waited, old.verified, old.seal,
                             old.inspection, old.guesses)
  OBVIOUS
<1>4. row = [old EXCEPT !.status = status]
  BY <1>2, <1>3 DEF AsRow, Door!StopRow
<1>5. AsExpected(row, old, status, old.verified, old.seal, old.inspection)
  <2>1. status \in StopStatuses
    BY DEF StopStatuses
  <2>. QED  BY <1>2, <1>3, <2>1, StopFields, AsRowIs
<1>6. /\ Door!Save(s, row, 1)
      /\ vFacts' = vFacts \cup {Door!Announce(s, "attempt_failed", old.version + 1)}
  BY <1>1, <1>4 DEF Door!CloseWithoutHandover
<1>7. RowsBeside(s) /\ vFailed'[s] = "UNDECIDED" /\ "UNDECIDED" # None
  <2>1. /\ vChecked \in [Stops -> SUBSET {"VERIFIED", "CODE_MISMATCH", "ID_MISMATCH"}]
        /\ vPhotos \in [Stops -> SUBSET Door!Stages]
        /\ vPayment \in [Stops -> Door!PaymentMethods \cup {None}]
        /\ vFailed \in [Stops -> Door!Decisions \cup {"UNDECIDED", None}]
    BY DEF DoorInv, Door!TypeOK
  <2>. QED  BY <1>2, <2>1, DoorConstants DEF RowsBeside
<1>8. VisitTells(row, vChecked[s], vPhotos[s], vPayment[s], "UNDECIDED",
                 Told(s) \cup {"attempt_failed"})
  <2>1. old.status \notin {"DELIVERED", "REFUSED", "FAILED"}
    BY <1>2 DEF Door!Closed
  <2>. QED  BY <1>2, <1>5, <1>7, <2>1 DEF VisitTells, AsExpected
<1>9. VisitTells(row, vChecked'[s], vPhotos'[s], vPayment'[s], vFailed'[s],
                 Told(s) \cup {"attempt_failed"})
  BY <1>2, <1>7, <1>8
<1>10. /\ row \in Door!StopRow /\ row.parcel = old.parcel /\ row.version = old.version
       /\ "attempt_failed" \in FactKinds
  BY <1>5 DEF AsExpected, FactKinds
<1>. QED  BY <1>1, <1>2, <1>6, <1>7, <1>9, <1>10, OneFactKeeps

\* A decision is put on record, and nothing else.
OnlyDecided ==
    /\ UNCHANGED <<vOpened, vStop, vChecked, vPhotos, vPayment, vFacts, vWished, vRated, vReported>>
    /\ vFailed' \in [Stops -> Door!Decisions \cup {"UNDECIDED", None}]
    /\ \A s \in Stops : vFailed'[s] # None <=> vFailed[s] # None

LEMMA DoorDecides ==
    ASSUME DoorInv,
           \/ \E s \in Stops, decided \in Door!Decisions : Door!DecideNextAttempt(s, decided)
           \/ \E over \in SUBSET Stops : Door!ReturnPastTheirHold(over)
    PROVE  DoorInv'
<1>1. /\ vFailed \in [Stops -> Door!Decisions \cup {"UNDECIDED", None}]
      /\ "UNDECIDED" # None /\ None \notin Door!Decisions
  BY DoorConstants DEF DoorInv, Door!TypeOK
<1>2. OnlyDecided
  <2>1. ASSUME NEW s \in Stops, NEW decided \in Door!Decisions,
               Door!DecideNextAttempt(s, decided)
        PROVE  OnlyDecided
    <3>1. vFailed' = [vFailed EXCEPT ![s] = decided] /\ vFailed[s] = "UNDECIDED"
      BY <2>1 DEF Door!DecideNextAttempt, Door!Undecided
    <3>2. \A r \in Stops : vFailed'[r] # None <=> vFailed[r] # None
      BY <1>1, <3>1
    <3>. QED  BY <1>1, <2>1, <3>1, <3>2 DEF OnlyDecided, Door!DecideNextAttempt, Door!receiver
  <2>2. ASSUME NEW over \in SUBSET Stops, Door!ReturnPastTheirHold(over) PROVE OnlyDecided
    <3>1. /\ vFailed' = [s \in Stops |-> IF s \in over THEN "RETURN_TO_MERCHANT" ELSE vFailed[s]]
          /\ \A s \in over : vFailed[s] = "UNDECIDED"
          /\ "RETURN_TO_MERCHANT" \in Door!Decisions
      BY <2>2 DEF Door!ReturnPastTheirHold, Door!Undecided, Door!Decisions
    <3>2. \A r \in Stops : vFailed'[r] # None <=> vFailed[r] # None
      BY <1>1, <3>1
    <3>. QED  BY <1>1, <2>2, <3>1, <3>2 DEF OnlyDecided, Door!ReturnPastTheirHold, Door!receiver
  <2>. QED  BY <2>1, <2>2
<1>3. Door!TypeOK'
  BY <1>2 DEF OnlyDecided, DoorInv, Door!TypeOK
<1>4. VersionsOrder' /\ OnOneRound'
  BY <1>2 DEF OnlyDecided, DoorInv, VersionsOrder, OnOneRound, Door!Made, Door!Closed
<1>5. ASSUME NEW s \in Stops PROVE VisitOf(s)'
  <2>1. VisitOf(s) /\ Told(s)' = Told(s)
    BY <1>2 DEF OnlyDecided, DoorInv, Told
  <2>. QED  BY <1>2, <2>1 DEF OnlyDecided, VisitOf, VisitTells, Door!Made
<1>. QED  BY <1>3, <1>4, <1>5 DEF DoorInv

LEMMA DoorHears ==
    ASSUME DoorInv, NEW p \in Parcels,
           Door!SetHandoverPreference(p) \/ Door!RateCourier(p) \/ Door!ReportIssue(p)
    PROVE  DoorInv'
<1>1. /\ UNCHANGED <<vOpened, vStop, vChecked, vPhotos, vPayment, vFailed, vFacts>>
      /\ vWished' \subseteq Parcels /\ vRated' \subseteq Parcels /\ vReported' \subseteq Parcels
      /\ vOpened \in BOOLEAN
  BY DEF Door!SetHandoverPreference, Door!RateCourier, Door!ReportIssue, Door!doorstep,
         DoorInv, Door!TypeOK
<1>. QED  BY <1>1, ElsewhereKeeps

LEMMA DoorStep == DoorInv /\ [Door!Next]_vVars => DoorInv'
<1>. SUFFICES ASSUME DoorInv, [Door!Next]_vVars PROVE DoorInv'
  OBVIOUS
<1>1. CASE UNCHANGED vVars
  <2>1. /\ vOpened \in BOOLEAN
        /\ vWished \subseteq Parcels /\ vRated \subseteq Parcels /\ vReported \subseteq Parcels
    BY DEF DoorInv, Door!TypeOK
  <2>. QED  BY <1>1, <2>1, ElsewhereKeeps DEF vVars
<1>2. ASSUME NEW s \in Stops,
             Door!RecordRefusal(s) \/ Door!RecordAbsence(s) \/ Door!RecordVerificationFailure(s)
      PROVE  DoorInv'
  BY <1>2, DoorCloses DEF Door!RecordRefusal, Door!RecordAbsence, Door!RecordVerificationFailure
<1>. QED  BY <1>1, <1>2, DoorOpensScans, DoorDeparts, DoorArrives, DoorChecksCode, DoorChecksId,
             DoorChecksSeal, DoorInspects, DoorAtAnyStatus, DoorHandsTheParcel, DoorDecides,
             DoorHears DEF Door!Next

\* What is settled at a stop.
Settled(s) ==
    /\ Door!Made(s) /\ vStop[s].status \in Door!Closed =>
          vStop'[s] = [vStop[s] EXCEPT !.seal = vStop'[s].seal, !.version = vStop'[s].version]
    /\ vPayment[s] # None => vPayment'[s] = vPayment[s]
    /\ vFailed[s] \in Door!Decisions => vFailed'[s] = vFailed[s]

\* A row that is as it was, or is checked for its seal once more.
LEMMA SettledRow ==
    ASSUME DoorInv, NEW s \in Stops, Door!Made(s),
           \/ vStop'[s] = vStop[s]
           \/ \E seal \in {"INTACT", "BROKEN"} :
                 Door!Save(s, [vStop[s] EXCEPT !.seal = seal], 1)
    PROVE  vStop'[s] = [vStop[s] EXCEPT !.seal = vStop'[s].seal, !.version = vStop'[s].version]
<1>1. PICK old : old = vStop[s]
  OBVIOUS
<1>2. old \in Door!StopRow
  BY <1>1, StopIs
<1>3. CASE vStop'[s] = vStop[s]
  <2>1. old = [old EXCEPT !.seal = old.seal, !.version = old.version]
    BY <1>2 DEF Door!StopRow
  <2>. QED  BY <1>1, <1>3, <2>1
<1>4. ASSUME NEW seal \in {"INTACT", "BROKEN"},
             Door!Save(s, [vStop[s] EXCEPT !.seal = seal], 1)
      PROVE  vStop'[s] = [vStop[s] EXCEPT !.seal = vStop'[s].seal, !.version = vStop'[s].version]
  <2>1. PICK row : row = [old EXCEPT !.seal = seal]
    OBVIOUS
  <2>2. row = AsRow(old, old.status, old.waited, old.verified, seal, old.inspection, old.guesses)
    BY <1>2, <2>1 DEF AsRow, Door!StopRow
  <2>3. PICK new : new = [row EXCEPT !.version = @ + 1]
    OBVIOUS
  <2>4. new = [parcel |-> old.parcel, terms |-> old.terms, status |-> old.status,
               waited |-> old.waited, verified |-> old.verified, seal |-> seal,
               inspection |-> old.inspection, guesses |-> old.guesses,
               version |-> old.version + 1]
    BY <2>2, <2>3 DEF AsRow
  <2>5. vStop'[s] = new
    BY <1>1, <1>4, <2>1, <2>3 DEF DoorInv, Door!TypeOK, Door!Save
  <2>6. PICK same : same = [old EXCEPT !.seal = seal, !.version = old.version + 1]
    OBVIOUS
  <2>7. same = [parcel |-> old.parcel, terms |-> old.terms, status |-> old.status,
                waited |-> old.waited, verified |-> old.verified, seal |-> seal,
                inspection |-> old.inspection, guesses |-> old.guesses,
                version |-> old.version + 1]
    BY <1>2, <2>6 DEF Door!StopRow
  <2>8. new.seal = seal /\ new.version = old.version + 1
    BY <2>4
  <2>9. new = [old EXCEPT !.seal = new.seal, !.version = new.version]
    BY <2>4, <2>6, <2>7, <2>8
  <2>. QED  BY <1>1, <2>5, <2>9
<1>. QED  BY <1>3, <1>4

\* A stop that is closed is saved again for its seal only.
LEMMA ClosedRow ==
    ASSUME DoorInv, Door!Next, NEW s \in Stops, Door!Made(s), vStop[s].status \in Door!Closed
    PROVE  \/ vStop'[s] = vStop[s]
           \/ \E seal \in {"INTACT", "BROKEN"} : Door!Save(s, [vStop[s] EXCEPT !.seal = seal], 1)
<1>0. vStop \in [Stops -> Door!StopRow \cup {None}]
  BY DEF DoorInv, Door!TypeOK
<1>1. CASE vStop' = vStop
  BY <1>1
<1>2. ASSUME NEW r \in Stops, r # s, NEW row, vStop' = [vStop EXCEPT ![r] = row]
      PROVE  vStop'[s] = vStop[s]
  BY <1>0, <1>2
<1>3. ASSUME NEW r \in Stops, r # s, NEW row, NEW saves, Door!Save(r, row, saves)
      PROVE  vStop'[s] = vStop[s]
  BY <1>2, <1>3 DEF Door!Save
<1>4. ASSUME NEW r \in Stops, NEW p \in Parcels, NEW terms \in Terms,
             Door!ScanOntoManifest(r, p, terms)
      PROVE  vStop'[s] = vStop[s]
  <2>1. r # s
    BY <1>4 DEF Door!ScanOntoManifest
  <2>. QED  BY <1>2, <1>4, <2>1 DEF Door!ScanOntoManifest
<1>5. ASSUME NEW r \in Stops, NEW intact \in BOOLEAN, Door!CheckParcelSeal(r, intact)
      PROVE  \/ vStop'[s] = vStop[s]
             \/ \E seal \in {"INTACT", "BROKEN"} : Door!Save(s, [vStop[s] EXCEPT !.seal = seal], 1)
  <2>1. PICK seal \in {"INTACT", "BROKEN"} : seal = IF intact THEN "INTACT" ELSE "BROKEN"
    OBVIOUS
  <2>2. Door!Save(r, [vStop[r] EXCEPT !.seal = seal], 1)
    BY <1>5, <2>1 DEF Door!CheckParcelSeal
  <2>. QED  BY <1>3, <2>2
<1>6. ASSUME NEW r \in Stops,
             \/ Door!AnnounceDeparture(r) \/ Door!RecordArrival(r) \/ Door!StartWait(r)
             \/ \E outcome \in Door!Inspections : Door!RecordInspection(r, outcome)
             \/ Door!CompleteDelivery(r)
             \/ \E st \in {"REFUSED", "FAILED"} : Door!CloseWithoutHandover(r, st)
      PROVE  vStop'[s] = vStop[s]
  <2>1. vStop[r].status \notin Door!Closed
    BY <1>6, DoorMayBecomeIs
       DEF Door!AnnounceDeparture, Door!RecordArrival, Door!StartWait, Door!RecordInspection,
           Door!CompleteDelivery, Door!CloseWithoutHandover, Door!Closed
  <2>2. \E row, saves : Door!Save(r, row, saves)
    BY <1>6 DEF Door!AnnounceDeparture, Door!RecordArrival, Door!StartWait, Door!RecordInspection,
                Door!CompleteDelivery, Door!CloseWithoutHandover
  <2>. QED  BY <1>3, <2>1, <2>2
<1>7. ASSUME NEW r \in Stops, NEW right \in BOOLEAN,
             Door!VerifyWithCode(r, right) \/ Door!VerifyWithId(r, right)
      PROVE  vStop'[s] = vStop[s]
  <2>1. vStop[r].status \notin Door!Closed
    BY <1>7 DEF Door!VerifyWithCode, Door!VerifyWithId, Door!AtTheDoor, Door!Closed
  <2>2. vStop' = vStop \/ \E row, saves : Door!Save(r, row, saves)
    BY <1>7 DEF Door!VerifyWithCode, Door!VerifyWithId
  <2>. QED  BY <1>3, <2>1, <2>2
<1>. QED  BY <1>1, <1>4, <1>5, <1>6, <1>7
          DEF Door!Next, Door!OpenManifest, Door!SetHandoverPreference, Door!RateCourier,
              Door!ReportIssue, Door!AttachPhoto, Door!ConfirmPrepaid, Door!CollectCash,
              Door!RecordCardApproval, Door!Collect, Door!doorstep, Door!RecordRefusal,
              Door!RecordAbsence, Door!RecordVerificationFailure, Door!DecideNextAttempt,
              Door!ReturnPastTheirHold

\* A payment is made once, and a decision is taken once.
LEMMA PaidAndDecided ==
    ASSUME DoorInv, Door!Next, NEW s \in Stops
    PROVE  /\ vPayment[s] # None => vPayment'[s] = vPayment[s]
           /\ vFailed[s] \in Door!Decisions => vFailed'[s] = vFailed[s]
<1>0. /\ vPayment \in [Stops -> Door!PaymentMethods \cup {None}]
      /\ vFailed \in [Stops -> Door!Decisions \cup {"UNDECIDED", None}]
      /\ "UNDECIDED" \notin Door!Decisions /\ None \notin Door!Decisions
  BY DoorConstants DEF DoorInv, Door!TypeOK, Door!Decisions
<1>1. vPayment[s] # None => vPayment'[s] = vPayment[s]
  <2>1. ASSUME NEW r \in Stops, NEW method, Door!Unpaid(r),
               vPayment' = [vPayment EXCEPT ![r] = method]
        PROVE  vPayment[s] # None => vPayment'[s] = vPayment[s]
    BY <1>0, <2>1 DEF Door!Unpaid
  <2>2. ASSUME NEW r \in Stops,
               Door!ConfirmPrepaid(r) \/ Door!CollectCash(r) \/ Door!RecordCardApproval(r)
        PROVE  vPayment[s] # None => vPayment'[s] = vPayment[s]
    BY <2>1, <2>2 DEF Door!ConfirmPrepaid, Door!CollectCash, Door!RecordCardApproval, Door!Collect
  <2>3. CASE vPayment' = vPayment
    BY <2>3
  <2>. QED  BY <2>2, <2>3
            DEF Door!Next, Door!OpenManifest, Door!SetHandoverPreference, Door!RateCourier,
                Door!ReportIssue, Door!ScanOntoManifest, Door!AnnounceDeparture,
                Door!RecordArrival, Door!StartWait, Door!VerifyWithCode, Door!VerifyWithId,
                Door!CheckParcelSeal, Door!AttachPhoto, Door!RecordInspection,
                Door!CompleteDelivery, Door!RecordRefusal, Door!RecordAbsence,
                Door!RecordVerificationFailure, Door!CloseWithoutHandover,
                Door!DecideNextAttempt, Door!ReturnPastTheirHold
<1>2. vFailed[s] \in Door!Decisions => vFailed'[s] = vFailed[s]
  <2>1. ASSUME NEW r \in Stops, NEW st, Door!CloseWithoutHandover(r, st)
        PROVE  vFailed[s] \in Door!Decisions => vFailed'[s] = vFailed[s]
    <3>1. /\ Door!Made(r) /\ vStop[r].status \notin Door!Closed
          /\ vFailed' = [vFailed EXCEPT ![r] = "UNDECIDED"]
      BY <2>1, DoorMayBecomeIs DEF Door!CloseWithoutHandover
    <3>2. vFailed[r] = None
      BY <3>1, VisitIs DEF VisitTells, Door!Closed
    <3>. QED  BY <1>0, <3>1, <3>2
  <2>2. ASSUME NEW r \in Stops, NEW decided, Door!DecideNextAttempt(r, decided)
        PROVE  vFailed[s] \in Door!Decisions => vFailed'[s] = vFailed[s]
    BY <1>0, <2>2 DEF Door!DecideNextAttempt, Door!Undecided
  <2>3. ASSUME NEW over \in SUBSET Stops, Door!ReturnPastTheirHold(over)
        PROVE  vFailed[s] \in Door!Decisions => vFailed'[s] = vFailed[s]
    BY <1>0, <2>3 DEF Door!ReturnPastTheirHold, Door!Undecided
  <2>4. CASE vFailed' = vFailed
    BY <2>4
  <2>. QED  BY <2>1, <2>2, <2>3, <2>4
            DEF Door!Next, Door!OpenManifest, Door!SetHandoverPreference, Door!RateCourier,
                Door!ReportIssue, Door!ScanOntoManifest, Door!AnnounceDeparture,
                Door!RecordArrival, Door!StartWait, Door!VerifyWithCode, Door!VerifyWithId,
                Door!CheckParcelSeal, Door!AttachPhoto, Door!RecordInspection,
                Door!CompleteDelivery, Door!RecordRefusal, Door!RecordAbsence,
                Door!RecordVerificationFailure, Door!ConfirmPrepaid, Door!CollectCash,
                Door!RecordCardApproval, Door!Collect, Door!doorstep
<1>. QED  BY <1>1, <1>2

LEMMA DoorSettles ==
    ASSUME DoorInv, Door!Next
    PROVE  vFacts \subseteq vFacts' /\ \A s \in Stops : Settled(s)
<1>1. ASSUME NEW s \in Stops PROVE Settled(s)
  BY ClosedRow, SettledRow, PaidAndDecided DEF Settled
<1>2. vFacts \subseteq vFacts'
  BY DEF Door!Next, Door!OpenManifest, Door!SetHandoverPreference, Door!RateCourier,
         Door!ReportIssue, Door!ScanOntoManifest, Door!AnnounceDeparture,
         Door!RecordArrival, Door!StartWait, Door!VerifyWithCode, Door!VerifyWithId,
         Door!CheckParcelSeal, Door!AttachPhoto, Door!RecordInspection,
         Door!CompleteDelivery, Door!RecordRefusal, Door!RecordAbsence,
         Door!RecordVerificationFailure, Door!CloseWithoutHandover, Door!ConfirmPrepaid,
         Door!CollectCash, Door!RecordCardApproval, Door!Collect, Door!doorstep,
         Door!DecideNextAttempt, Door!ReturnPastTheirHold
<1>. QED  BY <1>1, <1>2

-----------------------------------------------------------------------------
(* The service: a step of one place leaves the others alone. *)

LastMileInv == IInv /\ CounterInv /\ RoadInv /\ DoorInv

LEMMA StepOfOnePlace ==
    [LastMileNext]_<<place, vars, kVars, lVars, vVars>>
      => [Next]_vars /\ [Counter!Next]_kVars /\ [Road!Next]_lVars /\ [Door!Next]_vVars
  BY DEF LastMileNext

\* Every place keeps its invariant, and with them the service, for any number
\* of requests, labels, consignments and stops.
THEOREM LastMileInvariant == LastMileSpec => []LastMileInv
<1>1. LastMileInit => LastMileInv
  BY InitHolds, CounterInit, RoadInit, DoorInit DEF LastMileInit, LastMileInv
<1>2. LastMileInv /\ [LastMileNext]_<<place, vars, kVars, lVars, vVars>> => LastMileInv'
  BY StepOfOnePlace, StepHolds, CounterStep, RoadStep, DoorStep DEF LastMileInv
<1>. QED  BY <1>1, <1>2, PTL DEF LastMileSpec

\* A behaviour of the service is one of each place: what is proved of custody
\* alone holds of the service.
THEOREM ServiceRunsItsPlaces ==
    LastMileSpec => Spec /\ Counter!Spec /\ Road!Spec /\ Door!Spec
<1>1. LastMileInit => Init /\ Counter!Init /\ Road!Init /\ Door!Init
  BY DEF LastMileInit
<1>2. [LastMileNext]_<<place, vars, kVars, lVars, vVars>>
        => /\ [Next]_vars /\ [Counter!Next]_Counter!vars
           /\ [Road!Next]_Road!vars /\ [Door!Next]_Door!vars
  BY StepOfOnePlace DEF kVars, lVars, vVars, Counter!vars, Road!vars, Road!yard, Road!road,
     Door!vars, Door!doorstep, Door!receiver
<1>. QED  BY <1>1, <1>2, PTL DEF LastMileSpec, Spec, Counter!Spec, Road!Spec, Door!Spec

\* The tables of every place keep their shape.
THEOREM LastMileTypes == LastMileSpec => []TypesOK
<1>1. LastMileInv => TypesOK
  BY DEF LastMileInv, IInv, CounterInv, RoadInv, DoorInv, TypesOK
<1>. QED  BY <1>1, LastMileInvariant, PTL

\* One drop-off of a parcel is under way and no other bears its label, however
\* desks and the lapse of a deadline follow each other.
THEOREM CounterStaysInOrder == LastMileSpec => []CounterIsInOrder
<1>1. LastMileInv => CounterIsInOrder
  BY CounterTells DEF LastMileInv, CounterIsInOrder
<1>. QED  BY <1>1, LastMileInvariant, PTL

\* Consignments and parcels tell one story, also where a parcel is added again
\* from what was read before the consignment left.
THEOREM ConsignmentsAgree == LastMileSpec => []ConsignmentsTellParcels
<1>1. LastMileInv => ConsignmentsTellParcels
  BY RoadTells DEF LastMileInv, ConsignmentsTellParcels
<1>. QED  BY <1>1, LastMileInvariant, PTL

\* What is held is let go by a dispatch of its consignment only, and a
\* consignment whose seal did not match is stopped for good.
THEOREM OnlyDispatchFrees == LastMileSpec => OnlyADispatchFrees
<1>1. LastMileInv /\ [LastMileNext]_<<place, vars, kVars, lVars, vVars>> =>
        [/\ \A h \in Hubs, p \in Parcels : Road!Present(h, p) /\ Road!IsHeld(h, p) =>
               /\ lPresence'[h][p] # None
               /\ \/ lPresence'[h][p].status = "HELD"
                  \/ LET c == lPresence[h][p].consignment
                     IN  /\ lPresence'[h][p].status = "DEPARTED"
                         /\ c # None /\ lConsignment[c].status \in {"OPEN", "SEALED"}
                         /\ lConsignment'[c].status = "DISPATCHED"
         /\ \A c \in lFailed : lConsignment'[c] = lConsignment[c]]_Road!vars
  <2>1. LastMileInv /\ [LastMileNext]_<<place, vars, kVars, lVars, vVars>> =>
          UNCHANGED Road!vars \/ (RoadInv /\ Road!Next)
    BY StepOfOnePlace DEF LastMileInv, lVars, Road!vars, Road!yard, Road!road
  <2>. QED  BY <2>1, DispatchFrees, StoppedStays DEF HeldStays
<1>. QED
  BY <1>1, LastMileInvariant, PTL
     DEF LastMileSpec, OnlyADispatchFrees, Road!OnlyADispatchFrees

\* Who took a parcel had been verified, had looked at it as the merchant asked
\* and had paid what was due.
THEOREM HandoversInOrder == LastMileSpec => []HandedOverInOrder
<1>1. LastMileInv => HandedOverInOrder
  BY DoorHandsOver DEF LastMileInv, HandedOverInOrder
<1>. QED  BY <1>1, LastMileInvariant, PTL

\* What is announced of a visit is what happened, once, in an order.
THEOREM VisitsAreTold == LastMileSpec => []FactsTellTheVisit
<1>1. LastMileInv => FactsTellTheVisit
  BY DoorTells DEF LastMileInv, FactsTellTheVisit
<1>. QED  BY <1>1, LastMileInvariant, PTL

\* How a visit ended, its payment, its facts and what operations decided stay.
THEOREM SettledStays == LastMileSpec => SettledAtTheDoor
<1>1. LastMileInv /\ [LastMileNext]_<<place, vars, kVars, lVars, vVars>> =>
        [/\ vFacts \subseteq vFacts'
         /\ \A s \in Stops :
               /\ Door!Made(s) /\ vStop[s].status \in Door!Closed =>
                     vStop'[s] = [vStop[s] EXCEPT !.seal = vStop'[s].seal,
                                                  !.version = vStop'[s].version]
               /\ vPayment[s] # None => vPayment'[s] = vPayment[s]
               /\ vFailed[s] \in Door!Decisions => vFailed'[s] = vFailed[s]]_Door!vars
  <2>1. LastMileInv /\ [LastMileNext]_<<place, vars, kVars, lVars, vVars>> =>
          UNCHANGED Door!vars \/ (DoorInv /\ Door!Next)
    BY StepOfOnePlace DEF LastMileInv, vVars, Door!vars, Door!doorstep, Door!receiver
  <2>. QED  BY <2>1, DoorSettles DEF Settled
<1>. QED
  BY <1>1, LastMileInvariant, PTL
     DEF LastMileSpec, SettledAtTheDoor, Door!SettledAtTheDoor
=============================================================================
