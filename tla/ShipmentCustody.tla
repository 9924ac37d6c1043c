--------------------------- MODULE ShipmentCustody ---------------------------
(***************************************************************************)
(* Canonical custody in the shipment service.  Three kinds of request      *)
(* write it, concurrently and each in a transaction of its own: accepted   *)
(* facts and handover facts from the pickup stream, and acceptance scans   *)
(* over HTTP (the compatibility path).                                     *)
(*                                                                         *)
(* Abstractions.  A transaction reads its rows in one step and writes and  *)
(* commits in another; FactConsumer has the steps in between.  A refused   *)
(* fact is quarantined by the writing step.  A fact whose inbox row is     *)
(* terminal is answered without a transaction, a stuttering step here.  A  *)
(* shipment has one pickup task, so transfers are keyed by shipment.       *)
(* Accepted-with-exception is an acceptance.  Requests that validation     *)
(* refuses (evidence, proof, identifier) are not enumerated.               *)
(***************************************************************************)
EXTENDS Naturals, FiniteSets

CONSTANTS
    Shipments, Drivers, Hubs,
    Accepts,      \* pickup.fact.accepted events
    Handovers,    \* pickup.fact.handover_completed events
    Scans,        \* acceptance scan commands over HTTP
    Keys,         \* idempotency keys
    ShipmentOf,   \* Requests -> Shipments
    DriverOf,     \* Requests -> Drivers: who accepts, or releases
    HubOf,        \* Handovers -> Hubs: the receiving hub
    KeyOf,        \* Scans -> Keys
    Rejects,      \* scans whose outcome is REJECTED
    Workers,      \* worker processes and HTTP requests in flight
    None,
    MaxSwitches, MaxRegisters, MaxRestarts   \* bounds

Facts    == Accepts \cup Handovers
Requests == Facts \cup Scans

ASSUME CustodyConstants ==
    /\ Accepts \cap Handovers = {} /\ Facts \cap Scans = {}
    /\ Drivers \cap Hubs = {}
    /\ ShipmentOf \in [Requests -> Shipments]
    /\ DriverOf \in [Requests -> Drivers]
    /\ HubOf \in [Handovers -> Hubs]
    /\ KeyOf \in [Scans -> Keys]
    /\ Rejects \subseteq Scans
    /\ None \notin Requests \cup Drivers \cup Hubs
    /\ MaxSwitches \in Nat /\ MaxRegisters \in Nat /\ MaxRestarts \in Nat

VARIABLES
    mode,      \* acceptance_ingestion_mode: "HTTP" or "NATIVE"
    shipment,  \* committed row of each shipment
    task,      \* committed pickup task snapshot of each shipment
    decision,  \* request whose acceptance decision is recorded, or None
    transfer,  \* handover whose custody transfer is recorded, or None
    events,    \* types of the recorded shipment events
    inbox,     \* verdict on each fact: "none", "PROCESSED", "QUARANTINED"
    idem,      \* scan recorded under each idempotency key, or None
    request,   \* per worker: the request in its transaction, or None
    seen,      \* per worker: the rows its transaction read
    wedged,    \* workers whose store was left with an open transaction
    switches, registers, restarts

db     == <<shipment, task, decision, transfer, events, inbox, idem>>
bounds == <<switches, registers, restarts>>
vars   == <<mode, db, request, seen, wedged, bounds>>

-----------------------------------------------------------------------------
Status    == {"ABSENT", "CREATED", "IN_CUSTODY"}
EventType == {"ACCEPTANCE_SCAN", "HUB_HANDOVER_RECEIPT"}
TaskState == {"none", "ACCEPTED", "REJECTED"}

ShipmentRow == [status: Status, custody: Drivers \cup Hubs \cup {None},
                transferredAt: BOOLEAN, version: Nat]
TaskRow     == [driver: Drivers \cup {None}, state: TaskState, version: Nat]
Snapshot    == [shipment: ShipmentRow, task: TaskRow,
                decision: Requests \cup {None}, transfer: Handovers \cup {None}]

NewShipment == [status |-> "CREATED", custody |-> None, transferredAt |-> FALSE, version |-> 1]
NoShipment  == [NewShipment EXCEPT !.status = "ABSENT", !.version = 0]
NoTask      == [driver |-> None, state |-> "none", version |-> 0]
NothingSeen == [shipment |-> NoShipment, task |-> NoTask, decision |-> None, transfer |-> None]

TypeOK ==
    /\ mode \in {"HTTP", "NATIVE"}
    /\ shipment \in [Shipments -> ShipmentRow]
    /\ task \in [Shipments -> TaskRow]
    /\ decision \in [Shipments -> Requests \cup {None}]
    /\ transfer \in [Shipments -> Handovers \cup {None}]
    /\ events \in [Shipments -> SUBSET EventType]
    /\ inbox \in [Facts -> {"none", "PROCESSED", "QUARANTINED"}]
    /\ idem \in [Keys -> Scans \cup {None}]
    /\ request \in [Workers -> Requests \cup {None}]
    /\ seen \in [Workers -> Snapshot]
    /\ wedged \in SUBSET Workers
    /\ switches \in 0..MaxSwitches
    /\ registers \in 0..MaxRegisters
    /\ restarts \in 0..MaxRestarts

Init ==
    /\ mode \in {"HTTP", "NATIVE"}
    /\ shipment = [s \in Shipments |-> NoShipment]
    /\ task = [s \in Shipments |-> NoTask]
    /\ decision = [s \in Shipments |-> None]
    /\ transfer = [s \in Shipments |-> None]
    /\ events = [s \in Shipments |-> {}]
    /\ inbox = [f \in Facts |-> "none"]
    /\ idem = [k \in Keys |-> None]
    /\ request = [w \in Workers |-> None]
    /\ seen = [w \in Workers |-> NothingSeen]
    /\ wedged = {}
    /\ switches = 0 /\ registers = 0 /\ restarts = 0

-----------------------------------------------------------------------------
(* create_order_intent: a shipment without custody. *)
CreateOrderIntent(s) ==
    /\ shipment[s].status = "ABSENT"
    /\ shipment' = [shipment EXCEPT ![s] = NewShipment]
    /\ UNCHANGED <<mode, task, decision, transfer, events, inbox, idem,
                   request, seen, wedged, bounds>>

(* register_pickup_task saves over whatever snapshot exists.                *)
RegisterPickupTask(s, d) ==
    /\ registers < MaxRegisters
    /\ registers' = registers + 1
    /\ task' = [task EXCEPT ![s] =
          [driver |-> d, state |-> "none", version |-> task[s].version + 1]]
    /\ UNCHANGED <<mode, shipment, decision, transfer, events, inbox, idem,
                   request, seen, wedged, switches, restarts>>

(* A redeployment changes the ingestion mode; what is in flight goes on. *)
SwitchMode ==
    /\ switches < MaxSwitches
    /\ switches' = switches + 1
    /\ mode' = IF mode = "HTTP" THEN "NATIVE" ELSE "HTTP"
    /\ UNCHANGED <<db, request, seen, wedged, registers, restarts>>

Idle(w) == request[w] = None /\ w \notin wedged

Begin(w, q) ==
    LET s == ShipmentOf[q]
    IN  /\ request' = [request EXCEPT ![w] = q]
        /\ seen' = [seen EXCEPT ![w] =
              [shipment |-> shipment[s], task |-> task[s],
               decision |-> decision[s], transfer |-> transfer[s]]]

End(w) ==
    /\ request' = [request EXCEPT ![w] = None]
    /\ seen' = [seen EXCEPT ![w] = NothingSeen]

(* A fact is handled under its inbox row, which one transaction at a time   *)
(* can insert.                                                              *)
BeginFact(w, f) ==
    /\ mode = "NATIVE"
    /\ Idle(w)
    /\ inbox[f] = "none"
    /\ \A v \in Workers : request[v] # f
    /\ Begin(w, f)
    /\ UNCHANGED <<mode, db, wedged, bounds>>

(* A scan whose key is recorded is a replay or a conflict and writes        *)
(* nothing.                                                                 *)
BeginScan(w, c) ==
    /\ mode = "HTTP"
    /\ Idle(w)
    /\ idem[KeyOf[c]] = None
    /\ Begin(w, c)
    /\ UNCHANGED <<mode, db, wedged, bounds>>

(* The transaction ends without a trace: rolled back and answered with an   *)
(* error or a NAK.                                                          *)
GiveUp(w) == End(w) /\ UNCHANGED <<mode, db, wedged, bounds>>

(* UPDATE ... WHERE version = :read *)
Fresh(w) == shipment[ShipmentOf[request[w]]].version = seen[w].shipment.version

(* PoisonHandlerError: nothing of the transaction remains but the verdict.  *)
Quarantine(w) ==
    /\ inbox' = [inbox EXCEPT ![request[w]] = "QUARANTINED"]
    /\ End(w)
    /\ UNCHANGED <<mode, shipment, task, decision, transfer, events, idem, wedged, bounds>>

-----------------------------------------------------------------------------
(* Accepted facts *)

(* apply: anything but a fresh shipment without a decision is poison. *)
AcceptRefused(w) ==
    \/ seen[w].shipment.status # "CREATED"
    \/ seen[w].shipment.custody # None
    \/ seen[w].decision # None

RefuseAccept(w) ==
    /\ request[w] \in Accepts
    /\ AcceptRefused(w)
    /\ Quarantine(w)

(* Event, audit row, decision and shipment commit with the inbox row. *)
ApplyAccept(w) ==
    LET f == request[w]
        s == ShipmentOf[f]
    IN  /\ f \in Accepts
        /\ ~AcceptRefused(w)
        /\ Fresh(w)
        /\ decision[s] = None /\ "ACCEPTANCE_SCAN" \notin events[s]
        /\ shipment' = [shipment EXCEPT ![s] =
              [seen[w].shipment EXCEPT !.status = "IN_CUSTODY", !.custody = DriverOf[f],
                                       !.version = @ + 1]]
        /\ events' = [events EXCEPT ![s] = @ \cup {"ACCEPTANCE_SCAN"}]
        /\ decision' = [decision EXCEPT ![s] = f]
        /\ inbox' = [inbox EXCEPT ![f] = "PROCESSED"]
        /\ End(w)
        /\ UNCHANGED <<mode, task, transfer, idem, wedged, bounds>>

-----------------------------------------------------------------------------
(* Handover facts *)

(* Mutated form of Transferable: nobody asks whether custody has started. *)
MutTransferableUnstarted(w) == seen[w].shipment.status # "ABSENT"

(* _assert_transferable: custody is with the driver who releases it. *)
Transferable(w) ==
    /\ seen[w].shipment.status = "IN_CUSTODY"
    /\ seen[w].shipment.custody = DriverOf[request[w]]

(* _converge_on_existing: the recorded transfer says what this fact says. *)
SameTransfer(f, g) == ShipmentOf[f] = ShipmentOf[g] /\ HubOf[f] = HubOf[g]

RefuseHandover(w) ==
    /\ request[w] \in Handovers
    /\ IF seen[w].transfer = None THEN ~Transferable(w)
       ELSE ~SameTransfer(seen[w].transfer, request[w])
    /\ Quarantine(w)

ConvergeHandover(w) ==
    /\ request[w] \in Handovers
    /\ seen[w].transfer # None
    /\ SameTransfer(seen[w].transfer, request[w])
    /\ inbox' = [inbox EXCEPT ![request[w]] = "PROCESSED"]
    /\ End(w)
    /\ UNCHANGED <<mode, shipment, task, decision, transfer, events, idem, wedged, bounds>>

(* save_shipment writes status, custody and version; custody_transferred_at *)
(* is set on the object and not among the columns of the UPDATE.            *)
ApplyHandover(w) ==
    LET f == request[w]
        s == ShipmentOf[f]
    IN  /\ f \in Handovers
        /\ seen[w].transfer = None /\ Transferable(w)
        /\ transfer[s] = None
        /\ Fresh(w)
        /\ "HUB_HANDOVER_RECEIPT" \notin events[s]
        /\ shipment' = [shipment EXCEPT ![s] =
              [@ EXCEPT !.status = seen[w].shipment.status, !.custody = HubOf[f],
                        !.version = seen[w].shipment.version + 1]]
        /\ transfer' = [transfer EXCEPT ![s] = f]
        /\ events' = [events EXCEPT ![s] = @ \cup {"HUB_HANDOVER_RECEIPT"}]
        /\ inbox' = [inbox EXCEPT ![f] = "PROCESSED"]
        /\ End(w)
        /\ UNCHANGED <<mode, task, decision, idem, wedged, bounds>>

(* A stale version, or an event or decision another transaction committed   *)
(* first: the fact is retried.                                              *)
LoseFact(w) ==
    LET s == ShipmentOf[request[w]]
    IN  /\ \/ /\ request[w] \in Accepts
              /\ ~AcceptRefused(w)
              /\ ~Fresh(w) \/ decision[s] # None \/ "ACCEPTANCE_SCAN" \in events[s]
           \/ /\ request[w] \in Handovers
              /\ seen[w].transfer = None /\ Transferable(w) /\ transfer[s] = None
              /\ ~Fresh(w) \/ "HUB_HANDOVER_RECEIPT" \in events[s]
        /\ GiveUp(w)

(* The flush of a second transfer of the task fails with an error nobody    *)
(* catches: the worker's store keeps its open transaction.                  *)
CollideHandover(w) ==
    /\ request[w] \in Handovers
    /\ seen[w].transfer = None /\ Transferable(w)
    /\ transfer[ShipmentOf[request[w]]] # None
    /\ wedged' = wedged \cup {w}
    /\ End(w)
    /\ UNCHANGED <<mode, db, bounds>>

(* A worker dies, with or without a transaction, and is started again.      *)
Restart(w) ==
    /\ restarts < MaxRestarts
    /\ restarts' = restarts + 1
    /\ wedged' = wedged \ {w}
    /\ End(w)
    /\ UNCHANGED <<mode, db, switches, registers>>

-----------------------------------------------------------------------------
(* Acceptance scans *)

ScanAllowed(w) ==
    /\ seen[w].shipment.status = "CREATED"
    /\ seen[w].task.driver = DriverOf[request[w]]
    /\ seen[w].task.state = "none"

RefuseScan(w) ==
    /\ request[w] \in Scans
    /\ ~ScanAllowed(w)
    /\ GiveUp(w)

(* Mutated form of ScanWins: decisions and keys are not unique. *)
MutScanWinsByVersion(w) ==
    LET s == ShipmentOf[request[w]]
    IN  Fresh(w) /\ task[s].version = seen[w].task.version

(* Both version checks and the unique keys hold at commit. *)
ScanWins(w) ==
    LET s == ShipmentOf[request[w]]
    IN  /\ Fresh(w)
        /\ task[s].version = seen[w].task.version
        /\ decision[s] = None
        /\ idem[KeyOf[request[w]]] = None
        /\ request[w] \notin Rejects => "ACCEPTANCE_SCAN" \notin events[s]

LoseScan(w) ==
    /\ request[w] \in Scans
    /\ ScanAllowed(w)
    /\ ~ScanWins(w)
    /\ GiveUp(w)

(* Task, shipment, event, audit, decision and key commit together; a        *)
(* rejection saves the shipment too, with a new version and no custody.     *)
ApplyScan(w) ==
    LET c == request[w]
        s == ShipmentOf[c]
        rejected == c \in Rejects
    IN  /\ c \in Scans
        /\ ScanAllowed(w)
        /\ ScanWins(w)
        /\ task' = [task EXCEPT ![s].state = IF rejected THEN "REJECTED" ELSE "ACCEPTED",
                                ![s].version = @ + 1]
        /\ shipment' = [shipment EXCEPT ![s] =
              IF rejected THEN [seen[w].shipment EXCEPT !.version = @ + 1]
              ELSE [seen[w].shipment EXCEPT !.status = "IN_CUSTODY",
                        !.custody = seen[w].task.driver, !.version = @ + 1]]
        /\ events' = [events EXCEPT ![s] = IF rejected THEN @ ELSE @ \cup {"ACCEPTANCE_SCAN"}]
        /\ decision' = [decision EXCEPT ![s] = c]
        /\ idem' = [idem EXCEPT ![KeyOf[c]] = c]
        /\ End(w)
        /\ UNCHANGED <<mode, transfer, inbox, wedged, bounds>>

WorkerStep(w) ==
    \/ RefuseAccept(w) \/ ApplyAccept(w)
    \/ RefuseHandover(w) \/ ConvergeHandover(w) \/ ApplyHandover(w)
    \/ CollideHandover(w) \/ LoseFact(w)
    \/ RefuseScan(w) \/ LoseScan(w) \/ ApplyScan(w)

Next ==
    \/ \E s \in Shipments : \/ CreateOrderIntent(s)
                            \/ \E d \in Drivers : RegisterPickupTask(s, d)
    \/ SwitchMode
    \/ \E w \in Workers : \/ \E f \in Facts : BeginFact(w, f)
                          \/ \E c \in Scans : BeginScan(w, c)
                          \/ WorkerStep(w)
                          \/ Restart(w)

Spec == Init /\ [][Next]_vars

-----------------------------------------------------------------------------
(* Properties *)

Accepting(q) == q \in Accepts \/ q \in Scans \ Rejects

(* Custody is always explained by the records next to it: the driver who    *)
(* holds the parcel is the one of the acceptance decision, the hub is the   *)
(* one of the transfer, and the transfer took it from that driver.          *)
CustodyExplained ==
    \A s \in Shipments :
        LET row == shipment[s]
            accepted == decision[s] # None /\ Accepting(decision[s])
        IN  /\ row.status = "IN_CUSTODY" <=> accepted
            /\ transfer[s] # None => accepted
            /\ row.custody = IF ~accepted THEN None
                             ELSE IF transfer[s] = None THEN DriverOf[decision[s]]
                             ELSE HubOf[transfer[s]]
            /\ transfer[s] # None => DriverOf[transfer[s]] = DriverOf[decision[s]]

(* No write is lost or counted twice: the version is one more than the      *)
(* number of acceptance decisions and transfers, and every custody change   *)
(* left its event.                                                          *)
VersionCountsWrites ==
    \A s \in Shipments : shipment[s].status # "ABSENT" =>
        /\ shipment[s].version = 1 + (IF decision[s] # None THEN 1 ELSE 0)
                                   + (IF transfer[s] # None THEN 1 ELSE 0)
        /\ "ACCEPTANCE_SCAN" \in events[s] <=> shipment[s].status = "IN_CUSTODY"
        /\ "HUB_HANDOVER_RECEIPT" \in events[s] <=> transfer[s] # None

(* A processed fact has had its effect, and a recorded idempotency key is   *)
(* the key of the decision that a replay of it describes.                   *)
AnswersAreTrue ==
    /\ \A f \in Facts : inbox[f] = "PROCESSED" =>
          \/ f \in Accepts /\ decision[ShipmentOf[f]] = f
          \/ f \in Handovers /\ transfer[ShipmentOf[f]] # None
                             /\ SameTransfer(transfer[ShipmentOf[f]], f)
    /\ \A k \in Keys : idem[k] # None => decision[ShipmentOf[idem[k]]] = idem[k]

(* Custody only moves forward: to a driver, then to a hub, whatever mode    *)
(* switches and races happen in between.                                    *)
CustodyMovesForward ==
    [][\A s \in Shipments :
          LET before == shipment[s].custody
              after  == shipment'[s].custody
          IN  \/ after = before
              \/ before = None /\ after \in Drivers
              \/ before \in Drivers /\ after \in Hubs]_vars

(* The records of a shipment tell its custody: who holds it and why, how    *)
(* often it was written, and that what was answered has happened.           *)
RecordsTellCustody == CustodyExplained /\ VersionCountsWrites /\ AnswersAreTrue
=============================================================================
