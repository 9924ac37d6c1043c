------------------------------- MODULE Sends -------------------------------
(***************************************************************************)
(* The sender's half of a parcel's life, in the ordering service: details  *)
(* are typed, a merchant's parcel is labelled, a courier's visit is booked *)
(* for a whole order, and the parcel is registered with the network, or    *)
(* cancelled.  A request reads the rows it works on and writes them only   *)
(* under the versions it read; registering and cancelling announce it.     *)
(*                                                                         *)
(* Abstractions.  What a sender types is one value, and the amount due at  *)
(* the door another.  No code assigns a courier to a parcel or tells       *)
(* ordering that one was collected, so both are left out, and so is the    *)
(* status of an order, which stays open.  Tracking codes are the parcels.  *)
(***************************************************************************)
EXTENDS Naturals

CONSTANTS
    Parcels,    \* shipment requests, numbered in the order they are made
    Orders,
    Merchants,  \* orders placed for a merchant; a customer placed the others
    Labels,     \* pre-printed labels
    Details,    \* what a sender may type
    Amounts,    \* amounts to collect at the door
    Clerks,     \* requests in flight
    None,
    MaxVersion  \* bound on the versions of a row

VARIABLES
    placed,     \* orders that were opened
    parcel,     \* the row of each parcel, or None
    facts,      \* the outbox
    opened      \* of each request: the rows it read, or None

vars == <<placed, parcel, facts, opened>>

-----------------------------------------------------------------------------
\* A window is booked for the order, or typed by the sender into one parcel.
ParcelRow ==
    [order: Orders, label: Labels \cup {None}, window: {None, "BOOKED", "TYPED"},
     details: Details, cod: Amounts \cup {None}, version: 1 .. MaxVersion,
     status: {"AWAITING_LABEL", "READY_FOR_PICKUP", "AWAITING_DROPOFF",
              "REGISTERED", "CANCELLED"}]

\* REQUEST_TRANSITIONS, without the way back to waiting for a label, which no
\* code takes, and without drafts, which no code makes.
OnwardOf(status) ==
    CASE status = "AWAITING_LABEL"   -> {"READY_FOR_PICKUP", "CANCELLED"}
      [] status = "READY_FOR_PICKUP" -> {"REGISTERED", "CANCELLED"}
      [] status = "AWAITING_DROPOFF" -> {"REGISTERED", "CANCELLED"}
      [] OTHER                       -> {}

Made(p)   == parcel[p] # None
IsNext(p) == ~Made(p) /\ \A q \in Parcels : q < p => Made(q)

Ended == {"CANCELLED", "REGISTERED"}

\* The parcels a visit is booked for.
IsLive(p) == Made(p) /\ parcel[p].status \notin Ended

\* uq_shipment_request_label_code
LabelTaken(label) ==
    \E p \in Parcels : Made(p) /\ parcel[p].label = label /\ parcel[p].status # "CANCELLED"

Init ==
    /\ placed = {}
    /\ parcel = [p \in Parcels |-> None]
    /\ facts = {}
    /\ opened = [c \in Clerks |-> None]

-----------------------------------------------------------------------------
(* Requests *)

Read(c, rows) ==
    /\ opened[c] = None /\ rows # {}
    /\ opened' = [opened EXCEPT ![c] = [p \in rows |-> parcel[p]]]
    /\ UNCHANGED <<placed, parcel, facts>>

\* A request that is refused, or finds a row changed, leaves nothing behind.
Leave(c) ==
    /\ opened[c] # None
    /\ opened' = [opened EXCEPT ![c] = None]
    /\ UNCHANGED <<placed, parcel, facts>>

Opened(c, rows) == opened[c] # None /\ DOMAIN opened[c] = rows

(* Mutated form of Fresh: the update does not name the version it read. *)
MutFresh(c, rows) == TRUE

Fresh(c, rows) == \A p \in rows : parcel[p].version = opened[c][p].version

\* The rows in "after" are written; the rest of each is as it was read.
Write(c, after) ==
    /\ Fresh(c, DOMAIN after)
    /\ \A p \in DOMAIN after : opened[c][p].version < MaxVersion
    /\ parcel' = [p \in Parcels |->
          IF p \in DOMAIN after THEN [after[p] EXCEPT !.version = @ + 1] ELSE parcel[p]]
    /\ opened' = [opened EXCEPT ![c] = None]
    /\ UNCHANGED placed

WriteOne(c, p, row) == Write(c, [q \in {p} |-> row])

-----------------------------------------------------------------------------
(* Orders and parcels *)

OpenOrder(o) ==
    /\ o \notin placed
    /\ placed' = placed \cup {o}
    /\ UNCHANGED <<parcel, facts, opened>>

\* Only a merchant's parcel is paid for at the door, and waits for a label.
AddShipment(p, o, details, cod) ==
    /\ o \in placed /\ IsNext(p)
    /\ cod # None => o \in Merchants
    /\ parcel' = [parcel EXCEPT ![p] =
          [order |-> o, label |-> None, window |-> None, details |-> details, cod |-> cod,
           version |-> 1,
           status |-> IF o \in Merchants THEN "AWAITING_LABEL" ELSE "AWAITING_DROPOFF"]]
    /\ UNCHANGED <<placed, facts, opened>>

LinkLabel(c, p, label) ==
    /\ Opened(c, {p})
    /\ opened[c][p].order \in Merchants /\ opened[c][p].status = "AWAITING_LABEL"
    /\ ~LabelTaken(label)
    /\ WriteOne(c, p, [opened[c][p] EXCEPT !.label = label, !.status = "READY_FOR_PICKUP"])
    /\ UNCHANGED facts

\* For the parcels that were listed; one added meanwhile is not among them.
BookPickup(c, o) ==
    /\ opened[c] # None /\ o \in Merchants
    /\ LET listed == DOMAIN opened[c]
       IN  /\ \A p \in listed : /\ opened[c][p].order = o /\ opened[c][p].label # None
                                /\ opened[c][p].status \notin Ended
           /\ Write(c, [p \in listed |-> [opened[c][p] EXCEPT !.window = "BOOKED"]])
    /\ UNCHANGED facts

-----------------------------------------------------------------------------
(* Amendments *)

\* Every field is open to the sender until the parcel is registered.
Amend(c, p, details, typed) ==
    /\ Opened(c, {p})
    /\ opened[c][p].status \notin Ended
    /\ WriteOne(c, p, [opened[c][p] EXCEPT !.details = details,
                                          !.window = IF typed THEN "TYPED" ELSE @])
    /\ UNCHANGED facts

\* change_cod_amount, and the same correction by support.
ChangeCodAmount(c, p, amount) ==
    /\ Opened(c, {p})
    /\ opened[c][p].cod # None /\ opened[c][p].status # "CANCELLED"
    /\ WriteOne(c, p, [opened[c][p] EXCEPT !.cod = amount])
    /\ UNCHANGED facts

\* The receiver, at any time before the parcel is closed.
ApplySupportCorrection(c, p, details) ==
    /\ Opened(c, {p})
    /\ opened[c][p].status # "CANCELLED"
    /\ WriteOne(c, p, [opened[c][p] EXCEPT !.details = details])
    /\ UNCHANGED facts

-----------------------------------------------------------------------------
(* The end of the sender's half *)

Fact(p, row, kind) ==
    [parcel |-> p, kind |-> kind, label |-> row.label, details |-> row.details,
     cod |-> row.cod, version |-> row.version + 1]

Register(c, p) ==
    /\ Opened(c, {p})
    /\ "REGISTERED" \in OnwardOf(opened[c][p].status)
    /\ WriteOne(c, p, [opened[c][p] EXCEPT !.status = "REGISTERED"])
    /\ facts' = facts \cup {Fact(p, opened[c][p], "REGISTERED")}

Cancel(c, p) ==
    /\ Opened(c, {p})
    /\ "CANCELLED" \in OnwardOf(opened[c][p].status)
    /\ WriteOne(c, p, [opened[c][p] EXCEPT !.status = "CANCELLED"])
    /\ facts' = facts \cup {Fact(p, opened[c][p], "CANCELLED")}

-----------------------------------------------------------------------------
Next ==
    \/ \E o \in Orders : OpenOrder(o)
    \/ \E p \in Parcels, o \in Orders, details \in Details, cod \in Amounts \cup {None} :
          AddShipment(p, o, details, cod)
    \/ \E c \in Clerks :
          \/ Leave(c)
          \/ \E p \in Parcels : Made(p) /\ Read(c, {p})
          \/ \E o \in Orders :
                \/ Read(c, {p \in Parcels : IsLive(p) /\ parcel[p].order = o})
                \/ BookPickup(c, o)
          \/ \E p \in Parcels :
                \/ \E label \in Labels : LinkLabel(c, p, label)
                \/ \E details \in Details :
                      \/ ApplySupportCorrection(c, p, details)
                      \/ \E typed \in BOOLEAN : Amend(c, p, details, typed)
                \/ \E amount \in Amounts : ChangeCodAmount(c, p, amount)
                \/ Register(c, p) \/ Cancel(c, p)

Spec == Init /\ [][Next]_vars

-----------------------------------------------------------------------------
(* Properties *)

\* Every variable keeps the shape of its table.
TypeOK ==
    /\ placed \subseteq Orders
    /\ parcel \in [Parcels -> ParcelRow \cup {None}]
    /\ facts \subseteq
          [parcel: Parcels, kind: {"REGISTERED", "CANCELLED"}, label: Labels \cup {None},
           details: Details, cod: Amounts \cup {None}, version: 2 .. MaxVersion]
    /\ \A c \in Clerks : opened[c] # None =>
          DOMAIN opened[c] \subseteq Parcels /\ \A p \in DOMAIN opened[c] : opened[c][p] \in ParcelRow

\* Whoever labels, books, amends, registers and cancels at once, a parcel is
\* announced once, when its half ends, and the fact is the row as it stood:
\* of what it says, only a registered parcel's details and amount have moved
\* since.  A parcel the network was told of bears its label if a merchant
\* sends it, no other live parcel bears the same, and a courier is booked only
\* for labelled parcels of a merchant.
SendsTellOneStory ==
    \A p \in Parcels :
        LET told == {f \in facts : f.parcel = p}
        IN  IF ~Made(p) THEN told = {}
            ELSE /\ parcel[p].status \in Ended =>
                       \E f \in told : told = {f} /\ f.kind = parcel[p].status
                                       /\ f.label = parcel[p].label
                 /\ IsLive(p) => told = {}
                 /\ \A f \in told :
                       \/ parcel[p].status = "REGISTERED" /\ f.version < parcel[p].version
                       \/ /\ f.version = parcel[p].version
                          /\ f.details = parcel[p].details /\ f.cod = parcel[p].cod
                 /\ parcel[p].window = "BOOKED" =>
                       parcel[p].order \in Merchants /\ parcel[p].label # None
                 /\ parcel[p].status = "REGISTERED" /\ parcel[p].order \in Merchants =>
                       parcel[p].label # None
                 /\ \A q \in Parcels \ {p} :
                       Made(q) /\ parcel[p].label # None /\ parcel[q].label = parcel[p].label =>
                           "CANCELLED" \in {parcel[p].status, parcel[q].status}
=============================================================================
