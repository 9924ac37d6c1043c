------------------------------ MODULE HubLinehaul ------------------------------
(***************************************************************************)
(* Parcels inside hubs and between them.  A hub scans a parcel in, sorts   *)
(* it, and either hands it to the last mile or groups it in a consignment  *)
(* that a linehaul carries to another hub, where the seal is checked and   *)
(* the consignment reconciled.                                             *)
(*                                                                         *)
(* Every row carries a version and is written only under the version it    *)
(* was read with, so a request is one step; except that adding a parcel    *)
(* which its consignment already names writes the parcel alone: what it    *)
(* read of the consignment may be stale by then.                           *)
(*                                                                         *)
(* Abstractions.  A city is its hub, and a label names one city wherever   *)
(* it is read.  A closed hub and a cut-off refuse, which writes nothing.   *)
(* Positions, urgency, routes and deviations are left out: nothing reads   *)
(* them.  A seal is there or not; its code is unique.                      *)
(***************************************************************************)
EXTENDS Naturals, FiniteSets

CONSTANTS
    Hubs,
    Parcels,
    City,          \* the hub of the city each parcel is for
    Routes,        \* pairs of hubs that consignments are opened between
    Consignments,  \* consignments, numbered in the order they are opened
    Planned,       \* the consignments a linehaul is planned for
    None

VARIABLES
    presence,      \* presence[h][p]: the row of a parcel in a hub, or None
    consignment,   \* the row of each consignment, or None
    linehaul,      \* the status of the move of each consignment, or None
    failed,        \* consignments with a seal check that did not match
    told,          \* the outbox: parcels announced as held
    adding         \* a repeated addition between its reads and its commit

yard == <<presence, told, adding>>
road == <<consignment, linehaul, failed>>
vars == <<yard, road>>

-----------------------------------------------------------------------------
PresenceRow == [status: {"RECEIVED", "SORTED", "GROUPED", "DEPARTED",
                         "READY_FOR_LAST_MILE", "HANDED_TO_LAST_MILE", "HELD"},
                routing: {"SAME_CITY_DIRECT", "INTER_CITY_LINEHAUL", None},
                consignment: Consignments \cup {None}]

ConsignmentRow == [from: Hubs, to: Hubs, sealed: BOOLEAN, codes: SUBSET Parcels,
                   status: {"OPEN", "SEALED", "DISPATCHED", "ARRIVED", "RECONCILED",
                            "UNDER_TAMPER_INVESTIGATION"}]

\* CONSIGNMENT_TRANSITIONS, less the investigation, which asks for none.
MayBecome(from, to) ==
    to \in (CASE from = "OPEN"       -> {"SEALED", "DISPATCHED"}
              [] from = "SEALED"     -> {"DISPATCHED"}
              [] from = "DISPATCHED" -> {"ARRIVED"}
              [] from = "ARRIVED"    -> {"RECONCILED"}
              [] OTHER               -> {})

Present(h, p) == presence[h][p] # None
IsHeld(h, p)  == presence[h][p].status = "HELD"
Opened(c)     == consignment[c] # None

\* list_for_consignment: by the presence rows, not by the codes.
Carries(c) == {at \in Hubs \X Parcels :
                  Present(at[1], at[2]) /\ presence[at[1]][at[2]].consignment = c}

Init ==
    /\ presence = [h \in Hubs |-> [p \in Parcels |-> None]]
    /\ consignment = [c \in Consignments |-> None]
    /\ linehaul = [c \in Consignments |-> None]
    /\ failed = {}
    /\ told = {}
    /\ adding = None

Store(h, p, row) == presence' = [presence EXCEPT ![h][p] = row]

-----------------------------------------------------------------------------
(* Inside a hub *)

\* Once in each hub, wherever else the parcel is; the unique key says the same.
ScanIn(h, p) ==
    /\ ~Present(h, p)
    /\ Store(h, p, [status |-> "RECEIVED", routing |-> None, consignment |-> None])
    /\ UNCHANGED <<told, adding, road>>

\* From any status but HELD; a consignment is not forgotten.
Sort(h, p) ==
    /\ Present(h, p) /\ ~IsHeld(h, p)
    /\ Store(h, p, [presence[h][p] EXCEPT
          !.status  = IF City[p] = h THEN "READY_FOR_LAST_MILE" ELSE "SORTED",
          !.routing = IF City[p] = h THEN "SAME_CITY_DIRECT" ELSE "INTER_CITY_LINEHAUL"])
    /\ UNCHANGED <<told, adding, road>>

\* From any status.  A request may name a consignment, of any hub.
Hold(h, p, c) ==
    /\ Present(h, p)
    /\ Store(h, p, [presence[h][p] EXCEPT
          !.status = "HELD", !.consignment = IF c = None THEN @ ELSE c])
    /\ told' = told \cup {p}
    /\ UNCHANGED <<adding, road>>

(* Mutated form of MayLeave: what is held is not looked at. *)
MutMayLeave(h, p) == presence[h][p].status \in {"READY_FOR_LAST_MILE", "HELD"}

MayLeave(h, p) == presence[h][p].status = "READY_FOR_LAST_MILE"

HandToLastMile(h, p) ==
    /\ Present(h, p) /\ MayLeave(h, p)
    /\ Store(h, p, [presence[h][p] EXCEPT !.status = "HANDED_TO_LAST_MILE"])
    /\ UNCHANGED <<told, adding, road>>

-----------------------------------------------------------------------------
(* Consignments *)

OpenConsignment(c, from, to) ==
    /\ ~Opened(c) /\ \A d \in Consignments : d < c => Opened(d)
    /\ consignment' = [consignment EXCEPT ![c] =
          [from |-> from, to |-> to, sealed |-> FALSE, codes |-> {}, status |-> "OPEN"]]
    /\ UNCHANGED <<yard, linehaul, failed>>

\* A parcel is not asked where it is going.
MayGroup(c, p) ==
    LET h == consignment[c].from
    IN  /\ Opened(c) /\ consignment[c].status = "OPEN"
        /\ Present(h, p) /\ presence[h][p].status = "SORTED"
        /\ presence[h][p].routing # "SAME_CITY_DIRECT"

Grouped(row, c) == [row EXCEPT !.status = "GROUPED", !.consignment = c]

AddParcel(c, p) ==
    /\ MayGroup(c, p) /\ p \notin consignment[c].codes
    /\ consignment' = [consignment EXCEPT ![c].codes = @ \cup {p}]
    /\ Store(consignment[c].from, p, Grouped(presence[consignment[c].from][p], c))
    /\ UNCHANGED <<told, adding, linehaul, failed>>

\* Sorted again, the parcel can be added again: its code is there already.
BeginAddAgain(c, p) ==
    /\ adding = None
    /\ MayGroup(c, p) /\ p \in consignment[c].codes
    /\ adding' = [consignment |-> c, parcel |-> p, read |-> presence[consignment[c].from][p]]
    /\ UNCHANGED <<presence, told, road>>

FinishAddAgain ==
    /\ adding # None
    /\ LET h == consignment[adding.consignment].from
       IN  IF presence[h][adding.parcel] = adding.read
           THEN Store(h, adding.parcel, Grouped(adding.read, adding.consignment))
           ELSE UNCHANGED presence
    /\ adding' = None
    /\ UNCHANGED <<told, road>>

ApplySeal(c) ==
    /\ Opened(c) /\ ~consignment[c].sealed
    /\ MayBecome(consignment[c].status, "SEALED")
    /\ consignment' = [consignment EXCEPT ![c].status = "SEALED", ![c].sealed = TRUE]
    /\ UNCHANGED <<yard, linehaul, failed>>

\* All it carries departs: what is held too.
Dispatch(c) ==
    /\ Opened(c) /\ consignment[c].codes # {}
    /\ MayBecome(consignment[c].status, "DISPATCHED")
    /\ consignment' = [consignment EXCEPT ![c].status = "DISPATCHED"]
    /\ presence' = [h \in Hubs |-> [p \in Parcels |->
          IF <<h, p>> \in Carries(c) THEN [presence[h][p] EXCEPT !.status = "DEPARTED"]
          ELSE presence[h][p]]]
    /\ UNCHANGED <<told, adding, linehaul, failed>>

\* Arrival closes the linehaul if it had departed; nothing waits for that.
RecordArrival(c) ==
    /\ Opened(c) /\ MayBecome(consignment[c].status, "ARRIVED")
    /\ consignment' = [consignment EXCEPT ![c].status = "ARRIVED"]
    /\ linehaul' = [linehaul EXCEPT ![c] = IF @ = "DEPARTED" THEN "ARRIVED" ELSE @]
    /\ UNCHANGED <<yard, failed>>

\* At any status: a seal that does not match stops the consignment for good.
\* One that matches is put on record and changes nothing.
CheckSeal(c) ==
    /\ Opened(c) /\ consignment[c].sealed
    /\ failed' = failed \cup {c}
    /\ consignment' = [consignment EXCEPT ![c].status = "UNDER_TAMPER_INVESTIGATION"]
    /\ UNCHANGED <<yard, linehaul>>

(* Mutated form of Arriving: only what was in the origin hub arrives. *)
MutArriving(c) ==
    {at \in Carries(c) : ~IsHeld(at[1], at[2]) /\ at[1] = consignment[c].from}

\* What is held stays where it is.  Moving the rest collides with a parcel that
\* was already scanned in at the destination, and then nothing is reconciled.
Arriving(c) == {at \in Carries(c) : ~IsHeld(at[1], at[2])}

NoneIsThere(c) ==
    \A at \in Arriving(c) :
        /\ at[1] # consignment[c].to => ~Present(consignment[c].to, at[2])
        /\ \A other \in Arriving(c) : other[2] = at[2] => other = at

Reconcile(c) ==
    /\ Opened(c) /\ MayBecome(consignment[c].status, "RECONCILED")
    /\ NoneIsThere(c)
    /\ consignment' = [consignment EXCEPT ![c].status = "RECONCILED"]
    /\ presence' = [h \in Hubs |-> [p \in Parcels |->
          IF h = consignment[c].to /\ \E from \in Hubs : <<from, p>> \in Arriving(c)
          THEN LET from == CHOOSE from \in Hubs : <<from, p>> \in Arriving(c)
               IN  [presence[from][p] EXCEPT !.status = "READY_FOR_LAST_MILE"]
          ELSE IF <<h, p>> \in Arriving(c) THEN None ELSE presence[h][p]]]
    /\ UNCHANGED <<told, adding, linehaul, failed>>

PlanLinehaul(c) ==
    /\ c \in Planned
    /\ Opened(c) /\ linehaul[c] = None
    /\ linehaul' = [linehaul EXCEPT ![c] = "PLANNED"]
    /\ UNCHANGED <<yard, consignment, failed>>

Depart(c) ==
    /\ linehaul[c] = "PLANNED"
    /\ linehaul' = [linehaul EXCEPT ![c] = "DEPARTED"]
    /\ UNCHANGED <<yard, consignment, failed>>

-----------------------------------------------------------------------------
Next ==
    \/ \E h \in Hubs, p \in Parcels :
          \/ ScanIn(h, p) \/ Sort(h, p) \/ HandToLastMile(h, p)
          \/ \E c \in {d \in Consignments : Opened(d)} \cup {None} : Hold(h, p, c)
    \/ \E c \in Consignments :
          \/ \E route \in Routes : OpenConsignment(c, route[1], route[2])
          \/ \E p \in Parcels : AddParcel(c, p) \/ BeginAddAgain(c, p)
          \/ ApplySeal(c) \/ Dispatch(c) \/ RecordArrival(c) \/ Reconcile(c)
          \/ CheckSeal(c) \/ PlanLinehaul(c) \/ Depart(c)
    \/ FinishAddAgain

Spec == Init /\ [][Next]_vars

-----------------------------------------------------------------------------
(* Properties *)

\* Every variable keeps the shape of its table.
TypeOK ==
    /\ presence \in [Hubs -> [Parcels -> PresenceRow \cup {None}]]
    /\ consignment \in [Consignments -> ConsignmentRow \cup {None}]
    /\ linehaul \in [Consignments -> {"PLANNED", "DEPARTED", "ARRIVED", None}]
    /\ failed \subseteq Consignments
    /\ told \subseteq Parcels
    /\ adding \in [consignment: Consignments, parcel: Parcels, read: PresenceRow] \cup {None}

\* Consignments and parcels tell one story, although they are written apart:
\* what is grouped is named by its consignment, which is not for a parcel of
\* the same city; what has departed did so with a consignment still on its
\* way or stopped, so none is left behind by a reconciliation; what is held
\* was announced; and a linehaul has not arrived
\* before its consignment has.
ConsignmentsTellParcels ==
    /\ \A h \in Hubs, p \in Parcels : Present(h, p) =>
          LET row == presence[h][p]
          IN  /\ row.status = "GROUPED" => p \in consignment[row.consignment].codes
              /\ row.status = "DEPARTED" =>
                    consignment[row.consignment].status \in
                        {"DISPATCHED", "ARRIVED", "UNDER_TAMPER_INVESTIGATION"}
              /\ row.status = "HELD" => p \in told
    /\ \A c \in Consignments : Opened(c) =>
          /\ \A p \in consignment[c].codes : City[p] # consignment[c].from
          /\ linehaul[c] = "ARRIVED" =>
                consignment[c].status \in {"ARRIVED", "RECONCILED", "UNDER_TAMPER_INVESTIGATION"}

\* A parcel that is held stays held, where it is, until the consignment it
\* belongs to is dispatched: nothing else lets it go, and that does.  A
\* consignment whose seal did not match is stopped for good, and carries
\* nothing on to the last mile.
OnlyADispatchFrees ==
    [][/\ \A h \in Hubs, p \in Parcels : Present(h, p) /\ IsHeld(h, p) =>
             /\ presence'[h][p] # None
             /\ \/ presence'[h][p].status = "HELD"
                \/ LET c == presence[h][p].consignment
                   IN  /\ presence'[h][p].status = "DEPARTED"
                       /\ c # None /\ consignment[c].status \in {"OPEN", "SEALED"}
                       /\ consignment'[c].status = "DISPATCHED"
       /\ \A c \in failed : consignment'[c] = consignment[c]]_vars
=============================================================================
