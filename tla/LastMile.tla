------------------------------ MODULE LastMile ------------------------------
(* What happens to a parcel from its acceptance to the door: its custody    *)
(* (shipment service), counter and linehaul (hub service) and the stop      *)
(* (delivery service).  Each keeps rows of its own and hears of the others  *)
(* only by events that its module takes as inputs: a behaviour picks one    *)
(* place at the start.                                                      *)
EXTENDS ShipmentCustody

CONSTANTS
    DropOffs, Codes, Labels,                       \* of HubDropOff
    Parcels, City, Routes, Consignments, Planned,  \* of HubLinehaul
    Stops, Terms, MaxGuesses, MaxVersion           \* of DeliveryStop

VARIABLES
    place,
    kDropOff, kOverdue, kAccepted,                                \* the counter
    lPresence, lConsignment, lLinehaul, lFailed, lTold, lAdding,  \* the linehaul
    vOpened, vStop, vChecked, vPhotos, vPayment, vFailed, vFacts,
    vWished, vRated, vReported                                    \* the door

Counter == INSTANCE HubDropOff WITH
    dropOff <- kDropOff, overdue <- kOverdue, accepted <- kAccepted

Road == INSTANCE HubLinehaul WITH
    presence <- lPresence, consignment <- lConsignment, linehaul <- lLinehaul,
    failed <- lFailed, told <- lTold, adding <- lAdding

Door == INSTANCE DeliveryStop WITH
    opened <- vOpened, stop <- vStop, checked <- vChecked,
    photos <- vPhotos, payment <- vPayment, failed <- vFailed, facts <- vFacts,
    wished <- vWished, rated <- vRated, reported <- vReported

\* NULL is no value and no row of any table.
ASSUME CounterConstants ==
    None \notin Labels /\ None \notin Counter!Row

ASSUME RoadConstants ==
    /\ Routes \subseteq Hubs \X Hubs
    /\ None \notin Consignments
    /\ None \notin Road!PresenceRow /\ None \notin Road!ConsignmentRow
    /\ None \notin {"PLANNED", "DEPARTED", "ARRIVED"}
    /\ None \notin [consignment: Consignments, parcel: Parcels, read: Road!PresenceRow]

ASSUME DoorConstants ==
    /\ Terms \subseteq Door!ParcelTerms
    /\ MaxGuesses \in Nat
    /\ None \notin Door!StopRow
    /\ None \notin Door!Inspections \cup Door!Decisions \cup Door!PaymentMethods
    /\ None \notin {"INTACT", "BROKEN", "UNDECIDED"}

kVars == <<kDropOff, kOverdue, kAccepted>>
lVars == <<lPresence, lConsignment, lLinehaul, lFailed, lTold, lAdding>>
vVars == <<vOpened, vStop, vChecked, vPhotos, vPayment, vFailed, vFacts,
           vWished, vRated, vReported>>

LastMileInit ==
    /\ place \in {"custody", "counter", "road", "door"}
    /\ Init /\ Counter!Init /\ Road!Init /\ Door!Init

LastMileNext ==
    /\ UNCHANGED place
    /\ \/ place = "custody" /\ Next /\ UNCHANGED <<kVars, lVars, vVars>>
       \/ place = "counter" /\ Counter!Next /\ UNCHANGED <<vars, lVars, vVars>>
       \/ place = "road"    /\ Road!Next /\ UNCHANGED <<vars, kVars, vVars>>
       \/ place = "door"    /\ Door!Next /\ UNCHANGED <<vars, kVars, lVars>>

LastMileSpec == LastMileInit /\ [][LastMileNext]_<<place, vars, kVars, lVars, vVars>>

-----------------------------------------------------------------------------
(* The properties of the places; each module says what they mean.  The      *)
(* tables of the other places stay as they were made.                       *)

(* Every variable keeps the shape of its table. *)
TypesOK ==
    /\ place = "custody" => TypeOK
    /\ place = "counter" => Counter!TypeOK
    /\ place = "road"    => Road!TypeOK
    /\ place = "door"    => Door!TypeOK

(* HubDropOff: one drop-off of a parcel is under way, its label on no other *)
CounterIsInOrder == place = "counter" => Counter!CounterIsInOrder

(* HubLinehaul: consignments and parcels tell one story. *)
ConsignmentsTellParcels == place = "road" => Road!ConsignmentsTellParcels

(* HubLinehaul: a held parcel moves by a dispatch only. *)
OnlyADispatchFrees == Road!OnlyADispatchFrees

(* DeliveryStop: who took a parcel had proved it and paid. *)
HandedOverInOrder == place = "door" => Door!HandedOverInOrder

(* DeliveryStop: other services learn what happened at the door. *)
FactsTellTheVisit == place = "door" => Door!FactsTellTheVisit

(* DeliveryStop: what is settled at a door stays settled. *)
SettledAtTheDoor == Door!SettledAtTheDoor
=============================================================================
