----------------------------- MODULE MCLastMile -----------------------------
(* Model checking what happens to a parcel from its acceptance to the door. *)
(* The door is checked twice: one visit that asks for everything, and two   *)
(* of one parcel that ask for a code only, which is the door of LastMile.   *)
EXTENDS LastMile

CONSTANT Places

VARIABLE everything  \* the door is that of Visit

(* Every request is about one shipment; the two drivers and the two hubs    *)
(* compete for it.                                                          *)
OneShipment   == [q \in Requests |-> "s1"]
RequestDriver == [q \in Requests |-> IF q \in {"a2", "o2"} THEN "d2" ELSE "d1"]
ReceivingHub  == [f \in Handovers |-> IF f = "o3" THEN "h2" ELSE "h1"]
KeyPerScan    == [c \in Scans |-> IF c = "c1" THEN "k1" ELSE "k2"]

(* Parcels for the second hub, by the road from the first.                  *)
ToTheSecond == [p \in Parcels |-> "h2"]
OneRoad     == {<<"h1", "h2">>}

EverythingAsked ==
    [seal |-> TRUE, openBox |-> TRUE, photos |-> TRUE, cod |-> TRUE, code |-> TRUE, named |-> TRUE]
CodeAsked ==
    {[seal |-> FALSE, openBox |-> FALSE, photos |-> FALSE, cod |-> FALSE, code |-> TRUE, named |-> FALSE]}
CodeVersions == [s \in Stops |-> IF s = 1 THEN 3 ELSE 5]

Visit == INSTANCE DeliveryStop WITH
    Terms <- {EverythingAsked}, MaxVersion <- [s \in Stops |-> IF s = 1 THEN 8 ELSE 0],
    opened <- vOpened, stop <- vStop, checked <- vChecked,
    photos <- vPhotos, payment <- vPayment, failed <- vFailed, facts <- vFacts,
    wished <- vWished, rated <- vRated, reported <- vReported

MCInit ==
    /\ place \in Places /\ everything \in (IF place = "door" THEN BOOLEAN ELSE {FALSE})
    /\ Init /\ (place # "custody" => mode = "HTTP")
    /\ Counter!Init /\ Road!Init /\ Door!Init

(* Idle workers have no order: the first of them takes the next request. *)
FirstTakes ==
    request["wA"] = None /\ "wA" \notin wedged /\ request["wB"] = None
        => request'["wB"] = None

(* A linehaul is planned as soon as its consignment is opened: nothing but  *)
(* its departure waits for that, and consignments without one occur.        *)
PlannedWhenOpened ==
    \A c \in Planned : lConsignment[c] # None /\ lLinehaul[c] = None => lLinehaul'[c] # None

MCNext ==
    /\ UNCHANGED everything
    /\ \/ /\ ~everything /\ LastMileNext
          /\ place = "custody" => FirstTakes
          /\ place = "road" => PlannedWhenOpened
       \/ everything /\ Visit!Next /\ UNCHANGED <<place, vars, kVars, lVars>>

MCSpec == MCInit /\ [][MCNext]_<<everything, place, vars, kVars, lVars, vVars>>

(* DeliveryStop: a broken seal stops the handover. *)
BrokenSealStopsTheHandover == Visit!BrokenSealStopsTheHandover
=============================================================================
