--------------------------- MODULE MCFactConsumer ---------------------------
(* Model checking FactConsumer on small instances: two replicas, of which   *)
(* one may run two handlers, and two handlers of one replica.               *)
EXTENDS FactConsumer, TLC

CONSTANTS f1, f2, s1, s2, rA, rB, hA, hB, hC

VARIABLE team  \* the handlers that are at work, of those there are

(* Facts about the same shipment, or each about its own. *)
OneShipment == [f \in Facts |-> s1]
TwoShipments == (f1 :> s1) @@ (f2 :> s2)

(* The second handler of rA is hC. *)
Placed == [h \in Handlers |-> IF h = hB THEN rB ELSE rA]

OneEach == {hA, hB}
Teams   == {OneEach, {hA, hB, hC}}

(* Bound: failures in one behaviour, fewer where two share a replica. *)
FewFailures ==
    /\ errors + crashes <= MaxCrashes
    /\ team # OneEach => errors + crashes + lost <= 1

(* Facts of one shipment have no order: call the one fetched first f1.  Nor *)
(* have idle handlers of a replica, or idle replicas.                       *)
FirstIsFirst == deliveries[f2] > 0 => deliveries[f1] > 0
Idle(h) == pc[h] = "idle"
FirstTakes == Idle(hA) /\ Idle(hC) => pc'[hC] = "idle"
FirstReplica ==
    (\A h \in Handlers : Idle(h)) /\ session[rA] = NoSession /\ session[rB] = NoSession
        => pc'[hB] = "idle"

TeamInit == Init /\ team \in Teams

TeamNext ==
    /\ UNCHANGED team
    /\ Next /\ ~BeginRace'
    /\ FirstIsFirst' /\ FirstTakes /\ FirstReplica
    /\ \A h \in Handlers \ team : pc'[h] = "idle"
    /\ FewFailures'

TeamSpec == TeamInit /\ [][TeamNext]_<<vars, team>> /\ Fairness

(* FactConsumer: with one handler on each replica every fact is decided, or *)
(* its deliveries are used up.                                              *)
DecidedByOneEach == team = OneEach => EventuallyDecided

(* Two handlers of one replica, and their races at begin(). *)
SharedSpec == Init /\ team = {hA, hC} /\ [][Next /\ UNCHANGED team]_<<vars, team>>
=============================================================================
