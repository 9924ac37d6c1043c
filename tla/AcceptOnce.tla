----------------------------- MODULE AcceptOnce -----------------------------
(***************************************************************************)
(* What accepting pickups promises: each accepted fact gets one verdict,   *)
(* custody of a shipment starts at most once and only by the fact that is  *)
(* applied, and the broker forgets a fact only after its verdict.          *)
(***************************************************************************)
CONSTANTS Facts, Shipments, ShipmentOf, NoFact

VARIABLES
    verdict,    \* "none", "applied" or "refused", for each fact
    custody,    \* the fact that started custody of each shipment
    forgotten   \* facts the broker will not deliver again

vars == <<verdict, custody, forgotten>>

Init ==
    /\ verdict = [f \in Facts |-> "none"]
    /\ custody = [s \in Shipments |-> NoFact]
    /\ forgotten = {}

Apply(f) ==
    /\ verdict[f] = "none"
    /\ custody[ShipmentOf[f]] = NoFact
    /\ verdict' = [verdict EXCEPT ![f] = "applied"]
    /\ custody' = [custody EXCEPT ![ShipmentOf[f]] = f]
    /\ UNCHANGED forgotten

Refuse(f) ==
    /\ verdict[f] = "none"
    /\ verdict' = [verdict EXCEPT ![f] = "refused"]
    /\ UNCHANGED <<custody, forgotten>>

Forget(f) ==
    /\ verdict[f] # "none"
    /\ forgotten' = forgotten \cup {f}
    /\ UNCHANGED <<verdict, custody>>

Next == \E f \in Facts : Apply(f) \/ Refuse(f) \/ Forget(f)

Spec == Init /\ [][Next]_vars
=============================================================================
