------------------------------ MODULE MCPickup ------------------------------
(* Model checking the parts of the pickup service.                          *)
EXTENDS Pickup, TLC

(* What a device may send: a gap, a capture sent twice, the same operation  *)
(* at two places, two operations at one place, and two flawed captures.     *)
Captures ==
    {[id |-> "o1", sequence |-> 1, operation |-> "ARRIVE", flaw |-> None],
     [id |-> "o1", sequence |-> 2, operation |-> "ARRIVE", flaw |-> None],
     [id |-> "o2", sequence |-> 2, operation |-> "SCAN",   flaw |-> None],
     [id |-> "o2", sequence |-> 1, operation |-> "SCAN",   flaw |-> "CASE"],
     [id |-> "o3", sequence |-> 1, operation |-> "SCAN",   flaw |-> None],
     [id |-> "o3", sequence |-> 2, operation |-> "SCAN",   flaw |-> "REJECTED"]}
SentTogether ==
    {<<a>> : a \in Captures}
    \cup {b \in Captures \X Captures : b[1].id # b[2].id /\ b[1].sequence < b[2].sequence}

(* Attempts, keys and the requests of every part have no order. *)
Symmetry == Permutations(Attempts) \cup Permutations(Requests) \cup Permutations(Keys)
=============================================================================
