---------------------------- MODULE MCOutboxRelay ----------------------------
(* Model checking OutboxRelay on small instances. *)
EXTENDS OutboxRelay, TLC

(* Rows and replicas are interchangeable; used by safety runs only. *)
Symmetry == Permutations(Rows) \cup Permutations(Relays)
=============================================================================
