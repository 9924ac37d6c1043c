----------------------------- MODULE MCFinance -----------------------------
(* Model checking the finance service. *)
EXTENDS Finance, TLC

(* Parcels of one total, so that a deposit can cover both of two. *)
Totals == [p \in Parcels |-> 1]

(* Goods of different amounts. *)
Goods == [p \in Parcels |-> p]

(* Deposits and requests have no order. *)
Symmetry == Permutations(Deposits) \cup Permutations(Requests)
=============================================================================
