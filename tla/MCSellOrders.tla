---------------------------- MODULE MCSellOrders ----------------------------
(* SellOrders for TLC. *)
EXTENDS SellOrders, TLC

Symmetry == Permutations(Job) \cup Permutations(Order) \cup Permutations(Caller)
=============================================================================
