--------------------------- MODULE MCSubscriptions ---------------------------
(* Subscriptions for TLC: each subscription has a user of its own, or all of
   them have the same. *)
EXTENDS Subscriptions, TLC

Owner == [s \in Sub |-> s]
OneUser == [s \in Sub |-> 1]

Symmetry == Permutations(Payment) \cup Permutations(Worker)
=============================================================================
