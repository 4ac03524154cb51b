-------------------------- MODULE MCPositionLedger --------------------------
(* PositionLedger for TLC. *)
EXTENDS PositionLedger, TLC

Symmetry == Permutations(Position) \cup Permutations(BuyJob) \cup
            Permutations(SellJob) \cup Permutations(Worker)
=============================================================================
