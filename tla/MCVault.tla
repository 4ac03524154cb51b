------------------------------- MODULE MCVault -------------------------------
(* Vault for TLC. *)
EXTENDS Vault, TLC

Symmetry == Permutations(Worker)
=============================================================================
