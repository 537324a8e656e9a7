------------------------------ MODULE MCLedger ------------------------------
(* Ledger on small instances. *)
EXTENDS Ledger, TLC

Symmetry == Permutations(Keys)
=============================================================================
