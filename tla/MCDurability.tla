---------------------------- MODULE MCDurability ----------------------------
(* Two writes of one document, pushed to two peers.                         *)
EXTENDS Durability

=============================================================================
