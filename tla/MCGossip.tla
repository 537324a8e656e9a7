------------------------------ MODULE MCGossip ------------------------------
(* Replication between two nodes that write to two keys. *)
EXTENDS Replication, TLC

CONSTANTS n1, n2

\* n2 stamps ahead of n1.
MCStampsOf == n1 :> {1} @@ n2 :> {2}
=============================================================================
