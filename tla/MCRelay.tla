------------------------------ MODULE MCRelay ------------------------------
(* Replication between three nodes, two of which write. *)
EXTENDS Replication, TLC

CONSTANTS n1, n2, n3

\* Either writer may be the first: n2's stamp is the larger all the same.
MCStampsOf == n1 :> {1} @@ n2 :> {2} @@ n3 :> {}
=============================================================================
