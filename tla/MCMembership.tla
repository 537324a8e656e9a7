---------------------------- MODULE MCMembership ----------------------------
(* Two nodes and a bootstrap address of the first, in a table of one entry; *)
(* a virtual node of each collides.                                         *)
EXTENDS Placement

CONSTANTS n1, n2, b1, me

MCPositions == (n1 :> {1, 3}) @@ (n2 :> {2, 3}) @@ (me :> {0, 3})
MCRank == (n1 :> 3) @@ (n2 :> 1) @@ (me :> 2)
MCPlaceholders == b1 :> n1
Symmetry == Permutations(Rebuilders)

=============================================================================
