---------------------------- MODULE MCNodeWrites ----------------------------
(* NodeWrites on a small instance. *)
EXTENDS NodeWrites, TLC

CONSTANTS f1, f2, t1, t2

\* A peer's write of the first field, between two of the node's stamps.
MCRemoteDocs == {f1 :> 2 @@ f2 :> 0}

Symmetry == Permutations(Threads)
=============================================================================
