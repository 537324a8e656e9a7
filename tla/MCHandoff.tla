----------------------------- MODULE MCHandoff -----------------------------
(* Handoff on a small instance. *)
EXTENDS Handoff, TLC

CONSTANTS self, peer, t1, t2

\* Two documents that share a key, and one with a key of its own.
MCDocs == {<<"c1", "k1">>, <<"c2", "k1">>, <<"c1", "k2">>}

\* The holder ranks first for the documents of one collection only.
MCRanking ==
    [d \in MCDocs |-> IF d[1] = "c1" THEN <<self, peer>> ELSE <<peer, self>>]

Symmetry == Permutations(Threads)
=============================================================================
