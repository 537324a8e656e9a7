--------------------------- MODULE MCHybridClock ---------------------------
(* HybridClock on a small instance. *)
EXTENDS HybridClock
=============================================================================
