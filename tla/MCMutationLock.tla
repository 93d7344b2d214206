--------------------------- MODULE MCMutationLock ---------------------------
(* A small instance of MutationLock for TLC. *)
EXTENDS MutationLock

CONSTANTS c1, c2, c3, d1, d2, d3, d4
=============================================================================
