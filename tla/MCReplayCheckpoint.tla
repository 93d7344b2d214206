------------------------- MODULE MCReplayCheckpoint -------------------------
(* The files are interchangeable. *)
EXTENDS ReplayCheckpoint, TLC

CONSTANTS f1, f2, f3, q1

Symmetry == Permutations(Inodes)
=============================================================================
