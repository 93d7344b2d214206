------------------------ MODULE MCJournalCompaction ------------------------
(* Small instances of JournalCompaction for TLC. *)
EXTENDS JournalCompaction

CONSTANTS r1, r2, r3, i1

Symmetry == Permutations(Reservations)

\* What makes one record need another reservation's history, and what changes
\* the stage, the evidence and the clock of a reservation.
Everything == {"claim", "widen", "retarget", "checkpoint", "resnapshot", "evidence",
               "release", "replace", "extent", "sequence", "incursion", "resolve"}
=============================================================================
