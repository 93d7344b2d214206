--------------------------- MODULE MCBerthLedger ---------------------------
(* Small instances of BerthLedger for TLC. *)
EXTENDS BerthLedgerRefinement, TLC

CONSTANTS p1, p2, p3, r1, r2

MCOverlaps == {{r1, r2}}
Symmetry == Permutations({r1, r2})

\* Two writers that race, one of which also reads without the lock, the other
\* also compacts.
Writers == p1 :> {"mutate", "read"} @@ p2 :> {"mutate", "compact"}
\* Two writers, one of which repairs the projection, and one discards the journal
\* and compacts after its transactions.
Resets == p1 :> {"mutate", "repair"} @@ p2 :> {"mutate", "reinit", "autocompact"}
=============================================================================
