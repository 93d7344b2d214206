------------------------ MODULE MCReconcileEvidence ------------------------
EXTENDS ReconcileEvidence
CONSTANTS c0, c1, c2, a
=============================================================================
