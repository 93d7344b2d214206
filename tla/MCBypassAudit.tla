---------------------------- MODULE MCBypassAudit ----------------------------
(* Small instances of BypassAudit for TLC. *)
EXTENDS BypassAudit

CONSTANTS b1, b2, r1, r2, p1

\* Two hooks under one process id.
OneShell == [b \in Bypasses |-> p1]

\* Faults around one hook, or two hooks and no fault.
OneAtATime == at[b2] = "idle" \/ faults = 0
=============================================================================
