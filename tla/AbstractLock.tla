---------------------------- MODULE AbstractLock ----------------------------
(* A mutation lock as the ledger uses it: taken when free, and given back.  *)
CONSTANTS Callers, None
VARIABLE holder

Init == holder = None
Acquire(c) == holder = None /\ holder' = c
Release == holder # None /\ holder' = None
Next == Release \/ \E c \in Callers : Acquire(c)
Spec == Init /\ [][Next]_holder
=============================================================================
