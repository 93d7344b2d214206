-------------------------- MODULE MCIntegrationGate --------------------------
(* Two reservations of two lanes, two movers. *)
EXTENDS IntegrationGate

CONSTANTS r1, r2, m1, m2

TwoReservations == {r1, r2}
OwnLanes == (r1 :> "a") @@ (r2 :> "b")
\* r1 was ordered before r2, and both are at work.
OneBeforeTwo == {<<<<r1, r2>>>>}

=============================================================================
