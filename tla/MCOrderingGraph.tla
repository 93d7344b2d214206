--------------------------- MODULE MCOrderingGraph --------------------------
(* Three reservations, two of them of one lane, or each of its own.         *)
EXTENDS OrderingGraph

CONSTANTS r1, r2, r3

ThreeReservations == {r1, r2, r3}
TwoLanes == (r1 :> "a") @@ (r2 :> "a") @@ (r3 :> "b")
ThreeLanes == (r1 :> "a") @@ (r2 :> "b") @@ (r3 :> "c")

LegacyOrders(n) ==
    LET pairs == {p \in ThreeReservations \X ThreeReservations : p[1] # p[2]}
    IN  {s \in [1..n -> pairs] : IsInjective(s)}

\* Two cycles through one reservation, closed one after the other.
TwoCycles == {<<<<r1, r2>>, <<r2, r1>>, <<r2, r3>>, <<r3, r2>>>>}

\* No order yet, or a journal whose orders close a cycle, or two.
CyclicOrders ==
    {<<>>} \cup TwoCycles
           \cup {s \in LegacyOrders(2) \cup LegacyOrders(3) : ~ Acyclic(ToSet(s))}

\* The lane of two reservations is the same under the exchange of the two.
SameLane == Permutations({r1, r2})

NoOrders == {<<>>}
=============================================================================
