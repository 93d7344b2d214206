------------------------ MODULE IntegrationGateProofs ------------------------
(* What the declarations of an ordering graph preserve, for any set of       *)
(* reservations, any lanes, any limit and any journal of earlier orders; and *)
(* what the gate keeps, for any reservations, movers and moves.              *)
EXTENDS IntegrationGate, FiniteSetTheorems, WellFoundedInduction, TLAPS

-----------------------------------------------------------------------------
(* Acyclic orders. *)

\* An acyclic order never holds both ways between two reservations.
LEMMA NotBothWays ==
  ASSUME NEW P, Acyclic(P), NEW a \in Reservations, NEW b \in Reservations,
         <<a, b>> \in P
  PROVE  <<b, a>> \notin P /\ a # b
<1>1. <<b, a>> \notin P
  <2>1. SUFFICES ASSUME <<b, a>> \in P PROVE FALSE
    OBVIOUS
  <2>2. {a, b} \in SUBSET Reservations /\ {a, b} # {}
    OBVIOUS
  <2>3. PICK r \in {a, b} : \A q \in {a, b} : <<q, r>> \notin P
    BY <2>2 DEF Acyclic
  <2> QED BY <2>1, <2>3
<1> QED BY <1>1

\* Any two reservations of an acyclic order can be ordered one way or the
\* other: were both edges to close a cycle, the two cycles together would be
\* one without them.
LEMMA OrderableOneWay ==
  ASSUME NEW P, Acyclic(P), NEW a \in Reservations, NEW b \in Reservations,
         a # b
  PROVE  Acyclic(P \cup {<<a, b>>}) \/ Acyclic(P \cup {<<b, a>>})
<1>1. SUFFICES ASSUME ~ Acyclic(P \cup {<<a, b>>}),
                      ~ Acyclic(P \cup {<<b, a>>})
               PROVE  FALSE
  OBVIOUS
<1>2. PICK S \in SUBSET Reservations :
          S # {} /\ \A r \in S : \E q \in S : <<q, r>> \in P \cup {<<a, b>>}
  BY <1>1 DEF Acyclic
<1>3. PICK T \in SUBSET Reservations :
          T # {} /\ \A r \in T : \E q \in T : <<q, r>> \in P \cup {<<b, a>>}
  BY <1>1 DEF Acyclic
<1>4. b \in S /\ a \in S
  <2>1. PICK r \in S : \A q \in S : <<q, r>> \notin P
    BY <1>2 DEF Acyclic
  <2>2. PICK q \in S : <<q, r>> \in P \cup {<<a, b>>}
    BY <1>2
  <2>3. <<q, r>> = <<a, b>>
    BY <2>1, <2>2
  <2> QED BY <2>3
<1>5. a \in T /\ b \in T
  <2>1. PICK r \in T : \A q \in T : <<q, r>> \notin P
    BY <1>3 DEF Acyclic
  <2>2. PICK q \in T : <<q, r>> \in P \cup {<<b, a>>}
    BY <1>3
  <2>3. <<q, r>> = <<b, a>>
    BY <2>1, <2>2
  <2> QED BY <2>3
<1>6. \A r \in S \cup T : \E q \in S \cup T : <<q, r>> \in P
  <2> SUFFICES ASSUME NEW r \in S \cup T
               PROVE  \E q \in S \cup T : <<q, r>> \in P
    OBVIOUS
  <2>1. CASE r = a
    BY <1>2, <1>4, <2>1
  <2>2. CASE r = b
    BY <1>3, <1>5, <2>2
  <2>3. CASE r # a /\ r # b
    BY <1>2, <1>3, <2>3
  <2> QED BY <2>1, <2>2, <2>3
<1>7. S \cup T \in SUBSET Reservations /\ S \cup T # {}
  BY <1>2
<1> QED BY <1>6, <1>7 DEF Acyclic

-----------------------------------------------------------------------------
(* Types and orders. *)

\* No two edges join the same endpoints in the same direction.
DistinctPairs == \A e, f \in graph.edges :
                    e.before = f.before /\ e.after = f.after => e = f

GraphInv == TypeOK /\ DistinctPairs

LEMMA InitInv == OrderingInit => GraphInv
<1> SUFFICES ASSUME OrderingInit PROVE GraphInv
  OBVIOUS
<1>1. PICK L \in Legacy :
        LET edges == {Edge(n, L[n]) : n \in DOMAIN L} IN
        /\ life = [r \in Reservations |->
                      IF \E e \in edges : r \in {e.before, e.after}
                      THEN "active" ELSE "unclaimed"]
        /\ graph = [edges |-> edges, deferrals |-> {},
                    next |-> Len(L) + 1]
  BY DEF OrderingInit
<1> DEFINE edges == {Edge(n, L[n]) : n \in DOMAIN L}
<1>2. /\ L \in Seq(Reservations \X Reservations)
      /\ \A m, n \in DOMAIN L : L[m] = L[n] => m = n
      /\ \A n \in DOMAIN L : L[n][1] # L[n][2]
  BY OrderingAssumption
<1>3. DOMAIN L = 1..Len(L) /\ Len(L) \in Nat
      /\ \A n \in DOMAIN L : L[n] \in Reservations \X Reservations
  BY <1>2
<1>4. \A e \in edges : /\ e.before \in Reservations /\ e.after \in Reservations
                       /\ e.before # e.after
                       /\ e = Edge(e.id[1], <<e.before, e.after>>)
                       /\ e.id[1] \in Nat /\ e.id[1] < Len(L) + 1
  <2> SUFFICES ASSUME NEW n \in DOMAIN L
               PROVE LET e == Edge(n, L[n]) IN
                       /\ e.before \in Reservations /\ e.after \in Reservations
                       /\ e.before # e.after
                       /\ e = Edge(e.id[1], <<e.before, e.after>>)
                       /\ e.id[1] \in Nat /\ e.id[1] < Len(L) + 1
    OBVIOUS
  <2>1. PICK a \in Reservations, b \in Reservations : L[n] = <<a, b>>
    BY <1>3
  <2>2. a # b
    BY <1>2, <2>1
  <2>3. n \in Nat /\ n < Len(L) + 1
    BY <1>3
  <2> QED BY <2>1, <2>2, <2>3 DEF Edge
<1>5. \A e, f \in edges : e.before = f.before /\ e.after = f.after => e = f
  <2> SUFFICES ASSUME NEW m \in DOMAIN L, NEW n \in DOMAIN L,
                      Edge(m, L[m]).before = Edge(n, L[n]).before,
                      Edge(m, L[m]).after = Edge(n, L[n]).after
               PROVE  Edge(m, L[m]) = Edge(n, L[n])
    OBVIOUS
  <2>1. L[m][1] = L[n][1] /\ L[m][2] = L[n][2]
    BY DEF Edge
  <2>2. L[m] = L[n]
    BY <1>3, <2>1
  <2>3. m = n
    BY <1>2, <2>2
  <2> QED BY <2>3
<1>6. graph.edges = edges /\ graph.deferrals = {} /\ graph.next = Len(L) + 1
      /\ DOMAIN graph = {"edges", "deferrals", "next"}
  BY <1>1
<1>7. life = [r \in Reservations |->
                  IF \E e \in edges : r \in {e.before, e.after}
                  THEN "active" ELSE "unclaimed"]
  BY <1>1
<1>8. life \in [Reservations -> Lives]
      /\ \A e \in edges : Known(e.before) /\ Known(e.after)
  <2> HIDE DEF edges
  <2> QED BY <1>4, <1>7 DEF Lives, Known
<1>9. TypeOK
  <2> HIDE DEF edges
  <2> QED BY <1>3, <1>4, <1>6, <1>8 DEF TypeOK
<1> QED BY <1>5, <1>6, <1>9 DEF GraphInv, DistinctPairs

\* A step of r's lifecycle, once it is claimed, forgets nobody.
LEMMA LifeStep ==
  ASSUME TypeOK, NEW r \in Reservations, NEW l \in Lives \ {"unclaimed"},
         life' = [life EXCEPT ![r] = l]
  PROVE  /\ life' \in [Reservations -> Lives]
         /\ \A q \in Reservations : Known(q) => Known(q)'
         /\ Known(r)'
BY DEF TypeOK, Known, Lives

\* A deferral added for r and each of the reservations it conflicts with.
LEMMA DeferInv ==
  ASSUME GraphInv, NEW r \in Reservations, NEW holders \in SUBSET Foreign(r),
         life' \in [Reservations -> Lives], Known(r)',
         \A q \in Reservations : Known(q) => Known(q)',
         graph' = [graph EXCEPT
            !.deferrals = @ \cup {Deferral(graph.next, r, h) : h \in holders},
            !.next = @ + 1]
  PROVE  GraphInv'
<1>1. /\ graph'.edges = graph.edges /\ graph'.next = graph.next + 1
      /\ graph'.deferrals = graph.deferrals \cup
                            {Deferral(graph.next, r, h) : h \in holders}
      /\ DOMAIN graph' = {"edges", "deferrals", "next"}
  BY DEF GraphInv, TypeOK
<1>2. \A h \in holders : h \in Reservations /\ Known(h) /\ h # r
  BY DEF Foreign, Live, Known
<1>3. \A x \in graph'.deferrals :
          /\ x.deferred \in Reservations /\ Known(x.deferred)'
          /\ x.blocker \in Reservations /\ Known(x.blocker)'
          /\ x.deferred # x.blocker
          /\ x.event \in Nat /\ x.event < graph'.next
          /\ x.resolved \in BOOLEAN
  <2> SUFFICES ASSUME NEW x \in graph'.deferrals
               PROVE  /\ x.deferred \in Reservations /\ Known(x.deferred)'
                      /\ x.blocker \in Reservations /\ Known(x.blocker)'
                      /\ x.deferred # x.blocker
                      /\ x.event \in Nat /\ x.event < graph'.next
                      /\ x.resolved \in BOOLEAN
    OBVIOUS
  <2>1. CASE x \in graph.deferrals
    BY <1>1, <2>1 DEF GraphInv, TypeOK, Known
  <2>2. CASE x \in {Deferral(graph.next, r, h) : h \in holders}
    <3>1. PICK h \in holders : x = Deferral(graph.next, r, h)
      BY <2>2
    <3>2. x.deferred = r /\ x.blocker = h /\ x.event = graph.next
          /\ x.resolved = FALSE
      BY <3>1 DEF Deferral
    <3>3. graph.next \in Nat /\ graph'.next = graph.next + 1
      BY <1>1 DEF GraphInv, TypeOK
    <3>4. h \in Reservations /\ h # r /\ Known(h)'
      BY <1>2 DEF Known
    <3>5. x.event \in Nat /\ x.event < graph'.next
      BY <3>2, <3>3
    <3> QED BY <3>2, <3>4, <3>5
  <2> QED BY <1>1, <2>1, <2>2
<1>4. TypeOK'
  BY <1>1, <1>3 DEF GraphInv, TypeOK, Known
<1> QED BY <1>1, <1>4 DEF GraphInv, DistinctPairs

\* Edges kept beside edges declared anew between endpoints none kept joins.
LEMMA EdgesInv ==
  ASSUME GraphInv, NEW kept \in SUBSET graph.edges,
         NEW pairs \in SUBSET (Reservations \X Reservations),
         NEW deferrals,
         life' \in [Reservations -> Lives],
         \A q \in Reservations : Known(q) => Known(q)',
         \A p \in pairs : Known(p[1])' /\ Known(p[2])' /\ p[1] # p[2],
         pairs \cap Pairs(graph.edges) = {},
         \A x \in deferrals :
            /\ x.deferred \in Reservations /\ Known(x.deferred)
            /\ x.blocker \in Reservations /\ Known(x.blocker)
            /\ x.deferred # x.blocker
            /\ x.event \in Nat /\ x.event < graph.next
            /\ x.resolved \in BOOLEAN,
         DOMAIN graph' = {"edges", "deferrals", "next"},
         graph'.edges = kept \cup {Edge(graph.next, p) : p \in pairs},
         graph'.deferrals = deferrals,
         graph'.next = graph.next + 1
  PROVE  GraphInv'
<1>1. graph.next \in Nat /\ graph'.next \in Nat
  BY DEF GraphInv, TypeOK
<1>2. \A e \in kept :
          /\ e.before \in Reservations /\ Known(e.before)'
          /\ e.after \in Reservations /\ Known(e.after)'
          /\ e.before # e.after
          /\ e = Edge(e.id[1], <<e.before, e.after>>)
          /\ e.id[1] \in Nat /\ e.id[1] < graph'.next
  <2> SUFFICES ASSUME NEW e \in kept
               PROVE  /\ e.before \in Reservations /\ Known(e.before)'
                      /\ e.after \in Reservations /\ Known(e.after)'
                      /\ e.before # e.after
                      /\ e = Edge(e.id[1], <<e.before, e.after>>)
                      /\ e.id[1] \in Nat /\ e.id[1] < graph'.next
    OBVIOUS
  <2>1. /\ e.before \in Reservations /\ Known(e.before)
        /\ e.after \in Reservations /\ Known(e.after)
        /\ e.before # e.after
        /\ e = Edge(e.id[1], <<e.before, e.after>>)
        /\ e.id[1] \in Nat /\ e.id[1] < graph.next
    BY DEF GraphInv, TypeOK
  <2>2. e.id[1] < graph'.next
    BY <1>1, <2>1
  <2> QED BY <2>1, <2>2 DEF Known
<1>3. ASSUME NEW p \in pairs
      PROVE  LET e == Edge(graph.next, p) IN
             /\ e.before \in Reservations /\ Known(e.before)'
             /\ e.after \in Reservations /\ Known(e.after)'
             /\ e.before # e.after
             /\ e = Edge(e.id[1], <<e.before, e.after>>)
             /\ e.id[1] \in Nat /\ e.id[1] < graph'.next
             /\ e.before = p[1] /\ e.after = p[2]
             /\ <<e.before, e.after>> = p
  <2>1. PICK a \in Reservations, b \in Reservations : p = <<a, b>>
    OBVIOUS
  <2>2. Known(a)' /\ Known(b)' /\ a # b
    BY <2>1
  <2> QED BY <1>1, <2>1, <2>2 DEF Edge
<1>4. TypeOK'
  BY <1>1, <1>2, <1>3 DEF GraphInv, TypeOK, Known
<1>5. ASSUME NEW e \in graph'.edges, NEW f \in graph'.edges,
             e.before = f.before, e.after = f.after
      PROVE  e = f
  <2>1. CASE e \in kept /\ f \in kept
    BY <1>5, <2>1 DEF GraphInv, DistinctPairs
  <2>2. CASE e \in kept /\ f \notin kept
    <3>1. PICK p \in pairs : f = Edge(graph.next, p)
      BY <2>2
    <3>2. p = <<e.before, e.after>>
      BY <1>3, <1>5, <3>1
    <3> QED BY <2>2, <3>2 DEF Pairs
  <2>3. CASE e \notin kept /\ f \in kept
    <3>1. PICK p \in pairs : e = Edge(graph.next, p)
      BY <2>3
    <3>2. p = <<f.before, f.after>>
      BY <1>3, <1>5, <3>1
    <3> QED BY <2>3, <3>2 DEF Pairs
  <2>4. CASE e \notin kept /\ f \notin kept
    <3>1. PICK p \in pairs, q \in pairs :
              e = Edge(graph.next, p) /\ f = Edge(graph.next, q)
      BY <2>4
    <3>2. p = q
      BY <1>3, <1>5, <3>1
    <3> QED BY <3>1, <3>2
  <2> QED BY <2>1, <2>2, <2>3, <2>4
<1> QED BY <1>4, <1>5 DEF GraphInv, DistinctPairs

LEMMA StepInv == GraphInv /\ [OrderingNext]_orderingVars => GraphInv'
<1> SUFFICES ASSUME GraphInv, [OrderingNext]_orderingVars PROVE GraphInv'
  OBVIOUS
<1>0. TypeOK
  BY DEF GraphInv
<1>1. ASSUME NEW r \in Reservations, Claim(r) \/ Checkpoint(r) \/ End(r)
      PROVE  GraphInv'
  <2>1. graph' = graph
    BY <1>1 DEF Claim, Checkpoint, End
  <2>2. PICK l \in Lives \ {"unclaimed"} : life' = [life EXCEPT ![r] = l]
    BY <1>1 DEF Claim, Checkpoint, End, Lives
  <2>3. /\ life' \in [Reservations -> Lives]
        /\ \A q \in Reservations : Known(q) => Known(q)'
    BY <1>0, <2>2, LifeStep
  <2>4. TypeOK'
    BY <1>0, <2>1, <2>3 DEF TypeOK
  <2> QED BY <2>1, <2>4 DEF GraphInv, DistinctPairs
<1>2. ASSUME NEW r \in Reservations, NEW dir \in Orders,
             NEW replace \in BOOLEAN,
             ClaimSequenced(r, dir, replace) \/ WidenSequenced(r, dir, replace)
      PROVE  GraphInv'
  <2>1. PICK requesters : AnswerSequence(r, requesters, dir, replace)
    BY <1>2 DEF ClaimSequenced, WidenSequenced
  <2>2. /\ life' \in [Reservations -> Lives]
        /\ \A q \in Reservations : Known(q) => Known(q)'
        /\ Known(r)'
    <3>1. CASE ClaimSequenced(r, dir, replace)
      BY <1>0, <3>1, LifeStep DEF ClaimSequenced, Lives
    <3>2. CASE WidenSequenced(r, dir, replace)
      BY <1>0, <3>2 DEF WidenSequenced, TypeOK, Known
    <3> QED BY <1>2, <3>1, <3>2
  <2> DEFINE kept == graph.edges \ Contradicted(requesters, dir)
             pairs == BindClaimSequence(r, dir)
  <2>3. /\ graph'.edges = kept \cup {Edge(graph.next, p) : p \in pairs}
        /\ graph'.deferrals = graph.deferrals
        /\ graph'.next = graph.next + 1
        /\ DOMAIN graph' = {"edges", "deferrals", "next"}
    BY <1>0, <2>1 DEF AnswerSequence, TypeOK
  <2>4. ASSUME NEW h \in DOMAIN dir
        PROVE  h \in Reservations /\ Known(h)' /\ h # r
    BY <2>1, <2>2 DEF AnswerSequence, Foreign, Live, Known
  <2>5. ASSUME NEW p \in pairs
        PROVE  /\ p \in Reservations \X Reservations
               /\ Known(p[1])' /\ Known(p[2])' /\ p[1] # p[2]
               /\ p \notin Pairs(graph.edges)
    <3>1. PICK h \in DOMAIN dir : p = Directed(r, h, dir[h])
      BY DEF BindClaimSequence
    <3>2. p = <<h, r>> \/ p = <<r, h>>
      BY <3>1 DEF Directed
    <3>3. (p[1] = h /\ p[2] = r) \/ (p[1] = r /\ p[2] = h)
      <4>1. CASE p = <<h, r>>
        BY <4>1
      <4>2. CASE p = <<r, h>>
        BY <4>2
      <4> QED BY <3>2, <4>1, <4>2
    <3>4. Known(p[1])' /\ Known(p[2])'
      BY <2>2, <2>4, <3>3
    <3> QED BY <2>4, <3>2, <3>3, <3>4 DEF BindClaimSequence
  <2>6. kept \in SUBSET graph.edges
        /\ pairs \in SUBSET (Reservations \X Reservations)
        /\ pairs \cap Pairs(graph.edges) = {}
    BY <2>5
  <2> HIDE DEF kept, pairs
  <2>7. \A x \in graph.deferrals :
            /\ x.deferred \in Reservations /\ Known(x.deferred)
            /\ x.blocker \in Reservations /\ Known(x.blocker)
            /\ x.deferred # x.blocker
            /\ x.event \in Nat /\ x.event < graph.next
            /\ x.resolved \in BOOLEAN
    BY <1>0 DEF TypeOK
  <2> QED BY <2>2, <2>3, <2>5, <2>6, <2>7, EdgesInv
<1>3. ASSUME NEW r \in Reservations, NEW holders \in SUBSET Reservations,
             ClaimEnrolled(r, holders)
      PROVE  GraphInv'
  <2>1. /\ life' \in [Reservations -> Lives]
        /\ \A q \in Reservations : Known(q) => Known(q)'
        /\ Known(r)'
    BY <1>0, <1>3, LifeStep DEF ClaimEnrolled, Lives
  <2> QED BY <1>3, <2>1, DeferInv DEF ClaimEnrolled
<1>4. ASSUME NEW r \in Reservations, NEW holders \in SUBSET Reservations,
             AnswerDefer(r, holders)
      PROVE  GraphInv'
  <2>1. /\ life' \in [Reservations -> Lives]
        /\ \A q \in Reservations : Known(q) => Known(q)'
        /\ Known(r)'
    BY <1>0, <1>4 DEF AnswerDefer, TypeOK, Known
  <2> QED BY <1>4, <2>1, DeferInv DEF AnswerDefer
<1>5. ASSUME NEW p \in Reservations \X Reservations, Sequence(p)
      PROVE  GraphInv'
  <2> DEFINE deferrals ==
          (graph.deferrals \ DeferredOverlap(p)) \cup
              {[x EXCEPT !.resolved = TRUE] : x \in DeferredOverlap(p)}
  <2>1. /\ graph'.edges = graph.edges \cup {Edge(graph.next, q) : q \in {p}}
        /\ graph'.deferrals = deferrals
        /\ graph'.next = graph.next + 1
        /\ DOMAIN graph' = {"edges", "deferrals", "next"}
    BY <1>0, <1>5 DEF Sequence, TypeOK
  <2>2. DeferredOverlap(p) \subseteq graph.deferrals
    BY DEF DeferredOverlap, Pending
  <2>3. \A x \in deferrals :
            /\ x.deferred \in Reservations /\ Known(x.deferred)
            /\ x.blocker \in Reservations /\ Known(x.blocker)
            /\ x.deferred # x.blocker
            /\ x.event \in Nat /\ x.event < graph.next
            /\ x.resolved \in BOOLEAN
    <3> SUFFICES ASSUME NEW x \in deferrals
                 PROVE  /\ x.deferred \in Reservations /\ Known(x.deferred)
                        /\ x.blocker \in Reservations /\ Known(x.blocker)
                        /\ x.deferred # x.blocker
                        /\ x.event \in Nat /\ x.event < graph.next
                        /\ x.resolved \in BOOLEAN
      OBVIOUS
    <3>1. CASE x \in graph.deferrals
      BY <1>0, <3>1 DEF TypeOK
    <3>2. CASE x \notin graph.deferrals
      <4>1. PICK y \in DeferredOverlap(p) : x = [y EXCEPT !.resolved = TRUE]
        BY <3>2
      <4>2. x.deferred = y.deferred /\ x.blocker = y.blocker
            /\ x.event = y.event
        BY <4>1
      <4>3. y.resolved \in BOOLEAN /\ x.resolved \in BOOLEAN
        BY <1>0, <2>2, <4>1 DEF TypeOK
      <4> QED BY <1>0, <2>2, <4>2, <4>3 DEF TypeOK
    <3> QED BY <3>1, <3>2
  <2>4. /\ {p} \in SUBSET (Reservations \X Reservations)
        /\ {p} \cap Pairs(graph.edges) = {}
        /\ \A q \in {p} : Known(q[1])' /\ Known(q[2])' /\ q[1] # q[2]
    BY <1>5 DEF Sequence, PrepareEdge, Known
  <2>5. life' \in [Reservations -> Lives]
        /\ \A q \in Reservations : Known(q) => Known(q)'
    BY <1>0, <1>5 DEF Sequence, TypeOK, Known
  <2> HIDE DEF deferrals
  <2> QED BY <2>1, <2>3, <2>4, <2>5, EdgesInv
<1>6. CASE RepairCycle
  <2>1. PICK e \in graph.edges : graph' = [graph EXCEPT !.edges = @ \ {e}]
    BY <1>6 DEF RepairCycle
  <2>2. /\ graph'.edges = graph.edges \ {e}
        /\ graph'.deferrals = graph.deferrals /\ graph'.next = graph.next
        /\ DOMAIN graph' = {"edges", "deferrals", "next"} /\ life' = life
    BY <1>0, <1>6, <2>1 DEF TypeOK, RepairCycle
  <2> QED BY <2>2 DEF GraphInv, TypeOK, DistinctPairs, Known
<1>7. CASE UNCHANGED orderingVars
  BY <1>7 DEF GraphInv, TypeOK, DistinctPairs, Known, orderingVars
<1> QED BY <1>1, <1>2, <1>3, <1>4, <1>5, <1>6, <1>7 DEF OrderingNext

-----------------------------------------------------------------------------
(* Theorems. *)

LEMMA GraphInvariant == OrderingSpec => []GraphInv
BY InitInv, StepInv, PTL DEF OrderingSpec

\* The edges and deferrals of a ledger name reservations that were claimed,
\* under identifiers of their own (OrderingGraph's fields after a replay).
THEOREM TypeCorrect == OrderingSpec => []TypeOK
<1>1. GraphInv => TypeOK
  BY DEF GraphInv
<1> QED BY GraphInvariant, <1>1, PTL

\* Whatever mix of claims, widenings, replacements, resolutions and repairs
\* went before, add_edge meets no duplicate: two reservations are joined by
\* one edge at most, in one direction.
THEOREM JoinedOnce == OrderingSpec => []OneOrder
<1>1. ASSUME GraphInv, Replays, NEW e \in graph.edges, NEW f \in graph.edges,
             Between(e) = Between(f)
      PROVE  e = f
  <2>1. /\ e.before \in Reservations /\ e.after \in Reservations
        /\ f.before \in Reservations /\ f.after \in Reservations
    BY <1>1 DEF GraphInv, TypeOK
  <2>2. \/ (e.before = f.before /\ e.after = f.after)
        \/ (e.before = f.after /\ e.after = f.before)
    BY <1>1 DEF Between
  <2>3. CASE e.before = f.before /\ e.after = f.after
    BY <1>1, <2>3 DEF GraphInv, DistinctPairs
  <2>4. CASE e.before = f.after /\ e.after = f.before
    <3>1. /\ <<e.before, e.after>> \in Pairs(graph.edges)
          /\ <<e.after, e.before>> \in Pairs(graph.edges)
      BY <2>4 DEF Pairs
    <3> QED BY <1>1, <2>1, <3>1, NotBothWays DEF Replays
  <2> QED BY <2>2, <2>3, <2>4
<1>2. GraphInv => OneOrder
  BY <1>1 DEF OneOrder
<1> QED BY GraphInvariant, <1>2, PTL

\* Every declaration is searched for cycles with the edges it leaves, and a
\* retirement opens cycles only: no command closes one.
THEOREM CyclesAreOld == OrderingSpec => NoNewCycle
<1>1. ASSUME [OrderingNext]_orderingVars, Acyclic(Pairs(graph.edges))
      PROVE  Acyclic(Pairs(graph.edges))' \/ DOMAIN graph #
                                         {"edges", "deferrals", "next"}
  <2> SUFFICES ASSUME DOMAIN graph = {"edges", "deferrals", "next"}
               PROVE  Acyclic(Pairs(graph.edges))'
    OBVIOUS
  <2>1. ASSUME NEW r \in Reservations, Claim(r) \/ Checkpoint(r) \/ End(r)
        PROVE  Acyclic(Pairs(graph.edges))'
    BY <1>1, <2>1 DEF Claim, Checkpoint, End
  <2>2. ASSUME NEW r \in Reservations, NEW dir \in Orders,
               NEW replace \in BOOLEAN,
               ClaimSequenced(r, dir, replace) \/ WidenSequenced(r, dir, replace)
        PROVE  Acyclic(Pairs(graph.edges))'
    <3>1. PICK requesters : AnswerSequence(r, requesters, dir, replace)
      BY <2>2 DEF ClaimSequenced, WidenSequenced
    <3> QED BY <3>1 DEF AnswerSequence, CheckAcyclic
  <2>3. ASSUME NEW r \in Reservations, NEW holders \in SUBSET Reservations,
               ClaimEnrolled(r, holders) \/ AnswerDefer(r, holders)
        PROVE  Acyclic(Pairs(graph.edges))'
    <3>1. graph'.edges = graph.edges
      BY <2>3 DEF ClaimEnrolled, AnswerDefer
    <3> QED BY <1>1, <3>1
  <2>4. ASSUME NEW p \in Reservations \X Reservations, Sequence(p)
        PROVE  Acyclic(Pairs(graph.edges))'
    <3>1. graph'.edges = graph.edges \cup {Edge(graph.next, p)}
      BY <2>4 DEF Sequence
    <3>2. p = <<p[1], p[2]>>
      OBVIOUS
    <3>3. Pairs(graph'.edges) = Pairs(graph.edges) \cup {p}
      <4>1. <<Edge(graph.next, p).before, Edge(graph.next, p).after>> = p
        BY <3>2 DEF Edge
      <4> QED BY <3>1, <4>1 DEF Pairs
    <3> QED BY <2>4, <3>3 DEF Sequence, PrepareEdge, CheckAcyclic
  <2>5. CASE RepairCycle
    <3>1. PICK e \in graph.edges :
              /\ Acyclic(Pairs(graph.edges \ {e}))
              /\ graph' = [graph EXCEPT !.edges = @ \ {e}]
      BY <2>5 DEF RepairCycle
    <3>2. graph'.edges = graph.edges \ {e}
      BY <3>1
    <3> QED BY <3>1, <3>2
  <2>6. CASE UNCHANGED orderingVars
    BY <1>1, <2>6 DEF orderingVars
  <2> QED BY <1>1, <2>1, <2>2, <2>3, <2>4, <2>5, <2>6 DEF OrderingNext
<1>2. GraphInv => DOMAIN graph = {"edges", "deferrals", "next"}
  BY DEF GraphInv, TypeOK
<1>3. GraphInv /\ [OrderingNext]_orderingVars =>
          [~ Acyclic(Pairs(graph'.edges)) => ~ Acyclic(Pairs(graph.edges))]_orderingVars
  BY <1>1, <1>2
<1> QED BY GraphInvariant, <1>3, PTL DEF OrderingSpec, NoNewCycle

\* An edge without which the graph is acyclic lies on a cycle of it: a set of
\* reservations each of which waits for one of the set has both its ends.
LEMMA OnEveryCycle ==
  ASSUME NEW e \in graph.edges, ~ Acyclic(Pairs(graph.edges)),
         Acyclic(Pairs(graph.edges \ {e}))
  PROVE  \E S \in SUBSET Reservations :
            /\ {e.before, e.after} \subseteq S
            /\ \A r \in S : \E q \in S : <<q, r>> \in Pairs(graph.edges)
<1>1. PICK S \in SUBSET Reservations :
          S # {} /\ \A r \in S : \E q \in S : <<q, r>> \in Pairs(graph.edges)
  BY DEF Acyclic
<1>2. PICK r \in S : \A q \in S : <<q, r>> \notin Pairs(graph.edges \ {e})
  BY <1>1 DEF Acyclic
<1>3. PICK q \in S : <<q, r>> \in Pairs(graph.edges)
  BY <1>1
<1>4. PICK f \in graph.edges : <<q, r>> = <<f.before, f.after>>
  BY <1>3 DEF Pairs
<1>5. f = e
  BY <1>2, <1>4 DEF Pairs
<1> QED BY <1>1, <1>4, <1>5

\* The repair of a cyclic ledger takes one edge, one that lies on a cycle, and
\* what it leaves replays, whichever edge closed the first cycle (repair_cycle).
THEOREM RepairsExact == OrderingSpec => RepairExact
<1>1. ASSUME ~ Replays, graph' # graph, [OrderingNext]_orderingVars
      PROVE  RepairCycle
  BY <1>1 DEF OrderingNext, orderingVars, Claim, Checkpoint, End, ClaimSequenced,
              WidenSequenced, ClaimEnrolled, AnswerDefer, Sequence, Declaring
<1>2. ASSUME DOMAIN graph = {"edges", "deferrals", "next"}, ~ Replays, RepairCycle
      PROVE  /\ Acyclic(Pairs(graph'.edges))
             /\ \E e \in graph.edges :
                   /\ graph' = [graph EXCEPT !.edges = @ \ {e}]
                   /\ \E S \in SUBSET Reservations :
                         /\ {e.before, e.after} \subseteq S
                         /\ \A r \in S : \E q \in S :
                               <<q, r>> \in Pairs(graph.edges)
  <2>1. PICK e \in graph.edges :
            /\ Acyclic(Pairs(graph.edges \ {e}))
            /\ graph' = [graph EXCEPT !.edges = @ \ {e}]
    BY <1>2 DEF RepairCycle
  <2>2. graph'.edges = graph.edges \ {e}
    BY <1>2, <2>1
  <2>3. \E S \in SUBSET Reservations :
            /\ {e.before, e.after} \subseteq S
            /\ \A r \in S : \E q \in S : <<q, r>> \in Pairs(graph.edges)
    BY <1>2, <2>1, OnEveryCycle DEF Replays
  <2> QED BY <2>1, <2>2, <2>3
<1>3. GraphInv => DOMAIN graph = {"edges", "deferrals", "next"}
  BY DEF GraphInv, TypeOK
<1>4. GraphInv /\ [OrderingNext]_orderingVars =>
        [~ Replays /\ graph' # graph =>
            /\ Acyclic(Pairs(graph'.edges))
            /\ \E e \in graph.edges :
                  /\ graph' = [graph EXCEPT !.edges = @ \ {e}]
                  /\ \E S \in SUBSET Reservations :
                        /\ {e.before, e.after} \subseteq S
                        /\ \A r \in S : \E q \in S :
                              <<q, r>> \in Pairs(graph.edges)]_orderingVars
  BY <1>1, <1>2, <1>3
<1> QED BY GraphInvariant, <1>4, PTL DEF OrderingSpec, RepairExact

\* A pending deferral that only one side recorded, between two reservations
\* no edge joins, is never stuck: whatever the rest of the graph is, an edge
\* one way or the other closes no cycle, and prepare_edge asks nothing more.
THEOREM DeferralsOrderable == OrderingSpec => []OneSidedDeferralOrderable
<1>1. ASSUME GraphInv, Replays, NEW x \in graph.deferrals, ~ x.resolved,
             Pending(x.blocker, x.deferred) = {},
             ~ \E e \in graph.edges : Between(e) = {x.deferred, x.blocker}
      PROVE  \/ PrepareEdge(<<x.deferred, x.blocker>>)
             \/ PrepareEdge(<<x.blocker, x.deferred>>)
  <2> DEFINE d == x.deferred
             b == x.blocker
  <2>1. d \in Reservations /\ b \in Reservations /\ d # b
        /\ Known(d) /\ Known(b)
    BY <1>1 DEF GraphInv, TypeOK
  <2>2. <<d, b>> \notin Pairs(graph.edges) /\ <<b, d>> \notin Pairs(graph.edges)
    BY <1>1 DEF Pairs, Between
  <2>3. x \in Pending(d, b) /\ Pending(b, d) = {}
    BY <1>1 DEF Pending
  <2>4. DeferredOverlap(<<d, b>>) # {} /\ DeferredOverlap(<<b, d>>) # {}
    BY <2>3 DEF DeferredOverlap
  <2> HIDE DEF d, b
  <2>5. \/ Acyclic(Pairs(graph.edges) \cup {<<d, b>>})
        \/ Acyclic(Pairs(graph.edges) \cup {<<b, d>>})
    BY <1>1, <2>1, OrderableOneWay DEF Replays
  <2>6. PrepareEdge(<<d, b>>) \/ PrepareEdge(<<b, d>>)
    BY <2>1, <2>2, <2>3, <2>4, <2>5 DEF PrepareEdge, CheckAcyclic
  <2> QED BY <2>6 DEF d, b
<1>2. GraphInv => OneSidedDeferralOrderable
  BY <1>1 DEF OneSidedDeferralOrderable
<1> QED BY GraphInvariant, <1>2, PTL


-----------------------------------------------------------------------------
(* A search that goes from state to state until it stops, as a recursive     *)
(* function whose every call is the answer or one call on the next state.    *)

\* A non-empty set of naturals has a least element.
LEMMA LeastNat ==
  ASSUME NEW T \in SUBSET Nat, T # {}
  PROVE  \E n \in T : \A m \in T : n <= m
<1> DEFINE R == {p \in Nat \X Nat : p[1] < p[2]}
<1>1. IsWellFoundedOn(R, Nat)
  BY NatLessThanWellFounded DEF OpToRel
<1>2. \A m, n \in Nat : <<m, n>> \in R <=> m < n
  OBVIOUS
<1> HIDE DEF R
<1>3. PICK n \in T : \A m \in T : ~(<<m, n>> \in R)
  BY <1>1, WFMin
<1>4. \A m \in T : ~(m < n)
  BY <1>2, <1>3
<1> QED BY <1>4

\* What holds of zero and passes to the successor holds of every natural.
LEMMA Induction ==
  ASSUME NEW S \in SUBSET Nat, 0 \in S, \A n \in S : n + 1 \in S
  PROVE  S = Nat
<1> SUFFICES ASSUME S # Nat PROVE FALSE
  OBVIOUS
<1>1. PICK n \in Nat \ S : \A m \in Nat \ S : n <= m
  BY LeastNat
<1>2. n # 0 /\ n - 1 \in Nat
  OBVIOUS
<1>3. n - 1 \in S
  BY <1>1, <1>2
<1> QED BY <1>1, <1>2, <1>3

\* f answers answer[x] where the search stops, and elsewhere what it answers
\* one step later.
Iterates(States, stops, step, answer, f) ==
    f = [x \in States |-> IF x \in stops THEN answer[x] ELSE f[step[x]]]

\* Every step stays among the states and brings the end nearer.
Descends(States, stops, step, measure) ==
    /\ \A x \in States : measure[x] \in Nat
    /\ \A x \in States \ stops : step[x] \in States /\ measure[step[x]] < measure[x]

\* f is such a function as far as k steps from the end.
IteratesTo(States, stops, step, answer, measure, k, f) ==
    \A x \in States : measure[x] <= k =>
        f[x] = IF x \in stops THEN answer[x] ELSE f[step[x]]

\* Two such functions agree as far as both go.
LEMMA IterationsAgree ==
  ASSUME NEW States, NEW stops, NEW step, NEW answer, NEW measure,
         Descends(States, stops, step, measure),
         NEW k \in Nat, NEW f, IteratesTo(States, stops, step, answer, measure, k, f),
         NEW l \in Nat, NEW g, IteratesTo(States, stops, step, answer, measure, l, g),
         NEW x \in States, measure[x] <= k, measure[x] <= l
  PROVE  f[x] = g[x]
<1> DEFINE Bad == {n \in Nat : \E y \in States : /\ measure[y] = n /\ n <= k /\ n <= l
                                                  /\ f[y] # g[y]}
<1> SUFFICES ASSUME Bad # {} PROVE FALSE
  <2>1. measure[x] \in Nat
    BY DEF Descends
  <2> QED BY <2>1
<1>1. PICK n \in Bad : \A m \in Bad : n <= m
  <2>1. Bad \in SUBSET Nat
    OBVIOUS
  <2> HIDE DEF Bad
  <2> QED BY <2>1, LeastNat
<1>2. PICK y \in States : measure[y] = n /\ n <= k /\ n <= l /\ f[y] # g[y]
  OBVIOUS
<1>3. /\ f[y] = IF y \in stops THEN answer[y] ELSE f[step[y]]
      /\ g[y] = IF y \in stops THEN answer[y] ELSE g[step[y]]
  BY <1>2 DEF IteratesTo
<1>4. y \notin stops /\ f[step[y]] # g[step[y]]
  BY <1>2, <1>3
<1>5. step[y] \in States /\ measure[step[y]] \in Nat /\ measure[step[y]] < n
  BY <1>2, <1>4 DEF Descends
<1>6. measure[step[y]] \in Bad
  <2>1. measure[step[y]] <= k /\ measure[step[y]] <= l /\ n \in Nat
    BY <1>1, <1>2, <1>5
  <2> QED BY <1>4, <1>5, <2>1
<1>7. n <= measure[step[y]] /\ n \in Nat
  BY <1>1, <1>6
<1> QED BY <1>5, <1>7

\* There is such a function.
LEMMA IterationExists ==
  ASSUME NEW States, NEW stops, NEW step, NEW answer, NEW measure,
         Descends(States, stops, step, measure)
  PROVE  \E f : Iterates(States, stops, step, answer, f)
<1> DEFINE To(k, f) == IteratesTo(States, stops, step, answer, measure, k, f)
           S == {k \in Nat : \E f : To(k, f)}
<1>1. 0 \in S
  <2> DEFINE g == [x \in States |-> answer[x]]
  <2>1. ASSUME NEW x \in States, measure[x] <= 0 PROVE x \in stops
    BY <2>1 DEF Descends
  <2>2. To(0, g)
    BY <2>1 DEF IteratesTo
  <2> QED BY <2>2
<1>2. ASSUME NEW k \in S PROVE k + 1 \in S
  <2>1. PICK f : To(k, f)
    OBVIOUS
  <2> DEFINE g == [x \in States |-> IF x \in stops THEN answer[x] ELSE f[step[x]]]
  <2>2. ASSUME NEW x \in States, measure[x] <= k + 1
        PROVE  g[x] = IF x \in stops THEN answer[x] ELSE g[step[x]]
    <3>1. CASE x \in stops
      BY <3>1
    <3>2. CASE x \notin stops
      <4>1. step[x] \in States /\ measure[step[x]] <= k
        BY <2>2, <3>2 DEF Descends
      <4>2. f[step[x]] = g[step[x]]
        BY <2>1, <4>1 DEF IteratesTo
      <4> QED BY <3>2, <4>2
    <3> QED BY <3>1, <3>2
  <2> HIDE DEF g
  <2>3. To(k + 1, g)
    BY <2>2 DEF IteratesTo
  <2> QED BY <2>3
<1>3. S = Nat
  <2>1. S \in SUBSET Nat
    OBVIOUS
  <2> HIDE DEF S
  <2> QED BY <1>1, <1>2, <2>1, Induction
<1> DEFINE Chosen(k) == CHOOSE f : To(k, f)
<1>4. \A k \in Nat : To(k, Chosen(k))
  BY <1>3
<1> DEFINE F == [x \in States |-> Chosen(measure[x])[x]]
           G == [x \in States |-> IF x \in stops THEN answer[x] ELSE F[step[x]]]
<1> HIDE DEF To, Chosen
<1>5. ASSUME NEW x \in States PROVE F[x] = G[x]
  <2>1. measure[x] \in Nat /\ To(measure[x], Chosen(measure[x]))
    BY <1>4 DEF Descends
  <2>2. F[x] = IF x \in stops THEN answer[x] ELSE Chosen(measure[x])[step[x]]
    BY <2>1 DEF To, IteratesTo
  <2>3. CASE x \notin stops
    <3>1. step[x] \in States /\ measure[step[x]] \in Nat /\ measure[step[x]] <= measure[x]
      BY <2>1, <2>3 DEF Descends
    <3>2. To(measure[step[x]], Chosen(measure[step[x]]))
      BY <1>4, <3>1
    <3>3. measure[step[x]] <= measure[step[x]]
      BY <3>1
    <3>4. Chosen(measure[x])[step[x]] = Chosen(measure[step[x]])[step[x]]
      BY <2>1, <3>1, <3>2, <3>3, IterationsAgree DEF To
    <3> QED BY <2>2, <2>3, <3>1, <3>4
  <2> QED BY <2>2, <2>3
<1>6. F = G
  BY <1>5
<1> HIDE DEF F
<1> QED BY <1>6 DEF Iterates

\* What such a function answers is the answer at a state where the search
\* stops, and whatever the steps preserve is true of that state.
LEMMA IterationEnds ==
  ASSUME NEW States, NEW stops, NEW step, NEW answer, NEW measure,
         Descends(States, stops, step, measure),
         NEW f, Iterates(States, stops, step, answer, f),
         NEW Kept \in SUBSET States, \A x \in Kept \ stops : step[x] \in Kept,
         NEW x \in Kept
  PROVE  \E y \in Kept \cap stops : f[x] = answer[y]
<1> DEFINE Bad == {n \in Nat : \E z \in Kept : /\ measure[z] = n
                                               /\ \A y \in Kept \cap stops : f[z] # answer[y]}
<1> SUFFICES ASSUME Bad # {} PROVE FALSE
  <2>1. measure[x] \in Nat
    BY DEF Descends
  <2> QED BY <2>1
<1>1. PICK n \in Bad : \A m \in Bad : n <= m
  <2>1. Bad \in SUBSET Nat
    OBVIOUS
  <2> HIDE DEF Bad
  <2> QED BY <2>1, LeastNat
<1>2. PICK z \in Kept : measure[z] = n /\ \A y \in Kept \cap stops : f[z] # answer[y]
  OBVIOUS
<1>3. f[z] = IF z \in stops THEN answer[z] ELSE f[step[z]]
  BY DEF Iterates
<1>4. z \notin stops /\ f[z] = f[step[z]]
  BY <1>2, <1>3
<1>5. step[z] \in Kept /\ measure[step[z]] \in Nat /\ measure[step[z]] < n
  BY <1>2, <1>4 DEF Descends
<1>6. measure[step[z]] \in Bad
  BY <1>2, <1>4, <1>5
<1>7. n <= measure[step[z]] /\ n \in Nat
  BY <1>1, <1>6
<1> QED BY <1>5, <1>7

-----------------------------------------------------------------------------
(* Peeling.                                                                  *)

Ready(P, S) == {r \in S : \A q \in S : <<q, r>> \notin P}
Peeled(P, S) == S \ {CHOOSE r \in Ready(P, S) : TRUE}

\* The function ContainsCycle chooses.
Peels(P, f) == f = [S \in SUBSET Reservations |->
                      IF Ready(P, S) = {} THEN S
                      ELSE f[S \ {CHOOSE r \in Ready(P, S) : TRUE}]]

\* No vertex of a set without a source is ever ready, so peeling leaves the
\* set, and what it leaves has no source.
LEMMA PeelingDecides ==
  ASSUME NEW P, IsFiniteSet(Reservations)
  PROVE  ContainsCycle(P) <=> ~ Acyclic(P)
<1> DEFINE States == SUBSET Reservations
           stops == {S \in States : Ready(P, S) = {}}
           step == [S \in States |-> Peeled(P, S)]
           answer == [S \in States |-> S]
           measure == [S \in States |-> Cardinality(S)]
<1>1. Descends(States, stops, step, measure)
  <2>1. ASSUME NEW S \in States PROVE measure[S] \in Nat
    BY FS_Subset, FS_CardinalityType
  <2>2. ASSUME NEW S \in States \ stops
        PROVE  step[S] \in States /\ measure[step[S]] < measure[S]
    <3>1. (CHOOSE r \in Ready(P, S) : TRUE) \in Ready(P, S)
      BY <2>2
    <3>2. (CHOOSE r \in Ready(P, S) : TRUE) \in S
      BY <3>1 DEF Ready
    <3>3. Peeled(P, S) \in States
      BY DEF Peeled
    <3>4. Cardinality(Peeled(P, S)) = Cardinality(S) - 1
      BY <3>2, FS_Subset, FS_RemoveElement DEF Peeled
    <3>5. Cardinality(S) \in Nat
      BY FS_Subset, FS_CardinalityType
    <3>6. step[S] = Peeled(P, S) /\ measure[S] = Cardinality(S)
          /\ measure[Peeled(P, S)] = Cardinality(Peeled(P, S))
      BY <3>3
    <3> HIDE DEF States, stops, step, measure
    <3> QED BY <3>3, <3>4, <3>5, <3>6
  <2> HIDE DEF States, stops, step, measure
  <2> QED BY <2>1, <2>2 DEF Descends
<1>2. ASSUME NEW f PROVE Peels(P, f) <=> Iterates(States, stops, step, answer, f)
  <2> DEFINE g == [S \in States |-> IF Ready(P, S) = {} THEN S
                                    ELSE f[S \ {CHOOSE r \in Ready(P, S) : TRUE}]]
             h == [S \in States |-> IF S \in stops THEN answer[S] ELSE f[step[S]]]
  <2>1. g = h
    BY DEF Peeled
  <2> HIDE DEF g, h
  <2>2. (f = g) <=> (f = h)
    BY <2>1
  <2> QED BY <2>2 DEF Peels, Iterates, g, h
<1> DEFINE f == CHOOSE f : Peels(P, f)
<1>3. Iterates(States, stops, step, answer, f)
  <2> HIDE DEF States, stops, step, answer, measure
  <2>1. \E g : Peels(P, g)
    BY <1>1, <1>2, IterationExists
  <2> QED BY <1>2, <2>1
<1>4. ContainsCycle(P) <=> f[Reservations] # {}
  BY DEF ContainsCycle, Peels, Ready
<1>5. ASSUME NEW C \in SUBSET Reservations, \A r \in C : \E q \in C : <<q, r>> \in P
      PROVE  C \subseteq f[Reservations]
  <2> DEFINE Kept == {S \in States : C \subseteq S}
  <2>1. \A S \in Kept \ stops : step[S] \in Kept
    <3> SUFFICES ASSUME NEW S \in Kept \ stops PROVE step[S] \in Kept
      OBVIOUS
    <3>1. (CHOOSE r \in Ready(P, S) : TRUE) \in Ready(P, S)
      OBVIOUS
    <3>2. (CHOOSE r \in Ready(P, S) : TRUE) \notin C
      BY <1>5, <3>1 DEF Ready
    <3> QED BY <3>2 DEF Peeled
  <2>2. Kept \in SUBSET States /\ Reservations \in Kept
    OBVIOUS
  <2>3. PICK S \in Kept \cap stops : f[Reservations] = answer[S]
    <3> HIDE DEF States, stops, step, answer, measure, Kept, f
    <3> QED BY <1>1, <1>3, <2>1, <2>2, IterationEnds
  <2> QED BY <2>3
<1>6. /\ f[Reservations] \in SUBSET Reservations
      /\ \A r \in f[Reservations] : \E q \in f[Reservations] : <<q, r>> \in P
  <2>1. \A S \in States \ stops : step[S] \in States
    BY DEF Peeled
  <2>2. States \in SUBSET States /\ Reservations \in States
    OBVIOUS
  <2>3. PICK S \in States \cap stops : f[Reservations] = answer[S]
    <3> HIDE DEF States, stops, step, answer, measure, f
    <3> QED BY <1>1, <1>3, <2>1, <2>2, IterationEnds
  <2> HIDE DEF f
  <2> QED BY <2>3 DEF Ready
<1> HIDE DEF f
<1>7. CASE f[Reservations] = {}
  BY <1>4, <1>5, <1>7 DEF Acyclic
<1>8. CASE f[Reservations] # {}
  BY <1>4, <1>6, <1>8 DEF Acyclic
<1> QED BY <1>7, <1>8

-----------------------------------------------------------------------------
(* Reverse reachability.                                                     *)

\* The vertex that is looked at next, and the state of the search after it.
Looked(x) == CHOOSE q \in x[1] : TRUE
Onward(P, x) == IF Looked(x) \in x[2] THEN {} ELSE {q \in Reservations : <<Looked(x), q>> \in P}
ReachStep(P, x) == <<(x[1] \ {Looked(x)}) \cup (Onward(P, x) \ x[2]), x[2] \cup {Looked(x)}>>

\* The function WouldCreateCycle chooses.
Reaching(P, before, f) == f =
    [s \in (SUBSET Reservations) \X (SUBSET Reservations) |->
        /\ s[1] # {}
        /\ \/ Looked(s) = before
           \/ f[<<(s[1] \ {Looked(s)}) \cup (Onward(P, s) \ s[2]), s[2] \cup {Looked(s)}>>]]

\* What WouldCreateCycle answers is the value of the function it chooses.
LEMMA ReachIs ==
  ASSUME NEW P, NEW before, NEW after
  PROVE  WouldCreateCycle(P, before, after) <=>
            (before = after \/ (CHOOSE f : Reaching(P, before, f))[<<{after}, {}>>])
BY SMT DEF WouldCreateCycle, Reaching, Looked, Onward

\* What waits, through others, for a reservation.
Closed(P, C) == \A r \in C, q \in Reservations : <<r, q>> \in P => q \in C
Reachable(P, r) == {q \in Reservations : \A C \in SUBSET Reservations : r \in C /\ Closed(P, C) => q \in C}

\* A vertex that was looked at is pending once less, or visited for good.
LEMMA ReachMeasure ==
  ASSUME NEW P, IsFiniteSet(Reservations),
         NEW x \in (SUBSET Reservations) \X (SUBSET Reservations), x[1] # {}
  PROVE  LET M(y) == Cardinality(Reservations) * Cardinality(Reservations \ y[2])
                        + Cardinality(y[1])
         IN  /\ ReachStep(P, x) \in (SUBSET Reservations) \X (SUBSET Reservations)
             /\ M(ReachStep(P, x)) < M(x)
<1> DEFINE r == Looked(x)
           N == Cardinality(Reservations)
           left == Cardinality(Reservations \ x[2])
           more == ReachStep(P, x)
<1>1. r \in x[1] /\ r \in Reservations
  BY DEF Looked
<1>2. Onward(P, x) \in SUBSET Reservations
  BY DEF Onward
<1>3. /\ more \in (SUBSET Reservations) \X (SUBSET Reservations)
      /\ more[1] = (x[1] \ {r}) \cup (Onward(P, x) \ x[2]) /\ more[2] = x[2] \cup {r}
  BY <1>1, <1>2 DEF ReachStep
<1>4. /\ N \in Nat /\ left \in Nat /\ Cardinality(x[1]) \in Nat /\ Cardinality(more[1]) \in Nat
      /\ Cardinality(more[1]) <= N /\ Cardinality(x[1]) >= 1
  <2>1. \A S \in SUBSET Reservations : IsFiniteSet(S) /\ Cardinality(S) \in Nat
                                       /\ Cardinality(S) <= N
    BY FS_Subset, FS_CardinalityType
  <2>2. Cardinality(x[1]) # 0
    BY <1>1, <2>1, FS_EmptySet
  <2> QED BY <1>3, <2>1, <2>2
<1>5. CASE r \in x[2]
  <2>1. more[1] = x[1] \ {r} /\ more[2] = x[2]
    BY <1>3, <1>5 DEF Onward
  <2>2. Cardinality(more[1]) = Cardinality(x[1]) - 1
    BY <1>1, <2>1, FS_Subset, FS_RemoveElement
  <2>3. N * left + Cardinality(more[1]) < N * left + Cardinality(x[1])
    BY <1>4, <2>2
  <2> QED BY <1>3, <2>1, <2>3
<1>6. CASE r \notin x[2]
  <2>1. Reservations \ more[2] = (Reservations \ x[2]) \ {r} /\ r \in Reservations \ x[2]
    BY <1>1, <1>3, <1>6
  <2>2. Cardinality(Reservations \ more[2]) = left - 1
    <3>1. IsFiniteSet(Reservations \ x[2])
      BY FS_Subset
    <3>2. Cardinality((Reservations \ x[2]) \ {r}) = left - 1
      BY <2>1, <3>1, FS_RemoveElement
    <3> HIDE DEF r, left, more
    <3> QED BY <2>1, <3>2
  <2>3. N * (left - 1) + Cardinality(more[1]) < N * left + Cardinality(x[1])
    <3> HIDE DEF N, left, more
    <3>1. N * (left - 1) = N * left - N /\ N * left \in Nat
      BY <1>4
    <3> QED BY <1>4, <3>1
  <2> QED BY <1>3, <2>2, <2>3
<1> QED BY <1>5, <1>6

\* The search answers whether one of the two waits for the other.
LEMMA ReachingDecides ==
  ASSUME NEW P, IsFiniteSet(Reservations),
         NEW before \in Reservations, NEW after \in Reservations
  PROVE  (CHOOSE f : Reaching(P, before, f))[<<{after}, {}>>] <=> before \in Reachable(P, after)
<1> DEFINE States == (SUBSET Reservations) \X (SUBSET Reservations)
           stops == {x \in States : x[1] = {} \/ Looked(x) = before}
           step == [x \in States |-> ReachStep(P, x)]
           answer == [x \in States |-> x[1] # {}]
           measure == [x \in States |->
                         Cardinality(Reservations) * Cardinality(Reservations \ x[2])
                            + Cardinality(x[1])]
<1>1. Descends(States, stops, step, measure)
  <2>1. ASSUME NEW x \in States PROVE measure[x] \in Nat
    <3>1. \A S \in SUBSET Reservations : Cardinality(S) \in Nat
      BY FS_Subset, FS_CardinalityType
    <3>2. /\ Cardinality(Reservations) \in Nat /\ Cardinality(Reservations \ x[2]) \in Nat
          /\ Cardinality(x[1]) \in Nat
      BY <3>1
    <3>3. \A a, b, c \in Nat : a * b + c \in Nat
      OBVIOUS
    <3> QED BY <3>2, <3>3
  <2>2. ASSUME NEW x \in States \ stops
        PROVE  step[x] \in States /\ measure[step[x]] < measure[x]
    <3>1. x \in States /\ x[1] # {}
      OBVIOUS
    <3>2. ReachStep(P, x) \in States
      BY <3>1, ReachMeasure
    <3>3. step[x] = ReachStep(P, x)
      OBVIOUS
    <3>4. measure[ReachStep(P, x)] < measure[x]
      BY <3>1, <3>2, ReachMeasure
    <3> HIDE DEF States, stops, step, measure
    <3> QED BY <3>2, <3>3, <3>4
  <2> HIDE DEF States, stops, step, measure
  <2> QED BY <2>1, <2>2 DEF Descends
<1>2. ASSUME NEW f, \A x \in States : f[x] \in BOOLEAN
      PROVE  Reaching(P, before, f) <=> Iterates(States, stops, step, answer, f)
  <2> DEFINE g == [s \in States |->
                     /\ s[1] # {}
                     /\ \/ Looked(s) = before
                        \/ f[<<(s[1] \ {Looked(s)}) \cup (Onward(P, s) \ s[2]), s[2] \cup {Looked(s)}>>]]
             h == [s \in States |-> IF s \in stops THEN answer[s] ELSE f[step[s]]]
  <2>1. ASSUME NEW s \in States PROVE g[s] = h[s]
    <3>1. CASE s \in stops
      BY <3>1
    <3>2. CASE s \notin stops
      <4>1. step[s] \in States
        BY <1>1, <3>2 DEF Descends
      <4>2. f[step[s]] \in BOOLEAN
        BY <1>2, <4>1
      <4>3. g[s] = f[step[s]]
        BY <3>2, <4>2 DEF ReachStep
      <4> QED BY <3>2, <4>3
    <3> QED BY <3>1, <3>2
  <2>2. g = h
    BY <2>1
  <2> HIDE DEF g, h
  <2>3. (f = g) <=> (f = h)
    BY <2>2
  <2> QED BY <2>3 DEF Reaching, Iterates, g, h
<1>3. ASSUME NEW f, Iterates(States, stops, step, answer, f), NEW x \in States
      PROVE  f[x] \in BOOLEAN
  <2>1. States \in SUBSET States /\ \A y \in States \ stops : step[y] \in States
    BY <1>1 DEF Descends
  <2>2. \A y \in States : answer[y] \in BOOLEAN
    OBVIOUS
  <2>3. PICK y \in States \cap stops : f[x] = answer[y]
    <3> HIDE DEF States, stops, step, answer, measure
    <3> QED BY <1>1, <1>3, <2>1, IterationEnds
  <2> QED BY <2>2, <2>3
<1> DEFINE f == CHOOSE f : Reaching(P, before, f)
<1>4. Reaching(P, before, f)
  <2>1. PICK g : Iterates(States, stops, step, answer, g)
    <3> HIDE DEF States, stops, step, answer, measure
    <3> QED BY <1>1, IterationExists
  <2>2. Reaching(P, before, g)
    <3> HIDE DEF States, stops, step, answer, measure
    <3> QED BY <1>2, <1>3, <2>1
  <2> QED BY <2>2
<1>5. Iterates(States, stops, step, answer, f)
  <2>1. \A x \in States : f[x] \in BOOLEAN
    <3> HIDE DEF f
    <3> QED BY <1>4 DEF Reaching
  <2> HIDE DEF f, States, stops, step, answer, measure
  <2> QED BY <1>2, <1>4, <2>1
<1> DEFINE Kept == {x \in States :
              /\ x[1] \subseteq Reachable(P, after)
              /\ before \notin x[2]
              /\ after \in x[1] \cup x[2]
              /\ \A v \in x[2], q \in Reservations : <<v, q>> \in P => q \in x[1] \cup x[2]}
<1>6. ASSUME NEW x \in Kept \ stops PROVE step[x] \in Kept
  <2> DEFINE r == Looked(x)
             y == ReachStep(P, x)
  <2>1. x \in States /\ x[1] # {} /\ r # before
    OBVIOUS
  <2>2. r \in x[1] /\ r \in Reservations
    BY <2>1 DEF Looked
  <2>3. /\ y \in States /\ step[x] = y
        /\ y[1] = (x[1] \ {r}) \cup (Onward(P, x) \ x[2]) /\ y[2] = x[2] \cup {r}
    BY <2>1, ReachMeasure DEF ReachStep
  <2>4. Onward(P, x) \subseteq Reachable(P, after)
    <3>1. r \in Reachable(P, after)
      BY <2>2
    <3> QED BY <2>2, <3>1 DEF Onward, Reachable, Closed
  <2>5. \A q \in Reservations : <<r, q>> \in P => q \in y[1] \cup y[2]
    BY <2>3 DEF Onward
  <2> HIDE DEF y, r
  <2>6. \A v \in y[2], q \in Reservations : <<v, q>> \in P => q \in y[1] \cup y[2]
    BY <2>3, <2>5
  <2>7. y[1] \subseteq Reachable(P, after) /\ before \notin y[2] /\ after \in y[1] \cup y[2]
    BY <2>1, <2>3, <2>4
  <2> QED BY <2>3, <2>6, <2>7
<1>7. <<{after}, {}>> \in Kept
  <2>1. after \in Reachable(P, after)
    BY DEF Reachable
  <2> QED BY <2>1
<1>8. PICK x \in Kept \cap stops : f[<<{after}, {}>>] = answer[x]
  <2>1. Kept \in SUBSET States
    OBVIOUS
  <2> HIDE DEF States, stops, step, answer, measure, f, Kept
  <2> QED BY <1>1, <1>5, <1>6, <1>7, <2>1, IterationEnds
<1> HIDE DEF f
<1>9. f[<<{after}, {}>>] <=> before \in Reachable(P, after)
  <2>1. CASE x[1] = {}
    <3>1. after \in x[2] /\ before \notin x[2] /\ Closed(P, x[2]) /\ x[2] \in SUBSET Reservations
      BY <2>1 DEF Closed
    <3>2. before \notin Reachable(P, after)
      BY <3>1 DEF Reachable
    <3> QED BY <1>8, <2>1, <3>2
  <2>2. CASE x[1] # {}
    <3>1. before \in x[1]
      BY <2>2 DEF Looked
    <3> QED BY <1>8, <2>2, <3>1
  <2> QED BY <2>1, <2>2
<1> QED BY <1>9 DEF f

\* In an acyclic graph an edge closes a cycle exactly when its source waits
\* for its target already.
LEMMA ClosingAnEdge ==
  ASSUME NEW P, Acyclic(P), NEW a \in Reservations, NEW b \in Reservations, a # b
  PROVE  a \in Reachable(P, b) <=> ~ Acyclic(P \cup {<<a, b>>})
<1> DEFINE R == Reachable(P, b)
<1>0. b \in R /\ R \in SUBSET Reservations /\ Closed(P, R)
  BY DEF Reachable, Closed
<1>1. ASSUME a \in R PROVE ~ Acyclic(P \cup {<<a, b>>})
  <2>1. ASSUME NEW r \in R PROVE \E q \in R : <<q, r>> \in P \cup {<<a, b>>}
    <3>1. CASE r = b
      BY <1>1, <3>1
    <3>2. CASE r # b
      <4> SUFFICES ASSUME \A q \in R : <<q, r>> \notin P PROVE FALSE
        OBVIOUS
      <4>1. R \ {r} \in SUBSET Reservations /\ b \in R \ {r} /\ Closed(P, R \ {r})
        BY <1>0, <3>2 DEF Closed
      <4>2. r \notin R
        BY <4>1 DEF Reachable
      <4> QED BY <4>2
    <3> QED BY <3>1, <3>2
  <2> HIDE DEF R
  <2> QED BY <1>0, <2>1 DEF Acyclic
<1>2. ASSUME a \notin R PROVE Acyclic(P \cup {<<a, b>>})
  <2> HIDE DEF R
  <2> SUFFICES ASSUME NEW S \in SUBSET Reservations, S # {}
               PROVE  \E r \in S : \A q \in S : <<q, r>> \notin P \cup {<<a, b>>}
    BY DEF Acyclic
  <2>1. CASE S \subseteq R
    <3>1. PICK r \in S : \A q \in S : <<q, r>> \notin P
      BY DEF Acyclic
    <3> QED BY <1>2, <2>1, <3>1
  <2>2. CASE ~ (S \subseteq R)
    <3>1. S \ R \in SUBSET Reservations /\ S \ R # {}
      BY <2>2
    <3>2. PICK r \in S \ R : \A q \in S \ R : <<q, r>> \notin P
      BY <3>1 DEF Acyclic
    <3>3. \A q \in S : <<q, r>> \notin P
      BY <1>0, <3>2 DEF Closed
    <3> QED BY <1>0, <3>2, <3>3
  <2> QED BY <2>1, <2>2
<1> QED BY <1>1, <1>2

\* Reverse reachability answers whether the proposed edge closes a cycle.
LEMMA ReachabilityDecides ==
  ASSUME NEW P, IsFiniteSet(Reservations), Acyclic(P),
         NEW a \in Reservations, NEW b \in Reservations
  PROVE  WouldCreateCycle(P, a, b) <=> ~ Acyclic(P \cup {<<a, b>>})
<1>1. CASE a = b
  <2>1. WouldCreateCycle(P, a, b)
    BY <1>1, ReachIs
  <2>2. \A r \in {a} : \E q \in {a} : <<q, r>> \in P \cup {<<a, b>>}
    BY <1>1
  <2>3. {a} \in SUBSET Reservations /\ {a} # {}
    OBVIOUS
  <2> QED BY <2>1, <2>2, <2>3 DEF Acyclic
<1>2. CASE a # b
  <2>1. WouldCreateCycle(P, a, b) <=> a \in Reachable(P, b)
    BY <1>2, ReachIs, ReachingDecides
  <2> QED BY <1>2, <2>1, ClosingAnEdge
<1> QED BY <1>1, <1>2

-----------------------------------------------------------------------------
(* Depth-first search.                                                       *)

SearchStates(P) == Seq(Reservations) \X (SUBSET Reservations) \X (SUBSET P)
OpenEdges(P, s) == {e \in P \ s[3] : e[1] = Last(s[1])}
NewRoot(s) == CHOOSE r \in Reservations \ s[2] : TRUE
NextEdge(P, s) == CHOOSE e \in OpenEdges(P, s) : TRUE

FromRoot(s) == << <<NewRoot(s)>>, s[2] \cup {NewRoot(s)}, s[3] >>
BackUp(s) == <<Front(s[1]), s[2], s[3]>>
Along(P, s) == <<IF NextEdge(P, s)[2] \in s[2] THEN s[1] ELSE Append(s[1], NextEdge(P, s)[2]),
                 s[2] \cup {NextEdge(P, s)[2]}, s[3] \cup {NextEdge(P, s)}>>

\* The function EnsureAcyclic chooses.
Searches(P, f) == f =
    [s \in Seq(Reservations) \X (SUBSET Reservations) \X (SUBSET P) |->
        LET path == s[1]
            visited == s[2]
            taken == s[3]
            open == {e \in P \ taken : e[1] = Last(path)}
            root == CHOOSE r \in Reservations \ visited : TRUE
            next == CHOOSE e \in open : TRUE
        IN  IF path = <<>>
            THEN \/ visited = Reservations
                 \/ f[<< <<root>>, visited \cup {root}, taken >>]
            ELSE IF open = {}
                 THEN f[<<Front(path), visited, taken>>]
                 ELSE /\ next[2] \notin ToSet(path)
                      /\ f[<<IF next[2] \in visited THEN path ELSE Append(path, next[2]),
                             visited \cup {next[2]}, taken \cup {next}>>]]

\* What EnsureAcyclic answers is the value of the function it chooses.
LEMMA SearchIs ==
  ASSUME NEW P
  PROVE  EnsureAcyclic(P) <=> (CHOOSE f : Searches(P, f))[<< <<>>, {}, {} >>]
BY DEF EnsureAcyclic, Searches

\* That function, by the three ways the search goes on.
LEMMA SearchesIs ==
  ASSUME NEW P, NEW f
  PROVE  Searches(P, f) <=> f =
            [s \in SearchStates(P) |->
                IF s[1] = <<>>
                THEN s[2] = Reservations \/ f[FromRoot(s)]
                ELSE IF OpenEdges(P, s) = {}
                     THEN f[BackUp(s)]
                     ELSE /\ NextEdge(P, s)[2] \notin ToSet(s[1])
                          /\ f[Along(P, s)]]
BY DEF Searches, SearchStates, OpenEdges, NewRoot, NextEdge, FromRoot, BackUp, Along

\* The last element of a sequence, and the rest of it.
LEMMA FrontIs ==
  ASSUME NEW X, NEW q \in Seq(X), q # <<>>
  PROVE  /\ Len(q) \in Nat \ {0} /\ Last(q) = q[Len(q)] /\ Last(q) \in X
         /\ Front(q) \in Seq(X) /\ Len(Front(q)) = Len(q) - 1
         /\ \A i \in 1 .. Len(q) - 1 : Front(q)[i] = q[i]
<1>1. Len(q) \in Nat /\ Len(q) # 0
  OBVIOUS
<1>2. ASSUME NEW n \in 0 .. Len(q)
      PROVE  /\ SubSeq(q, 1, n) \in Seq(X) /\ Len(SubSeq(q, 1, n)) = n
             /\ \A i \in 1 .. n : SubSeq(q, 1, n)[i] = q[i]
  <2>1. SubSeq(q, 1, n) \in Seq(X) /\ Len(SubSeq(q, 1, n)) = n
    OBVIOUS
  <2>2. \A i \in 1 .. n : SubSeq(q, 1, n)[i] = q[i]
    OBVIOUS
  <2> QED BY <2>1, <2>2
<1>3. Len(q) - 1 \in 0 .. Len(q) /\ q[Len(q)] \in X
  BY <1>1
<1>4. /\ SubSeq(q, 1, Len(q) - 1) \in Seq(X) /\ Len(SubSeq(q, 1, Len(q) - 1)) = Len(q) - 1
      /\ \A i \in 1 .. Len(q) - 1 : SubSeq(q, 1, Len(q) - 1)[i] = q[i]
  BY <1>2, <1>3
<1> QED BY <1>1, <1>3, <1>4 DEF Front, Last

\* A path, what was visited and what was followed are a state of the search.
LEMMA SearchStateIs ==
  ASSUME NEW P, NEW path \in Seq(Reservations), NEW visited \in SUBSET Reservations,
         NEW taken \in SUBSET P
  PROVE  <<path, visited, taken>> \in SearchStates(P)
<1>1. ASSUME NEW A, NEW B, NEW C, NEW a \in A, NEW b \in B, NEW c \in C
      PROVE  <<a, b, c>> \in A \X B \X C
  OBVIOUS
<1> QED BY <1>1 DEF SearchStates

\* Where the search ends, and how it goes on.
SearchEnds(P, s) ==
    \/ s[1] = <<>> /\ s[2] = Reservations
    \/ s[1] # <<>> /\ OpenEdges(P, s) # {} /\ NextEdge(P, s)[2] \in ToSet(s[1])

SearchStep(P, s) ==
    IF s[1] = <<>> THEN FromRoot(s)
    ELSE IF OpenEdges(P, s) = {} THEN BackUp(s) ELSE Along(P, s)

SearchLeft(P, s) ==
    2 * Cardinality(Reservations \ s[2]) + Cardinality(P \ s[3]) + Len(s[1])

\* The edge followed next is one that was not, from the end of the path.
LEMMA NextIs ==
  ASSUME NEW P \in SUBSET (Reservations \X Reservations),
         NEW s \in SearchStates(P), s[1] # <<>>, OpenEdges(P, s) # {}
  PROVE  /\ NextEdge(P, s) \in P \ s[3] /\ NextEdge(P, s)[2] \in Reservations
         /\ NextEdge(P, s)[1] = Last(s[1])
         /\ NextEdge(P, s) = <<NextEdge(P, s)[1], NextEdge(P, s)[2]>>
<1>1. NextEdge(P, s) \in OpenEdges(P, s)
  BY DEF NextEdge
<1> QED BY <1>1 DEF OpenEdges

\* Every step visits a vertex, follows an edge, or shortens the path.
LEMMA SearchMeasure ==
  ASSUME NEW P \in SUBSET (Reservations \X Reservations), IsFiniteSet(Reservations),
         NEW s \in SearchStates(P)
  PROVE  /\ SearchLeft(P, s) \in Nat
         /\ ~ SearchEnds(P, s) => /\ SearchStep(P, s) \in SearchStates(P)
                                  /\ SearchLeft(P, SearchStep(P, s)) < SearchLeft(P, s)
<1>0. IsFiniteSet(P)
  BY FS_Product, FS_Subset
<1>1. \A S \in SUBSET Reservations : IsFiniteSet(S) /\ Cardinality(S) \in Nat
  BY FS_Subset, FS_CardinalityType
<1>2. \A K \in SUBSET P : IsFiniteSet(K) /\ Cardinality(K) \in Nat
  BY <1>0, FS_Subset, FS_CardinalityType
<1>3. ASSUME NEW V \in SUBSET Reservations, NEW r \in Reservations \ V
      PROVE  Cardinality(Reservations \ (V \cup {r})) = Cardinality(Reservations \ V) - 1
  <2>1. Cardinality((Reservations \ V) \ {r}) = Cardinality(Reservations \ V) - 1
    BY <1>1, FS_RemoveElement
  <2>2. Reservations \ (V \cup {r}) = (Reservations \ V) \ {r}
    OBVIOUS
  <2> QED BY <2>1, <2>2
<1>4. ASSUME NEW K \in SUBSET P, NEW e \in P \ K
      PROVE  Cardinality(P \ (K \cup {e})) = Cardinality(P \ K) - 1
  <2>1. Cardinality((P \ K) \ {e}) = Cardinality(P \ K) - 1
    BY <1>2, FS_RemoveElement
  <2>2. P \ (K \cup {e}) = (P \ K) \ {e}
    OBVIOUS
  <2> QED BY <2>1, <2>2
<1>5. PICK path \in Seq(Reservations), visited \in SUBSET Reservations, taken \in SUBSET P :
         s = <<path, visited, taken>>
  BY DEF SearchStates
<1> DEFINE u == Cardinality(Reservations \ visited)
           k == Cardinality(P \ taken)
<1>6. u \in Nat /\ k \in Nat /\ Len(path) \in Nat
  BY <1>1, <1>2
<1>7. SearchLeft(P, s) = 2 * u + k + Len(path)
  BY <1>5 DEF SearchLeft
<1>8. ASSUME ~ SearchEnds(P, s)
      PROVE  SearchStep(P, s) \in SearchStates(P) /\ SearchLeft(P, SearchStep(P, s)) < SearchLeft(P, s)
  <2>1. CASE path = <<>>
    <3> DEFINE r == NewRoot(s)
    <3>1. r \in Reservations \ visited
      BY <1>5, <1>8, <2>1 DEF SearchEnds, NewRoot
    <3>2. SearchStep(P, s) = << <<r>>, visited \cup {r}, taken >>
      BY <1>5, <2>1 DEF SearchStep, FromRoot
    <3> HIDE DEF r
    <3>3. SearchStep(P, s) \in SearchStates(P)
      <4>1. <<r>> \in Seq(Reservations) /\ visited \cup {r} \in SUBSET Reservations
        BY <3>1
      <4> QED BY <3>2, <4>1, SearchStateIs
    <3>4. SearchLeft(P, SearchStep(P, s)) = 2 * Cardinality(Reservations \ (visited \cup {r})) + k + 1
      BY <3>2 DEF SearchLeft
    <3>5. Cardinality(Reservations \ (visited \cup {r})) = u - 1
      BY <1>3, <3>1
    <3> HIDE DEF u, k
    <3> QED BY <1>6, <1>7, <2>1, <3>3, <3>4, <3>5
  <2>2. CASE path # <<>> /\ OpenEdges(P, s) = {}
    <3>1. SearchStep(P, s) = <<Front(path), visited, taken>>
      BY <1>5, <2>2 DEF SearchStep, BackUp
    <3>2. Front(path) \in Seq(Reservations) /\ Len(Front(path)) = Len(path) - 1
      BY <2>2, FrontIs
    <3>3. SearchLeft(P, SearchStep(P, s)) = 2 * u + k + (Len(path) - 1)
      BY <3>1, <3>2 DEF SearchLeft
    <3> HIDE DEF u, k
    <3> QED BY <1>6, <1>7, <3>1, <3>2, <3>3 DEF SearchStates
  <2>3. CASE path # <<>> /\ OpenEdges(P, s) # {}
    <3> DEFINE e == NextEdge(P, s)
    <3>1. e \in P \ taken /\ e[2] \in Reservations
      BY <1>5, <2>3, NextIs
    <3>2. SearchStep(P, s) = <<IF e[2] \in visited THEN path ELSE Append(path, e[2]),
                               visited \cup {e[2]}, taken \cup {e}>>
      BY <1>5, <2>3 DEF SearchStep, Along
    <3> HIDE DEF e
    <3>3. Cardinality(P \ (taken \cup {e})) = k - 1
      BY <1>4, <3>1
    <3>4. CASE e[2] \in visited
      <4>1. SearchStep(P, s) = <<path, visited, taken \cup {e}>>
        BY <3>2, <3>4
      <4>2. SearchLeft(P, SearchStep(P, s)) = 2 * u + (k - 1) + Len(path)
        BY <3>3, <4>1 DEF SearchLeft
      <4>3. SearchStep(P, s) \in SearchStates(P)
        BY <3>1, <4>1 DEF SearchStates
      <4> HIDE DEF u, k
      <4> QED BY <1>6, <1>7, <4>2, <4>3
    <3>5. CASE e[2] \notin visited
      <4>1. SearchStep(P, s) = <<Append(path, e[2]), visited \cup {e[2]}, taken \cup {e}>>
        BY <3>2, <3>5
      <4>2. Cardinality(Reservations \ (visited \cup {e[2]})) = u - 1
        BY <1>3, <3>1, <3>5
      <4>3. Append(path, e[2]) \in Seq(Reservations) /\ Len(Append(path, e[2])) = Len(path) + 1
        BY <3>1
      <4>4. SearchLeft(P, SearchStep(P, s)) = 2 * (u - 1) + (k - 1) + (Len(path) + 1)
        BY <3>3, <4>1, <4>2, <4>3 DEF SearchLeft
      <4>5. SearchStep(P, s) \in SearchStates(P)
        <5>1. visited \cup {e[2]} \in SUBSET Reservations /\ taken \cup {e} \in SUBSET P
          BY <3>1
        <5> QED BY <4>1, <4>3, <5>1, SearchStateIs
      <4> HIDE DEF u, k
      <4> QED BY <1>6, <1>7, <4>4, <4>5
    <3> QED BY <3>4, <3>5
  <2> QED BY <2>1, <2>2, <2>3
<1> HIDE DEF u, k
<1> QED BY <1>6, <1>7, <1>8

\* What a sequence holds, by position.
LEMMA ToSetIs ==
  ASSUME NEW X, NEW q \in Seq(X)
  PROVE  \A v : v \in ToSet(q) <=> \E i \in 1 .. Len(q) : q[i] = v
BY DEF ToSet

\* The path is one, without repetition; what is left behind it is closed
\* and acyclic; an edge that was followed from the path leads along it, or to
\* what is left behind.
OnPath(P, path, visited) ==
    /\ ToSet(path) \subseteq visited
    /\ \A i, j \in 1 .. Len(path) : path[i] = path[j] => i = j
    /\ \A i \in 1 .. Len(path) - 1 : <<path[i], path[i + 1]>> \in P

Behind(P, done) ==
    /\ \A v \in done, w \in Reservations : <<v, w>> \in P => w \in done
    /\ \A S \in SUBSET done : S # {} => \E r \in S : \A q \in S : <<q, r>> \notin P

Followed(path, visited, taken, done) ==
    /\ \A e \in taken : e[1] \in visited
    /\ \A e \in taken, i \in 1 .. Len(path) : e[1] = path[i] =>
          e[2] \in done \/ (i < Len(path) /\ e[2] = path[i + 1])

SearchInv(P, path, visited, taken) ==
    /\ OnPath(P, path, visited)
    /\ Behind(P, visited \ ToSet(path))
    /\ Followed(path, visited, taken, visited \ ToSet(path))

\* A new root is a path of its own.
LEMMA RootInv ==
  ASSUME NEW P, NEW visited \in SUBSET Reservations, NEW taken \in SUBSET P,
         SearchInv(P, <<>>, visited, taken), NEW r \in Reservations \ visited
  PROVE  SearchInv(P, <<r>>, visited \cup {r}, taken)
<1>1. /\ ToSet(<<>>) = {} /\ ToSet(<<r>>) = {r} /\ Len(<<r>>) = 1 /\ <<r>>[1] = r
  BY DEF ToSet
<1>2. visited \ ToSet(<<>>) = visited /\ (visited \cup {r}) \ ToSet(<<r>>) = visited
  BY <1>1
<1>3. OnPath(P, <<r>>, visited \cup {r})
  <2>1. 1 .. Len(<<r>>) = {1} /\ 1 .. Len(<<r>>) - 1 = {}
    BY <1>1
  <2> QED BY <1>1, <2>1 DEF OnPath
<1>4. Followed(<<r>>, visited \cup {r}, taken, visited)
  <2>1. \A e \in taken : e[1] \in visited
    BY DEF SearchInv, Followed
  <2>2. 1 .. Len(<<r>>) = {1}
    BY <1>1
  <2> QED BY <1>1, <2>1, <2>2 DEF Followed
<1> QED BY <1>2, <1>3, <1>4 DEF SearchInv

\* A vertex whose edges were all followed can be left behind.
LEMMA BackUpInv ==
  ASSUME NEW P \in SUBSET (Reservations \X Reservations),
         NEW path \in Seq(Reservations), path # <<>>,
         NEW visited \in SUBSET Reservations, NEW taken \in SUBSET P,
         SearchInv(P, path, visited, taken),
         \A e \in P \ taken : e[1] # Last(path)
  PROVE  SearchInv(P, Front(path), visited, taken)
<1> DEFINE v == Last(path)
           N == Len(path)
           front == Front(path)
           done == visited \ ToSet(path)
<1>1. /\ N \in Nat \ {0} /\ v = path[N] /\ v \in Reservations
      /\ front \in Seq(Reservations) /\ Len(front) = N - 1
      /\ \A i \in 1 .. N - 1 : front[i] = path[i]
  BY FrontIs
<1>2. /\ OnPath(P, path, visited) /\ Behind(P, done) /\ Followed(path, visited, taken, done)
  BY DEF SearchInv
<1>3. /\ \A w : w \in ToSet(path) <=> \E i \in 1 .. N : path[i] = w
      /\ \A w : w \in ToSet(front) <=> \E i \in 1 .. N - 1 : front[i] = w
  BY <1>1, ToSetIs
<1> HIDE DEF v, N, front, done
<1>4. v \in ToSet(path) /\ v \in visited /\ v \notin done
  <2>1. v \in ToSet(path)
    BY <1>1, <1>3
  <2> QED BY <1>2, <2>1 DEF OnPath, done
<1>5. v \notin ToSet(front)
  <2> SUFFICES ASSUME NEW i \in 1 .. N - 1, front[i] = v PROVE FALSE
    BY <1>3
  <2>1. path[i] = path[N] /\ i \in 1 .. N /\ N \in 1 .. N /\ i # N
    BY <1>1
  <2> QED BY <1>2, <2>1 DEF OnPath, N
<1>6. ToSet(path) = ToSet(front) \cup {v}
  <2>1. ASSUME NEW w \in ToSet(path) PROVE w \in ToSet(front) \cup {v}
    <3>1. PICK i \in 1 .. N : path[i] = w
      BY <1>3, <2>1
    <3>2. i = N \/ i \in 1 .. N - 1
      BY <1>1
    <3> QED BY <1>1, <1>3, <3>1, <3>2
  <2>2. ASSUME NEW w \in ToSet(front) PROVE w \in ToSet(path)
    <3>1. PICK i \in 1 .. N - 1 : front[i] = w
      BY <1>3, <2>2
    <3>2. i \in 1 .. N /\ path[i] = w
      BY <1>1, <3>1
    <3> QED BY <1>3, <3>2
  <2> QED BY <1>4, <2>1, <2>2
<1>7. visited \ ToSet(front) = done \cup {v}
  BY <1>4, <1>5, <1>6 DEF done
<1>8. \A w \in Reservations : <<v, w>> \in P => w \in done
  <2> SUFFICES ASSUME NEW w \in Reservations, <<v, w>> \in P PROVE w \in done
    OBVIOUS
  <2>1. <<v, w>> \in taken
    BY DEF v
  <2>2. N \in 1 .. N /\ ~ (N < N) /\ <<v, w>>[1] = path[N] /\ <<v, w>>[2] = w
    BY <1>1
  <2> QED BY <1>2, <2>1, <2>2 DEF Followed, N
<1>9. OnPath(P, front, visited)
  <2>1. ToSet(front) \subseteq visited
    BY <1>2, <1>6 DEF OnPath
  <2>2. \A i, j \in 1 .. N - 1 : front[i] = front[j] => i = j
    BY <1>1, <1>2 DEF OnPath, N
  <2>3. ASSUME NEW i \in 1 .. (N - 1) - 1 PROVE <<front[i], front[i + 1]>> \in P
    <3>1. i \in 1 .. N - 1 /\ i + 1 \in 1 .. N - 1
      BY <1>1
    <3>2. <<path[i], path[i + 1]>> \in P
      BY <1>2, <3>1 DEF OnPath, N
    <3> QED BY <1>1, <3>1, <3>2
  <2> QED BY <1>1, <2>1, <2>2, <2>3 DEF OnPath
<1>10. Behind(P, done \cup {v})
  <2>1. \A u \in done \cup {v}, w \in Reservations : <<u, w>> \in P => w \in done
    BY <1>2, <1>8 DEF Behind
  <2>2. ASSUME NEW S \in SUBSET (done \cup {v}), S # {}
        PROVE  \E r \in S : \A q \in S : <<q, r>> \notin P
    <3>1. CASE v \in S
      <4>1. \A q \in S : <<q, v>> \notin P
        BY <1>1, <1>4, <2>1
      <4> QED BY <3>1, <4>1
    <3>2. CASE v \notin S
      <4>1. S \in SUBSET done
        BY <3>2
      <4> QED BY <1>2, <2>2, <4>1 DEF Behind
    <3> QED BY <3>1, <3>2
  <2> QED BY <2>1, <2>2 DEF Behind
<1>11. Followed(front, visited, taken, done \cup {v})
  <2>1. \A e \in taken : e[1] \in visited
    BY <1>2 DEF Followed
  <2>2. ASSUME NEW e \in taken, NEW i \in 1 .. N - 1, e[1] = front[i]
        PROVE  e[2] \in done \cup {v} \/ (i < N - 1 /\ e[2] = front[i + 1])
    <3>1. i \in 1 .. N /\ e[1] = path[i]
      BY <1>1, <2>2
    <3>2. e[2] \in done \/ (i < N /\ e[2] = path[i + 1])
      BY <1>2, <3>1 DEF Followed, N
    <3>3. i + 1 = N \/ (i < N - 1 /\ i + 1 \in 1 .. N - 1)
      BY <1>1
    <3> QED BY <1>1, <3>2, <3>3
  <2> QED BY <1>1, <2>1, <2>2 DEF Followed
<1> QED BY <1>7, <1>9, <1>10, <1>11 DEF SearchInv, front

\* An edge to a vertex that was left behind.
LEMMA AlongKnownInv ==
  ASSUME NEW P \in SUBSET (Reservations \X Reservations),
         NEW path \in Seq(Reservations), path # <<>>,
         NEW visited \in SUBSET Reservations, NEW taken \in SUBSET P,
         SearchInv(P, path, visited, taken),
         NEW e \in P, e[1] = Last(path), e[2] \in visited \ ToSet(path)
  PROVE  SearchInv(P, path, visited, taken \cup {e})
<1> DEFINE N == Len(path)
           done == visited \ ToSet(path)
<1>1. N \in Nat \ {0} /\ e[1] = path[N]
  BY FrontIs
<1>2. /\ OnPath(P, path, visited) /\ Behind(P, done) /\ Followed(path, visited, taken, done)
  BY DEF SearchInv
<1>3. e[1] \in visited
  <2>1. e[1] \in ToSet(path)
    BY <1>1, ToSetIs
  <2> QED BY <1>2, <2>1 DEF OnPath
<1>4. Followed(path, visited, taken \cup {e}, done)
  BY <1>2, <1>3 DEF Followed
<1> QED BY <1>2, <1>4 DEF SearchInv

\* An edge to a new vertex, which the path goes on to.
LEMMA AlongNewInv ==
  ASSUME NEW P \in SUBSET (Reservations \X Reservations),
         NEW path \in Seq(Reservations), path # <<>>,
         NEW visited \in SUBSET Reservations, NEW taken \in SUBSET P,
         SearchInv(P, path, visited, taken),
         NEW e \in P, e[1] = Last(path), e[2] \notin visited
  PROVE  SearchInv(P, Append(path, e[2]), visited \cup {e[2]}, taken \cup {e})
<1> DEFINE N == Len(path)
           w == e[2]
           more == Append(path, w)
           done == visited \ ToSet(path)
<1>1. /\ N \in Nat \ {0} /\ e[1] = path[N] /\ e[2] \in Reservations /\ e = <<path[N], w>>
      /\ more \in Seq(Reservations) /\ Len(more) = N + 1 /\ more[N + 1] = w
      /\ \A i \in 1 .. N : more[i] = path[i]
  <2>1. e[2] \in Reservations /\ e = <<e[1], e[2]>>
    OBVIOUS
  <2>2. N \in Nat \ {0} /\ e[1] = path[N]
    BY FrontIs
  <2>3. /\ more \in Seq(Reservations) /\ Len(more) = N + 1 /\ more[N + 1] = w
        /\ \A i \in 1 .. N : more[i] = path[i]
    BY <2>1
  <2> QED BY <2>1, <2>2, <2>3
<1>2. /\ OnPath(P, path, visited) /\ Behind(P, done) /\ Followed(path, visited, taken, done)
  BY DEF SearchInv
<1>3. /\ \A v : v \in ToSet(path) <=> \E i \in 1 .. N : path[i] = v
      /\ \A v : v \in ToSet(more) <=> \E i \in 1 .. N + 1 : more[i] = v
  <2>1. \A v : v \in ToSet(path) <=> \E i \in 1 .. N : path[i] = v
    BY ToSetIs
  <2>2. \A v : v \in ToSet(more) <=> \E i \in 1 .. Len(more) : more[i] = v
    <3> HIDE DEF more
    <3> QED BY <1>1, ToSetIs
  <2> HIDE DEF more, N
  <2> QED BY <1>1, <2>1, <2>2
<1> HIDE DEF N, w, more, done
<1>4. ToSet(more) = ToSet(path) \cup {w}
  <2>1. \A i : i \in 1 .. N + 1 <=> i \in 1 .. N \/ i = N + 1
    BY <1>1
  <2> QED BY <1>1, <1>3, <2>1
<1>5. w \notin visited /\ w \notin ToSet(path)
  BY <1>2 DEF OnPath, w
<1>6. (visited \cup {w}) \ ToSet(more) = done
  BY <1>4, <1>5 DEF done
<1>7. \A i \in 1 .. N : path[i] \in visited /\ path[i] # w
  BY <1>2, <1>3, <1>5 DEF OnPath
<1>8. OnPath(P, more, visited \cup {w})
  <2>1. ToSet(more) \subseteq visited \cup {w}
    BY <1>2, <1>4 DEF OnPath
  <2>2. ASSUME NEW i \in 1 .. N + 1, NEW j \in 1 .. N + 1, more[i] = more[j] PROVE i = j
    <3>1. (i \in 1 .. N \/ i = N + 1) /\ (j \in 1 .. N \/ j = N + 1)
      BY <1>1
    <3>2. CASE i \in 1 .. N /\ j \in 1 .. N
      BY <1>1, <1>2, <2>2, <3>2 DEF OnPath, N
    <3>3. CASE i = N + 1 \/ j = N + 1
      BY <1>1, <1>7, <2>2, <3>1, <3>3
    <3> QED BY <3>1, <3>2, <3>3
  <2>3. ASSUME NEW i \in 1 .. N PROVE <<more[i], more[i + 1]>> \in P
    <3>1. i = N \/ (i \in 1 .. N - 1 /\ i + 1 \in 1 .. N)
      BY <1>1
    <3>2. CASE i = N
      BY <1>1, <3>2
    <3>3. CASE i \in 1 .. N - 1 /\ i + 1 \in 1 .. N
      <4>1. <<path[i], path[i + 1]>> \in P
        BY <1>2, <3>3 DEF OnPath, N
      <4> QED BY <1>1, <3>3, <4>1
    <3> QED BY <3>1, <3>2, <3>3
  <2>4. (N + 1) - 1 = N
    BY <1>1
  <2> QED BY <1>1, <2>1, <2>2, <2>3, <2>4 DEF OnPath
<1>9. Followed(more, visited \cup {w}, taken \cup {e}, done)
  <2>1. \A d \in taken \cup {e} : d[1] \in visited
    <3>1. N \in 1 .. N
      BY <1>1
    <3> QED BY <1>1, <1>2, <1>7, <3>1 DEF Followed
  <2>2. ASSUME NEW d \in taken \cup {e}, NEW i \in 1 .. N + 1, d[1] = more[i]
        PROVE  d[2] \in done \/ (i < N + 1 /\ d[2] = more[i + 1])
    <3>1. i \in 1 .. N
      <4>1. i # N + 1
        BY <1>1, <1>5, <2>1, <2>2
      <4> QED BY <1>1, <4>1
    <3>2. d[1] = path[i] /\ i < N + 1
      BY <1>1, <2>2, <3>1
    <3>3. CASE d \in taken
      <4>1. d[2] \in done \/ (i < N /\ d[2] = path[i + 1])
        BY <1>2, <3>1, <3>2, <3>3 DEF Followed, N
      <4>2. i < N => i + 1 \in 1 .. N
        BY <1>1, <3>1
      <4> QED BY <1>1, <3>2, <4>1, <4>2
    <3>4. CASE d = e
      <4>1. path[i] = path[N] /\ N \in 1 .. N
        BY <1>1, <3>2, <3>4
      <4>2. i = N
        BY <1>2, <3>1, <4>1 DEF OnPath, N
      <4> QED BY <1>1, <3>2, <3>4, <4>2 DEF w
    <3> QED BY <3>3, <3>4
  <2> QED BY <1>1, <2>1, <2>2 DEF Followed
<1> QED BY <1>2, <1>6, <1>8, <1>9 DEF SearchInv, more, w

\* An edge back to the path closes a cycle.
LEMMA BackEdge ==
  ASSUME NEW P, NEW path \in Seq(Reservations), path # <<>>,
         NEW visited, OnPath(P, path, visited),
         NEW w \in ToSet(path), <<Last(path), w>> \in P
  PROVE  ~ Acyclic(P)
<1> DEFINE N == Len(path)
<1>1. N \in Nat \ {0} /\ Last(path) = path[N] /\ \A i \in 1 .. N : path[i] \in Reservations
  <2>1. N \in Nat \ {0} /\ Last(path) = path[N]
    BY FrontIs
  <2> QED BY <2>1
<1>2. PICK k \in 1 .. N : path[k] = w
  BY ToSetIs
<1> DEFINE S == {path[i] : i \in k .. N}
<1>3. N \in k .. N /\ k \in k .. N /\ \A i \in k .. N : i \in 1 .. N
  BY <1>1
<1>4. S \in SUBSET Reservations /\ S # {}
  BY <1>1, <1>3
<1>5. ASSUME NEW r \in S PROVE \E q \in S : <<q, r>> \in P
  <2>1. PICK i \in k .. N : r = path[i]
    OBVIOUS
  <2>2. CASE i = k
    <3>1. path[N] \in S
      BY <1>3
    <3> QED BY <1>1, <1>2, <2>1, <2>2, <3>1
  <2>3. CASE i # k
    <3>1. i - 1 \in k .. N /\ i - 1 \in 1 .. N - 1 /\ (i - 1) + 1 = i
      BY <1>1, <2>3
    <3>2. <<path[i - 1], path[(i - 1) + 1]>> \in P
      BY <3>1 DEF OnPath
    <3>3. path[i - 1] \in S
      BY <3>1
    <3> QED BY <2>1, <3>1, <3>2, <3>3
  <2> QED BY <2>2, <2>3
<1> HIDE DEF S
<1> QED BY <1>4, <1>5 DEF Acyclic

\* Depth-first search finds a way back exactly where there is a cycle.
LEMMA SearchingDecides ==
  ASSUME NEW P \in SUBSET (Reservations \X Reservations), IsFiniteSet(Reservations)
  PROVE  EnsureAcyclic(P) <=> Acyclic(P)
<1> DEFINE States == SearchStates(P)
           stops == {s \in States : SearchEnds(P, s)}
           step == [s \in States |-> SearchStep(P, s)]
           answer == [s \in States |-> s[1] = <<>>]
           measure == [s \in States |-> SearchLeft(P, s)]
           first == << <<>>, {}, {} >>
<1>1. Descends(States, stops, step, measure)
  <2>1. ASSUME NEW s \in States PROVE measure[s] \in Nat
    BY SearchMeasure
  <2>2. ASSUME NEW s \in States \ stops
        PROVE  step[s] \in States /\ measure[step[s]] < measure[s]
    <3>1. SearchStep(P, s) \in States /\ SearchLeft(P, SearchStep(P, s)) < SearchLeft(P, s)
      BY SearchMeasure
    <3> QED BY <3>1
  <2> HIDE DEF States, stops, step, measure
  <2> QED BY <2>1, <2>2 DEF Descends
<1>2. ASSUME NEW f, \A s \in States : f[s] \in BOOLEAN
      PROVE  Searches(P, f) <=> Iterates(States, stops, step, answer, f)
  <2> DEFINE g == [s \in SearchStates(P) |->
                IF s[1] = <<>>
                THEN s[2] = Reservations \/ f[FromRoot(s)]
                ELSE IF OpenEdges(P, s) = {}
                     THEN f[BackUp(s)]
                     ELSE /\ NextEdge(P, s)[2] \notin ToSet(s[1])
                          /\ f[Along(P, s)]]
             h == [s \in States |-> IF s \in stops THEN answer[s] ELSE f[step[s]]]
  <2>1. ASSUME NEW s \in States PROVE g[s] = h[s]
    <3>1. CASE SearchEnds(P, s)
      BY <3>1 DEF SearchEnds
    <3>2. CASE ~ SearchEnds(P, s)
      <4>1. SearchStep(P, s) \in States /\ step[s] = SearchStep(P, s)
        BY <3>2, SearchMeasure
      <4>2. f[SearchStep(P, s)] \in BOOLEAN
        BY <1>2, <4>1
      <4>3. h[s] = f[SearchStep(P, s)]
        BY <3>2, <4>1
      <4>4. g[s] = f[SearchStep(P, s)]
        BY <3>2, <4>2 DEF SearchEnds, SearchStep
      <4> QED BY <4>3, <4>4
    <3> QED BY <3>1, <3>2
  <2>2. g = h
    BY <2>1
  <2> HIDE DEF g, h
  <2>3. (f = g) <=> (f = h)
    BY <2>2
  <2>4. Searches(P, f) <=> f = g
    BY SearchesIs DEF g
  <2>5. Iterates(States, stops, step, answer, f) <=> f = h
    BY DEF Iterates, h
  <2> QED BY <2>3, <2>4, <2>5
<1>3. ASSUME NEW f, Iterates(States, stops, step, answer, f), NEW s \in States
      PROVE  f[s] \in BOOLEAN
  <2>1. States \in SUBSET States /\ \A t \in States \ stops : step[t] \in States
    BY <1>1 DEF Descends
  <2>2. \A t \in States : answer[t] \in BOOLEAN
    OBVIOUS
  <2>3. PICK t \in States \cap stops : f[s] = answer[t]
    <3> HIDE DEF States, stops, step, answer, measure
    <3> QED BY <1>1, <1>3, <2>1, IterationEnds
  <2> QED BY <2>2, <2>3
<1> DEFINE f == CHOOSE f : Searches(P, f)
<1>4. Searches(P, f)
  <2>1. PICK g : Iterates(States, stops, step, answer, g)
    <3> HIDE DEF States, stops, step, answer, measure
    <3> QED BY <1>1, IterationExists
  <2>2. Searches(P, g)
    <3> HIDE DEF States, stops, step, answer, measure
    <3> QED BY <1>2, <1>3, <2>1
  <2> QED BY <2>2
<1>5. Iterates(States, stops, step, answer, f)
  <2>1. \A s \in States : f[s] \in BOOLEAN
    <3> HIDE DEF f
    <3>1. f = [s \in SearchStates(P) |->
                IF s[1] = <<>>
                THEN s[2] = Reservations \/ f[FromRoot(s)]
                ELSE IF OpenEdges(P, s) = {}
                     THEN f[BackUp(s)]
                     ELSE /\ NextEdge(P, s)[2] \notin ToSet(s[1])
                          /\ f[Along(P, s)]]
      BY <1>4, SearchesIs
    <3> DEFINE halts == {s \in States : s[1] = <<>> \/ OpenEdges(P, s) # {}}
               same == [s \in States |-> f[s]]
    <3>2. \A s \in halts : f[s] \in BOOLEAN
      BY <3>1
    <3>3. \A s \in States \ halts : s \in States \ stops /\ f[s] = f[step[s]]
      BY <3>1 DEF SearchEnds, SearchStep
    <3>4. Descends(States, halts, step, measure)
      <4> HIDE DEF States, stops, step, answer, measure, halts
      <4> QED BY <1>1, <3>3 DEF Descends
    <3>5. Iterates(States, halts, step, same, f)
      <4> DEFINE h == [s \in States |-> IF s \in halts THEN same[s] ELSE f[step[s]]]
      <4>1. f = [s \in States |-> f[s]]
        BY <3>1
      <4>2. \A s \in States : h[s] = f[s]
        <5> HIDE DEF States, stops, step, answer, measure, halts
        <5> QED BY <3>3
      <4>3. h = [s \in States |-> f[s]]
        BY <4>2
      <4> QED BY <4>1, <4>3 DEF Iterates
    <3>6. ASSUME NEW s \in States PROVE f[s] \in BOOLEAN
      <4>1. States \in SUBSET States /\ \A t \in States \ halts : step[t] \in States
        BY <3>4 DEF Descends
      <4>2. PICK t \in States \cap halts : f[s] = same[t]
        <5> HIDE DEF States, stops, step, answer, measure, halts, same
        <5> QED BY <3>4, <3>5, <4>1, IterationEnds
      <4> QED BY <3>2, <4>2
    <3> QED BY <3>6
  <2> HIDE DEF f, States, stops, step, answer, measure
  <2> QED BY <1>2, <1>4, <2>1
<1> DEFINE Kept == {s \in States : SearchInv(P, s[1], s[2], s[3])}
<1>6. ASSUME NEW s \in Kept \ stops PROVE step[s] \in Kept
  <2>1. /\ s \in States /\ ~ SearchEnds(P, s) /\ SearchInv(P, s[1], s[2], s[3])
        /\ SearchStep(P, s) \in States /\ step[s] = SearchStep(P, s)
    BY SearchMeasure
  <2>2. PICK path \in Seq(Reservations), visited \in SUBSET Reservations, taken \in SUBSET P :
           s = <<path, visited, taken>>
    BY <2>1 DEF SearchStates
  <2>3. SearchInv(P, path, visited, taken)
    BY <2>1, <2>2
  <2> SUFFICES LET t == SearchStep(P, s) IN SearchInv(P, t[1], t[2], t[3])
    BY <2>1
  <2>4. CASE path = <<>>
    <3>1. NewRoot(s) \in Reservations \ visited
      BY <2>1, <2>2, <2>4 DEF SearchEnds, NewRoot
    <3>2. SearchStep(P, s) = << <<NewRoot(s)>>, visited \cup {NewRoot(s)}, taken >>
      BY <2>2, <2>4 DEF SearchStep, FromRoot
    <3>3. SearchInv(P, <<NewRoot(s)>>, visited \cup {NewRoot(s)}, taken)
      BY <2>3, <2>4, <3>1, RootInv
    <3> QED BY <3>2, <3>3
  <2>5. CASE path # <<>> /\ OpenEdges(P, s) = {}
    <3>1. \A e \in P \ taken : e[1] # Last(path)
      BY <2>2, <2>5 DEF OpenEdges
    <3>2. SearchStep(P, s) = <<Front(path), visited, taken>>
      BY <2>2, <2>5 DEF SearchStep, BackUp
    <3>3. SearchInv(P, Front(path), visited, taken)
      BY <2>3, <2>5, <3>1, BackUpInv
    <3> QED BY <3>2, <3>3
  <2>6. CASE path # <<>> /\ OpenEdges(P, s) # {}
    <3> DEFINE e == NextEdge(P, s)
    <3>1. e \in P /\ e[1] = Last(path) /\ e[2] \notin ToSet(path)
      BY <2>1, <2>2, <2>6, NextIs DEF SearchEnds
    <3>2. SearchStep(P, s) = <<IF e[2] \in visited THEN path ELSE Append(path, e[2]),
                               visited \cup {e[2]}, taken \cup {e}>>
      BY <2>2, <2>6 DEF SearchStep, Along
    <3> HIDE DEF e
    <3>3. CASE e[2] \in visited
      <4>1. visited \cup {e[2]} = visited
        BY <3>3
      <4>2. SearchInv(P, path, visited, taken \cup {e})
        BY <2>3, <2>6, <3>1, <3>3, AlongKnownInv
      <4>3. SearchStep(P, s) = <<path, visited, taken \cup {e}>>
        BY <3>2, <3>3, <4>1
      <4> QED BY <4>2, <4>3
    <3>4. CASE e[2] \notin visited
      <4>1. SearchInv(P, Append(path, e[2]), visited \cup {e[2]}, taken \cup {e})
        BY <2>3, <2>6, <3>1, <3>4, AlongNewInv
      <4> QED BY <3>2, <3>4, <4>1
    <3> QED BY <3>3, <3>4
  <2> QED BY <2>4, <2>5, <2>6
<1>7. first \in Kept
  <2>1. first \in States
    <3>1. <<>> \in Seq(Reservations) /\ {} \in SUBSET Reservations /\ {} \in SUBSET P
      OBVIOUS
    <3> QED BY <3>1, SearchStateIs
  <2>2. OnPath(P, <<>>, {}) /\ Behind(P, {}) /\ Followed(<<>>, {}, {}, {})
    BY DEF OnPath, Behind, Followed, ToSet
  <2>3. SearchInv(P, <<>>, {}, {})
    BY <2>2 DEF SearchInv
  <2> QED BY <2>1, <2>3
<1>8. PICK s \in Kept \cap stops : f[first] = answer[s]
  <2>1. Kept \in SUBSET States
    OBVIOUS
  <2> HIDE DEF States, stops, step, answer, measure, f, Kept, first
  <2> QED BY <1>1, <1>5, <1>6, <1>7, <2>1, IterationEnds
<1> HIDE DEF f
<1>9. f[first] <=> Acyclic(P)
  <2>1. PICK path \in Seq(Reservations), visited \in SUBSET Reservations, taken \in SUBSET P :
           s = <<path, visited, taken>>
    BY DEF SearchStates
  <2>2. SearchInv(P, path, visited, taken) /\ SearchEnds(P, s)
    BY <2>1
  <2>3. CASE path = <<>>
    <3>1. f[first] = TRUE /\ visited = Reservations
      BY <1>8, <2>1, <2>2, <2>3 DEF SearchEnds
    <3>2. visited \ ToSet(path) = Reservations
      BY <2>3, <3>1 DEF ToSet
    <3>3. Behind(P, Reservations)
      BY <2>2, <3>2 DEF SearchInv
    <3> QED BY <3>1, <3>3 DEF Behind, Acyclic
  <2>4. CASE path # <<>>
    <3>1. f[first] = FALSE
      BY <1>8, <2>1, <2>4
    <3>2. OpenEdges(P, s) # {} /\ NextEdge(P, s)[2] \in ToSet(path)
      BY <2>1, <2>2, <2>4 DEF SearchEnds
    <3>3. <<Last(path), NextEdge(P, s)[2]>> \in P
      BY <2>1, <2>4, <3>2, NextIs
    <3>4. ~ Acyclic(P)
      BY <2>2, <2>4, <3>2, <3>3, BackEdge DEF SearchInv
    <3> QED BY <3>1, <3>4
  <2> QED BY <2>3, <2>4
<1>10. EnsureAcyclic(P) <=> f[first]
  BY SearchIs DEF f
<1> QED BY <1>9, <1>10

\* The peeling of a replay, the search of a declaration and the reachability
\* that a repair asks about are one judgement on the graph, whichever vertex or
\* edge each of them takes first.
THEOREM DetectorsAlwaysAgree == OrderingSpec => []DetectorsAgree
<1>1. GraphInv => DetectorsAgree
  <2> SUFFICES ASSUME GraphInv PROVE DetectorsAgree
    OBVIOUS
  <2> DEFINE P == Pairs(graph.edges)
  <2>1. P \in SUBSET (Reservations \X Reservations)
    BY DEF GraphInv, TypeOK, Pairs
  <2>2. IsFiniteSet(Reservations)
    BY OrderingAssumption DEF OrderingAssumption
  <2> HIDE DEF P
  <2>3. ASSUME NEW p \in Reservations \X Reservations
        PROVE  /\ EnsureAcyclic(P \cup {p}) <=> Acyclic(P \cup {p})
               /\ ContainsCycle(P \cup {p}) <=> ~ Acyclic(P \cup {p})
    <3>1. P \cup {p} \in SUBSET (Reservations \X Reservations)
      BY <2>1
    <3> QED BY <2>2, <3>1, SearchingDecides, PeelingDecides
  <2>4. Acyclic(P) => \A a, b \in Reservations :
                         WouldCreateCycle(P, a, b) <=> ~ Acyclic(P \cup {<<a, b>>})
    BY <2>2, ReachabilityDecides
  <2> QED BY <2>3, <2>4 DEF DetectorsAgree, P
<1> QED BY <1>1, GraphInvariant, PTL

-----------------------------------------------------------------------------
(* The permits. *)

\* Permits have identifiers of their own, below the next one, and a
\* consumption is of an issued permit, once, by the reservation it names.
PermitInv ==
    /\ DOMAIN permits = {"issued", "spent", "next"}
    /\ permits.next \in Nat
    /\ \A p \in permits.issued : p.id \in Nat /\ p.id < permits.next
    /\ PermitFactsReplay

LEMMA IssueInv ==
  ASSUME PermitInv, NEW p, p.id = permits.next,
         permits' = [permits EXCEPT !.issued = @ \cup {p}, !.next = @ + 1]
  PROVE  PermitInv'
<1>1. /\ permits'.issued = permits.issued \cup {p}
      /\ permits'.spent = permits.spent
      /\ permits'.next = permits.next + 1
      /\ DOMAIN permits' = {"issued", "spent", "next"}
  BY DEF PermitInv
<1>2. permits'.next \in Nat
      /\ \A q \in permits'.issued : q.id \in Nat /\ q.id < permits'.next
  BY <1>1 DEF PermitInv
<1>3. \A q \in permits.issued : q.id # p.id
  BY DEF PermitInv
<1>4. \A q, s \in permits'.issued : q.id = s.id => q = s
  BY <1>1, <1>3 DEF PermitInv, PermitFactsReplay
<1> QED BY <1>1, <1>2, <1>4 DEF PermitInv, PermitFactsReplay

\* The consumptions one audit journals are of permits that were available,
\* and no two of them of one permit: each names its own reservation.
LEMMA SpendInv ==
  ASSUME PermitInv, NEW R, NEW chosen,
         \A r \in R : chosen[r] \in Available /\ chosen[r].res = r,
         permits' = [permits EXCEPT
                        !.spent = @ \cup {[id |-> chosen[r].id, res |-> r,
                                           at |-> permits.next] : r \in R},
                        !.next = @ + 1]
  PROVE  /\ PermitInv'
         /\ \A r \in R : \E c \in permits'.spent \ permits.spent : c.res = r
<1> DEFINE new == {[id |-> chosen[r].id, res |-> r, at |-> permits.next] :
                      r \in R}
<1>1. /\ permits'.issued = permits.issued
      /\ permits'.spent = permits.spent \cup new
      /\ permits'.next = permits.next + 1
      /\ DOMAIN permits' = {"issued", "spent", "next"}
  BY DEF PermitInv
<1>2. \A c \in new : c.res \in R /\ c.id = chosen[c.res].id
                     /\ c = [id |-> chosen[c.res].id, res |-> c.res,
                             at |-> permits.next]
  OBVIOUS
<1>3. \A c \in new, d \in permits.spent : c.id # d.id
  BY <1>2 DEF Available
<1>4. \A c, d \in new : c.id = d.id => c = d
  <2> SUFFICES ASSUME NEW c \in new, NEW d \in new, c.id = d.id
               PROVE  c = d
    OBVIOUS
  <2>1. chosen[c.res] \in permits.issued /\ chosen[d.res] \in permits.issued
    BY <1>2 DEF Available
  <2>2. chosen[c.res].id = chosen[d.res].id
    BY <1>2
  <2>3. chosen[c.res] = chosen[d.res]
    BY <2>1, <2>2 DEF PermitInv, PermitFactsReplay
  <2>4. c.res = d.res
    BY <1>2, <2>3
  <2> QED BY <1>2, <2>4
<1>5. \A c \in new : \E p \in permits.issued : p.id = c.id /\ p.res = c.res
  BY <1>2 DEF Available
<1> HIDE DEF new
<1>6. \A c, d \in permits'.spent : c.id = d.id => c = d
  BY <1>1, <1>3, <1>4 DEF PermitInv, PermitFactsReplay
<1>7. \A c \in permits'.spent :
          \E p \in permits'.issued : p.id = c.id /\ p.res = c.res
  BY <1>1, <1>5 DEF PermitInv, PermitFactsReplay
<1>8. permits'.next \in Nat
      /\ \A q \in permits'.issued : q.id \in Nat /\ q.id < permits'.next
  BY <1>1 DEF PermitInv
<1>9. PermitInv'
  BY <1>1, <1>6, <1>7, <1>8 DEF PermitInv, PermitFactsReplay
<1>10. \A r \in R : \E c \in permits'.spent \ permits.spent : c.res = r
  <2> SUFFICES ASSUME NEW r \in R
               PROVE  \E c \in permits'.spent \ permits.spent : c.res = r
    OBVIOUS
  <2> DEFINE c == [id |-> chosen[r].id, res |-> r, at |-> permits.next]
  <2>1. c \in new /\ c.res = r
    BY DEF new
  <2>2. c \notin permits.spent
    BY <1>3, <2>1
  <2> QED BY <1>1, <2>1, <2>2
<1> QED BY <1>9, <1>10

\* What an audit of m does to the permits.
LEMMA AuditPermits ==
  ASSUME PermitInv, NEW m \in Movers, Audit(m)
  PROVE  PermitInv' /\ \A r \in Spends(m) : Consumed(r)
<1>1. PICK chosen \in [Spends(m) -> Available] :
        /\ \A r \in Spends(m) :
              chosen[r] \in CoveringPermits(AuditLives, r, mover[m].prop)
        /\ permits' = IF Spends(m) = {} THEN permits
                      ELSE [permits EXCEPT
                              !.spent = @ \cup {[id |-> chosen[r].id, res |-> r,
                                  at |-> permits.next] : r \in Spends(m)},
                              !.next = @ + 1]
  BY DEF Audit
<1>2. \A r \in Spends(m) : chosen[r] \in Available /\ chosen[r].res = r
  BY <1>1 DEF CoveringPermits
<1>3. CASE Spends(m) = {}
  BY <1>1, <1>3 DEF PermitInv, PermitFactsReplay
<1>4. CASE Spends(m) # {}
  BY <1>1, <1>2, <1>4, SpendInv DEF Consumed
<1> QED BY <1>3, <1>4

LEMMA DecidePermits ==
  ASSUME PermitInv, NEW m \in Movers, DecideIntegration(m)
  PROVE  PermitInv'
<1>1. CASE permits' = permits
  BY <1>1 DEF PermitInv, PermitFactsReplay
<1>2. CASE permits' # permits
  <2> DEFINE p == [id |-> permits.next, res |-> mover[m].res,
                   skips |-> SkippedHolds(Settled, mover[m].res,
                                          mover[m].prop)]
  <2>1. permits' = [permits EXCEPT !.issued = @ \cup {p}, !.next = @ + 1]
    BY <1>2 DEF DecideIntegration
  <2>2. p.id = permits.next
    OBVIOUS
  <2> HIDE DEF p
  <2> QED BY <2>1, <2>2, IssueInv
<1> QED BY <1>1, <1>2

LEMMA PermitStep == PermitInv /\ [GateNext]_gateVars => PermitInv'
<1> SUFFICES ASSUME PermitInv, [GateNext]_gateVars PROVE PermitInv'
  OBVIOUS
<1>1. CASE permits' = permits
  BY <1>1 DEF PermitInv, PermitFactsReplay
<1>2. CASE permits' # permits
  <2>1. \E m \in Movers : DecideIntegration(m) \/ Audit(m)
    BY <1>2 DEF GateNext, MoverNext, gateVars, ReadTips, RejectIntegration,
                UpdateRef, PrepareRef, Judge, Commit, Stop, Reconcile, Declare,
                Merge, Publish, Push
  <2> QED BY <2>1, AuditPermits, DecidePermits
<1> QED BY <1>1, <1>2

LEMMA PermitsInvariant == GateSpec => []PermitInv
<1>1. GateInit => PermitInv
  BY DEF GateInit, PermitInv, PermitFactsReplay
<1> QED BY <1>1, PermitStep, PTL DEF GateSpec

\* However the audits of several moves interleave with the decisions of the
\* integrate verb, the permits and their consumptions replay.
THEOREM PermitsReplay == GateSpec => []PermitFactsReplay
<1>1. PermitInv => PermitFactsReplay
  BY DEF PermitInv
<1> QED BY <1>1, PermitsInvariant, PTL

-----------------------------------------------------------------------------
(* Types, and git's lock on the target. *)

LEMMA ReachesType ==
  ASSUME GateTypeOK, NEW r \in Reservations
  PROVE  Reaches(r) \in SUBSET Commits
<1>1. merged[r] \in SUBSET Commits
  BY DEF GateTypeOK
<1> QED BY <1>1 DEF Reaches, HeadOf, Commits

LEMMA SettledInv ==
  ASSUME GraphInv, life' = Settled, UNCHANGED graph
  PROVE  GraphInv'
<1>1. life \in [Reservations -> Lives]
  BY DEF GraphInv, TypeOK
<1>2. life' \in [Reservations -> Lives]
  BY <1>1 DEF Settled, Lives
<1>3. \A r \in Reservations : Known(r) => Known(r)'
  BY <1>1 DEF Settled, Known
<1> HIDE DEF Settled
<1>4. TypeOK'
  BY <1>2, <1>3 DEF GraphInv, TypeOK
<1> QED BY <1>4 DEF GraphInv, DistinctPairs

LEMMA IdleType == Idle \in Doing
BY DEF Idle, Doing

\* What m becomes, and what becomes of the others.
LEMMA BecomesType ==
  ASSUME mover \in [Movers -> Doing], NEW m \in Movers, NEW record \in Doing,
         Becomes(m, record)
  PROVE  /\ mover' \in [Movers -> Doing]
         /\ mover'[m] = record
         /\ \A n \in Movers \ {m} : mover'[n] = mover[n]
BY DEF Becomes

LEMMA NotFresh ==
  ASSUME NEW d \in Doing
  PROVE  LET c == [d EXCEPT !.fresh = FALSE] IN
         /\ c \in Doing /\ ~ c.fresh /\ c.pc = d.pc /\ c.res = d.res
         /\ c.prev = d.prev /\ c.prop = d.prop
BY DEF Doing

LEMMA DisturbsType ==
  ASSUME mover \in [Movers -> Doing], NEW m \in Movers, NEW record \in Doing,
         BecomesAndDisturbs(m, record)
  PROVE  /\ mover' \in [Movers -> Doing]
         /\ mover'[m] = record
         /\ \A n \in Movers \ {m} : mover'[n] = [mover[n] EXCEPT !.fresh = FALSE]
<1>1. \A n \in Movers : Disturbed(m)[n] \in Doing
  BY NotFresh DEF Disturbed
<1>2. Disturbed(m) \in [Movers -> Doing]
  BY <1>1 DEF Disturbed
<1>3. \A n \in Movers \ {m} : Disturbed(m)[n] = [mover[n] EXCEPT !.fresh = FALSE]
  BY DEF Disturbed
<1> HIDE DEF Disturbed
<1> QED BY <1>2, <1>3 DEF BecomesAndDisturbs

LEMMA AllDisturbed ==
  ASSUME mover \in [Movers -> Doing], mover' = Disturbed(NoMover)
  PROVE  /\ mover' \in [Movers -> Doing]
         /\ \A n \in Movers : mover'[n] = [mover[n] EXCEPT !.fresh = FALSE]
<1>1. \A n \in Movers : n # NoMover
  BY GateAssumption
<1> QED BY <1>1, NotFresh DEF Disturbed

LocksRef(pc) == pc \in {"prepared", "judged"}

RefLockHeld == \A m \in Movers : refLock = m <=> LocksRef(mover[m].pc)

\* Git's lock passes only between m and nobody, with what m is doing.
LEMMA RefLockStep ==
  ASSUME RefLockHeld, NEW m \in Movers,
         \A n \in Movers \ {m} : mover'[n].pc = mover[n].pc,
         refLock' = refLock \/ {refLock, refLock'} \subseteq {m, NoMover},
         refLock' = m <=> LocksRef(mover'[m].pc)
  PROVE  RefLockHeld'
<1> SUFFICES ASSUME NEW n \in Movers
             PROVE  refLock' = n <=> LocksRef(mover'[n].pc)
  BY DEF RefLockHeld, LocksRef
<1>1. n # NoMover /\ m # NoMover
  BY GateAssumption
<1>2. CASE n = m
  BY <1>2
<1>3. CASE n # m
  BY <1>1, <1>3 DEF RefLockHeld
<1> QED BY <1>2, <1>3

GateTypeInv == GraphInv /\ GateTypeOK

LEMMA SameGraph ==
  ASSUME GraphInv, UNCHANGED <<life, graph>> PROVE GraphInv'
BY DEF GraphInv, DistinctPairs, TypeOK, Known

\* What every action of a mover does to the movers and the lock.
LEMMA MoverStep ==
  ASSUME GateTypeInv, NEW m \in Movers, MoverNext(m)
  PROVE  /\ mover' \in [Movers -> Doing]
         /\ refLock' \in Movers \cup {NoMover}
         /\ RefLockHeld'
         /\ \A n \in Movers \ {m} :
               mover'[n] = mover[n] \/ mover'[n] = [mover[n] EXCEPT !.fresh = FALSE]
<1> DEFINE Q == /\ mover' \in [Movers -> Doing]
                /\ refLock' \in Movers \cup {NoMover}
                /\ RefLockHeld'
                /\ \A n \in Movers \ {m} :
                      \/ mover'[n] = mover[n]
                      \/ mover'[n] = [mover[n] EXCEPT !.fresh = FALSE]
<1> DEFINE d == mover[m]
<1>1. mover \in [Movers -> Doing] /\ RefLockHeld
      /\ refLock \in Movers \cup {NoMover} /\ d \in Doing /\ m # NoMover
      /\ Idle \in Doing /\ Idle.pc = "idle"
      /\ trunk \in SUBSET Commits /\ upstream \in SUBSET Commits
  BY GateAssumption, IdleType DEF GateTypeInv, GateTypeOK, RefLockHeld, LocksRef, Idle
<1>2. ASSUME NEW record \in Doing,
             Becomes(m, record) \/ BecomesAndDisturbs(m, record),
             refLock' = refLock \/ {refLock, refLock'} \subseteq {m, NoMover},
             refLock' = m <=> LocksRef(record.pc)
      PROVE  Q
  <2>1. /\ mover' \in [Movers -> Doing] /\ mover'[m] = record
        /\ \A n \in Movers \ {m} :
                      \/ mover'[n] = mover[n]
                      \/ mover'[n] = [mover[n] EXCEPT !.fresh = FALSE]
    BY <1>1, <1>2, BecomesType, DisturbsType
  <2>2. \A n \in Movers \ {m} : mover'[n].pc = mover[n].pc
    <3> TAKE n \in Movers \ {m}
    <3>1. mover[n] \in Doing
      BY <1>1
    <3> QED BY <2>1, <3>1, NotFresh
  <2>3. RefLockHeld'
    BY <1>1, <1>2, <2>1, <2>2, RefLockStep
  <2>4. refLock' \in Movers \cup {NoMover}
    BY <1>1, <1>2
  <2> QED BY <2>1, <2>3, <2>4
<1> HIDE DEF Q
<1>3. ASSUME NEW r \in Reservations, NEW force \in BOOLEAN, ReadTips(m, r, force)
      PROVE  Q
  <2> DEFINE record == [Idle EXCEPT !.pc = "read", !.res = r, !.force = force,
                               !.prev = trunk, !.prop = Reaches(r)]
  <2>1. Reaches(r) \in SUBSET Commits
    BY ReachesType DEF GateTypeInv
  <2>2. record \in Doing /\ record.pc = "read"
    BY <1>1, <2>1 DEF Idle, Doing
  <2>3. Becomes(m, record) /\ refLock' = refLock /\ refLock # m
    BY <1>1, <1>3 DEF ReadTips, RefLockHeld, LocksRef
  <2> HIDE DEF record
  <2> QED BY <1>2, <2>2, <2>3 DEF LocksRef
<1>4. ASSUME DecideIntegration(m) PROVE Q
  <2>1. PICK record \in {Idle, [d EXCEPT !.pc = "decided", !.force = FALSE,
                                         !.fresh = TRUE]} :
            BecomesAndDisturbs(m, record)
    BY <1>4 DEF DecideIntegration
  <2>2. record \in Doing /\ record.pc \in {"idle", "decided"}
    BY <1>1 DEF Doing
  <2>3. refLock' = refLock /\ refLock # m
    BY <1>1, <1>4 DEF DecideIntegration, RefLockHeld, LocksRef
  <2> QED BY <1>2, <2>1, <2>2, <2>3 DEF LocksRef
<1>5. ASSUME RejectIntegration(m) PROVE Q
  <2>1. Becomes(m, Idle) /\ refLock' = refLock /\ refLock # m
    BY <1>1, <1>5 DEF RejectIntegration, RefLockHeld, LocksRef
  <2> QED BY <1>1, <1>2, <2>1 DEF LocksRef
<1>6. ASSUME UpdateRef(m) PROVE Q
  <2> DEFINE record == [d EXCEPT !.pc = "prepared"]
  <2>1. record \in Doing /\ record.pc = "prepared"
    BY <1>1 DEF Doing
  <2>2. d.pc = "decided" /\ refLock = NoMover
    BY <1>6 DEF UpdateRef, RefFree
  <2>3. \/ Becomes(m, record) /\ refLock' = m
        \/ Becomes(m, Idle) /\ refLock' = refLock
    BY <1>6 DEF UpdateRef
  <2> HIDE DEF record
  <2>4. CASE Becomes(m, record) /\ refLock' = m
    BY <1>2, <2>1, <2>2, <2>4 DEF LocksRef
  <2>5. CASE Becomes(m, Idle) /\ refLock' = refLock
    BY <1>1, <1>2, <2>2, <2>5 DEF LocksRef
  <2> QED BY <2>3, <2>4, <2>5
<1>7. ASSUME NEW prop \in SUBSET Commits, PrepareRef(m, prop) PROVE Q
  <2> DEFINE record == [Idle EXCEPT !.pc = "prepared", !.prev = trunk,
                                    !.prop = prop]
  <2>1. record \in Doing /\ record.pc = "prepared"
    BY <1>1 DEF Idle, Doing
  <2>2. Becomes(m, record) /\ refLock' = m /\ refLock = NoMover
    BY <1>7 DEF PrepareRef, RefFree
  <2> HIDE DEF record
  <2> QED BY <1>2, <2>1, <2>2 DEF LocksRef
<1>8. ASSUME Judge(m) PROVE Q
  <2>1. d.pc = "prepared" /\ refLock = m
    BY <1>1, <1>8 DEF Judge, RefLockHeld, LocksRef
  <2>2. PICK record \in {Idle,
                [d EXCEPT !.pc = "judged", !.fresh = TRUE,
                          !.admitted = IF ProvenUpstream(d.prop) THEN {}
                                       ELSE Covered(Settled, d.prev, d.prop)]} :
            /\ BecomesAndDisturbs(m, record)
            /\ refLock' = IF record = Idle THEN NoMover ELSE m
            /\ record = Idle \/ record.pc = "judged"
    <3> DEFINE A == IF ProvenUpstream(d.prop) THEN {}
                    ELSE Covered(Settled, d.prev, d.prop)
    <3> DEFINE record == [d EXCEPT !.pc = "judged", !.fresh = TRUE,
                                   !.admitted = A]
    <3>1. \/ BecomesAndDisturbs(m, Idle) /\ refLock' = NoMover
          \/ BecomesAndDisturbs(m, record) /\ refLock' = refLock
      BY <1>8 DEF Judge
    <3> HIDE DEF A
    <3>2. record.pc = "judged" /\ record # Idle
      BY <1>1 DEF Doing
    <3> HIDE DEF record
    <3>3. CASE BecomesAndDisturbs(m, Idle) /\ refLock' = NoMover
      BY <3>3
    <3>4. CASE BecomesAndDisturbs(m, record) /\ refLock' = refLock
      BY <2>1, <3>2, <3>4 DEF record, A
    <3> QED BY <3>1, <3>3, <3>4
  <2>3. record \in Doing
    <3>1. Covered(Settled, d.prev, d.prop) \in SUBSET Reservations
      BY DEF Covered, Violations, Entering
    <3> QED BY <1>1, <3>1 DEF Doing
  <2> QED BY <1>1, <1>2, <2>1, <2>2, <2>3 DEF LocksRef
<1>9. ASSUME Commit(m) PROVE Q
  <2> DEFINE record == [d EXCEPT !.pc = "committed"]
  <2>1. record \in Doing /\ record.pc = "committed"
    BY <1>1 DEF Doing
  <2>2. BecomesAndDisturbs(m, record) /\ refLock' = NoMover /\ refLock = m
    BY <1>1, <1>9 DEF Commit, RefLockHeld, LocksRef
  <2> HIDE DEF record
  <2> QED BY <1>1, <1>2, <2>1, <2>2 DEF LocksRef
<1>10. ASSUME Audit(m) PROVE Q
  <2>1. BecomesAndDisturbs(m, Idle) /\ refLock' = refLock /\ refLock # m
    BY <1>1, <1>10 DEF Audit, RefLockHeld, LocksRef
  <2> QED BY <1>1, <1>2, <2>1 DEF LocksRef
<1>11. ASSUME Stop(m) PROVE Q
  <2>1. Becomes(m, Idle) /\ refLock' = IF refLock = m THEN NoMover ELSE refLock
    BY <1>11 DEF Stop
  <2> QED BY <1>1, <1>2, <2>1 DEF LocksRef
<1>12. ASSUME NEW tips \in BranchTips \cup {upstream}
       PROVE  trunk \cup tips \in SUBSET Commits
  <2>1. tips \in SUBSET Commits
    BY <1>1, ReachesType DEF BranchTips, GateTypeInv
  <2> QED BY <1>1, <2>1
<1>13. Q
  BY <1>3, <1>4, <1>5, <1>6, <1>7, <1>8, <1>9, <1>10, <1>11, <1>12 DEF MoverNext
<1> QED BY <1>13 DEF Q

\* The commits a repository holds stay commits.
RepositoryTypeOK ==
    /\ mode \in GateModes /\ tracks \in Tracking
    /\ merged \in [Reservations -> SUBSET Commits]
    /\ trunk \in SUBSET Commits /\ upstream \in SUBSET Commits

LEMMA TypeStep == GateTypeInv /\ [GateNext]_gateVars => GateTypeInv'
<1> SUFFICES ASSUME GateTypeInv, [GateNext]_gateVars PROVE GateTypeInv'
  OBVIOUS
<1> USE DEF GateTypeInv
<1>1. /\ RepositoryTypeOK /\ RefLockHeld /\ mover \in [Movers -> Doing]
      /\ refLock \in Movers \cup {NoMover}
  BY DEF GateTypeOK, RepositoryTypeOK, RefLockHeld, LocksRef
<1>2. ASSUME GraphInv', RepositoryTypeOK', RefLockHeld',
             mover' \in [Movers -> Doing], refLock' \in Movers \cup {NoMover}
      PROVE  GateTypeInv'
  BY <1>2 DEF GateTypeOK, RepositoryTypeOK, RefLockHeld, LocksRef, GraphInv
<1>3. ASSUME NEW r \in Reservations PROVE Reaches(r) \in SUBSET Commits
  BY ReachesType
<1>4. ASSUME mover' = Disturbed(NoMover), UNCHANGED refLock
      PROVE  /\ mover' \in [Movers -> Doing] /\ RefLockHeld'
             /\ refLock' \in Movers \cup {NoMover}
  <2>1. /\ mover' \in [Movers -> Doing]
        /\ \A n \in Movers : mover'[n] = [mover[n] EXCEPT !.fresh = FALSE]
    BY <1>1, <1>4, AllDisturbed
  <2>2. \A n \in Movers : mover'[n].pc = mover[n].pc
    <3> TAKE n \in Movers
    <3>1. mover[n] \in Doing
      BY <1>1
    <3> QED BY <2>1, <3>1, NotFresh
  <2> QED BY <1>1, <1>4, <2>1, <2>2 DEF RefLockHeld
<1>5. ASSUME NEW m \in Movers, MoverNext(m) PROVE GateTypeInv'
  <2>1. /\ mover' \in [Movers -> Doing] /\ RefLockHeld'
        /\ refLock' \in Movers \cup {NoMover}
    BY <1>5, MoverStep
  <2>2. GraphInv'
    <3>1. graph' = graph /\ (life' = life \/ life' = Settled)
      BY <1>5 DEF MoverNext, ReadTips, DecideIntegration, RejectIntegration,
                  UpdateRef, PrepareRef, Judge, Commit, Audit, Stop
    <3> QED BY <3>1, SameGraph, SettledInv
  <2>3. RepositoryTypeOK'
    <3>1. CASE UNCHANGED <<configVars, merged, trunk, upstream>>
      BY <1>1, <3>1 DEF RepositoryTypeOK, configVars
    <3>2. CASE Commit(m)
      <4>1. mover[m] \in Doing
        BY <1>1
      <4>2. mover[m].prop \in SUBSET Commits
        BY <4>1 DEF Doing
      <4>3. trunk' = mover[m].prop /\ UNCHANGED <<configVars, merged, upstream>>
        BY <3>2 DEF Commit
      <4> QED BY <1>1, <4>2, <4>3 DEF RepositoryTypeOK, configVars
    <3> QED BY <1>5, <3>1, <3>2 DEF MoverNext, ReadTips, DecideIntegration,
              RejectIntegration, UpdateRef, PrepareRef, Judge, Audit, Stop,
              repositoryVars, configVars
  <2> QED BY <1>2, <2>1, <2>2, <2>3
<1>6. CASE Reconcile
  <2>1. GraphInv' /\ RepositoryTypeOK'
    BY <1>1, <1>6, SettledInv DEF Reconcile, repositoryVars, configVars, RepositoryTypeOK
  <2> QED BY <1>2, <1>4, <1>6, <2>1 DEF Reconcile
<1>7. CASE Declare
  <2>1. GraphInv' /\ RepositoryTypeOK'
    BY <1>1, <1>7, StepInv DEF Declare, repositoryVars, configVars, RepositoryTypeOK
  <2> QED BY <1>2, <1>4, <1>7, <2>1 DEF Declare
<1>8. ASSUME NEW r \in Reservations, NEW tips \in BranchTips \cup {trunk},
             Merge(r, tips)
      PROVE  GateTypeInv'
  <2>1. tips \in SUBSET Commits
    BY <1>1, <1>3 DEF BranchTips, RepositoryTypeOK
  <2>2. merged' = [merged EXCEPT ![r] = tips \ {<<r, 0>>}]
        /\ UNCHANGED <<configVars, trunk, upstream>>
    BY <1>8 DEF Merge
  <2>3. RepositoryTypeOK'
    BY <1>1, <2>1, <2>2 DEF RepositoryTypeOK, configVars
  <2>4. GraphInv'
    BY <1>8, SameGraph DEF Merge
  <2> QED BY <1>2, <1>4, <1>8, <2>3, <2>4 DEF Merge
<1>9. ASSUME NEW r \in Reservations, Publish(r) PROVE GateTypeInv'
  <2>1. RepositoryTypeOK'
    BY <1>1, <1>3, <1>9 DEF Publish, RepositoryTypeOK, configVars
  <2>2. GraphInv'
    BY <1>9, SameGraph DEF Publish
  <2> QED BY <1>2, <1>4, <1>9, <2>1, <2>2 DEF Publish
<1>10. CASE Push
  <2>1. RepositoryTypeOK'
    BY <1>1, <1>10 DEF Push, RepositoryTypeOK, configVars
  <2>2. GraphInv'
    BY <1>10, SameGraph DEF Push
  <2> QED BY <1>2, <1>4, <1>10, <2>1, <2>2 DEF Push
<1>11. CASE UNCHANGED gateVars
  <2>1. GraphInv' /\ RepositoryTypeOK' /\ RefLockHeld'
    BY <1>1, <1>11, SameGraph DEF gateVars, RepositoryTypeOK, RefLockHeld
  <2> QED BY <1>1, <1>2, <1>11, <2>1 DEF gateVars
<1> QED BY <1>5, <1>6, <1>7, <1>8, <1>9, <1>10, <1>11 DEF GateNext

LEMMA TypeInit == GateInit => GateTypeInv
<1> SUFFICES ASSUME GateInit PROVE GateTypeInv
  OBVIOUS
<1>1. GraphInv
  BY InitInv DEF GateInit
<1>2. mover \in [Movers -> Doing] /\ RefLockHeld
  BY IdleType, GateAssumption DEF GateInit, RefLockHeld, LocksRef, Idle
<1> QED BY <1>1, <1>2 DEF GateInit, GateTypeInv, GateTypeOK, GraphInv,
                          RefLockHeld, LocksRef

LEMMA TypeInvariant == GateSpec => []GateTypeInv
BY TypeInit, TypeStep, PTL DEF GateSpec

\* What the gate keeps is well formed, and exactly the mover between the
\* prepared phase and the move holds git's lock on the target.
THEOREM GateTypeCorrect == GateSpec => []GateTypeOK
<1>1. GateTypeInv => GateTypeOK
  BY DEF GateTypeInv
<1> QED BY <1>1, TypeInvariant, PTL

-----------------------------------------------------------------------------
(* Moves from the tip. *)

\* Whoever holds git's lock moves the target from where it is, and the
\* integrate verb only forwards.
TipInv ==
    \A m \in Movers : LocksRef(mover[m].pc) =>
        /\ mover[m].prev = trunk
        /\ mover[m].res # NoMover => mover[m].prev \subseteq mover[m].prop

\* A step moves the target only where a mover commits, and changes what
\* another mover holds to be true only by making it stale.
LEMMA OtherMovers ==
  ASSUME GateTypeInv, [GateNext]_gateVars, NEW n \in Movers,
         ~ MoverNext(n)
  PROVE  /\ mover'[n].pc = mover[n].pc /\ mover'[n].res = mover[n].res
         /\ mover'[n].prev = mover[n].prev /\ mover'[n].prop = mover[n].prop
         /\ mover'[n] = mover[n] \/ ~ mover'[n].fresh
<1>1. mover \in [Movers -> Doing] /\ mover[n] \in Doing
  BY DEF GateTypeInv, GateTypeOK
<1>2. mover'[n] = mover[n] \/ mover'[n] = [mover[n] EXCEPT !.fresh = FALSE]
  <2>1. ASSUME NEW m \in Movers, MoverNext(m)
        PROVE  mover'[n] = mover[n]
               \/ mover'[n] = [mover[n] EXCEPT !.fresh = FALSE]
    BY <2>1, MoverStep
  <2>2. CASE mover' = Disturbed(NoMover)
    BY <1>1, <2>2, AllDisturbed
  <2>3. CASE mover' = mover
    BY <2>3
  <2> QED BY <2>1, <2>2, <2>3 DEF GateNext, Reconcile, Declare, Merge, Publish, Push,
                                  gateVars
<1>3. CASE mover'[n] = mover[n]
  BY <1>3
<1>4. CASE mover'[n] = [mover[n] EXCEPT !.fresh = FALSE]
  BY <1>1, <1>4, NotFresh
<1> QED BY <1>2, <1>3, <1>4

LEMMA TrunkMoves ==
  ASSUME [GateNext]_gateVars, trunk' # trunk
  PROVE  \E m \in Movers : Commit(m)
BY DEF GateNext, MoverNext, gateVars, repositoryVars, configVars, ReadTips,
       DecideIntegration, RejectIntegration, UpdateRef, PrepareRef, Judge,
       Audit, Stop, Reconcile, Declare, Merge, Publish, Push

LEMMA TipStep == GateTypeInv /\ TipInv /\ [GateNext]_gateVars => TipInv'
<1> SUFFICES ASSUME GateTypeInv, TipInv, [GateNext]_gateVars,
                    NEW n \in Movers, LocksRef(mover'[n].pc)
             PROVE  /\ mover'[n].prev = trunk'
                    /\ mover'[n].res # NoMover =>
                          mover'[n].prev \subseteq mover'[n].prop
  BY DEF TipInv
<1>1. mover \in [Movers -> Doing] /\ RefLockHeld /\ mover[n] \in Doing
      /\ Idle \in Doing /\ Idle.pc = "idle" /\ Idle.res = NoMover
  BY IdleType DEF GateTypeInv, GateTypeOK, RefLockHeld, LocksRef, Idle
<1>2. CASE ~ MoverNext(n)
  <2>1. /\ mover'[n].pc = mover[n].pc /\ mover'[n].res = mover[n].res
        /\ mover'[n].prev = mover[n].prev /\ mover'[n].prop = mover[n].prop
    BY <1>2, OtherMovers
  <2>2. CASE trunk' = trunk
    BY <2>1, <2>2 DEF TipInv
  <2>3. CASE trunk' # trunk
    <3>1. PICK m \in Movers : Commit(m)
      BY <2>3, TrunkMoves
    <3>2. m # n
      BY <1>2, <3>1 DEF MoverNext
    <3>3. LocksRef(mover[m].pc) /\ LocksRef(mover[n].pc)
      BY <2>1, <3>1 DEF Commit, LocksRef
    <3> QED BY <1>1, <3>2, <3>3 DEF RefLockHeld
  <2> QED BY <2>2, <2>3
<1>3. ASSUME NEW record \in Doing, ~ LocksRef(record.pc),
             Becomes(n, record) \/ BecomesAndDisturbs(n, record)
      PROVE  FALSE
  <2>1. mover'[n] = record
    BY <1>1, <1>3, BecomesType, DisturbsType
  <2> QED BY <1>3, <2>1
<1>4. ~ LocksRef(Idle.pc)
  BY <1>1 DEF LocksRef
<1>5. ASSUME NEW r \in Reservations, NEW force \in BOOLEAN, ReadTips(n, r, force)
      PROVE  FALSE
  <2> DEFINE record == [Idle EXCEPT !.pc = "read", !.res = r, !.force = force,
                               !.prev = trunk, !.prop = Reaches(r)]
  <2>1. Reaches(r) \in SUBSET Commits /\ trunk \in SUBSET Commits
    BY ReachesType DEF GateTypeInv, GateTypeOK
  <2>2. record \in Doing /\ record.pc = "read"
    BY <1>1, <2>1 DEF Idle, Doing
  <2>3. Becomes(n, record)
    BY <1>5 DEF ReadTips
  <2> HIDE DEF record
  <2> QED BY <1>3, <2>2, <2>3 DEF LocksRef
<1>6. ~ DecideIntegration(n)
  <2> SUFFICES ASSUME DecideIntegration(n) PROVE FALSE
    OBVIOUS
  <2>1. PICK record \in {Idle, [mover[n] EXCEPT !.pc = "decided",
                                  !.force = FALSE, !.fresh = TRUE]} :
            BecomesAndDisturbs(n, record)
    BY DEF DecideIntegration
  <2>2. record \in Doing /\ record.pc \in {"idle", "decided"}
    BY <1>1 DEF Doing
  <2> QED BY <1>3, <2>1, <2>2 DEF LocksRef
<1>7. ~ (RejectIntegration(n) \/ Audit(n) \/ Stop(n))
  BY <1>1, <1>3, <1>4 DEF RejectIntegration, Audit, Stop
<1>8. ~ Commit(n)
  <2> DEFINE record == [mover[n] EXCEPT !.pc = "committed"]
  <2>1. record \in Doing /\ record.pc = "committed"
    BY <1>1 DEF Doing
  <2>2. Commit(n) => BecomesAndDisturbs(n, record)
    BY DEF Commit
  <2> HIDE DEF record
  <2> QED BY <1>3, <2>1, <2>2 DEF LocksRef
<1>9. CASE UpdateRef(n)
  <2> DEFINE record == [mover[n] EXCEPT !.pc = "prepared"]
  <2>1. record \in Doing /\ record.prev = mover[n].prev
        /\ record.prop = mover[n].prop
    BY <1>1 DEF Doing
  <2>2. Unmoved(n) /\ Becomes(n, record) /\ trunk' = trunk
    BY <1>1, <1>3, <1>4, <1>9 DEF UpdateRef, repositoryVars, configVars
  <2>3. mover'[n] = record
    BY <1>1, <2>1, <2>2, BecomesType
  <2> QED BY <2>1, <2>2, <2>3 DEF Unmoved
<1>10. ASSUME NEW prop \in SUBSET Commits, PrepareRef(n, prop)
       PROVE  mover'[n].prev = trunk' /\ mover'[n].res = NoMover
  <2> DEFINE record == [Idle EXCEPT !.pc = "prepared", !.prev = trunk,
                                    !.prop = prop]
  <2>1. record.prev = trunk /\ record.res = NoMover
    BY DEF Idle
  <2>2. record \in Doing
    BY <1>1 DEF Idle, Doing, GateTypeInv, GateTypeOK
  <2>3. Becomes(n, record) /\ trunk' = trunk
    BY <1>10 DEF PrepareRef, repositoryVars, configVars
  <2>4. mover'[n] = record
    BY <1>1, <2>2, <2>3, BecomesType
  <2> QED BY <2>1, <2>3, <2>4
<1>11. CASE Judge(n)
  <2> DEFINE A == IF ProvenUpstream(mover[n].prop) THEN {}
                  ELSE Covered(Settled, mover[n].prev, mover[n].prop)
  <2> DEFINE record == [mover[n] EXCEPT !.pc = "judged", !.fresh = TRUE,
                                        !.admitted = A]
  <2>1. BecomesAndDisturbs(n, Idle) \/ BecomesAndDisturbs(n, record)
    BY <1>11 DEF Judge
  <2>2. A \in SUBSET Reservations
    BY DEF Covered, Violations, Entering
  <2> HIDE DEF A
  <2>3. /\ record \in Doing /\ record.prev = mover[n].prev
        /\ record.prop = mover[n].prop /\ record.res = mover[n].res
    BY <1>1, <2>2 DEF Doing
  <2> HIDE DEF record
  <2>4. mover'[n] = record
    BY <1>1, <1>3, <1>4, <2>1, <2>3, DisturbsType
  <2>5. LocksRef(mover[n].pc) /\ trunk' = trunk
    BY <1>11 DEF Judge, LocksRef, repositoryVars, configVars
  <2> QED BY <2>3, <2>4, <2>5 DEF TipInv
<1>12. CASE MoverNext(n)
  <2>1. ASSUME NEW tips \in BranchTips \cup {upstream}
        PROVE  trunk \cup tips \in SUBSET Commits
    <3>1. tips \in SUBSET Commits /\ trunk \in SUBSET Commits
      BY ReachesType DEF BranchTips, GateTypeInv, GateTypeOK
    <3> QED BY <3>1
  <2> QED BY <1>5, <1>6, <1>7, <1>8, <1>9, <1>10, <1>11, <1>12, <2>1
          DEF MoverNext
<1> QED BY <1>2, <1>12

LEMMA TipInvariant == GateSpec => []TipInv
<1>1. GateInit => TipInv
  BY DEF GateInit, TipInv, LocksRef, Idle
<1> QED BY <1>1, TipStep, TypeInvariant, PTL DEF GateSpec

\* A move the integrate verb makes keeps everything the target reaches,
\* however long ago the verb read it.
THEOREM NothingTakenBack == GateSpec => NoLostMove
<1>1. TipInv /\ [GateNext]_gateVars =>
        \A m \in Movers : Commit(m) /\ mover[m].res # NoMover =>
            trunk \subseteq trunk'
  BY DEF TipInv, Commit, LocksRef
<1> QED BY <1>1, TipInvariant, PTL DEF GateSpec, NoLostMove

-----------------------------------------------------------------------------
(* Judgements that nothing made stale. *)

\* While the ledger and the branches stay as they were, what was decided or
\* judged would be decided or judged again.
FreshInv ==
    \A m \in Movers, prev, prop \in SUBSET Commits :
        mover[m].fresh /\ mover[m].prev = prev /\ mover[m].prop = prop =>
        /\ ~ Blocked(life, prev, prop)
        /\ \/ mover[m].pc \in {"decided", "prepared"} /\ Settled = life
           \/ /\ mover[m].pc \in {"judged", "committed"}
              /\ mover[m].admitted = IF ProvenUpstream(prop) THEN {}
                                     ELSE Covered(life, prev, prop)

LEMMA SameHolds ==
  ASSUME NEW l, life' = l, UNCHANGED <<graph, merged>>, NEW r, NEW prev, NEW prop
  PROVE  /\ HeldEdges(life, r, prop)' = HeldEdges(l, r, prop)
         /\ HeldDeferrals(r)' = HeldDeferrals(r)
         /\ Violations(life, prev, prop)' = Violations(l, prev, prop)
<1>1. HeldEdges(life, r, prop)' = HeldEdges(l, r, prop)
  BY DEF HeldEdges, EdgeHolds, Unreleased, Reaches, HeadOf
<1>2. HeldDeferrals(r)' = HeldDeferrals(r)
  BY DEF HeldDeferrals
<1>3. Violations(life, prev, prop)' = Violations(l, prev, prop)
  BY DEF Violations, Entering, Held, HeldDeferrals, HeldEdges, EdgeHolds,
         Unreleased, Reaches, HeadOf
<1> QED BY <1>1, <1>2, <1>3

LEMMA SameJudgement ==
  ASSUME NEW l, life' = l, UNCHANGED <<graph, configVars, merged, upstream, permits>>,
         NEW prev, NEW prop
  PROVE  /\ Blocked(life, prev, prop)' <=> Blocked(l, prev, prop)
         /\ Covered(life, prev, prop)' = Covered(l, prev, prop)
         /\ ProvenUpstream(prop)' <=> ProvenUpstream(prop)
<1>1. Covered(life, prev, prop)' = Covered(l, prev, prop)
  BY DEF Covered, CoveringPermits, Covers, Available, Violations, Entering, Held,
         HeldDeferrals, HeldEdges, EdgeHolds, Unreleased, Reaches, HeadOf
<1>2. Violations(life, prev, prop)' = Violations(l, prev, prop)
  BY SameHolds
<1> QED BY <1>1, <1>2 DEF Blocked, ProvenUpstream, configVars

LEMMA SettledTwice ==
  ASSUME life' = Settled, UNCHANGED <<trunk, upstream, tracks, merged>>
  PROVE  Settled' = life'
<1>1. /\ \A r : HeadOf(r)' = HeadOf(r)
      /\ Proof' = Proof
  BY DEF HeadOf, Proof
<1> QED BY <1>1 DEF Settled

\* What the integrate verb decides, the gate will admit: nothing is held, or
\* one reservation is and the permit just issued is for what it skips.
LEMMA DecidedAdmits ==
  ASSUME PermitInv, NEW m \in Movers, DecideIntegration(m),
         NEW r, r = mover[m].res, NEW prev, prev = mover[m].prev,
         NEW prop, prop = mover[m].prop,
         ~ (mode = "enforce" /\
              (IF mover[m].force
               THEN IntegrateViolations(m, Settled) \ {r}
               ELSE IntegrateViolations(m, Settled)) # {})
  PROVE  ~ Blocked(life, prev, prop)'
<1> DEFINE V == Violations(Settled, prev, prop)
<1>1. life' = Settled /\ UNCHANGED <<graph, configVars, merged, upstream>>
  BY DEF DecideIntegration, repositoryVars, configVars
<1>2. Violations(life, prev, prop)' = V
  BY <1>1, SameHolds
<1>3. V \subseteq IntegrateViolations(m, Settled)
  BY DEF IntegrateViolations
<1>4. CASE mode # "enforce"
  BY <1>1, <1>4 DEF Blocked, configVars
<1>5. CASE mode = "enforce" /\ ~ mover[m].force
  <2>1. V = {}
    BY <1>3, <1>5
  <2> QED BY <1>2, <2>1 DEF Blocked, Covered
<1>6. CASE mode = "enforce" /\ mover[m].force
  <2>1. V \subseteq {r}
    BY <1>3, <1>6
  <2>2. PICK p : /\ p = [id |-> permits.next, res |-> r,
                          skips |-> SkippedHolds(Settled, r, prop)]
                 /\ permits' = [permits EXCEPT !.issued = @ \cup {p},
                                               !.next = @ + 1]
    BY <1>6 DEF DecideIntegration
  <2>3. p \in permits'.issued /\ permits'.spent = permits.spent
    BY <2>2 DEF PermitInv
  <2>4. \A c \in permits.spent : c.id # p.id
    <3>1. p.id = permits.next
      BY <2>2
    <3> QED BY <3>1 DEF PermitInv, PermitFactsReplay
  <2>5. p \in Available'
    BY <2>3, <2>4 DEF Available
  <2>6. Covers(p.skips, life, r, prop)'
    <3>1. /\ HeldEdges(life, r, prop)' = HeldEdges(Settled, r, prop)
          /\ HeldDeferrals(r)' = HeldDeferrals(r)
      BY <1>1, SameHolds
    <3>2. /\ p.skips.edges = HeldEdges(Settled, r, prop)
          /\ p.skips.deferrals = HeldDeferrals(r)
      BY <2>2 DEF SkippedHolds
    <3> QED BY <3>1, <3>2 DEF Covers
  <2>7. p.res = r
    BY <2>2
  <2>8. p \in CoveringPermits(life, r, prop)'
    BY <2>5, <2>6, <2>7 DEF CoveringPermits
  <2>9. Covered(life, prev, prop)' = Violations(life, prev, prop)'
    BY <1>2, <2>1, <2>8 DEF Covered
  <2> QED BY <2>9 DEF Blocked
<1> QED BY <1>4, <1>5, <1>6

ledgerVars == <<life, graph, mode, tracks, merged, upstream, permits>>

\* Only steps that leave the ledger and the branches alone leave a judgement
\* of n fresh.
LEMMA StaysFresh ==
  ASSUME GateTypeInv, [GateNext]_gateVars, NEW n \in Movers, ~ MoverNext(n),
         mover'[n].fresh
  PROVE  mover'[n] = mover[n] /\ UNCHANGED ledgerVars /\ trunk' = trunk
<1>1. mover \in [Movers -> Doing] /\ mover[n] \in Doing /\ n # NoMover
  BY GateAssumption DEF GateTypeInv, GateTypeOK
<1>2. ASSUME NEW m \in Movers \cup {NoMover}, m # n, mover'[n] = Disturbed(m)[n]
      PROVE  FALSE
  <2>1. mover'[n] = [mover[n] EXCEPT !.fresh = FALSE]
    BY <1>2 DEF Disturbed
  <2> QED BY <1>1, <2>1, NotFresh
<1>3. mover' # Disturbed(NoMover)
  BY <1>1, <1>2
<1>4. ASSUME NEW m \in Movers, MoverNext(m) PROVE UNCHANGED ledgerVars /\ trunk' = trunk
  <2>1. m # n
    BY <1>4
  <2>2. ASSUME NEW record PROVE ~ BecomesAndDisturbs(m, record)
    <3>1. [Disturbed(m) EXCEPT ![m] = record][n] = Disturbed(m)[n]
      BY <2>1 DEF Disturbed
    <3> QED BY <1>2, <2>1, <3>1 DEF BecomesAndDisturbs
  <2>3. ~ (DecideIntegration(m) \/ Commit(m) \/ Audit(m))
    BY <2>2 DEF DecideIntegration, Commit, Audit
  <2>4. ~ Judge(m)
    BY <2>2 DEF Judge
  <2> QED BY <1>4, <2>3, <2>4 DEF MoverNext, ReadTips, RejectIntegration,
             UpdateRef, PrepareRef, Stop, ledgerVars, repositoryVars, configVars
<1>5. CASE UNCHANGED gateVars
  BY <1>5 DEF gateVars, ledgerVars, repositoryVars, configVars
<1>6. UNCHANGED ledgerVars /\ trunk' = trunk
  BY <1>3, <1>4, <1>5 DEF GateNext, Reconcile, Declare, Merge, Publish, Push
<1> QED BY <1>6, OtherMovers

LEMMA SameSettled ==
  ASSUME UNCHANGED <<life, merged, trunk, upstream, tracks>>
  PROVE  Settled' = Settled
<1>1. /\ \A r : HeadOf(r)' = HeadOf(r)
      /\ Proof' = Proof
  BY DEF HeadOf, Proof
<1> QED BY <1>1 DEF Settled

LEMMA FreshStep ==
  GateTypeInv /\ PermitInv /\ FreshInv /\ [GateNext]_gateVars => FreshInv'
<1> SUFFICES ASSUME GateTypeInv, PermitInv, FreshInv, [GateNext]_gateVars,
                    NEW n \in Movers,
                    NEW prev \in SUBSET Commits, NEW prop \in SUBSET Commits,
                    mover'[n].fresh,
                    mover'[n].prev = prev, mover'[n].prop = prop
             PROVE  /\ ~ Blocked(life, prev, prop)'
                    /\ \/ mover'[n].pc \in {"decided", "prepared"}
                          /\ Settled' = life'
                       \/ /\ mover'[n].pc \in {"judged", "committed"}
                          /\ mover'[n].admitted =
                                IF ProvenUpstream(prop)' THEN {}
                                ELSE Covered(life, prev, prop)'
  BY DEF FreshInv
<1>1. mover \in [Movers -> Doing] /\ mover[n] \in Doing
      /\ Idle \in Doing /\ ~ Idle.fresh
  BY IdleType DEF GateTypeInv, GateTypeOK, Idle
<1>2. ASSUME UNCHANGED ledgerVars
      PROVE  /\ Blocked(life, prev, prop)' <=> Blocked(life, prev, prop)
             /\ Covered(life, prev, prop)' = Covered(life, prev, prop)
             /\ ProvenUpstream(prop)' <=> ProvenUpstream(prop)
  BY <1>2, SameJudgement DEF ledgerVars, configVars
<1>3. CASE ~ MoverNext(n)
  <2>1. mover'[n] = mover[n] /\ UNCHANGED ledgerVars /\ trunk' = trunk
    BY <1>3, StaysFresh
  <2>2. Settled' = Settled
    BY <2>1, SameSettled DEF ledgerVars
  <2> QED BY <1>2, <2>1, <2>2 DEF FreshInv, ledgerVars
<1>4. ASSUME NEW record \in Doing, ~ record.fresh,
             Becomes(n, record) \/ BecomesAndDisturbs(n, record)
      PROVE  FALSE
  BY <1>1, <1>4, BecomesType, DisturbsType
<1>5. ASSUME NEW r \in Reservations, NEW force \in BOOLEAN, ReadTips(n, r, force)
      PROVE  FALSE
  <2> DEFINE record == [Idle EXCEPT !.pc = "read", !.res = r, !.force = force,
                               !.prev = trunk, !.prop = Reaches(r)]
  <2>1. Reaches(r) \in SUBSET Commits /\ trunk \in SUBSET Commits
    BY ReachesType DEF GateTypeInv, GateTypeOK
  <2>2. record \in Doing /\ ~ record.fresh
    BY <1>1, <2>1 DEF Idle, Doing
  <2>3. Becomes(n, record)
    BY <1>5 DEF ReadTips
  <2> HIDE DEF record
  <2> QED BY <1>4, <2>2, <2>3
<1>6. ASSUME NEW tips \in SUBSET Commits, PrepareRef(n, tips) PROVE FALSE
  <2> DEFINE record == [Idle EXCEPT !.pc = "prepared", !.prev = trunk,
                                    !.prop = tips]
  <2>1. record \in Doing /\ ~ record.fresh
    BY <1>1 DEF Idle, Doing, GateTypeInv, GateTypeOK
  <2>2. Becomes(n, record)
    BY <1>6 DEF PrepareRef
  <2> HIDE DEF record
  <2> QED BY <1>4, <2>1, <2>2
<1>7. ~ (RejectIntegration(n) \/ Audit(n) \/ Stop(n))
  BY <1>1, <1>4 DEF RejectIntegration, Audit, Stop
<1>8. CASE UpdateRef(n)
  <2> DEFINE record == [mover[n] EXCEPT !.pc = "prepared"]
  <2>1. /\ record \in Doing /\ record.prev = mover[n].prev
        /\ record.prop = mover[n].prop /\ record.fresh = mover[n].fresh
        /\ record.pc = "prepared"
    BY <1>1 DEF Doing
  <2>2. Becomes(n, record) /\ UNCHANGED ledgerVars /\ trunk' = trunk
        /\ mover[n].pc = "decided"
    BY <1>1, <1>4, <1>8 DEF UpdateRef, ledgerVars, repositoryVars, configVars
  <2> HIDE DEF record
  <2>3. mover'[n] = record
    BY <1>1, <2>1, <2>2, BecomesType
  <2>4. Settled' = Settled
    BY <2>2, SameSettled DEF ledgerVars
  <2>5. ~ Blocked(life, prev, prop) /\ Settled = life
    BY <2>1, <2>2, <2>3 DEF FreshInv
  <2> QED BY <1>2, <2>1, <2>2, <2>3, <2>4, <2>5 DEF ledgerVars
<1>9. CASE Commit(n)
  <2> DEFINE record == [mover[n] EXCEPT !.pc = "committed"]
  <2>1. /\ record \in Doing /\ record.prev = mover[n].prev
        /\ record.prop = mover[n].prop /\ record.fresh = mover[n].fresh
        /\ record.admitted = mover[n].admitted /\ record.pc = "committed"
    BY <1>1 DEF Doing
  <2>2. BecomesAndDisturbs(n, record) /\ UNCHANGED ledgerVars
        /\ mover[n].pc = "judged"
    BY <1>9 DEF Commit, ledgerVars, configVars
  <2> HIDE DEF record
  <2>3. mover'[n] = record
    BY <1>1, <2>1, <2>2, DisturbsType
  <2>4. /\ ~ Blocked(life, prev, prop)
        /\ mover[n].admitted = IF ProvenUpstream(prop) THEN {}
                               ELSE Covered(life, prev, prop)
    BY <2>1, <2>2, <2>3 DEF FreshInv
  <2> QED BY <1>2, <2>1, <2>2, <2>3, <2>4
<1>10. CASE DecideIntegration(n)
  <2> DEFINE record == [mover[n] EXCEPT !.pc = "decided", !.force = FALSE,
                                        !.fresh = TRUE]
             blocked == mode = "enforce" /\
              (IF mover[n].force
               THEN IntegrateViolations(n, Settled) \ {mover[n].res}
               ELSE IntegrateViolations(n, Settled)) # {}
  <2>1. /\ record \in Doing /\ record.prev = mover[n].prev
        /\ record.prop = mover[n].prop /\ record.pc = "decided"
    BY <1>1 DEF Doing
  <2>2. BecomesAndDisturbs(n, IF blocked THEN Idle ELSE record)
    BY <1>10 DEF DecideIntegration
  <2> HIDE DEF record, blocked
  <2>3. ~ blocked /\ BecomesAndDisturbs(n, record)
    BY <1>1, <1>4, <2>2
  <2>4. mover'[n] = record
    BY <1>1, <2>1, <2>3, DisturbsType
  <2>5. prev = mover[n].prev /\ prop = mover[n].prop
    BY <2>1, <2>4
  <2>6. ~ Blocked(life, prev, prop)'
    <3>1. PICK r : r = mover[n].res
      OBVIOUS
    <3> QED BY <1>10, <2>3, <2>5, <3>1, DecidedAdmits DEF blocked
  <2>7. Settled' = life'
    BY <1>10, SettledTwice DEF DecideIntegration, repositoryVars, configVars
  <2> QED BY <2>1, <2>4, <2>6, <2>7
<1>11. CASE Judge(n)
  <2>1. PICK A : A = IF ProvenUpstream(mover[n].prop) THEN {}
                     ELSE Covered(Settled, mover[n].prev, mover[n].prop)
    OBVIOUS
  <2> DEFINE record == [mover[n] EXCEPT !.pc = "judged", !.fresh = TRUE,
                                        !.admitted = A]
  <2>2. IF Blocked(Settled, mover[n].prev, mover[n].prop)
        THEN BecomesAndDisturbs(n, Idle) ELSE BecomesAndDisturbs(n, record)
    BY <1>11, <2>1 DEF Judge
  <2>3. A \in SUBSET Reservations
    BY <2>1 DEF Covered, Violations, Entering
  <2>4. /\ record \in Doing /\ record.prev = mover[n].prev
        /\ record.prop = mover[n].prop /\ record.pc = "judged"
        /\ record.admitted = A
    BY <1>1, <2>3 DEF Doing
  <2> HIDE DEF record
  <2>5. BecomesAndDisturbs(n, record)
        /\ ~ Blocked(Settled, mover[n].prev, mover[n].prop)
    BY <1>1, <1>4, <2>2
  <2>6. mover'[n] = record
    BY <1>1, <2>4, <2>5, DisturbsType
  <2>7. prev = mover[n].prev /\ prop = mover[n].prop
    BY <2>4, <2>6
  <2>8. life' = Settled /\ UNCHANGED <<graph, configVars, merged, upstream, permits>>
    BY <1>11 DEF Judge, repositoryVars, configVars
  <2>9. /\ Blocked(life, prev, prop)' <=> Blocked(Settled, prev, prop)
        /\ Covered(life, prev, prop)' = Covered(Settled, prev, prop)
        /\ ProvenUpstream(prop)' <=> ProvenUpstream(prop)
    BY <2>8, SameJudgement
  <2> QED BY <2>1, <2>4, <2>5, <2>6, <2>7, <2>9
<1>12. CASE MoverNext(n)
  <2>1. ASSUME NEW tips \in BranchTips \cup {upstream}
        PROVE  trunk \cup tips \in SUBSET Commits
    <3>1. tips \in SUBSET Commits /\ trunk \in SUBSET Commits
      BY ReachesType DEF BranchTips, GateTypeInv, GateTypeOK
    <3> QED BY <3>1
  <2> QED BY <1>5, <1>6, <1>7, <1>8, <1>9, <1>10, <1>11, <1>12, <2>1
          DEF MoverNext
<1> QED BY <1>3, <1>12

LEMMA FreshInvariant == GateSpec => [](GateTypeInv /\ PermitInv /\ TipInv /\ FreshInv)
<1>1. GateInit => FreshInv
  BY DEF GateInit, FreshInv, Idle
<1> QED BY <1>1, FreshStep, TypeInvariant, PermitsInvariant, TipInvariant,
           PTL DEF GateSpec

\* Where the gate enforces, no move lands a held reservation that has no
\* permit for exactly what holds it, as long as the judgement is fresh.
THEOREM OnlyJudgedEnters == GateSpec => EntriesJudged
<1>1. ASSUME GateTypeInv, TipInv, FreshInv, NEW m \in Movers, Commit(m),
             mover[m].fresh, mode = "enforce", ~ ProvenUpstream(trunk'),
             NEW r \in Reservations, Live(r), HeadOf(r) \in trunk' \ trunk,
             Held(life, r, trunk')
      PROVE  CoveringPermits(life, r, trunk') # {}
  <2>1. mover[m] \in Doing
    BY <1>1 DEF GateTypeInv, GateTypeOK
  <2>2. PICK prev \in SUBSET Commits, prop \in SUBSET Commits :
            prev = mover[m].prev /\ prop = mover[m].prop
    BY <2>1 DEF Doing
  <2>3. prev = trunk /\ prop = trunk'
    BY <1>1, <2>2 DEF TipInv, Commit, LocksRef
  <2>4. ~ Blocked(life, prev, prop)
    BY <1>1, <2>2 DEF FreshInv
  <2>5. r \in Violations(life, prev, prop)
    BY <1>1, <2>3 DEF Violations, Entering, Unreleased, Live
  <2>6. Violations(life, prev, prop) = Covered(life, prev, prop)
    BY <1>1, <2>3, <2>4 DEF Blocked
  <2> QED BY <2>3, <2>5, <2>6 DEF Covered
<1>2. GateTypeInv /\ TipInv /\ FreshInv =>
        \A m \in Movers :
          Commit(m) /\ mover[m].fresh /\ mode = "enforce"
                    /\ ~ ProvenUpstream(trunk') =>
            \A r \in Reservations :
               Live(r) /\ HeadOf(r) \in trunk' \ trunk =>
                  \/ ~ Held(life, r, trunk')
                  \/ CoveringPermits(life, r, trunk') # {}
  BY <1>1
<1> QED BY <1>2, FreshInvariant, PTL DEF GateSpec, EntriesJudged

\* What the integrate verb decided, with or without a permit, the hook
\* upholds unless something changed in between.
THEOREM DecisionsStand == GateSpec => DecisionStands
<1>1. ASSUME GateTypeInv, FreshInv, NEW m \in Movers, Judge(m), mover[m].fresh
      PROVE  mover'[m].pc = "judged"
  <2>1. mover \in [Movers -> Doing] /\ mover[m] \in Doing
    BY <1>1 DEF GateTypeInv, GateTypeOK
  <2>2. PICK prev \in SUBSET Commits, prop \in SUBSET Commits :
            prev = mover[m].prev /\ prop = mover[m].prop
    BY <2>1 DEF Doing
  <2>3. mover[m].pc = "prepared"
    BY <1>1 DEF Judge
  <2>4. ~ Blocked(life, prev, prop) /\ Settled = life
    BY <1>1, <2>2, <2>3 DEF FreshInv
  <2>5. PICK A : A = IF ProvenUpstream(prop) THEN {}
                     ELSE Covered(Settled, prev, prop)
    OBVIOUS
  <2> DEFINE record == [mover[m] EXCEPT !.pc = "judged", !.fresh = TRUE,
                                        !.admitted = A]
  <2>6. BecomesAndDisturbs(m, record)
    BY <1>1, <2>2, <2>4, <2>5 DEF Judge
  <2>7. A \in SUBSET Reservations
    BY <2>5 DEF Covered, Violations, Entering
  <2>8. record \in Doing /\ record.pc = "judged"
    BY <2>1, <2>7 DEF Doing
  <2> HIDE DEF record
  <2> QED BY <2>1, <2>6, <2>8, DisturbsType
<1>2. GateTypeInv /\ FreshInv =>
        \A m \in Movers :
          Judge(m) /\ mover[m].res # NoMover /\ mover[m].fresh =>
            mover'[m].pc = "judged"
  BY <1>1
<1> QED BY <1>2, FreshInvariant, PTL DEF GateSpec, DecisionStands

\* The audit of a move spends the permit of every reservation it was
\* admitted with one, unless something changed since it was judged.
THEOREM AuditsSpend == GateSpec => UndisturbedAuditSpends
<1>1. ASSUME GateTypeInv, PermitInv, FreshInv, NEW m \in Movers, Audit(m),
             mover[m].fresh
      PROVE  \A r \in mover[m].admitted : Consumed(r)
  <2>1. mover[m] \in Doing
    BY <1>1 DEF GateTypeInv, GateTypeOK
  <2>2. PICK prev \in SUBSET Commits, prop \in SUBSET Commits :
            prev = mover[m].prev /\ prop = mover[m].prop
    BY <2>1 DEF Doing
  <2>3. mover[m].pc = "committed"
    BY <1>1 DEF Audit
  <2>4. /\ ~ Blocked(life, prev, prop)
        /\ mover[m].admitted = IF ProvenUpstream(prop) THEN {}
                               ELSE Covered(life, prev, prop)
    BY <1>1, <2>2, <2>3 DEF FreshInv
  <2>5. Spends(m) = mover[m].admitted
    BY <2>2, <2>4 DEF Spends, AuditLives
  <2> QED BY <1>1, <2>5, AuditPermits
<1>2. GateTypeInv /\ PermitInv /\ FreshInv =>
        \A m \in Movers : Audit(m) /\ mover[m].fresh =>
          \A r \in mover[m].admitted : Consumed(r)
  BY <1>1
<1> QED BY <1>2, FreshInvariant, PTL DEF GateSpec, UndisturbedAuditSpends
=============================================================================
