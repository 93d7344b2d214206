---------------------------- MODULE OrderingGraph ----------------------------
(***************************************************************************)
(* The ordering graph of a ledger: the edges that say which reservation     *)
(* integrates first and the deferrals that wait for an edge.  Commands      *)
(* declare edges from the graph replayed under the mutation lock, so each   *)
(* action is one transaction; the graph is what replaying the journal       *)
(* yields.  Which reservations conflict is a matter of paths: any live      *)
(* reservation of another lane may.  Scopes and reasons are left out.       *)
(***************************************************************************)
EXTENDS Naturals, Sequences, SequencesExt, FiniteSets

CONSTANTS
    Reservations,
    Lane,                  \* Lane[r]: the run and worktree that hold r
    MaximumOrderingEdges,  \* the configured limit
    Legacy,                \* orders journals of earlier builds may hold
    MaxDeclarations        \* bound: answers and edges declared

ASSUME OrderingAssumption ==
    /\ IsFiniteSet(Reservations)
    /\ DOMAIN Lane = Reservations
    /\ MaximumOrderingEdges \in Nat /\ MaxDeclarations \in Nat
    /\ \A L \in Legacy :
          /\ L \in Seq(Reservations \X Reservations)
          /\ \A m, n \in DOMAIN L : L[m] = L[n] => m = n
          /\ \A n \in DOMAIN L : L[n][1] # L[n][2]

VARIABLES
    life,   \* the lifecycle of each reservation
    graph   \* its edges, its deferrals and the number of declarations

orderingVars == <<life, graph>>

Lives == {"unclaimed", "active", "outstanding", "integrated", "ended"}
Directions == {"holder first", "requester first"}

Live(r) == life[r] \in {"active", "outstanding"}
Known(r) == life[r] # "unclaimed"

Edge(n, pair) == [id |-> <<n, pair>>, before |-> pair[1], after |-> pair[2]]
Deferral(n, d, b) == [event |-> n, deferred |-> d, blocker |-> b,
                      resolved |-> FALSE]

Pairs(edges) == {<<e.before, e.after>> : e \in edges}

-----------------------------------------------------------------------------
(* Cycles.  Acyclic says what the three searches below are for: whatever    *)
(* reservations wait for one another, one of them waits for none.           *)

Acyclic(P) == \A S \in SUBSET Reservations :
                 S # {} => \E r \in S : \A q \in S : <<q, r>> \notin P

\* Mutant: peeling stops as soon as one vertex was ready.
ContainsCycleOnePass(P) ==
    Reservations # {} /\ \A r \in Reservations :
        \E q \in Reservations : <<q, r>> \in P

\* In-degree peeling: what is left when no vertex is ready lies on a cycle.
ContainsCycle(P) ==
    LET Ready(S) == {r \in S : \A q \in S : <<q, r>> \notin P}
        Peel[S \in SUBSET Reservations] ==
            IF Ready(S) = {} THEN S
            ELSE Peel[S \ {CHOOSE r \in Ready(S) : TRUE}]
    IN  Peel[Reservations] # {}

\* Depth-first search, with the vertices of the current path still active;
\* what was visited, and the edges that were followed.
EnsureAcyclic(P) ==
    LET Search[s \in Seq(Reservations) \X (SUBSET Reservations) \X (SUBSET P)] ==
            LET path == s[1]
                visited == s[2]
                taken == s[3]
                open == {e \in P \ taken : e[1] = Last(path)}
                root == CHOOSE r \in Reservations \ visited : TRUE
                next == CHOOSE e \in open : TRUE
            IN  IF path = <<>>
                THEN \/ visited = Reservations
                     \/ Search[<< <<root>>, visited \cup {root}, taken >>]
                ELSE IF open = {}
                     THEN Search[<<Front(path), visited, taken>>]
                     ELSE /\ next[2] \notin ToSet(path)
                          /\ Search[<<IF next[2] \in visited THEN path
                                                            ELSE Append(path, next[2]),
                                      visited \cup {next[2]}, taken \cup {next}>>]
    IN  Search[<< <<>>, {}, {} >>]

\* Reverse reachability for one proposed edge.
WouldCreateCycle(P, before, after) ==
    LET Reach[s \in (SUBSET Reservations) \X (SUBSET Reservations)] ==
            LET pending == s[1]
                visited == s[2]
                r == CHOOSE q \in pending : TRUE
                onward == IF r \in visited THEN {}
                          ELSE {q \in Reservations : <<r, q>> \in P}
            IN  /\ pending # {}
                /\ \/ r = before
                   \/ Reach[<<(pending \ {r}) \cup (onward \ visited),
                              visited \cup {r}>>]
    IN  before = after \/ Reach[<<{after}, {}>>]

-----------------------------------------------------------------------------
(* Declarations. *)

\* Mutant: only two reservations that wait for each other are a cycle.
CheckPairwise(P) == \A p \in P : <<p[2], p[1]>> \notin P

\* The whole set of edges a declaration leaves is searched before it is
\* appended.
CheckAcyclic(P) == Acyclic(P)

\* No command gets past a graph that does not replay.
Replays == Acyclic(Pairs(graph.edges))

Foreign(r) == {h \in Reservations : Live(h) /\ Lane[h] # Lane[r]}

Directed(r, h, d) == IF d = "holder first" THEN <<h, r>> ELSE <<r, h>>

\* The live edges that order a requester and a named holder the other way.
Contradicted(requesters, dir) ==
    {e \in graph.edges :
        \/ /\ e.before \in DOMAIN dir /\ e.after \in requesters
           /\ dir[e.before] = "requester first"
        \/ /\ e.after \in DOMAIN dir /\ e.before \in requesters
           /\ dir[e.after] = "holder first"}

\* Mutant: a named reservation records an order it already has once more.
BindClaimSequenceAnew(r, dir) == {Directed(r, h, dir[h]) : h \in DOMAIN dir}

\* A sequence answer of r: the holders it orders anew, the edges it retires.
BindClaimSequence(r, dir) ==
    {Directed(r, h, dir[h]) : h \in DOMAIN dir} \ Pairs(graph.edges)

AnswerSequence(r, requesters, dir, replace) ==
    LET replaced == Contradicted(requesters, dir)
        kept == graph.edges \ replaced
        added == {Edge(graph.next, p) : p \in BindClaimSequence(r, dir)}
    IN  /\ DOMAIN dir # {} /\ DOMAIN dir \subseteq Foreign(r)
        /\ replace = (replaced # {})
        /\ added # {} => Cardinality(kept) + Cardinality(added)
                             <= MaximumOrderingEdges
        /\ CheckAcyclic(Pairs(kept \cup added))
        /\ graph' = [graph EXCEPT !.edges = kept \cup added,
                                  !.next = @ + 1]

Declaring == graph.next <= MaxDeclarations /\ Replays

\* A claim that meets no conflict.
Claim(r) ==
    /\ life[r] = "unclaimed" /\ Replays
    /\ life' = [life EXCEPT ![r] = "active"]
    /\ UNCHANGED graph

\* A claim ordered against every holder it conflicts with.  An order it
\* contradicts is one of an earlier reservation of its lane.
ClaimSequenced(r, dir, replace) ==
    /\ life[r] = "unclaimed" /\ Declaring
    /\ AnswerSequence(r, {q \in Reservations : Live(q) /\ Lane[q] = Lane[r]},
                      dir, replace)
    /\ life' = [life EXCEPT ![r] = "active"]

\* A claim made while enrolling: it defers to every counterpart.
ClaimEnrolled(r, holders) ==
    /\ life[r] = "unclaimed" /\ Declaring
    /\ holders # {} /\ holders \subseteq Foreign(r)
    /\ life' = [life EXCEPT ![r] = "active"]
    /\ graph' = [graph EXCEPT
            !.deferrals = @ \cup {Deferral(graph.next, r, h) : h \in holders},
            !.next = @ + 1]

\* A live reservation widens, or answers for paths it already holds.
WidenSequenced(r, dir, replace) ==
    /\ life[r] = "active" /\ Declaring
    /\ AnswerSequence(r, {r}, dir, replace)
    /\ UNCHANGED life

\* A defer answer reserves nothing and names the active reservation it holds.
AnswerDefer(r, holders) ==
    /\ life[r] = "active" /\ Declaring
    /\ holders # {} /\ holders \subseteq Foreign(r)
    /\ graph' = [graph EXCEPT
            !.deferrals = @ \cup {Deferral(graph.next, r, h) : h \in holders},
            !.next = @ + 1]
    /\ UNCHANGED life

Pending(d, b) == {x \in graph.deferrals :
                     x.deferred = d /\ x.blocker = b /\ ~x.resolved}

\* The deferrals an edge between the two resolves.
DeferredOverlap(p) == Pending(p[1], p[2]) \cup Pending(p[2], p[1])

\* Mutant: both endpoints have to be live, whatever was deferred.
PrepareEdgeLive(p) ==
    /\ p \notin Pairs(graph.edges)
    /\ CheckAcyclic(Pairs(graph.edges) \cup {p})
    /\ Pending(p[1], p[2]) = {} \/ Pending(p[2], p[1]) = {}
    /\ Live(p[1]) /\ Live(p[2])

PrepareEdge(p) ==
    /\ p[1] # p[2] /\ Known(p[1]) /\ Known(p[2])
    /\ p \notin Pairs(graph.edges)
    /\ CheckAcyclic(Pairs(graph.edges) \cup {p})
    /\ Pending(p[1], p[2]) = {} \/ Pending(p[2], p[1]) = {}
    /\ DeferredOverlap(p) = {} => Live(p[1]) /\ Live(p[2])

\* The sequence verb: a new edge, or the resolution of what was deferred.
Sequence(p) ==
    /\ Declaring
    /\ PrepareEdge(p)
    /\ Cardinality(graph.edges) < MaximumOrderingEdges
    /\ graph' = [graph EXCEPT
            !.edges = @ \cup {Edge(graph.next, p)},
            !.deferrals = (@ \ DeferredOverlap(p)) \cup
                {[x EXCEPT !.resolved = TRUE] : x \in DeferredOverlap(p)},
            !.next = @ + 1]
    /\ UNCHANGED life

Checkpoint(r) ==
    /\ life[r] = "active" /\ Replays
    /\ life' = [life EXCEPT ![r] = "outstanding"]
    /\ UNCHANGED graph

\* A disposition the user gives: abandoned, retired, kept on its branch.
End(r) ==
    /\ Live(r) /\ Replays
    /\ life' = [life EXCEPT ![r] = "ended"]
    /\ UNCHANGED graph

\* The first edge in append order that closes a cycle with those before it.
CycleClosing(e) ==
    LET earlier == {f \in graph.edges : f.id[1] < e.id[1]}
        closes(f) == WouldCreateCycle(
                         Pairs({g \in graph.edges : g.id[1] < f.id[1]}),
                         f.before, f.after)
    IN  closes(e) /\ \A f \in earlier : ~closes(f)

\* Mutant: the first closing edge is retired, whatever else is cyclic.
RepairCycleUnverified ==
    \E e \in graph.edges :
        /\ CycleClosing(e)
        /\ graph' = [graph EXCEPT !.edges = @ \ {e}]
        /\ UNCHANGED life

\* The explicit repair of a cyclic ledger.  A second independent cycle
\* leaves the journal untouched.
RepairCycle ==
    \E e \in graph.edges :
        /\ CycleClosing(e)
        /\ Acyclic(Pairs(graph.edges \ {e}))
        /\ graph' = [graph EXCEPT !.edges = @ \ {e}]
        /\ UNCHANGED life

-----------------------------------------------------------------------------
\* An empty ledger, or one whose claims were ordered before cycles were
\* refused.
OrderingInit ==
    \E L \in Legacy :
        LET edges == {Edge(n, L[n]) : n \in DOMAIN L} IN
        /\ life = [r \in Reservations |->
                      IF \E e \in edges : r \in {e.before, e.after}
                      THEN "active" ELSE "unclaimed"]
        /\ graph = [edges |-> edges, deferrals |-> {},
                    next |-> Len(L) + 1]

Orders == UNION {[H -> Directions] : H \in SUBSET Reservations}

OrderingNext ==
    \/ \E r \in Reservations : Claim(r) \/ Checkpoint(r) \/ End(r)
    \/ \E r \in Reservations, dir \in Orders, replace \in BOOLEAN :
          ClaimSequenced(r, dir, replace) \/ WidenSequenced(r, dir, replace)
    \/ \E r \in Reservations, holders \in SUBSET Reservations :
          ClaimEnrolled(r, holders) \/ AnswerDefer(r, holders)
    \/ \E p \in Reservations \X Reservations : Sequence(p)
    \/ RepairCycle

OrderingSpec == OrderingInit /\ [][OrderingNext]_orderingVars
-----------------------------------------------------------------------------
(* Properties. *)

Between(e) == {e.before, e.after}

\* Edges join two reservations that were claimed, under identifiers of their
\* own; a deferral names a declaration that was made.
TypeOK ==
    /\ life \in [Reservations -> Lives]
    /\ DOMAIN graph = {"edges", "deferrals", "next"}
    /\ graph.next \in Nat
    /\ \A e \in graph.edges :
          /\ e.before \in Reservations /\ Known(e.before)
          /\ e.after \in Reservations /\ Known(e.after)
          /\ e.before # e.after
          /\ e = Edge(e.id[1], <<e.before, e.after>>)
          /\ e.id[1] \in Nat /\ e.id[1] < graph.next
    /\ \A x \in graph.deferrals :
          /\ x.deferred \in Reservations /\ Known(x.deferred)
          /\ x.blocker \in Reservations /\ Known(x.blocker)
          /\ x.deferred # x.blocker
          /\ x.event \in Nat /\ x.event < graph.next
          /\ x.resolved \in BOOLEAN

\* While the graph replays, two edges never join the same two reservations:
\* neither an answer that repeats an order nor a resolution of a deferral
\* declares an edge that the replay of add_edge then refuses as a duplicate.
OneOrder ==
    Replays => \A e, f \in graph.edges : Between(e) = Between(f) => e = f

\* Peeling, depth-first search and reverse reachability decide the same
\* thing, on the graph there is and with any one edge more.
DetectorsAgree ==
    LET P == Pairs(graph.edges) IN
    /\ \A p \in Reservations \X Reservations :
          LET Q == P \cup {p} IN
          /\ EnsureAcyclic(Q) <=> Acyclic(Q)
          /\ ContainsCycle(Q) <=> ~ Acyclic(Q)
    /\ Acyclic(P) => \A a, b \in Reservations :
          WouldCreateCycle(P, a, b) <=> ~ Acyclic(P \cup {<<a, b>>})

\* No declaration closes a cycle, whoever makes it: a cyclic graph is one an
\* earlier build left behind.
NoNewCycle == [][~ Acyclic(Pairs(graph'.edges)) =>
                     ~ Acyclic(Pairs(graph.edges))]_orderingVars

\* The repair of a cyclic ledger retires one edge, that edge lies on a cycle,
\* and what is left replays.
RepairExact ==
    [][~ Replays /\ graph' # graph =>
          /\ Acyclic(Pairs(graph'.edges))
          /\ \E e \in graph.edges :
                /\ graph' = [graph EXCEPT !.edges = @ \ {e}]
                /\ \E S \in SUBSET Reservations :
                      /\ {e.before, e.after} \subseteq S
                      /\ \A r \in S : \E q \in S :
                            <<q, r>> \in Pairs(graph.edges)]_orderingVars

\* A deferral one side recorded, between two reservations nothing else
\* orders, can be ordered whatever became of the two: `sequence` accepts one
\* of the two directions.
OneSidedDeferralOrderable ==
    Replays => \A x \in graph.deferrals :
        \/ x.resolved
        \/ Pending(x.blocker, x.deferred) # {}
        \/ \E e \in graph.edges : Between(e) = {x.deferred, x.blocker}
        \/ PrepareEdge(<<x.deferred, x.blocker>>)
        \/ PrepareEdge(<<x.blocker, x.deferred>>)

\* What the description of `sequence` says of deferrals: of any two
\* reservations nothing else orders.  Not so for two that deferred to each
\* other: neither direction is accepted, and both stay held.
EveryDeferralOrderable ==
    Replays => \A x \in graph.deferrals :
        \/ x.resolved
        \/ \E e \in graph.edges : Between(e) = {x.deferred, x.blocker}
        \/ PrepareEdge(<<x.deferred, x.blocker>>)
        \/ PrepareEdge(<<x.blocker, x.deferred>>)
=============================================================================
