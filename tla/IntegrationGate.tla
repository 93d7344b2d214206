--------------------------- MODULE IntegrationGate ---------------------------
(***************************************************************************)
(* The integration gate: moves of one target branch, made by git or by the  *)
(* integrate verb, judged by the reference-transaction hook against the     *)
(* ordering graph, and audited once git has moved the reference.  A ledger  *)
(* transaction is one action; between the transactions of one mover, and    *)
(* between the judgement and the move, other movers and commands act.       *)
(*                                                                          *)
(* A reservation's branch has one commit, and one more once it merged       *)
(* something; a set of commits stands for the tip that reaches them.        *)
(* Rewrites, several targets, runs ended because they are merged and work   *)
(* beyond a checkpoint are left out.                                        *)
(***************************************************************************)
EXTENDS OrderingGraph

CONSTANTS
    Movers,      \* processes that move the target
    Integrators, \* those of them that run the integrate verb; others git
    Integrating, \* bound: reservations the verb is run for
    Merging,     \* bound: reservations whose branch merges something
    Published,   \* bound: those whose work the upstream may take
    Tracking,    \* whether the target may have an upstream configured
    GateModes,   \* the modes a repository may be configured with
    MaxPermits,  \* bound: permits issued
    NoMover

ASSUME GateAssumption ==
    /\ Integrators \subseteq Movers
    /\ Integrating \subseteq Reservations
    /\ Merging \subseteq Reservations /\ Published \subseteq Reservations
    /\ GateModes \subseteq {"enforce", "observe"} /\ Tracking \subseteq BOOLEAN
    /\ MaxPermits \in Nat
    /\ NoMover \notin Movers \cup Reservations

VARIABLES
    mode,      \* the gate mode of the configuration
    tracks,    \* whether an upstream is configured for the target
    merged,    \* what each reservation's branch merged
    trunk,     \* the commits the target reaches
    upstream,  \* the commits its upstream reaches
    permits,   \* the permits issued, their consumptions, the next identifier
    mover,     \* what each mover is doing
    refLock    \* the mover that holds git's lock on the target

configVars == <<mode, tracks>>
repositoryVars == <<merged, trunk, upstream>>
gateVars == <<life, graph, mode, tracks, merged, trunk, upstream, permits,
              mover, refLock>>

Commits == Reservations \X {0, 1}

HeadOf(r) == <<r, IF merged[r] = {} THEN 0 ELSE 1>>
Reaches(r) == merged[r] \cup {<<r, 0>>, HeadOf(r)}

Idle == [pc |-> "idle", res |-> NoMover, force |-> FALSE, prev |-> {},
         prop |-> {}, admitted |-> {}, fresh |-> FALSE]

-----------------------------------------------------------------------------
(* What the gate computes under the mutation lock. *)

\* Only the upstream's tip proves work where one is configured; the target's
\* own where none is.
Proof == IF tracks THEN upstream ELSE trunk

\* Checkpointed work the proving tip reaches is settled.
Settled ==
    [r \in Reservations |->
        IF life[r] = "outstanding" /\ HeadOf(r) \in Proof
        THEN "integrated" ELSE life[r]]

\* Mutant: the audit settles what the move proved first.
AuditLivesSettled == Settled

\* The lifecycles a committed move is audited with: as they are.
AuditLives == life

Unreleased(l, r) == l[r] \in {"active", "outstanding"}

\* A predecessor holds until it is given up, or the proposed tip and the
\* successor's own branch both contain its checkpoint.
EdgeHolds(l, e, prop) ==
    /\ Unreleased(l, e.after)
    /\ l[e.before] # "ended"
    /\ \/ l[e.before] = "active"
       \/ HeadOf(e.before) \notin prop
       \/ HeadOf(e.before) \notin Reaches(e.after)

HeldEdges(l, r, prop) ==
    {e.id : e \in {f \in graph.edges : f.after = r /\ EdgeHolds(l, f, prop)}}

HeldDeferrals(r) ==
    {x \in graph.deferrals : ~ x.resolved /\ r \in {x.deferred, x.blocker}}

Held(l, r, prop) == HeldEdges(l, r, prop) # {} \/ HeldDeferrals(r) # {}

\* Mutant: checkpointed work is not asked about.
EnteringActive(l, prev, prop) ==
    {r \in Reservations : l[r] = "active" /\ HeadOf(r) \in prop \ prev}

\* Unreleased reservations whose head the move makes reachable.
Entering(l, prev, prop) ==
    {r \in Reservations : Unreleased(l, r) /\ HeadOf(r) \in prop \ prev}

\* Mutant: a permit remembers the edges it skips only.
SkippedEdges(l, r, prop) ==
    [edges |-> HeldEdges(l, r, prop), deferrals |-> {}]

SkippedHolds(l, r, prop) ==
    [edges |-> HeldEdges(l, r, prop), deferrals |-> HeldDeferrals(r)]

\* As many holds as were skipped, and each of them one of those.
Covers(skips, l, r, prop) ==
    /\ Cardinality(HeldEdges(l, r, prop)) = Cardinality(skips.edges)
    /\ HeldEdges(l, r, prop) \subseteq skips.edges
    /\ Cardinality(HeldDeferrals(r)) = Cardinality(skips.deferrals)
    /\ \A x \in HeldDeferrals(r) :
          \E y \in skips.deferrals : y.event = x.event

\* Mutant: a consumed permit is available again.
AvailableEver == permits.issued

Available ==
    {p \in permits.issued : \A c \in permits.spent : c.id # p.id}

CoveringPermits(l, r, prop) ==
    {p \in Available : p.res = r /\ Covers(p.skips, l, r, prop)}

Violations(l, prev, prop) ==
    {r \in Entering(l, prev, prop) : Held(l, r, prop)}

Covered(l, prev, prop) ==
    {r \in Violations(l, prev, prop) : CoveringPermits(l, r, prop) # {}}

\* A move the upstream has made already is only observed.
ProvenUpstream(prop) == tracks /\ prop \subseteq upstream

Blocked(l, prev, prop) ==
    /\ ~ ProvenUpstream(prop)
    /\ mode = "enforce"
    /\ Violations(l, prev, prop) # Covered(l, prev, prop)

-----------------------------------------------------------------------------
(* Movers. *)

\* Everybody but m judged what is no longer so.
Disturbed(m) ==
    [n \in Movers |-> IF n = m THEN mover[n]
                      ELSE [mover[n] EXCEPT !.fresh = FALSE]]

Becomes(m, record) == mover' = [mover EXCEPT ![m] = record]

BecomesAndDisturbs(m, record) ==
    mover' = [Disturbed(m) EXCEPT ![m] = record]

\* The integrate verb reads the target and its own head.
ReadTips(m, r, force) ==
    /\ m \in Integrators /\ mover[m].pc = "idle"
    /\ r \in Integrating /\ Known(r)
    /\ Becomes(m, [Idle EXCEPT !.pc = "read", !.res = r, !.force = force,
                               !.prev = trunk, !.prop = Reaches(r)])
    /\ UNCHANGED <<life, graph, configVars, repositoryVars, permits, refLock>>

\* Its own reservation is judged whenever something holds it.
IntegrateViolations(m, l) ==
    LET r == mover[m].res
        own == IF Held(l, r, mover[m].prop) THEN {r} ELSE {}
    IN  Violations(l, mover[m].prev, mover[m].prop) \cup own

\* The decision of the integrate verb, one ledger transaction.
DecideIntegration(m) ==
    LET r == mover[m].res
        prop == mover[m].prop
        l == Settled
        violations == IntegrateViolations(m, l)
        standing == IF mover[m].force THEN violations \ {r} ELSE violations
        blocked == mode = "enforce" /\ standing # {}
        issues == mover[m].force /\ ~ blocked
    IN  /\ mover[m].pc = "read" /\ Replays
        /\ r \in Entering(l, mover[m].prev, prop) \cup violations
        /\ mover[m].force => r \in violations
        /\ issues => Cardinality(permits.issued) < MaxPermits
        /\ life' = l
        /\ permits' = IF issues
                      THEN [permits EXCEPT
                              !.issued = @ \cup {[id |-> permits.next, res |-> r,
                                  skips |-> SkippedHolds(l, r, prop)]},
                              !.next = @ + 1]
                      ELSE permits
        /\ BecomesAndDisturbs(m, IF blocked THEN Idle
                                 ELSE [mover[m] EXCEPT !.pc = "decided",
                                            !.force = FALSE, !.fresh = TRUE])
        /\ UNCHANGED <<graph, configVars, repositoryVars, refLock>>

\* Nothing enters, or nothing holds what is to be forced.
RejectIntegration(m) ==
    LET l == Settled
        violations == IntegrateViolations(m, l)
    IN  /\ mover[m].pc = "read" /\ Replays
        /\ \/ mover[m].res \notin
                 Entering(l, mover[m].prev, mover[m].prop) \cup violations
           \/ mover[m].force /\ mover[m].res \notin violations
        /\ Becomes(m, Idle)
        /\ UNCHANGED <<life, graph, configVars, repositoryVars, permits,
                       refLock>>

\* The tip read first is still the tip and an ancestor of what is proposed.
Unmoved(m) == trunk = mover[m].prev /\ mover[m].prev \subseteq mover[m].prop

RefFree == refLock = NoMover

\* `git update-ref` with the tip expected, outside the mutation lock.
UpdateRef(m) ==
    /\ mover[m].pc = "decided" /\ RefFree
    /\ IF Unmoved(m) /\ mover[m].prop # trunk
       THEN Becomes(m, [mover[m] EXCEPT !.pc = "prepared"]) /\ refLock' = m
       ELSE Becomes(m, Idle) /\ UNCHANGED refLock
    /\ UNCHANGED <<life, graph, configVars, repositoryVars, permits>>

\* Any other command that moves the target: a merge, a pull, a reset.
PrepareRef(m, prop) ==
    /\ m \notin Integrators /\ mover[m].pc = "idle" /\ RefFree
    /\ prop # trunk
    /\ refLock' = m
    /\ Becomes(m, [Idle EXCEPT !.pc = "prepared", !.prev = trunk,
                               !.prop = prop])
    /\ UNCHANGED <<life, graph, configVars, repositoryVars, permits>>

\* The hook in the prepared phase: settlements are recorded with the
\* decision, whichever it is.
Judge(m) ==
    LET prev == mover[m].prev
        prop == mover[m].prop
        l == Settled
    IN  /\ mover[m].pc = "prepared" /\ Replays
        /\ life' = l
        /\ IF Blocked(l, prev, prop)
           THEN BecomesAndDisturbs(m, Idle) /\ refLock' = NoMover
           ELSE /\ BecomesAndDisturbs(m,
                     [mover[m] EXCEPT !.pc = "judged", !.fresh = TRUE,
                         !.admitted = IF ProvenUpstream(prop) THEN {}
                                      ELSE Covered(l, prev, prop)])
                /\ UNCHANGED refLock
        /\ UNCHANGED <<graph, configVars, repositoryVars, permits>>

Commit(m) ==
    /\ mover[m].pc = "judged"
    /\ trunk' = mover[m].prop
    /\ refLock' = NoMover
    /\ BecomesAndDisturbs(m, [mover[m] EXCEPT !.pc = "committed"])
    /\ UNCHANGED <<life, graph, configVars, merged, upstream, permits>>

\* The reservations whose permits the audit spends: those a permit covers,
\* unless one is not covered where the gate enforces.
Spends(m) ==
    LET prev == mover[m].prev
        prop == mover[m].prop
    IN  IF ProvenUpstream(prop) \/ Blocked(AuditLives, prev, prop) THEN {}
        ELSE Covered(AuditLives, prev, prop)

\* The hook in the committed phase: it judges the move again and journals the
\* consumption of each covering permit.  Settlements are not recorded.
Audit(m) ==
    /\ mover[m].pc = "committed" /\ Replays
    /\ \E chosen \in [Spends(m) -> Available] :
          /\ \A r \in Spends(m) :
                chosen[r] \in CoveringPermits(AuditLives, r, mover[m].prop)
          /\ permits' = IF Spends(m) = {} THEN permits
                        ELSE [permits EXCEPT
                                !.spent = @ \cup {[id |-> chosen[r].id, res |-> r,
                                    at |-> permits.next] : r \in Spends(m)},
                                !.next = @ + 1]
    /\ BecomesAndDisturbs(m, Idle)
    /\ UNCHANGED <<life, graph, configVars, repositoryVars, refLock>>

\* A process is killed, loses the mutation lock, or another hook refuses:
\* git gives the reference up, unless it has moved it.
Stop(m) ==
    /\ mover[m].pc # "idle"
    /\ refLock' = IF refLock = m THEN NoMover ELSE refLock
    /\ Becomes(m, Idle)
    /\ UNCHANGED <<life, graph, configVars, repositoryVars, permits>>

-----------------------------------------------------------------------------
(* Everybody else. *)

\* The reconciliation any other command starts with.
Reconcile ==
    /\ life' = Settled /\ life' # life
    /\ mover' = Disturbed(NoMover)
    /\ UNCHANGED <<graph, configVars, repositoryVars, permits, refLock>>

Declare ==
    /\ OrderingNext
    /\ mover' = Disturbed(NoMover)
    /\ UNCHANGED <<configVars, repositoryVars, permits, refLock>>

\* The user of r merges the target, or another branch, into it.
Merge(r, tips) ==
    /\ r \in Merging /\ life[r] = "active" /\ merged[r] = {}
    /\ merged' = [merged EXCEPT ![r] = tips \ {<<r, 0>>}]
    /\ merged' # merged
    /\ mover' = Disturbed(NoMover)
    /\ UNCHANGED <<life, graph, configVars, trunk, upstream, permits, refLock>>

\* The upstream takes a branch that was pushed and checkpointed.
Publish(r) ==
    /\ tracks /\ r \in Published /\ life[r] = "outstanding"
    /\ upstream' = upstream \cup Reaches(r) /\ upstream' # upstream
    /\ mover' = Disturbed(NoMover)
    /\ UNCHANGED <<life, graph, configVars, merged, trunk, permits, refLock>>

\* The target is pushed once checkpointed work landed on it; its upstream
\* takes no move that is not forward.
Push ==
    /\ tracks /\ upstream \subseteq trunk
    /\ \E r \in Published :
          life[r] = "outstanding" /\ HeadOf(r) \in trunk \ upstream
    /\ upstream' = trunk
    /\ mover' = Disturbed(NoMover)
    /\ UNCHANGED <<life, graph, configVars, merged, trunk, permits, refLock>>

BranchTips == {Reaches(r) : r \in {q \in Reservations : Known(q)}}

GateInit ==
    /\ OrderingInit
    /\ mode \in GateModes /\ tracks \in Tracking
    /\ merged = [r \in Reservations |-> {}]
    /\ trunk = {} /\ upstream = {}
    /\ permits = [issued |-> {}, spent |-> {}, next |-> 1]
    /\ mover = [m \in Movers |-> Idle]
    /\ refLock = NoMover

MoverNext(m) ==
    \/ \E r \in Reservations, force \in BOOLEAN : ReadTips(m, r, force)
    \/ DecideIntegration(m) \/ RejectIntegration(m) \/ UpdateRef(m)
    \/ \E tips \in BranchTips \cup {upstream} : PrepareRef(m, trunk \cup tips)
    \/ PrepareRef(m, {})
    \/ Judge(m) \/ Commit(m) \/ Audit(m) \/ Stop(m)

GateNext ==
    \/ \E m \in Movers : MoverNext(m)
    \/ Reconcile \/ Declare
    \/ \E r \in Reservations, tips \in BranchTips \cup {trunk} : Merge(r, tips)
    \/ \E r \in Reservations : Publish(r)
    \/ Push

GateSpec == GateInit /\ [][GateNext]_gateVars

-----------------------------------------------------------------------------
(* Properties. *)

Doing ==
    [pc : {"idle", "read", "decided", "prepared", "judged", "committed"},
     res : Reservations \cup {NoMover}, force : BOOLEAN,
     prev : SUBSET Commits, prop : SUBSET Commits,
     admitted : SUBSET Reservations, fresh : BOOLEAN]

\* A mover between the prepared phase and the end of its transaction holds
\* git's lock, nobody else does; permits and consumptions are numbered.
GateTypeOK ==
    /\ TypeOK
    /\ mode \in GateModes /\ tracks \in Tracking
    /\ merged \in [Reservations -> SUBSET Commits]
    /\ trunk \in SUBSET Commits /\ upstream \in SUBSET Commits
    /\ refLock \in Movers \cup {NoMover}
    /\ mover \in [Movers -> Doing]
    /\ \A m \in Movers :
          refLock = m <=> mover[m].pc \in {"prepared", "judged"}

\* The permits replay: no consumption of a permit that was not issued, was
\* issued to another reservation, or was consumed before, however the audits
\* of several moves interleave.
PermitFactsReplay ==
    /\ \A p, q \in permits.issued : p.id = q.id => p = q
    /\ \A c, d \in permits.spent : c.id = d.id => c = d
    /\ \A c \in permits.spent :
          \E p \in permits.issued : p.id = c.id /\ p.res = c.res

\* Where the gate enforces, nothing held enters the target unforced: when git
\* moves the reference, and nobody changed the ledger or a branch since the
\* hook judged, every unreleased reservation the move lands is free of holds
\* or has a permit for exactly those it has.
EntriesJudged ==
    [][\A m \in Movers :
        Commit(m) /\ mover[m].fresh /\ mode = "enforce"
                  /\ ~ ProvenUpstream(trunk') =>
          \A r \in Reservations :
             Live(r) /\ HeadOf(r) \in trunk' \ trunk =>
                \/ ~ Held(life, r, trunk')
                \/ CoveringPermits(life, r, trunk') # {}]_gateVars

\* The integrate verb never takes back what another mover landed meanwhile.
NoLostMove ==
    [][\A m \in Movers :
        Commit(m) /\ mover[m].res # NoMover => trunk \subseteq trunk']_gateVars

\* The hook upholds what the integrate verb decided, a permit issued for the
\* purpose included, when nothing changed in between.
DecisionStands ==
    [][\A m \in Movers :
        Judge(m) /\ mover[m].res # NoMover /\ mover[m].fresh =>
            mover'[m].pc = "judged"]_gateVars

Consumed(r) == \E c \in permits'.spent \ permits.spent : c.res = r

\* An audit nobody disturbed spends every permit that admitted the move.
UndisturbedAuditSpends ==
    [][\A m \in Movers : Audit(m) /\ mover[m].fresh =>
          \A r \in mover[m].admitted : Consumed(r)]_gateVars
=============================================================================
