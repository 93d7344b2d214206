-------------------------- MODULE ReconcileEvidence --------------------------
(***************************************************************************)
(* How reconciliation judges one reservation against git: it reads the      *)
(* integration branch, the head of the holder's worktree and the worktree's *)
(* status one after the other, while people and agents go on committing,    *)
(* merging and resetting, and records in one append what the reads prove:   *)
(* a merge extent, integration evidence, the end of the reservation.  The   *)
(* release verb checkpoints and judges the same reservation.                *)
(*                                                                          *)
(* An append made during a pass sends it back to its start, so one pass is  *)
(* in flight; the verb's own reads and its append are one step.  A commit   *)
(* is its history and the pieces of work it holds, the reservation was      *)
(* claimed at Root, and the trunk is the branch it is judged at.  Ordering   *)
(* dependents, cover claims, shares of a holder group, endings of unchanged *)
(* scopes, rewritten branches, and the limit of two kept verdicts are left  *)
(* out.                                                                     *)
(***************************************************************************)
EXTENDS Naturals, Sequences

CONSTANTS
    Commit,  \* bound: the commits git can come to hold
    Root,    \* the commit the claim was made at
    Work,    \* pieces of work, each in a path of its own
    None     \* no commit

ASSUME EvidenceAssumption == Root \in Commit /\ None \notin Commit

VARIABLES
    commits,      \* the commits made, what each reaches and holds
    trunk,        \* the integration branch
    head,         \* the branch of the holder's worktree
    dirty,        \* its uncommitted work
    registered,   \* whether git still has the worktree
    reservation,  \* what the ledger holds of the reservation
    pass          \* what the pass in flight has read

gitVars == <<commits, trunk, head, dirty, registered>>
vars == <<commits, trunk, head, dirty, registered, reservation, pass>>

History(c) == commits.history[c]
Content(c) == commits.content[c]

\* The paths merging h into t would change in t.
Unmerged(t, h) ==
    Content(h) \ (Content(t)
                    \cup UNION {Content(c) : c \in History(t) \cap History(h)})

\* What the phase from Root to a protected tip changed.
Phase(tip) == Content(tip) \ Content(Root)

-----------------------------------------------------------------------------
(* Evidence and its replay. *)

Status(kind, t, proof, witness) ==
    [kind |-> kind, trunk |-> t, proof |-> proof, witness |-> witness]
Plain(kind) == Status(kind, None, "none", None)
\* A witness is a commit of the trunk's past, or None: the trunk evaluated.
IntegratedAt(t, proof, witness) == Status("Integrated", t, proof, witness)

\* What is kept of a merge extent's key is whether the head it was observed
\* at was the trunk; an empty extent's worktree was clean.
Extent(available, kind, atTrunk) ==
    [available |-> available, kind |-> kind, atTrunk |-> atTrunk]

\* The last answer is kept when there is no fresh one.
UnavailableExtent(e) == [e EXCEPT !.available = FALSE]

DerivedExtent(t, h, d) ==
    IF d \cup Unmerged(t, h) = {} THEN Extent(TRUE, "Empty", t = h)
    ELSE Extent(TRUE, "Protected", t = h)

FreshEmpty(e) == e.available /\ e.kind = "Empty"

\* Whether the disposition of a released reservation rests on git.
GitBacked(r) == r.disposition \in {"Integrated", "RewrittenIntegration"}
TakesEvidence(r) ==
    r.stage = "Outstanding" \/ GitBacked(r)

Replayed(r, legal) == [r EXCEPT !.replays = @ /\ legal]

ApplyExtent(r, e) == [r EXCEPT !.extent = e]

ApplyEvidence(r, status) ==
    [Replayed(r, TakesEvidence(r)) EXCEPT !.status = status]

ApplyVerdict(r, v) ==
    [Replayed(r, TakesEvidence(r)) EXCEPT
        !.verdicts = {w \in @ : w.target # v.target} \cup {v}]

ApplyCheckpoint(r, tip, snapshot) ==
    [Replayed(r, r.stage = "Active") EXCEPT
        !.stage = "Outstanding", !.tip = tip, !.snapshot = snapshot,
        !.status = Plain("NotIntegrated")]

\* Mutant: they outlive it.
AdvanceSubjectOnly(r) == r

\* The verdicts are about one proof subject.
AdvanceSubject(r) == [r EXCEPT !.verdicts = {}]

ApplyResnapshot(r, tip, snapshot) ==
    AdvanceSubject(
        [Replayed(r, r.stage = "Outstanding") EXCEPT
            !.tip = tip, !.snapshot = snapshot,
            !.status = Plain("NotIntegrated")])

End(r, disposition, witness, legal) ==
    [Replayed(r, legal) EXCEPT
        !.stage = "Released", !.disposition = disposition,
        !.endWitness = witness]

ApplyRelease(r, disposition, witness) ==
    CASE disposition = "Integrated" ->
           End(r, disposition, None,
               r.stage = "Outstanding" /\ r.status.kind = "Integrated")
      [] disposition = "RewrittenIntegration" ->
           AdvanceSubject(
               [End(r, disposition, witness, r.stage = "Outstanding") EXCEPT
                   !.status =
                       IF @.kind = "Integrated" THEN @
                       ELSE IntegratedAt(witness, "RewrittenWitnessAncestor",
                                         witness)])
      [] OTHER -> End(r, disposition, None, r.stage # "Released")

-----------------------------------------------------------------------------
(* The evidence of a pass that read the trunk at t. *)

\* What comparing the content of the phase with trunk t can answer: work
\* found at a commit of its history or at t itself, or not found at t.
Comparisons(tip, t) ==
    [kind : {"Equivalent"},
     witness : {c \in History(t) : Phase(tip) \subseteq Content(c)}
                 \cup (IF Phase(tip) \subseteq Content(t) THEN {None}
                       ELSE {})]
    \cup [kind : IF Phase(tip) \subseteq Content(t) THEN {}
                 ELSE {"Different", "HistoryUnavailable"},
          witness : {None}]

\* A pass may also spend its one comparison on another reservation.
Answers(tip, t) ==
    Comparisons(tip, t) \cup [kind : {"Unavailable", "Deferred"},
                              witness : {None}]

ProvingTrunk(status) ==
    IF status.kind = "Integrated" THEN {status.trunk} ELSE {}

\* The commits one batch classifies against the trunk.
CandidateAncestors(r) ==
    ProvingTrunk(r.status) \cup
    CASE r.stage = "Outstanding" -> {Root, r.tip, r.snapshot}
      [] r.disposition = "Integrated" -> {Root, r.tip}
      [] OTHER -> {Root, r.endWitness}

Reach(r, t, c) ==
    IF c \notin CandidateAncestors(r) THEN "ObjectUnknown"
    ELSE IF c \in History(t) THEN "Ancestor" ELSE "NotAncestor"

Unproven(r, t, previous) ==
    CASE Reach(r, t, previous) = "Ancestor" -> Plain("NotIntegrated")
      [] Reach(r, t, previous) = "NotAncestor" -> Plain("TrunkRewritten")
      [] OTHER -> Plain("ObjectUnknown")

Observation(status, revalidation, verdicts) ==
    [status |-> status, revalidation |-> revalidation, verdicts |-> verdicts]
Applied(status) == Observation(status, "Apply", {})
Preserved(status) == Observation(status, "PreserveMaterialized", {})

Verdict(t, equivalent, witness) ==
    [target |-> t, equivalent |-> equivalent, witness |-> witness]

\* The content was compared, or the comparison was left to a later pass.
ComparedStatus(r, t, previous, answer) ==
    CASE answer.kind = "Equivalent" ->
           Observation(
               IntegratedAt(t, "ScopedPatchEquivalent", answer.witness),
               "Apply", {Verdict(t, TRUE, answer.witness)})
      [] answer.kind \in {"Different", "HistoryUnavailable"} ->
           LET status == Unproven(r, t, previous)
           IN  Observation(status, "Apply",
                   IF answer.kind = "Different"
                        /\ status.kind # "ObjectUnknown"
                   THEN {Verdict(t, FALSE, None)} ELSE {})
      [] answer.kind = "Unavailable" -> Applied(Plain("ObjectUnknown"))
      [] answer.kind = "Deferred" ->
           Preserved(IF ProvingTrunk(r.status) = {} THEN r.status
                     ELSE Unproven(r, t, previous))

\* Mutant: one verdict about the phase is enough for every trunk.
JudgedOnce(r, t, previous, answer) ==
    IF r.verdicts # {}
    THEN LET v == CHOOSE w \in r.verdicts : TRUE
         IN  Applied(IF v.equivalent
                     THEN IntegratedAt(t, "ScopedPatchEquivalent", v.witness)
                     ELSE Unproven(r, t, previous))
    ELSE IF Reach(r, t, r.tip) = "Ancestor"
    THEN Applied(IntegratedAt(t, "ProtectedTipAncestor", None))
    ELSE ComparedStatus(r, t, previous, answer)

DerivedStatus(r, t, previous, answer) ==
    LET known == {v \in r.verdicts : v.target = t}
    IN  IF known # {}
        THEN LET v == CHOOSE w \in known : TRUE
             IN  Applied(IF v.equivalent
                         THEN IntegratedAt(t, "ScopedPatchEquivalent",
                                           v.witness)
                         ELSE Unproven(r, t, previous))
        ELSE CASE Reach(r, t, r.tip) = "Ancestor" ->
                    Applied(IntegratedAt(t, "ProtectedTipAncestor", None))
               [] Reach(r, t, r.tip) = "NotAncestor" ->
                    ComparedStatus(r, t, previous, answer)
               [] OTHER -> Applied(Plain("ObjectUnknown"))

Reanchored(r, t) ==
    IF Reach(r, t, r.tip) = "Ancestor"
    THEN IntegratedAt(t, "ProtectedTipAncestor", None)
    ELSE [r.status EXCEPT !.trunk = t]

\* Mutant: a proof made once stands.
ProofAlwaysStands(r, t, answer) ==
    IF ProvingTrunk(r.status) = {}
    THEN DerivedStatus(r, t, r.snapshot, answer)
    ELSE Applied(Reanchored(r, t))

\* A proof stands while the trunk it was made at is in the trunk's history.
TipObservation(r, t, answer) ==
    IF ProvingTrunk(r.status) = {}
    THEN DerivedStatus(r, t, r.snapshot, answer)
    ELSE CASE Reach(r, t, r.status.trunk) = "Ancestor" ->
                Applied(Reanchored(r, t))
           [] Reach(r, t, r.status.trunk) = "NotAncestor" ->
                DerivedStatus(r, t, r.status.trunk, answer)
           [] OTHER -> Applied(Plain("ObjectUnknown"))

WitnessStatus(witness, t, reach) ==
    CASE reach = "Ancestor" ->
           IntegratedAt(t, "RewrittenWitnessAncestor", witness)
      [] reach = "NotAncestor" -> Plain("TrunkRewritten")
      [] OTHER -> Plain("ObjectUnknown")

PassObservation(r, t, answer) ==
    IF r.disposition = "RewrittenIntegration"
    THEN Applied(WitnessStatus(r.endWitness, t, Reach(r, t, r.endWitness)))
    ELSE TipObservation(r, t, answer)

\* Evidence as it counts beside the extent: work left to merge holds it.
Judged(status, e) ==
    CASE status.kind \in {"TrunkRewritten", "ObjectUnknown"} -> status
      [] e.kind = "Protected" /\ e.available -> Plain("NotIntegrated")
      [] ~FreshEmpty(e) -> Plain("ObjectUnknown")
      [] OTHER -> status

-----------------------------------------------------------------------------
(* What a pass appends. *)

\* A deferred answer is not written down unless the extent changed it.
RecordedStatus(r, e, observed) ==
    LET judged == Judged(observed.status, e)
    IN  IF judged # observed.status \/ observed.revalidation = "Apply"
        THEN judged ELSE r.status

RecordVerdicts(r, verdicts) ==
    IF verdicts = {} THEN r
    ELSE ApplyVerdict(r, CHOOSE v \in verdicts : TRUE)

RecordEvidence(r, status) ==
    IF status = r.status THEN r ELSE ApplyEvidence(r, status)

Resolve(status) ==
    IF status.witness = None THEN status.trunk ELSE status.witness

Settled(r, status) ==
    IF status.proof = "ProtectedTipAncestor"
    THEN ApplyRelease(r, "Integrated", None)
    ELSE ApplyRelease(r, "RewrittenIntegration", Resolve(status))

\* A plan is the record after each of its operations, in their order.
\* Settlement writes the evidence next to the release it justifies.
OutstandingPlan(r, t, e, answer) ==
    LET observed == PassObservation(r, t, answer)
        status == RecordedStatus(r, e, observed)
        extended == ApplyExtent(r, e)
        checked == RecordVerdicts(extended, observed.verdicts)
        judged == RecordEvidence(extended, status)
        proved == ApplyEvidence(checked, status)
    IN  IF FreshEmpty(e) /\ status.kind = "Integrated" /\ status.trunk = t
        THEN <<extended, checked, proved, Settled(proved, status)>>
        ELSE <<extended, judged, RecordVerdicts(judged, observed.verdicts)>>

\* A run that did work ends when its branch is merged: at head h, in trunk t.
DidWork(r, h) == r.extent.kind = "Protected" \/ h # Root

MergedRun(r, t, h, e) == FreshEmpty(e) /\ DidWork(r, h) /\ h \in History(t)

\* Mutant: the end is planned without the checkpoint it rests on.
EndedRunAtOnce(r, t, h) == <<r, ApplyRelease(r, "Integrated", None)>>

EndedRun(r, t, h) ==
    LET checkpointed == ApplyCheckpoint(r, h, t)
        proved == ApplyEvidence(checkpointed,
                      IntegratedAt(t, "ProtectedTipAncestor", None))
    IN  <<r, checkpointed, proved, ApplyRelease(proved, "Integrated", None)>>

\* The last answer proved that nothing was left.
ProvedNothingOutstanding(e) == e.kind = "Empty" /\ e.atTrunk

ActivePlan(r, t, h, e, orphaned, ends) ==
    LET extended == ApplyExtent(r, e)
    IN  IF ends /\ MergedRun(r, t, h, e) THEN EndedRun(extended, t, h)
        ELSE IF orphaned /\ ProvedNothingOutstanding(e)
        THEN <<extended, ApplyRelease(extended, "RetiredOrphan", None)>>
        ELSE <<extended>>

\* Mutant: what a release rested on is not looked at again.
ReleasedPlanSettled(r, t, answer) == <<r>>

ReleasedPlan(r, t, answer) ==
    LET observed == PassObservation(r, t, answer)
        judged == RecordEvidence(r, observed.status)
    IN  IF observed.revalidation = "Apply"
        THEN <<judged, RecordVerdicts(judged, observed.verdicts)>>
        ELSE <<r>>

\* The committed hook keeps only what was compared.
HookPlan(r, t, answer) ==
    <<RecordVerdicts(r, PassObservation(r, t, answer).verdicts)>>

-----------------------------------------------------------------------------
(* Git moves on. *)

\* full, when nothing is read yet: the last pass ran to its end.
NextPass(full) ==
    [trunk |-> None, head |-> None, orphaned |-> FALSE, full |-> full]
Unread == NextPass(FALSE)

Fresh == CHOOSE d \in Commit : d \notin commits.made

NewCommit(history, content) ==
    /\ commits.made # Commit
    /\ commits' = [made |-> commits.made \cup {Fresh},
                   history |-> [commits.history EXCEPT
                                   ![Fresh] = history \cup {Fresh}],
                   content |-> [commits.content EXCEPT ![Fresh] = content]]

\* Bounds: work after the release belongs to another reservation, and a
\* release that rests on no commit is not revalidated.
Held == reservation.stage # "Released"
Watched == Held \/ GitBacked(reservation)

Edit(w) ==
    /\ Held /\ registered /\ w \notin dirty \cup Content(head)
    /\ dirty' = dirty \cup {w}
    /\ UNCHANGED <<commits, trunk, head, registered, reservation, pass>>

CommitWork ==
    /\ Held /\ registered /\ dirty # {}
    /\ NewCommit(History(head), Content(head) \cup dirty)
    /\ head' = Fresh
    /\ dirty' = {}
    /\ UNCHANGED <<trunk, registered, reservation, pass>>

\* git reset on the holder's branch; rebased and amended work is left out.
ResetBranch(c) ==
    /\ Held /\ registered /\ dirty = {} /\ c \in History(head) \ {head}
    /\ head' = c
    /\ UNCHANGED <<commits, trunk, dirty, registered, reservation, pass>>

\* git merge, fast-forwarding when it can.
MergeBranch ==
    /\ Watched /\ head \notin History(trunk)
    /\ IF trunk \in History(head)
       THEN trunk' = head /\ commits' = commits
       ELSE /\ NewCommit(History(trunk) \cup History(head),
                         Content(trunk) \cup Unmerged(trunk, head))
            /\ trunk' = Fresh
    /\ UNCHANGED <<head, dirty, registered, reservation, pass>>

\* A commit on the integration branch alone: a squash, a revert, others' work.
TrunkCommit(content) ==
    /\ Watched
    /\ NewCommit(History(trunk), content)
    /\ trunk' = Fresh
    /\ UNCHANGED <<head, dirty, registered, reservation, pass>>

SquashBranch ==
    /\ Unmerged(trunk, head) # {}
    /\ TrunkCommit(Content(trunk) \cup Unmerged(trunk, head))
Revert(w) == w \in Content(trunk) /\ TrunkCommit(Content(trunk) \ {w})
OthersCommit == TrunkCommit(Content(trunk))

ResetTrunk(c) ==
    /\ Watched /\ c \in History(trunk) \ {trunk}
    /\ trunk' = c
    /\ UNCHANGED <<commits, head, dirty, registered, reservation, pass>>

\* git worktree remove refuses a worktree with changes.
RemoveWorktree ==
    /\ Held /\ registered /\ dirty = {}
    /\ registered' = FALSE
    /\ UNCHANGED <<commits, trunk, head, dirty, reservation, pass>>

-----------------------------------------------------------------------------
(* The reads of a pass, and its append. *)

ReadTrunk ==
    /\ pass.trunk = None
    /\ pass' = [pass EXCEPT !.trunk = trunk, !.full = FALSE]
    /\ UNCHANGED <<gitVars, reservation>>

\* The registry is read by a thread of its own: before the trunk or after.
ReadRegistry ==
    /\ pass.head = None /\ ~pass.orphaned
    /\ reservation.stage # "Released"
    /\ pass' = [pass EXCEPT !.head = IF registered THEN head ELSE None,
                            !.orphaned = ~registered, !.full = FALSE]
    /\ UNCHANGED <<gitVars, reservation>>

\* The worktree's status is read after both, and nothing between that read
\* and the append looks at git: the two are one step.
ReadsDone ==
    /\ pass.trunk # None
    /\ pass.head # None \/ pass.orphaned \/ reservation.stage = "Released"

\* Whether git answers the status of the worktree.
Seen(succeeds) == succeeds => pass.head # None /\ registered

\* Mutant: the status of the worktree is not part of the observation.
PassExtentOfCommits(r, succeeds) ==
    IF succeeds THEN DerivedExtent(pass.trunk, pass.head, {})
    ELSE UnavailableExtent(r.extent)

PassExtent(r, succeeds) ==
    IF succeeds THEN DerivedExtent(pass.trunk, pass.head, dirty)
    ELSE UnavailableExtent(r.extent)

Leaves(plan, n) == IF n = 0 THEN reservation ELSE plan[n]

\* The process may die, or an append fail, after n operations of the plan.
\* answered: git said all that was asked.
AppendPlan(plan, answered) ==
    /\ \E n \in 0 .. Len(plan) :
          /\ reservation' = Leaves(plan, n)
          /\ pass' = NextPass(answered /\ n = Len(plan))
    /\ UNCHANGED gitVars

PassAnswers == Answers(reservation.tip, pass.trunk)
Definite(answer) == answer.kind \notin {"Unavailable", "Deferred"}

\* ends: a session's start, and the verbs, may end merged runs.
ActivePass(succeeds, ends) ==
    /\ reservation.stage = "Active" /\ ReadsDone /\ Seen(succeeds)
    /\ AppendPlan(
          ActivePlan(reservation, pass.trunk, pass.head,
                     PassExtent(reservation, succeeds), pass.orphaned, ends),
          ends /\ (succeeds \/ pass.orphaned))

OutstandingPass(succeeds) ==
    /\ reservation.stage = "Outstanding" /\ ReadsDone /\ Seen(succeeds)
    /\ \E answer \in PassAnswers :
          AppendPlan(
            OutstandingPlan(reservation, pass.trunk,
                            PassExtent(reservation, succeeds), answer),
            Definite(answer) /\ (succeeds \/ pass.orphaned))

\* Some passes leave released evidence unopened.
ReleasedPass ==
    /\ reservation.stage = "Released" /\ ReadsDone
    /\ IF GitBacked(reservation)
       THEN \E answer \in PassAnswers :
               AppendPlan(ReleasedPlan(reservation, pass.trunk, answer),
                          Definite(answer))
       ELSE AppendPlan(<<>>, TRUE)

HookPass ==
    /\ TakesEvidence(reservation) /\ ReadsDone
    /\ \E answer \in PassAnswers :
          AppendPlan(HookPlan(reservation, pass.trunk, answer), FALSE)

-----------------------------------------------------------------------------
(* The release verb, after a pass of its own. *)

\* It reads the trunk afresh, and compares content only with that.
TipStatus(r, t, readable, different) ==
    IF r.tip \in History(t) THEN IntegratedAt(t, "ProtectedTipAncestor", None)
    ELSE IF ~readable THEN Plain("ObjectUnknown")
    ELSE IF Phase(r.tip) \subseteq Content(t)
    THEN IntegratedAt(t, "ScopedPatchEquivalent", None)
    ELSE different

OutstandingStatus(r, t, readable) ==
    TipStatus(r, t, readable,
        IF r.snapshot \in History(t) THEN Plain("NotIntegrated")
        ELSE Plain("TrunkRewritten"))

ProvenStatus(r, t, readable) ==
    IF r.status.witness # None /\ r.status.witness \in History(t)
    THEN WitnessStatus(r.status.witness, t, "Ancestor")
    ELSE TipStatus(r, t, readable, Plain("TrunkRewritten"))

VerbStatus(r, t, readable) ==
    IF r.status.kind = "Integrated" THEN ProvenStatus(r, t, readable)
    ELSE OutstandingStatus(r, t, readable)

\* Later commits move the checkpoint, unless git could not answer.
Moves(r, status) ==
    /\ head # r.tip
    /\ \/ r.extent.available /\ r.extent.kind = "Protected"
          /\ status.kind # "ObjectUnknown"
       \/ /\ r.status.kind # "Integrated"
          /\ status.kind \in {"NotIntegrated", "TrunkRewritten"}

\* The extent is the one on file; invoking: in the holder's worktree.
OutstandingVerb(r, invoking, readable) ==
    LET status == VerbStatus(r, trunk, readable)
        judged == Judged(status, r.extent)
        proved == ApplyEvidence(r, judged)
    IN  IF judged.kind = "Integrated"
        THEN <<proved,
               IF judged.witness = None
               THEN ApplyRelease(proved, "Integrated", None)
               ELSE ApplyRelease(proved, "RewrittenIntegration",
                                 judged.witness)>>
        ELSE IF invoking /\ Moves(r, status)
        THEN <<ApplyResnapshot(r, head, trunk)>>
        ELSE <<proved>>

ReleasedVerb(r, readable) ==
    <<ApplyEvidence(r,
          IF r.disposition = "RewrittenIntegration"
          THEN WitnessStatus(r.endWitness, trunk,
                   IF r.endWitness \in History(trunk) THEN "Ancestor"
                   ELSE "NotAncestor")
          ELSE ProvenStatus(r, trunk, readable))>>

VerbPlan(invoking, readable) ==
    CASE reservation.stage = "Active" ->
           <<ApplyCheckpoint(reservation, head, trunk)>>
      [] reservation.stage = "Outstanding" ->
           OutstandingVerb(reservation, invoking, readable)
      [] OTHER -> ReleasedVerb(reservation, readable)

\* An active reservation is checkpointed only from its own worktree, and a
\* decision has no evidence to revalidate.
VerbAdmitted(invoking) ==
    /\ invoking => registered
    /\ reservation.stage = "Active" => invoking
    /\ reservation.stage = "Released" => GitBacked(reservation)

Release(invoking, readable) ==
    /\ VerbAdmitted(invoking)
    /\ LET plan == VerbPlan(invoking, readable)
       IN  \E n \in 1 .. Len(plan) : reservation' = plan[n]
    /\ pass' = Unread
    /\ UNCHANGED gitVars

\* --keep-work judges nothing.
ReleaseKeptOnBranch ==
    /\ reservation.stage # "Released"
    /\ reservation' = ApplyRelease(reservation, "KeptOnBranch", None)
    /\ pass' = Unread
    /\ UNCHANGED gitVars

-----------------------------------------------------------------------------
Init ==
    /\ commits = [made |-> {Root},
                  history |-> [c \in Commit |->
                                  IF c = Root THEN {Root} ELSE {}],
                  content |-> [c \in Commit |-> {}]]
    /\ trunk = Root /\ head = Root
    /\ dirty = {} /\ registered = TRUE
    /\ reservation =
           [stage |-> "Active", disposition |-> "none", endWitness |-> None,
            tip |-> None, snapshot |-> Root, status |-> Plain("NotIntegrated"),
            extent |-> Extent(TRUE, "NotDerived", FALSE), verdicts |-> {},
            replays |-> TRUE]
    /\ pass = Unread

GitStep ==
    \/ \E w \in Work : Edit(w) \/ Revert(w)
    \/ CommitWork \/ MergeBranch \/ SquashBranch \/ OthersCommit
    \/ \E c \in Commit : ResetTrunk(c) \/ ResetBranch(c)
    \/ RemoveWorktree

PassAppends ==
    \/ \E succeeds, ends \in BOOLEAN : ActivePass(succeeds, ends)
    \/ \E succeeds \in BOOLEAN : OutstandingPass(succeeds)
    \/ ReleasedPass

PassStep == ReadTrunk \/ ReadRegistry \/ PassAppends \/ HookPass

VerbStep ==
    \/ \E invoking, readable \in BOOLEAN : Release(invoking, readable)
    \/ ReleaseKeptOnBranch

Next == GitStep \/ PassStep \/ VerbStep

Spec == Init /\ [][Next]_vars

\* Commands go on being run, each begins with a pass, and in the end a pass
\* gets its reads and its appends through.
Fairness == []<>pass.full /\ []<>~pass.full

FairSpec == Spec /\ Fairness

-----------------------------------------------------------------------------
(* Properties. *)

WorkAt(tip, c) == Phase(tip) \subseteq Content(c)
WorkReached(tip, c) == \E d \in History(c) : WorkAt(tip, d)

\* A proof names a trunk in whose past the phase is, by a witness if it has one.
ProofSound(tip, status) ==
    /\ {tip, status.trunk} \subseteq commits.made
    /\ WorkReached(tip, status.trunk)
    /\ status.proof = "ProtectedTipAncestor" => tip \in History(status.trunk)
    /\ status.witness # None => /\ status.witness \in History(status.trunk)
                                /\ WorkReached(tip, status.witness)

VerdictSound(tip, v) ==
    /\ {tip, v.target} \subseteq commits.made
    /\ IF v.equivalent
       THEN /\ WorkReached(tip, v.target)
            /\ v.witness # None => /\ v.witness \in History(v.target)
                                   /\ WorkReached(tip, v.witness)
       ELSE ~WorkAt(tip, v.target)

\* Whatever moved between the reads, whatever was reset, reverted or cut short
\* since, what the ledger holds of the reservation is true of its phase: an
\* integration proof of the trunk it names, a content verdict of the trunk it
\* was reached for (a verdict must not outlive its subject, record.rs:162), a
\* rewritten ending of its witness; and every operation of every plan replayed.
RecordSound ==
    LET r == reservation
    IN  /\ r.replays
        /\ r.status.kind = "Integrated" => ProofSound(r.tip, r.status)
        /\ \A v \in r.verdicts : VerdictSound(r.tip, v)
        /\ r.disposition = "RewrittenIntegration" =>
              WorkReached(r.tip, r.endWitness)

\* A pass ends a reservation as integrated only when, as it read the status of
\* a worktree whose branch had not moved since the registry was read, nothing
\* was left to merge into the trunk it read, committed or not.
EndsIntegrated ==
    /\ reservation.stage # "Released" /\ reservation'.stage = "Released"
    /\ GitBacked(reservation')

NothingLeft == Unmerged(pass.trunk, head) \cup dirty = {}

SettledWithNothingLeft ==
    [][EndsIntegrated /\ head = pass.head /\ PassAppends => NothingLeft]_vars

\* The same whatever the branch does meanwhile: settlement wants a merge extent
\* that "shows no work outside that proof" (worktree-coordination.md:703), and a
\* run ends when a pass "sees its checkout clean, with no net branch change".
EndedWithNothingLeft == [][EndsIntegrated /\ PassAppends => NothingLeft]_vars

\* Work that was merged and stays so ends its reservation without anybody
\* releasing it, although passes are cut short and comparisons put off.
MergedWork ==
    /\ registered /\ dirty = {} /\ Unmerged(trunk, head) = {}
    /\ CASE reservation.stage = "Active" ->
              head # Root /\ head \in History(trunk)
         [] reservation.stage = "Outstanding" ->
              WorkAt(reservation.tip, trunk)
         [] OTHER -> TRUE

MergedWorkSettles == <>[]MergedWork => <>(reservation.stage = "Released")

\* Where the trunk was rewritten and the work of an integrated ending is gone
\* for good, the ledger stops calling it integrated.
WorkLost == GitBacked(reservation) /\ ~WorkReached(reservation.tip, trunk)

LostProofNoticed ==
    <>[]WorkLost => <>[](reservation.status.kind # "Integrated")
=============================================================================
