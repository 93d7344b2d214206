----------------------- MODULE ReconcileEvidenceProofs -----------------------
(***************************************************************************)
(* That what the ledger holds of a reservation is true of its phase, for any *)
(* number of commits and pieces of work.  A commit never changes once made,  *)
(* and what its history holds every later commit's history holds: a proof    *)
(* is true for ever of the trunk it names.  What has to be shown of each     *)
(* operation is that it names the right one.                                 *)
(***************************************************************************)
EXTENDS ReconcileEvidence, TLAPS

CommitOrNone == Commit \cup {None}

Statuses ==
    [kind : {"NotIntegrated", "Integrated", "TrunkRewritten", "ObjectUnknown"},
     trunk : CommitOrNone,
     proof : {"none", "ProtectedTipAncestor", "ScopedPatchEquivalent",
              "RewrittenWitnessAncestor"},
     witness : CommitOrNone]
Extents == [available : BOOLEAN, kind : {"NotDerived", "Empty", "Protected"},
            atTrunk : BOOLEAN]
Verdicts == [target : Commit, equivalent : BOOLEAN, witness : CommitOrNone]
Records ==
    [stage : {"Active", "Outstanding", "Released"},
     disposition : {"none", "Integrated", "RewrittenIntegration",
                    "KeptOnBranch", "RetiredOrphan"},
     endWitness : CommitOrNone, tip : CommitOrNone, snapshot : CommitOrNone,
     status : Statuses, extent : Extents, verdicts : SUBSET Verdicts,
     replays : BOOLEAN]

\* Types, and references only to commits that were made.
TypeOK ==
    /\ commits \in [made : SUBSET Commit, history : [Commit -> SUBSET Commit],
                    content : [Commit -> SUBSET Work]]
    /\ Root \in commits.made
    /\ {trunk, head} \subseteq commits.made
    /\ dirty \subseteq Work /\ registered \in BOOLEAN
    /\ reservation \in Records
    /\ pass \in [trunk : CommitOrNone, head : CommitOrNone,
                 orphaned : BOOLEAN, full : BOOLEAN]
    /\ {pass.trunk, pass.head} \subseteq commits.made \cup {None}

\* A history goes on into the histories of the commits in it.
Histories ==
    \A c \in commits.made :
        /\ c \in History(c) /\ History(c) \subseteq commits.made
        /\ \A d \in History(c) : History(d) \subseteq History(c)

Proven(tip, status) ==
    /\ status \in Statuses
    /\ status.kind = "Integrated" => ProofSound(tip, status)
    /\ status.witness # None => status.kind = "Integrated"
Found(tip, verdicts) ==
    verdicts \subseteq Verdicts /\ \A v \in verdicts : VerdictSound(tip, v)

Staged(r) ==
    /\ r.stage = "Active" => r.verdicts = {} /\ r.status.kind = "NotIntegrated"
    /\ r.stage = "Outstanding" => r.tip \in commits.made
    /\ GitBacked(r) => r.tip \in commits.made
    /\ r.stage # "Released" => r.disposition = "none"

\* RecordSound of any record, and where in its life it is.
Sound(r) ==
    /\ r \in Records /\ r.replays /\ Staged(r)
    /\ Proven(r.tip, r.status) /\ Found(r.tip, r.verdicts)
    /\ r.disposition = "RewrittenIntegration" =>
          r.endWitness \in commits.made /\ WorkReached(r.tip, r.endWitness)

EvidenceInv == TypeOK /\ Histories /\ Sound(reservation)

-----------------------------------------------------------------------------
(* Commits. *)

LEMMA NoneIsNoCommit == None \notin Commit
  BY EvidenceAssumption

LEMMA FreshIsFresh ==
  ASSUME TypeOK, commits.made # Commit
  PROVE  Fresh \in Commit /\ Fresh \notin commits.made
<1>1. \E d \in Commit : d \notin commits.made
  BY DEF TypeOK
<1> QED BY <1>1 DEF Fresh

\* Work reached by a commit is reached by every commit whose history has it.
LEMMA ReachedLater ==
  ASSUME Histories, NEW c \in commits.made, NEW d \in History(c), NEW tip,
         WorkReached(tip, d)
  PROVE  WorkReached(tip, c)
  BY DEF Histories, WorkReached

LEMMA TipReached ==
  ASSUME Histories, NEW c \in commits.made, NEW tip \in History(c)
  PROVE  WorkReached(tip, c)
  BY DEF Histories, WorkReached, WorkAt, Phase

\* What the commits made so far are is left alone.
Grows ==
    /\ commits.made \subseteq commits'.made
    /\ \A c \in commits.made :
          /\ commits'.history[c] = commits.history[c]
          /\ commits'.content[c] = commits.content[c]

LEMMA NewCommitGrows ==
  ASSUME TypeOK, Histories, NEW h \in SUBSET commits.made, NEW w \in SUBSET Work,
         \A c \in h : History(c) \subseteq h,
         NewCommit(h, w)
  PROVE  /\ Grows /\ Histories' /\ Fresh \in commits'.made
         /\ commits' \in [made : SUBSET Commit,
                          history : [Commit -> SUBSET Commit],
                          content : [Commit -> SUBSET Work]]
<1>1. Fresh \in Commit /\ Fresh \notin commits.made
  BY FreshIsFresh DEF NewCommit
<1>2. /\ commits'.made = commits.made \cup {Fresh}
      /\ commits'.history = [commits.history EXCEPT ![Fresh] = h \cup {Fresh}]
      /\ commits'.content = [commits.content EXCEPT ![Fresh] = w]
  BY DEF NewCommit
<1>3. commits' \in [made : SUBSET Commit, history : [Commit -> SUBSET Commit],
                    content : [Commit -> SUBSET Work]]
  BY <1>1 DEF NewCommit, TypeOK
<1>4. Grows
  BY <1>1, <1>2 DEF Grows, TypeOK
<1>5. commits'.history[Fresh] = h \cup {Fresh}
  BY <1>1, <1>2 DEF TypeOK
<1>6. ASSUME NEW c \in commits'.made
      PROVE  /\ c \in commits'.history[c]
             /\ commits'.history[c] \subseteq commits'.made
             /\ \A d \in commits'.history[c] :
                   commits'.history[d] \subseteq commits'.history[c]
  <2>1. CASE c = Fresh
    BY <2>1, <1>2, <1>4, <1>5 DEF Grows, History
  <2>2. CASE c # Fresh
    <3>1. c \in commits.made
      BY <2>2, <1>2
    <3> QED BY <3>1, <1>2, <1>4 DEF Grows, Histories, History
  <2> QED BY <2>1, <2>2
<1>7. Histories'
  BY <1>6 DEF Histories, History
<1> QED BY <1>2, <1>3, <1>4, <1>7

\* What is true of the phase of a tip stays true of it.
LEMMA ReachedStays ==
  ASSUME TypeOK, Histories, Grows,
         NEW tip \in commits.made, NEW c \in commits.made
  PROVE  /\ WorkAt(tip, c)' <=> WorkAt(tip, c)
         /\ WorkReached(tip, c)' <=> WorkReached(tip, c)
<1>1. \A d \in commits.made : WorkAt(tip, d)' <=> WorkAt(tip, d)
  BY DEF Grows, TypeOK, WorkAt, Phase, Content
<1>2. History(c)' = History(c) /\ History(c) \subseteq commits.made
  BY DEF Grows, Histories, History
<1> QED BY <1>1, <1>2 DEF WorkReached

LEMMA SoundStays ==
  ASSUME TypeOK, Histories, Grows, Sound(reservation), UNCHANGED reservation
  PROVE  Sound(reservation)'
<1> DEFINE r == reservation
<1>1. Staged(r)'
  BY DEF Staged, Sound, GitBacked, Grows
<1>2. Proven(r.tip, r.status)'
  <2> SUFFICES ASSUME r.status.kind = "Integrated" PROVE ProofSound(r.tip, r.status)'
    BY DEF Proven, Sound
  <2>1. ProofSound(r.tip, r.status)
    BY DEF Proven, Sound
  <2>2. /\ {r.tip, r.status.trunk} \subseteq commits.made
        /\ History(r.status.trunk)' = History(r.status.trunk)
        /\ History(r.status.trunk) \subseteq commits.made
    BY <2>1 DEF ProofSound, Grows, Histories, History
  <2> QED BY <2>1, <2>2, ReachedStays DEF ProofSound, Grows
<1>3. Found(r.tip, r.verdicts)'
  <2> SUFFICES ASSUME NEW v \in r.verdicts PROVE VerdictSound(r.tip, v)'
    BY DEF Found, Sound
  <2>1. VerdictSound(r.tip, v)
    BY DEF Found, Sound
  <2>2. /\ {r.tip, v.target} \subseteq commits.made
        /\ History(v.target)' = History(v.target)
        /\ History(v.target) \subseteq commits.made
    BY <2>1 DEF VerdictSound, Grows, Histories, History
  <2> QED BY <2>1, <2>2, ReachedStays DEF VerdictSound, Grows
<1>4. ASSUME r.disposition = "RewrittenIntegration"
      PROVE  r.endWitness \in commits'.made /\ WorkReached(r.tip, r.endWitness)'
  <2>1. r.tip \in commits.made /\ r.endWitness \in commits.made
        /\ WorkReached(r.tip, r.endWitness)
    BY <1>4 DEF Sound, Staged, GitBacked
  <2> QED BY <2>1, ReachedStays DEF Grows
<1> QED BY <1>1, <1>2, <1>3, <1>4 DEF Sound

-----------------------------------------------------------------------------
(* What a pass observes of a sound record. *)

\* The records a pass looks at.
Judgeable(r) ==
    /\ Sound(r)
    /\ r.stage = "Outstanding" \/ GitBacked(r)

\* A status that proves nothing is always right.
LEMMA PlainProven ==
  ASSUME NEW tip,
         NEW kind \in {"NotIntegrated", "TrunkRewritten", "ObjectUnknown"}
  PROVE  Proven(tip, Plain(kind)) /\ Plain(kind).kind = kind
  BY DEF Proven, Plain, Status, Statuses, CommitOrNone

LEMMA UnprovenProven ==
  ASSUME NEW tip, NEW r, NEW t, NEW p
  PROVE  Proven(tip, Unproven(r, t, p)) /\ Unproven(r, t, p).kind # "Integrated"
<1> Reach(r, t, p) \in {"Ancestor", "NotAncestor", "ObjectUnknown"}
  BY DEF Reach
<1> QED BY PlainProven DEF Unproven

LEMMA ProofByTip ==
  ASSUME TypeOK, Histories, NEW t \in commits.made, NEW tip \in History(t)
  PROVE  Proven(tip, IntegratedAt(t, "ProtectedTipAncestor", None))
<1>1. IntegratedAt(t, "ProtectedTipAncestor", None) \in Statuses
  BY DEF TypeOK, IntegratedAt, Status, Statuses, CommitOrNone
<1>2. tip \in commits.made /\ WorkReached(tip, t)
  BY TipReached DEF Histories
<1> QED BY <1>1, <1>2 DEF Proven, ProofSound, IntegratedAt, Status

\* A proof that stands at a later trunk of the same history.
LEMMA ProofByContent ==
  ASSUME TypeOK, Histories, NEW tip \in commits.made, NEW t \in commits.made,
         NEW w \in CommitOrNone,
         NEW proof \in {"ScopedPatchEquivalent", "RewrittenWitnessAncestor"},
         WorkReached(tip, t),
         w # None => w \in History(t) /\ WorkReached(tip, w)
  PROVE  Proven(tip, IntegratedAt(t, proof, w))
<1>1. IntegratedAt(t, proof, w) \in Statuses
  BY DEF TypeOK, IntegratedAt, Status, Statuses, CommitOrNone
<1> QED BY <1>1 DEF Proven, ProofSound, IntegratedAt, Status

Observed(tip, o) == Proven(tip, o.status) /\ Found(tip, o.verdicts)

LEMMA AppliedObserved ==
  ASSUME NEW tip, NEW status, Proven(tip, status)
  PROVE  Observed(tip, Applied(status)) /\ Observed(tip, Preserved(status))
  BY DEF Observed, Applied, Preserved, Observation, Found

\* Every answer of a comparison is true of the trunk it was made with.
LEMMA AnswersTrue ==
  ASSUME TypeOK, Histories, NEW tip \in commits.made, NEW t \in commits.made,
         NEW answer \in Answers(tip, t)
  PROVE  /\ answer.kind \in {"Equivalent", "Different", "HistoryUnavailable",
                             "Unavailable", "Deferred"}
         /\ answer.kind = "Equivalent" =>
               /\ answer.witness \in CommitOrNone
               /\ WorkReached(tip, t)
               /\ answer.witness # None =>
                     answer.witness \in History(t) /\ WorkReached(tip, answer.witness)
         /\ answer.kind = "Different" => ~WorkAt(tip, t)
<1>1. t \in History(t) /\ History(t) \subseteq commits.made
      /\ \A d \in History(t) : d \in History(d)
  BY DEF Histories
<1>2. commits.made \subseteq Commit
  BY DEF TypeOK
<1> QED BY <1>1, <1>2 DEF Answers, Comparisons, WorkReached, WorkAt, CommitOrNone

LEMMA ComparedObserved ==
  ASSUME TypeOK, Histories, NEW r, Sound(r), r.tip \in commits.made,
         NEW t \in commits.made, NEW previous, NEW answer \in Answers(r.tip, t)
  PROVE  Observed(r.tip, ComparedStatus(r, t, previous, answer))
<1> DEFINE tip == r.tip
           o == ComparedStatus(r, t, previous, answer)
<1>1. CASE answer.kind = "Equivalent"
  <2>1. /\ answer.witness \in CommitOrNone /\ WorkReached(tip, t)
        /\ answer.witness # None =>
              answer.witness \in History(t) /\ WorkReached(tip, answer.witness)
    BY <1>1, AnswersTrue
  <2>2. Proven(tip, IntegratedAt(t, "ScopedPatchEquivalent", answer.witness))
    BY <2>1, ProofByContent
  <2>3. Found(tip, {Verdict(t, TRUE, answer.witness)})
    BY <2>1 DEF Found, Verdict, Verdicts, VerdictSound, TypeOK
  <2>4. o = Observation(IntegratedAt(t, "ScopedPatchEquivalent", answer.witness),
                        "Apply", {Verdict(t, TRUE, answer.witness)})
    BY <1>1 DEF ComparedStatus
  <2> QED BY <2>2, <2>3, <2>4 DEF Observed, Observation
<1>2. CASE answer.kind \in {"Different", "HistoryUnavailable"}
  <2> DEFINE status == Unproven(r, t, previous)
             verdicts == IF answer.kind = "Different" /\ status.kind # "ObjectUnknown"
                         THEN {Verdict(t, FALSE, None)} ELSE {}
  <2>1. Found(tip, verdicts)
    <3>1. CASE answer.kind = "Different"
      <4>1. ~WorkAt(tip, t)
        BY <3>1, AnswersTrue
      <4>2. Found(tip, {Verdict(t, FALSE, None)})
        BY <4>1 DEF Found, Verdict, Verdicts, VerdictSound, TypeOK, CommitOrNone
      <4> QED BY <4>2 DEF Found
    <3>2. CASE answer.kind # "Different"
      BY <3>2 DEF Found
    <3> QED BY <3>1, <3>2
  <2>2. o = Observation(status, "Apply", verdicts)
    BY <1>2 DEF ComparedStatus
  <2>3. Proven(tip, status)
    BY UnprovenProven
  <2> QED BY <2>1, <2>2, <2>3 DEF Observed, Observation
<1>3. CASE answer.kind = "Unavailable"
  BY <1>3, PlainProven, AppliedObserved DEF ComparedStatus
<1>4. CASE answer.kind = "Deferred"
  <2> DEFINE status == IF ProvingTrunk(r.status) = {} THEN r.status
                       ELSE Unproven(r, t, previous)
  <2>1. Proven(tip, status)
    BY UnprovenProven DEF Sound
  <2>2. o = Preserved(status)
    BY <1>4 DEF ComparedStatus
  <2> QED BY <2>1, <2>2, AppliedObserved
<1> QED BY <1>1, <1>2, <1>3, <1>4, AnswersTrue

LEMMA DerivedObserved ==
  ASSUME TypeOK, Histories, NEW r, Sound(r), r.tip \in commits.made,
         NEW t \in commits.made, NEW previous, NEW answer \in Answers(r.tip, t)
  PROVE  Observed(r.tip, DerivedStatus(r, t, previous, answer))
<1> DEFINE tip == r.tip
           known == {v \in r.verdicts : v.target = t}
           o == DerivedStatus(r, t, previous, answer)
<1>1. CASE known # {}
  <2> DEFINE v == CHOOSE w \in known : TRUE
             status == IF v.equivalent
                       THEN IntegratedAt(t, "ScopedPatchEquivalent", v.witness)
                       ELSE Unproven(r, t, previous)
  <2>1. v \in r.verdicts /\ v.target = t
    BY <1>1
  <2>2. v \in Verdicts /\ VerdictSound(tip, v)
    BY <2>1 DEF Sound, Found
  <2>3. o = Applied(status)
    BY <1>1 DEF DerivedStatus
  <2>4. Proven(tip, status)
    <3>1. CASE v.equivalent
      <4>1. /\ v.witness \in CommitOrNone /\ WorkReached(tip, t)
            /\ v.witness # None => v.witness \in History(t)
                                   /\ WorkReached(tip, v.witness)
        BY <2>1, <2>2, <3>1 DEF VerdictSound, Verdicts
      <4> HIDE DEF v
      <4> QED BY <3>1, <4>1, ProofByContent
    <3>2. CASE ~v.equivalent
      BY <3>2, UnprovenProven
    <3> QED BY <3>1, <3>2
  <2> QED BY <2>3, <2>4, AppliedObserved
<1>2. CASE known = {} /\ Reach(r, t, tip) = "Ancestor"
  <2>1. tip \in History(t)
    BY <1>2 DEF Reach
  <2>2. o = Applied(IntegratedAt(t, "ProtectedTipAncestor", None))
    BY <1>2 DEF DerivedStatus
  <2> QED BY <2>1, <2>2, ProofByTip, AppliedObserved
<1>3. CASE known = {} /\ Reach(r, t, tip) = "NotAncestor"
  <2>1. o = ComparedStatus(r, t, previous, answer)
    BY <1>3 DEF DerivedStatus
  <2> QED BY <2>1, ComparedObserved
<1>4. CASE known = {} /\ Reach(r, t, tip) = "ObjectUnknown"
  <2>1. o = Applied(Plain("ObjectUnknown"))
    BY <1>4 DEF DerivedStatus
  <2> QED BY <2>1, PlainProven, AppliedObserved
<1> QED BY <1>1, <1>2, <1>3, <1>4 DEF Reach

\* A proof carried forward: its trunk is in the history of the one read.
LEMMA ReanchoredProven ==
  ASSUME TypeOK, Histories, NEW r, Sound(r), NEW t \in commits.made,
         r.stage = "Outstanding" \/ r.disposition = "Integrated",
         r.status.kind = "Integrated", r.status.trunk \in History(t)
  PROVE  Proven(r.tip, Reanchored(r, t))
<1> DEFINE tip == r.tip
           status == r.status
<1>1. status \in Statuses /\ ProofSound(tip, status)
  BY DEF Sound, Proven
<1>2. CASE Reach(r, t, tip) = "Ancestor"
  BY <1>2, ProofByTip DEF Reanchored, Reach
<1>3. CASE Reach(r, t, tip) # "Ancestor"
  <2>1. Reanchored(r, t) = [status EXCEPT !.trunk = t]
    BY <1>3 DEF Reanchored
  <2>2. tip \notin History(t)
    BY <1>3 DEF Reach, CandidateAncestors, ProvingTrunk, Sound, Staged, Records
  <2>3. History(status.trunk) \subseteq History(t)
    BY DEF Histories
  <2>4. WorkReached(tip, t)
    BY <1>1, <2>3 DEF ProofSound, WorkReached
  <2>5. status.proof # "ProtectedTipAncestor"
    BY <1>1, <2>2, <2>3 DEF ProofSound
  <2>6. Reanchored(r, t) \in Statuses
    BY <1>1, <2>1 DEF Statuses, CommitOrNone, TypeOK
  <2>7. /\ Reanchored(r, t).trunk = t /\ Reanchored(r, t).proof = status.proof
        /\ Reanchored(r, t).witness = status.witness
        /\ Reanchored(r, t).kind = "Integrated"
    BY <1>1, <2>1 DEF Statuses
  <2> QED BY <1>1, <2>3, <2>4, <2>5, <2>6, <2>7 DEF Proven, ProofSound
<1> QED BY <1>2, <1>3

LEMMA TipObserved ==
  ASSUME TypeOK, Histories, NEW r, Sound(r), r.tip \in commits.made,
         r.stage = "Outstanding" \/ r.disposition = "Integrated",
         NEW t \in commits.made, NEW answer \in Answers(r.tip, t)
  PROVE  Observed(r.tip, TipObservation(r, t, answer))
<1> DEFINE o == TipObservation(r, t, answer)
           reach == Reach(r, t, r.status.trunk)
<1>1. CASE r.status.kind # "Integrated"
  BY <1>1, DerivedObserved DEF TipObservation, ProvingTrunk
<1>2. CASE r.status.kind = "Integrated" /\ reach = "Ancestor"
  <2>1. r.status.trunk \in History(t)
    BY <1>2 DEF Reach
  <2>2. o = Applied(Reanchored(r, t))
    BY <1>2 DEF TipObservation, ProvingTrunk
  <2> QED BY <1>2, <2>1, <2>2, ReanchoredProven, AppliedObserved
<1>3. CASE r.status.kind = "Integrated" /\ reach = "NotAncestor"
  <2>1. o = DerivedStatus(r, t, r.status.trunk, answer)
    BY <1>3 DEF TipObservation, ProvingTrunk
  <2> QED BY <2>1, DerivedObserved
<1>4. CASE r.status.kind = "Integrated" /\ reach = "ObjectUnknown"
  <2>1. o = Applied(Plain("ObjectUnknown"))
    BY <1>4 DEF TipObservation, ProvingTrunk
  <2> QED BY <2>1, PlainProven, AppliedObserved
<1> QED BY <1>1, <1>2, <1>3, <1>4 DEF Reach

\* The witness of a rewritten ending, by what git says of it.
LEMMA WitnessProven ==
  ASSUME TypeOK, Histories, NEW tip \in commits.made, NEW w,
         WorkReached(tip, w), NEW t \in commits.made,
         NEW reach, reach = "Ancestor" => w \in History(t)
  PROVE  Proven(tip, WitnessStatus(w, t, reach))
<1>1. CASE reach = "Ancestor"
  <2>1. w \in History(t) /\ WorkReached(tip, t) /\ w \in CommitOrNone
    BY <1>1, ReachedLater DEF Histories, TypeOK, CommitOrNone
  <2>2. Proven(tip, IntegratedAt(t, "RewrittenWitnessAncestor", w))
    BY <2>1, ProofByContent
  <2> QED BY <1>1, <2>2 DEF WitnessStatus
<1>2. CASE reach # "Ancestor"
  BY <1>2, PlainProven DEF WitnessStatus
<1> QED BY <1>1, <1>2

LEMMA PassObserved ==
  ASSUME TypeOK, Histories, NEW r, Judgeable(r),
         NEW t \in commits.made, NEW answer \in Answers(r.tip, t)
  PROVE  Observed(r.tip, PassObservation(r, t, answer))
<1>1. r.tip \in commits.made
  BY DEF Judgeable, Sound, Staged
<1>2. CASE r.disposition = "RewrittenIntegration"
  <2> DEFINE reach == Reach(r, t, r.endWitness)
  <2>1. r.endWitness \in commits.made /\ WorkReached(r.tip, r.endWitness)
    BY <1>2 DEF Judgeable, Sound
  <2>2. /\ reach \in {"Ancestor", "NotAncestor", "ObjectUnknown"}
        /\ reach = "Ancestor" => r.endWitness \in History(t)
    BY DEF Reach
  <2>3. Proven(r.tip, WitnessStatus(r.endWitness, t, reach))
    BY <1>1, <2>1, <2>2, WitnessProven
  <2> QED BY <1>2, <2>3, AppliedObserved DEF PassObservation
<1>3. CASE r.disposition # "RewrittenIntegration"
  <2>1. Sound(r) /\ (r.stage = "Outstanding" \/ r.disposition = "Integrated")
    BY <1>3 DEF Judgeable, GitBacked
  <2> QED BY <1>1, <1>3, <2>1, TipObserved DEF PassObservation
<1> QED BY <1>2, <1>3

-----------------------------------------------------------------------------
(* What an operation makes of a sound record. *)

LEMMA ExtentSound ==
  ASSUME NEW r, Sound(r), NEW e \in Extents
  PROVE  /\ Sound(ApplyExtent(r, e))
         /\ ApplyExtent(r, e) = [r EXCEPT !.extent = e]
  BY DEF Sound, Staged, GitBacked, Records, ApplyExtent

LEMMA EvidenceSound ==
  ASSUME NEW r, Judgeable(r), NEW status, Proven(r.tip, status)
  PROVE  /\ Judgeable(ApplyEvidence(r, status))
         /\ ApplyEvidence(r, status) = [r EXCEPT !.status = status]
<1>1. r \in Records /\ r.replays /\ TakesEvidence(r)
  BY DEF Judgeable, Sound, TakesEvidence
<1>2. ApplyEvidence(r, status) = [r EXCEPT !.status = status]
  BY <1>1 DEF ApplyEvidence, Replayed, Records
<1> QED BY <1>1, <1>2 DEF Judgeable, Sound, Staged, GitBacked, Records, Proven

LEMMA VerdictSoundApplied ==
  ASSUME NEW r, Judgeable(r), NEW v, Found(r.tip, {v})
  PROVE  /\ Judgeable(ApplyVerdict(r, v))
         /\ \E w : ApplyVerdict(r, v) = [r EXCEPT !.verdicts = w]
<1> DEFINE w == {u \in r.verdicts : u.target # v.target} \cup {v}
<1>1. r \in Records /\ r.replays /\ TakesEvidence(r)
  BY DEF Judgeable, Sound, TakesEvidence
<1>2. ApplyVerdict(r, v) = [r EXCEPT !.verdicts = w]
  BY <1>1 DEF ApplyVerdict, Replayed, Records
<1>3. Found(r.tip, w)
  BY DEF Found, Judgeable, Sound
<1>4. w \in SUBSET Verdicts
  BY <1>3 DEF Found
<1>5. r.stage # "Active"
  BY DEF Judgeable, Sound, Staged, GitBacked
<1> HIDE DEF w
<1> QED BY <1>1, <1>2, <1>3, <1>4, <1>5
        DEF Judgeable, Sound, Staged, GitBacked, Records

LEMMA CheckpointSound ==
  ASSUME TypeOK, NEW r, Sound(r), r.stage = "Active",
         NEW tip \in commits.made, NEW t \in commits.made
  PROVE  /\ Judgeable(ApplyCheckpoint(r, tip, t))
         /\ ApplyCheckpoint(r, tip, t).stage = "Outstanding"
         /\ ApplyCheckpoint(r, tip, t).tip = tip
<1> DEFINE s == ApplyCheckpoint(r, tip, t)
<1>1. r \in Records /\ r.replays /\ r.verdicts = {} /\ r.disposition = "none"
  BY DEF Sound, Staged
<1>2. s = [r EXCEPT !.stage = "Outstanding", !.tip = tip, !.snapshot = t,
                    !.status = Plain("NotIntegrated")]
  BY <1>1 DEF ApplyCheckpoint, Replayed, Records
<1>3. Proven(tip, Plain("NotIntegrated")) /\ Plain("NotIntegrated") \in Statuses
  BY PlainProven DEF Proven
<1>4. {tip, t} \subseteq CommitOrNone
  BY DEF CommitOrNone, TypeOK
<1> HIDE DEF s
<1>5. s \in Records
  BY <1>1, <1>2, <1>3, <1>4 DEF Records
<1>6. /\ s.stage = "Outstanding" /\ s.tip = tip /\ s.disposition = "none"
      /\ s.status = Plain("NotIntegrated") /\ s.verdicts = {} /\ s.replays
  BY <1>1, <1>2 DEF Records
<1>7. Staged(s)
  BY <1>6 DEF Staged, GitBacked
<1>8. Found(s.tip, s.verdicts)
  BY <1>6 DEF Found
<1>9. Sound(s)
  BY <1>3, <1>5, <1>6, <1>7, <1>8 DEF Sound
<1> QED BY <1>6, <1>9 DEF Judgeable, s

LEMMA ResnapshotSound ==
  ASSUME TypeOK, NEW r, Sound(r), r.stage = "Outstanding",
         NEW tip \in commits.made, NEW t \in commits.made
  PROVE  Sound(ApplyResnapshot(r, tip, t))
<1> DEFINE s == ApplyResnapshot(r, tip, t)
<1>1. r \in Records /\ r.replays /\ r.disposition = "none"
  BY DEF Sound, Staged
<1>2. s = [r EXCEPT !.tip = tip, !.snapshot = t,
                    !.status = Plain("NotIntegrated"), !.verdicts = {}]
  BY <1>1 DEF ApplyResnapshot, AdvanceSubject, Replayed, Records
<1>3. Proven(tip, Plain("NotIntegrated")) /\ Plain("NotIntegrated") \in Statuses
  BY PlainProven DEF Proven
<1>4. {tip, t} \subseteq CommitOrNone
  BY DEF CommitOrNone, TypeOK
<1> HIDE DEF s
<1>5. s \in Records
  BY <1>1, <1>2, <1>3, <1>4 DEF Records
<1>6. /\ s.stage = "Outstanding" /\ s.tip = tip /\ s.disposition = "none"
      /\ s.status = Plain("NotIntegrated") /\ s.verdicts = {} /\ s.replays
  BY <1>1, <1>2 DEF Records
<1>7. Staged(s)
  BY <1>6 DEF Staged, GitBacked
<1>8. Found(s.tip, s.verdicts)
  BY <1>6 DEF Found
<1> QED BY <1>3, <1>5, <1>6, <1>7, <1>8 DEF Sound, s

\* What an ending keeps of the record it ends.
LEMMA EndedSound ==
  ASSUME NEW r, Sound(r), NEW s \in Records,
         s.stage = "Released", s.disposition # "none",
         s.tip = r.tip, s.status = r.status, s.replays,
         s.verdicts \in {r.verdicts, {}},
         GitBacked(s) => s.tip \in commits.made,
         s.disposition = "RewrittenIntegration" =>
            s.endWitness \in commits.made /\ WorkReached(s.tip, s.endWitness)
  PROVE  Sound(s)
<1>1. Staged(s)
  BY DEF Staged
<1>2. Found(s.tip, s.verdicts)
  BY DEF Sound, Found
<1>3. Proven(s.tip, s.status)
  BY DEF Sound
<1> QED BY <1>1, <1>2, <1>3 DEF Sound

LEMMA IntegratedSound ==
  ASSUME NEW r, Sound(r), r.stage = "Outstanding", r.status.kind = "Integrated"
  PROVE  Sound(ApplyRelease(r, "Integrated", None))
<1> DEFINE s == ApplyRelease(r, "Integrated", None)
<1>1. r \in Records /\ r.replays /\ r.tip \in commits.made
  BY DEF Sound, Staged
<1>2. s = [r EXCEPT !.stage = "Released", !.disposition = "Integrated",
                    !.endWitness = None]
  BY <1>1 DEF ApplyRelease, End, Replayed, Records
<1> HIDE DEF s
<1>3. s \in Records
  BY <1>1, <1>2 DEF Records, CommitOrNone
<1>4. /\ s.stage = "Released" /\ s.disposition = "Integrated" /\ s.tip = r.tip
      /\ s.status = r.status /\ s.verdicts = r.verdicts /\ s.replays
  BY <1>1, <1>2 DEF Records
<1>5. Sound(s)
  BY <1>1, <1>3, <1>4, EndedSound
<1> QED BY <1>5 DEF s

LEMMA RewrittenSound ==
  ASSUME TypeOK, NEW r, Sound(r), r.stage = "Outstanding",
         r.status.kind = "Integrated",
         NEW w \in commits.made, WorkReached(r.tip, w)
  PROVE  Sound(ApplyRelease(r, "RewrittenIntegration", w))
<1> DEFINE s == ApplyRelease(r, "RewrittenIntegration", w)
<1>1. r \in Records /\ r.replays /\ r.tip \in commits.made
  BY DEF Sound, Staged
<1>2. s = [r EXCEPT !.stage = "Released", !.disposition = "RewrittenIntegration",
                    !.endWitness = w, !.verdicts = {}]
  BY <1>1 DEF ApplyRelease, AdvanceSubject, End, Replayed, Records
<1>3. w \in CommitOrNone
  BY DEF TypeOK, CommitOrNone
<1> HIDE DEF s
<1>4. s \in Records
  BY <1>1, <1>2, <1>3 DEF Records
<1>5. /\ s.stage = "Released" /\ s.disposition = "RewrittenIntegration"
      /\ s.tip = r.tip /\ s.endWitness = w
      /\ s.status = r.status /\ s.verdicts = {} /\ s.replays
  BY <1>1, <1>2 DEF Records
<1>6. Sound(s)
  BY <1>1, <1>4, <1>5, EndedSound
<1> QED BY <1>6 DEF s

LEMMA DecisionSound ==
  ASSUME NEW r, Sound(r), r.stage # "Released",
         NEW disposition \in {"KeptOnBranch", "RetiredOrphan"}
  PROVE  Sound(ApplyRelease(r, disposition, None))
<1> DEFINE s == ApplyRelease(r, disposition, None)
<1>1. r \in Records /\ r.replays
  BY DEF Sound
<1>2. s = [r EXCEPT !.stage = "Released", !.disposition = disposition,
                    !.endWitness = None]
  BY <1>1 DEF ApplyRelease, End, Replayed, Records
<1> HIDE DEF s
<1>3. s \in Records
  BY <1>1, <1>2 DEF Records, CommitOrNone
<1>4. /\ s.stage = "Released" /\ s.disposition = disposition /\ s.tip = r.tip
      /\ s.status = r.status /\ s.verdicts = r.verdicts /\ s.replays
  BY <1>1, <1>2 DEF Records
<1>5. Sound(s)
  BY <1>3, <1>4, EndedSound DEF GitBacked
<1> QED BY <1>5 DEF s

-----------------------------------------------------------------------------
(* Every operation of a plan leaves a sound record. *)

PlanSound(plan) == \A n \in 1 .. Len(plan) : Sound(plan[n])

LEMMA PlanOfSound ==
  ASSUME NEW a, Sound(a), NEW b, Sound(b), NEW c, Sound(c), NEW d, Sound(d)
  PROVE  /\ PlanSound(<<>>) /\ PlanSound(<<a>>) /\ PlanSound(<<a, b>>)
         /\ PlanSound(<<a, b, c>>) /\ PlanSound(<<a, b, c, d>>)
  BY DEF PlanSound

LEMMA VerdictsRecorded ==
  ASSUME NEW r, Judgeable(r), NEW verdicts, Found(r.tip, verdicts)
  PROVE  /\ Judgeable(RecordVerdicts(r, verdicts))
         /\ \E w : RecordVerdicts(r, verdicts) \in {r, [r EXCEPT !.verdicts = w]}
<1>1. CASE verdicts = {}
  BY <1>1 DEF RecordVerdicts
<1>2. CASE verdicts # {}
  <2> DEFINE v == CHOOSE u \in verdicts : TRUE
  <2>1. v \in verdicts
    BY <1>2
  <2>2. Found(r.tip, {v})
    BY <2>1 DEF Found
  <2>3. RecordVerdicts(r, verdicts) = ApplyVerdict(r, v)
    BY <1>2 DEF RecordVerdicts
  <2> HIDE DEF v
  <2> QED BY <2>2, <2>3, VerdictSoundApplied
<1> QED BY <1>1, <1>2

LEMMA EvidenceRecorded ==
  ASSUME NEW r, Judgeable(r), NEW status, Proven(r.tip, status)
  PROVE  /\ Judgeable(RecordEvidence(r, status))
         /\ RecordEvidence(r, status).tip = r.tip
<1>1. r \in Records
  BY DEF Judgeable, Sound
<1> QED BY <1>1, EvidenceSound DEF RecordEvidence, Records

LEMMA JudgedProven ==
  ASSUME NEW tip, NEW status, Proven(tip, status), NEW e
  PROVE  Proven(tip, Judged(status, e))
  BY PlainProven DEF Judged

LEMMA StatusRecorded ==
  ASSUME NEW r, Sound(r), NEW e, NEW o, Observed(r.tip, o)
  PROVE  Proven(r.tip, RecordedStatus(r, e, o))
  BY JudgedProven DEF RecordedStatus, Observed, Sound

\* An ending names the trunk of its proof, or the witness.
LEMMA SettledSound ==
  ASSUME TypeOK, Histories, NEW r, Sound(r), r.stage = "Outstanding",
         r.status.kind = "Integrated"
  PROVE  Sound(Settled(r, r.status))
<1>1. ProofSound(r.tip, r.status)
  BY DEF Sound, Proven
<1>2. Resolve(r.status) \in commits.made /\ WorkReached(r.tip, Resolve(r.status))
  BY <1>1 DEF ProofSound, Resolve, Histories
<1> QED BY <1>2, IntegratedSound, RewrittenSound DEF Settled

LEMMA OutstandingPlanSound ==
  ASSUME TypeOK, Histories, NEW r, Sound(r), r.stage = "Outstanding",
         NEW t \in commits.made, NEW e \in Extents,
         NEW answer \in Answers(r.tip, t)
  PROVE  PlanSound(OutstandingPlan(r, t, e, answer))
<1> DEFINE observed == PassObservation(r, t, answer)
           status == RecordedStatus(r, e, observed)
           extended == ApplyExtent(r, e)
           checked == RecordVerdicts(extended, observed.verdicts)
           judged == RecordEvidence(extended, status)
           both == RecordVerdicts(judged, observed.verdicts)
           proved == ApplyEvidence(checked, status)
           ended == Settled(proved, status)
<1>1. Judgeable(r) /\ r \in Records
  BY DEF Judgeable, Sound
<1>2. Observed(r.tip, observed)
  BY <1>1, PassObserved
<1>3. Found(r.tip, observed.verdicts) /\ Proven(r.tip, status)
  BY <1>2, StatusRecorded DEF Observed
<1>4. /\ Judgeable(extended) /\ extended \in Records
      /\ extended.tip = r.tip /\ extended.stage = "Outstanding"
  BY <1>1, ExtentSound DEF Judgeable, Sound, Records
<1> HIDE DEF extended, observed, status
<1>5. /\ Judgeable(checked) /\ checked \in Records
      /\ checked.tip = r.tip /\ checked.stage = "Outstanding"
  BY <1>3, <1>4, VerdictsRecorded DEF Judgeable, Sound, Records
<1>6. Judgeable(judged) /\ Judgeable(both)
  BY <1>3, <1>4, EvidenceRecorded, VerdictsRecorded
<1> HIDE DEF checked, judged
<1>7. /\ Judgeable(proved) /\ proved.status = status
      /\ proved.stage = "Outstanding"
  BY <1>3, <1>5, EvidenceSound DEF Records
<1> HIDE DEF proved, both
<1>8. status.kind = "Integrated" => Sound(ended)
  BY <1>7, SettledSound DEF Judgeable
<1> HIDE DEF ended
<1>9. OutstandingPlan(r, t, e, answer) =
         IF FreshEmpty(e) /\ status.kind = "Integrated" /\ status.trunk = t
         THEN <<extended, checked, proved, ended>>
         ELSE <<extended, judged, both>>
  BY DEF OutstandingPlan, extended, observed, status, checked, judged, both,
         proved, ended
<1>10. PlanSound(<<extended, judged, both>>)
  BY <1>4, <1>6, PlanOfSound DEF Judgeable
<1>11. status.kind = "Integrated" => PlanSound(<<extended, checked, proved, ended>>)
  BY <1>4, <1>5, <1>7, <1>8, PlanOfSound DEF Judgeable
<1> QED BY <1>9, <1>10, <1>11

LEMMA EndedRunSound ==
  ASSUME TypeOK, Histories, NEW r, Sound(r), r.stage = "Active",
         NEW t \in commits.made, NEW h \in commits.made, h \in History(t)
  PROVE  PlanSound(EndedRun(r, t, h))
<1> DEFINE checkpointed == ApplyCheckpoint(r, h, t)
           status == IntegratedAt(t, "ProtectedTipAncestor", None)
           proved == ApplyEvidence(checkpointed, status)
           ended == ApplyRelease(proved, "Integrated", None)
<1>1. /\ Judgeable(checkpointed) /\ checkpointed \in Records
      /\ checkpointed.stage = "Outstanding" /\ checkpointed.tip = h
  BY CheckpointSound DEF Judgeable, Sound
<1>2. Proven(h, status) /\ status.kind = "Integrated"
  BY ProofByTip DEF IntegratedAt, Status
<1> HIDE DEF checkpointed, status
<1>3. /\ Judgeable(proved) /\ proved.stage = "Outstanding"
      /\ proved.status.kind = "Integrated"
  BY <1>1, <1>2, EvidenceSound DEF Records
<1> HIDE DEF proved
<1>4. Sound(ended)
  BY <1>3, IntegratedSound DEF Judgeable
<1>5. EndedRun(r, t, h) = <<r, checkpointed, proved, ended>>
  BY DEF EndedRun, checkpointed, status, proved, ended
<1> HIDE DEF ended
<1> QED BY <1>1, <1>3, <1>4, <1>5, PlanOfSound DEF Judgeable

LEMMA ActivePlanSound ==
  ASSUME TypeOK, Histories, NEW r, Sound(r), r.stage = "Active",
         NEW t \in commits.made, NEW h, NEW e \in Extents,
         FreshEmpty(e) => h \in commits.made,
         NEW orphaned \in BOOLEAN, NEW ends \in BOOLEAN
  PROVE  PlanSound(ActivePlan(r, t, h, e, orphaned, ends))
<1> DEFINE extended == ApplyExtent(r, e)
           retired == ApplyRelease(extended, "RetiredOrphan", None)
<1>1. r \in Records
  BY DEF Sound
<1>2. Sound(extended) /\ extended.stage = "Active"
  BY <1>1, ExtentSound DEF Records
<1> HIDE DEF extended
<1>3. Sound(retired)
  BY <1>2, DecisionSound
<1> HIDE DEF retired
<1>4. MergedRun(r, t, h, e) => PlanSound(EndedRun(extended, t, h))
  BY <1>2, EndedRunSound DEF MergedRun
<1>5. PlanSound(<<extended, retired>>) /\ PlanSound(<<extended>>)
  BY <1>2, <1>3, PlanOfSound
<1> QED BY <1>4, <1>5 DEF ActivePlan, extended, retired

LEMMA ReleasedPlanSound ==
  ASSUME TypeOK, Histories, NEW r, Judgeable(r),
         NEW t \in commits.made, NEW answer \in Answers(r.tip, t)
  PROVE  /\ PlanSound(ReleasedPlan(r, t, answer))
         /\ PlanSound(HookPlan(r, t, answer))
<1> DEFINE observed == PassObservation(r, t, answer)
           judged == RecordEvidence(r, observed.status)
           both == RecordVerdicts(judged, observed.verdicts)
           kept == RecordVerdicts(r, observed.verdicts)
<1>1. Proven(r.tip, observed.status) /\ Found(r.tip, observed.verdicts)
  BY PassObserved DEF Observed
<1> HIDE DEF observed
<1>2. Judgeable(judged) /\ judged.tip = r.tip
  BY <1>1, EvidenceRecorded
<1> HIDE DEF judged
<1>3. Judgeable(both) /\ Judgeable(kept)
  BY <1>1, <1>2, VerdictsRecorded
<1>4. /\ ReleasedPlan(r, t, answer) = IF observed.revalidation = "Apply"
                                      THEN <<judged, both>> ELSE <<r>>
      /\ HookPlan(r, t, answer) = <<kept>>
  BY DEF ReleasedPlan, HookPlan, observed, judged, both, kept
<1> HIDE DEF both, kept
<1>5. PlanSound(<<judged, both>>) /\ PlanSound(<<r>>) /\ PlanSound(<<kept>>)
  BY <1>2, <1>3, PlanOfSound DEF Judgeable
<1> QED BY <1>4, <1>5

-----------------------------------------------------------------------------
(* The release verb. *)

LEMMA TipStatusProven ==
  ASSUME TypeOK, Histories, NEW r, r.tip \in commits.made,
         NEW t \in commits.made, NEW readable,
         NEW different, Proven(r.tip, different)
  PROVE  Proven(r.tip, TipStatus(r, t, readable, different))
<1>1. CASE r.tip \in History(t)
  BY <1>1, ProofByTip DEF TipStatus
<1>2. CASE Phase(r.tip) \subseteq Content(t)
  <2>1. WorkReached(r.tip, t)
    BY <1>2 DEF Histories, WorkReached, WorkAt
  <2>2. Proven(r.tip, IntegratedAt(t, "ScopedPatchEquivalent", None))
    BY <2>1, ProofByContent DEF CommitOrNone
  <2> QED BY <1>1, <1>2, <2>2, PlainProven DEF TipStatus
<1>3. CASE ~(Phase(r.tip) \subseteq Content(t))
  BY <1>1, <1>3, PlainProven DEF TipStatus
<1> QED BY <1>2, <1>3

LEMMA VerbStatusProven ==
  ASSUME TypeOK, Histories, NEW r, Judgeable(r),
         NEW t \in commits.made, NEW readable
  PROVE  /\ Proven(r.tip, ProvenStatus(r, t, readable))
         /\ Proven(r.tip, VerbStatus(r, t, readable))
<1>1. r.tip \in commits.made
  BY DEF Judgeable, Sound, Staged
<1>2. \A kind \in {"NotIntegrated", "TrunkRewritten"} : Proven(r.tip, Plain(kind))
  BY PlainProven
<1>3. Proven(r.tip, OutstandingStatus(r, t, readable))
  BY <1>1, <1>2, TipStatusProven DEF OutstandingStatus
<1>4. Proven(r.tip, ProvenStatus(r, t, readable))
  <2>1. r.status.witness # None => ProofSound(r.tip, r.status)
    BY DEF Judgeable, Sound, Proven
  <2>2. r.status.witness # None => WorkReached(r.tip, r.status.witness)
    BY <2>1 DEF ProofSound
  <2>3. Proven(r.tip, TipStatus(r, t, readable, Plain("TrunkRewritten")))
    BY <1>1, <1>2, TipStatusProven
  <2>4. ASSUME r.status.witness # None, r.status.witness \in History(t)
        PROVE  Proven(r.tip, WitnessStatus(r.status.witness, t, "Ancestor"))
    BY <1>1, <2>2, <2>4, WitnessProven
  <2> QED BY <2>3, <2>4 DEF ProvenStatus
<1> QED BY <1>3, <1>4 DEF VerbStatus

LEMMA ReleasedVerbSound ==
  ASSUME TypeOK, Histories, NEW r, Judgeable(r), r.stage = "Released",
         NEW readable
  PROVE  PlanSound(ReleasedVerb(r, readable))
<1> DEFINE reach == IF r.endWitness \in History(trunk) THEN "Ancestor"
                    ELSE "NotAncestor"
           status == IF r.disposition = "RewrittenIntegration"
                     THEN WitnessStatus(r.endWitness, trunk, reach)
                     ELSE ProvenStatus(r, trunk, readable)
<1>1. trunk \in commits.made /\ r.tip \in commits.made
  BY DEF TypeOK, Judgeable, Sound, Staged
<1>2. Proven(r.tip, status)
  <2>1. CASE r.disposition = "RewrittenIntegration"
    <3>1. WorkReached(r.tip, r.endWitness)
      BY <2>1 DEF Judgeable, Sound
    <3>2. Proven(r.tip, WitnessStatus(r.endWitness, trunk, reach))
      BY <1>1, <3>1, WitnessProven
    <3> QED BY <2>1, <3>2
  <2>2. CASE r.disposition # "RewrittenIntegration"
    BY <1>1, <2>2, VerbStatusProven
  <2> QED BY <2>1, <2>2
<1>3. ReleasedVerb(r, readable) = <<ApplyEvidence(r, status)>>
  BY DEF ReleasedVerb
<1> HIDE DEF status
<1>4. Sound(ApplyEvidence(r, status))
  BY <1>2, EvidenceSound DEF Judgeable
<1> QED BY <1>3, <1>4, PlanOfSound

LEMMA OutstandingVerbSound ==
  ASSUME TypeOK, Histories, NEW r, Sound(r), r.stage = "Outstanding",
         NEW invoking, NEW readable
  PROVE  PlanSound(OutstandingVerb(r, invoking, readable))
<1> DEFINE status == VerbStatus(r, trunk, readable)
           judged == Judged(status, r.extent)
           proved == ApplyEvidence(r, judged)
           ended == IF judged.witness = None
                    THEN ApplyRelease(proved, "Integrated", None)
                    ELSE ApplyRelease(proved, "RewrittenIntegration",
                                      judged.witness)
           moved == ApplyResnapshot(r, head, trunk)
<1>1. trunk \in commits.made /\ head \in commits.made /\ Judgeable(r) /\ r \in Records
  BY DEF TypeOK, Judgeable, Sound
<1>2. Proven(r.tip, judged)
  BY <1>1, VerbStatusProven, JudgedProven
<1> HIDE DEF judged
<1>3. /\ Judgeable(proved) /\ proved.status = judged
      /\ proved.stage = "Outstanding" /\ proved.tip = r.tip
  BY <1>1, <1>2, EvidenceSound DEF Records
<1> HIDE DEF proved
<1>4. ASSUME judged.kind = "Integrated" PROVE Sound(ended)
  <2>1. CASE judged.witness = None
    BY <1>3, <1>4, <2>1, IntegratedSound DEF Judgeable
  <2>2. CASE judged.witness # None
    <3>1. judged.witness \in commits.made /\ WorkReached(proved.tip, judged.witness)
      BY <1>2, <1>3, <1>4, <2>2 DEF Proven, ProofSound, Histories
    <3>2. Sound(ApplyRelease(proved, "RewrittenIntegration", judged.witness))
      BY <1>3, <1>4, <3>1, RewrittenSound DEF Judgeable
    <3> QED BY <2>2, <3>2
  <2> QED BY <2>1, <2>2
<1>5. Sound(moved)
  BY <1>1, ResnapshotSound
<1>6. OutstandingVerb(r, invoking, readable) =
         IF judged.kind = "Integrated" THEN <<proved, ended>>
         ELSE IF invoking /\ Moves(r, status) THEN <<moved>> ELSE <<proved>>
  BY DEF OutstandingVerb, judged, proved
<1> HIDE DEF ended, moved, status
<1>7. judged.kind = "Integrated" => PlanSound(<<proved, ended>>)
  BY <1>3, <1>4, PlanOfSound DEF Judgeable
<1>8. PlanSound(<<moved>>) /\ PlanSound(<<proved>>)
  BY <1>3, <1>5, PlanOfSound DEF Judgeable
<1> QED BY <1>6, <1>7, <1>8

LEMMA VerbPlanSound ==
  ASSUME EvidenceInv, NEW invoking, NEW readable, VerbAdmitted(invoking)
  PROVE  PlanSound(VerbPlan(invoking, readable))
<1> DEFINE r == reservation
<1>1. /\ TypeOK /\ Histories /\ Sound(r)
      /\ r.stage \in {"Active", "Outstanding", "Released"}
  BY DEF EvidenceInv, TypeOK, Records
<1>2. CASE r.stage = "Active"
  <2>1. Sound(ApplyCheckpoint(r, head, trunk))
    BY <1>1, <1>2, CheckpointSound DEF TypeOK, Judgeable
  <2>2. VerbPlan(invoking, readable) = <<ApplyCheckpoint(r, head, trunk)>>
    BY <1>2 DEF VerbPlan
  <2> QED BY <2>1, <2>2, PlanOfSound
<1>3. CASE r.stage = "Outstanding"
  <2>1. VerbPlan(invoking, readable) = OutstandingVerb(r, invoking, readable)
    BY <1>3 DEF VerbPlan
  <2> QED BY <1>1, <1>3, <2>1, OutstandingVerbSound
<1>4. CASE r.stage = "Released"
  <2>1. Judgeable(r)
    BY <1>1, <1>4 DEF VerbAdmitted, Judgeable
  <2>2. VerbPlan(invoking, readable) = ReleasedVerb(r, readable)
    BY <1>4 DEF VerbPlan
  <2> QED BY <1>1, <1>4, <2>1, <2>2, ReleasedVerbSound
<1> QED BY <1>1, <1>2, <1>3, <1>4

-----------------------------------------------------------------------------
(* The steps. *)

LEMMA Begins ==
  ASSUME Init
  PROVE  EvidenceInv
<1>1. TypeOK
  <2>1. reservation \in Records
    BY EvidenceAssumption DEF Init, Records, Statuses, Extents, CommitOrNone,
       Plain, Status, Extent
  <2> QED BY <2>1, EvidenceAssumption
          DEF Init, TypeOK, CommitOrNone, Unread, NextPass
<1>2. Histories
  BY EvidenceAssumption DEF Init, Histories, History
<1>3. Sound(reservation)
  BY <1>1, PlainProven DEF Init, TypeOK, Sound, Staged, GitBacked, Found
<1> QED BY <1>1, <1>2, <1>3 DEF EvidenceInv

\* What a step of git may do to the rest.
Moved ==
    /\ Grows /\ Histories'
    /\ commits' \in [made : SUBSET Commit, history : [Commit -> SUBSET Commit],
                     content : [Commit -> SUBSET Work]]
    /\ {trunk', head'} \subseteq commits'.made
    /\ dirty' \subseteq Work /\ registered' \in BOOLEAN
    /\ UNCHANGED <<reservation, pass>>

LEMMA MovedKeeps ==
  ASSUME EvidenceInv, Moved
  PROVE  EvidenceInv'
<1>1. TypeOK'
  BY DEF EvidenceInv, Moved, Grows, TypeOK
<1>2. Sound(reservation)'
  BY SoundStays DEF EvidenceInv, Moved
<1> QED BY <1>1, <1>2 DEF EvidenceInv, Moved

LEMMA SameCommitsMoved ==
  ASSUME EvidenceInv, commits' = commits,
         {trunk', head'} \subseteq commits.made,
         dirty' \subseteq Work, registered' \in BOOLEAN,
         UNCHANGED <<reservation, pass>>
  PROVE  Moved
<1>1. Grows /\ Histories'
  BY DEF EvidenceInv, Grows, Histories, History
<1> QED BY <1>1 DEF EvidenceInv, Moved, TypeOK

\* A new commit on a branch, or a merge of two.
LEMMA NewCommitMoved ==
  ASSUME EvidenceInv, NEW h \in SUBSET commits.made,
         \A c \in h : History(c) \subseteq h, NEW w \in SUBSET Work,
         NewCommit(h, w), {trunk', head'} \subseteq {trunk, head, Fresh},
         dirty' \subseteq Work, registered' \in BOOLEAN,
         UNCHANGED <<reservation, pass>>
  PROVE  Moved
  BY NewCommitGrows DEF EvidenceInv, Moved, Grows, TypeOK

LEMMA HistoryClosed ==
  ASSUME EvidenceInv, NEW c \in commits.made
  PROVE  /\ History(c) \in SUBSET commits.made
         /\ \A d \in History(c) : History(d) \subseteq History(c)
         /\ Content(c) \in SUBSET Work
  BY DEF EvidenceInv, Histories, History, Content, TypeOK

LEMMA TrunkCommitMoved ==
  ASSUME EvidenceInv, NEW w \in SUBSET Work, TrunkCommit(w)
  PROVE  Moved
<1>1. trunk \in commits.made /\ dirty \subseteq Work /\ registered \in BOOLEAN
  BY DEF EvidenceInv, TypeOK
<1> QED BY <1>1, HistoryClosed, NewCommitMoved DEF TrunkCommit

LEMMA GitStepKeeps ==
  ASSUME EvidenceInv, GitStep
  PROVE  EvidenceInv'
<1> SUFFICES Moved
  BY MovedKeeps
<1>1. /\ trunk \in commits.made /\ head \in commits.made
      /\ dirty \subseteq Work /\ registered \in BOOLEAN
  BY DEF EvidenceInv, TypeOK
<1>2. /\ History(trunk) \in SUBSET commits.made
      /\ \A c \in History(trunk) : History(c) \subseteq History(trunk)
      /\ History(head) \in SUBSET commits.made
      /\ \A c \in History(head) : History(c) \subseteq History(head)
      /\ Content(trunk) \in SUBSET Work /\ Content(head) \in SUBSET Work
  BY <1>1, HistoryClosed
<1>3. ASSUME NEW w \in Work, Edit(w) PROVE Moved
  BY <1>1, <1>3, SameCommitsMoved DEF Edit
<1>4. ASSUME NEW w \in Work, Revert(w) PROVE Moved
  BY <1>2, <1>4, TrunkCommitMoved DEF Revert
<1>5. CASE CommitWork
  <2>1. NewCommit(History(head), Content(head) \cup dirty)
    BY <1>5 DEF CommitWork
  <2> QED BY <1>1, <1>2, <1>5, <2>1, NewCommitMoved DEF CommitWork
<1>6. CASE MergeBranch
  <2>1. CASE trunk \in History(head)
    BY <1>1, <1>6, <2>1, SameCommitsMoved DEF MergeBranch
  <2>2. CASE trunk \notin History(head)
    <3> DEFINE h == History(trunk) \cup History(head)
               w == Content(trunk) \cup Unmerged(trunk, head)
    <3>1. h \in SUBSET commits.made /\ \A c \in h : History(c) \subseteq h
      BY <1>2
    <3>2. w \in SUBSET Work
      BY <1>2 DEF Unmerged
    <3>3. NewCommit(h, w) /\ trunk' = Fresh /\ UNCHANGED <<head, dirty, registered, reservation, pass>>
      BY <1>6, <2>2 DEF MergeBranch
    <3> HIDE DEF h, w
    <3> QED BY <1>1, <3>1, <3>2, <3>3, NewCommitMoved
  <2> QED BY <2>1, <2>2
<1>7. CASE SquashBranch
  <2>1. Content(trunk) \cup Unmerged(trunk, head) \in SUBSET Work
    BY <1>2 DEF Unmerged
  <2> QED BY <1>7, <2>1, TrunkCommitMoved DEF SquashBranch
<1>8. CASE OthersCommit
  BY <1>2, <1>8, TrunkCommitMoved DEF OthersCommit
<1>9. ASSUME NEW c \in Commit, ResetTrunk(c) PROVE Moved
  BY <1>1, <1>2, <1>9, SameCommitsMoved DEF ResetTrunk
<1>10. ASSUME NEW c \in Commit, ResetBranch(c) PROVE Moved
  BY <1>1, <1>2, <1>10, SameCommitsMoved DEF ResetBranch
<1>11. CASE RemoveWorktree
  BY <1>1, <1>11, SameCommitsMoved DEF RemoveWorktree
<1> QED BY <1>3, <1>4, <1>5, <1>6, <1>7, <1>8, <1>9, <1>10, <1>11
        DEF GitStep

LEMMA GitStaysKeeps ==
  ASSUME EvidenceInv, UNCHANGED gitVars, Sound(reservation'),
         pass' \in [trunk : CommitOrNone, head : CommitOrNone,
                    orphaned : BOOLEAN, full : BOOLEAN],
         {pass'.trunk, pass'.head} \subseteq commits.made \cup {None}
  PROVE  EvidenceInv'
<1>1. TypeOK'
  BY DEF EvidenceInv, TypeOK, gitVars, Sound
<1>2. Histories'
  BY DEF EvidenceInv, Histories, History, gitVars
<1>3. Sound(reservation)'
  BY DEF gitVars, Sound, Staged, Proven, ProofSound, Found, VerdictSound,
         WorkReached, WorkAt, Phase, Content, History
<1> QED BY <1>1, <1>2, <1>3 DEF EvidenceInv

LEMMA ReadsKeep ==
  ASSUME EvidenceInv, ReadTrunk \/ ReadRegistry
  PROVE  EvidenceInv'
<1>1. /\ pass' \in [trunk : CommitOrNone, head : CommitOrNone,
                    orphaned : BOOLEAN, full : BOOLEAN]
      /\ {pass'.trunk, pass'.head} \subseteq commits.made \cup {None}
  <2>1. /\ pass \in [trunk : CommitOrNone, head : CommitOrNone,
                     orphaned : BOOLEAN, full : BOOLEAN]
        /\ {pass.trunk, pass.head} \subseteq commits.made \cup {None}
        /\ trunk \in commits.made /\ head \in commits.made
        /\ commits.made \subseteq CommitOrNone /\ None \in CommitOrNone
        /\ registered \in BOOLEAN
    BY DEF EvidenceInv, TypeOK, CommitOrNone
  <2>2. CASE ReadTrunk
    BY <2>1, <2>2 DEF ReadTrunk
  <2>3. CASE ReadRegistry
    <3>1. \/ pass' = [pass EXCEPT !.head = head, !.orphaned = FALSE, !.full = FALSE]
          \/ pass' = [pass EXCEPT !.head = None, !.orphaned = TRUE, !.full = FALSE]
      BY <2>1, <2>3 DEF ReadRegistry
    <3> QED BY <2>1, <3>1
  <2> QED BY <2>2, <2>3
<1>2. UNCHANGED gitVars /\ Sound(reservation')
  BY DEF EvidenceInv, ReadTrunk, ReadRegistry
<1> QED BY <1>1, <1>2, GitStaysKeeps

\* However much of a sound plan is appended, and whatever a verb leaves.
LEMMA NothingReadKeeps ==
  ASSUME EvidenceInv, NEW full \in BOOLEAN, pass' = NextPass(full),
         UNCHANGED gitVars, Sound(reservation')
  PROVE  EvidenceInv'
<1>1. /\ pass' \in [trunk : CommitOrNone, head : CommitOrNone,
                    orphaned : BOOLEAN, full : BOOLEAN]
      /\ {pass'.trunk, pass'.head} \subseteq commits.made \cup {None}
  BY DEF NextPass, CommitOrNone
<1> QED BY <1>1, GitStaysKeeps

LEMMA AppendKeeps ==
  ASSUME EvidenceInv, NEW plan, PlanSound(plan), NEW answered,
         AppendPlan(plan, answered)
  PROVE  EvidenceInv'
<1>1. PICK n \in 0 .. Len(plan) :
         /\ reservation' = Leaves(plan, n)
         /\ pass' = NextPass(answered /\ n = Len(plan))
  BY DEF AppendPlan
<1>2. Sound(reservation')
  <2>1. CASE n = 0
    BY <1>1, <2>1 DEF Leaves, EvidenceInv
  <2>2. CASE n # 0
    <3>1. n \in 1 .. Len(plan)
      BY <2>2
    <3> QED BY <1>1, <2>2, <3>1 DEF Leaves, PlanSound
  <2> QED BY <2>1, <2>2
<1>3. (answered /\ n = Len(plan)) \in BOOLEAN
  OBVIOUS
<1>4. UNCHANGED gitVars
  BY DEF AppendPlan
<1> QED BY <1>1, <1>2, <1>3, <1>4, NothingReadKeeps

LEMMA PassExtentRead ==
  ASSUME EvidenceInv, NEW succeeds \in BOOLEAN, Seen(succeeds)
  PROVE  /\ PassExtent(reservation, succeeds) \in Extents
         /\ FreshEmpty(PassExtent(reservation, succeeds)) =>
               pass.head \in commits.made
<1>1. CASE succeeds
  <2>1. pass.head \in commits.made
    BY <1>1 DEF Seen, EvidenceInv, TypeOK
  <2>2. DerivedExtent(pass.trunk, pass.head, dirty) \in Extents
    BY DEF DerivedExtent, Extent, Extents
  <2> QED BY <1>1, <2>1, <2>2 DEF PassExtent
<1>2. CASE ~succeeds
  <2>1. reservation.extent \in Extents
    BY DEF EvidenceInv, TypeOK, Records
  <2>2. /\ UnavailableExtent(reservation.extent) \in Extents
        /\ ~UnavailableExtent(reservation.extent).available
    BY <2>1 DEF UnavailableExtent, Extents
  <2> QED BY <1>2, <2>2 DEF PassExtent, FreshEmpty
<1> QED BY <1>1, <1>2

LEMMA ActivePassKeeps ==
  ASSUME EvidenceInv, NEW succeeds \in BOOLEAN, NEW ends \in BOOLEAN,
         ActivePass(succeeds, ends)
  PROVE  EvidenceInv'
<1> DEFINE e == PassExtent(reservation, succeeds)
           plan == ActivePlan(reservation, pass.trunk, pass.head, e,
                              pass.orphaned, ends)
<1>1. /\ TypeOK /\ Histories /\ Sound(reservation)
      /\ reservation.stage = "Active" /\ pass.orphaned \in BOOLEAN
      /\ pass.trunk \in commits.made
  BY DEF EvidenceInv, ActivePass, ReadsDone, TypeOK
<1>2. e \in Extents /\ (FreshEmpty(e) => pass.head \in commits.made)
  BY PassExtentRead DEF ActivePass
<1>3. AppendPlan(plan, ends /\ (succeeds \/ pass.orphaned))
  BY DEF ActivePass
<1> HIDE DEF e
<1>4. PlanSound(plan)
  BY <1>1, <1>2, ActivePlanSound
<1> HIDE DEF plan
<1> QED BY <1>3, <1>4, AppendKeeps

LEMMA OutstandingPassKeeps ==
  ASSUME EvidenceInv, NEW succeeds \in BOOLEAN, OutstandingPass(succeeds)
  PROVE  EvidenceInv'
<1> DEFINE e == PassExtent(reservation, succeeds)
<1>1. /\ TypeOK /\ Histories /\ Sound(reservation)
      /\ reservation.stage = "Outstanding" /\ pass.trunk \in commits.made
  BY DEF EvidenceInv, OutstandingPass, ReadsDone, TypeOK
<1>2. e \in Extents
  BY PassExtentRead DEF OutstandingPass
<1>3. PICK answer \in Answers(reservation.tip, pass.trunk) :
         AppendPlan(OutstandingPlan(reservation, pass.trunk, e, answer),
                    Definite(answer) /\ (succeeds \/ pass.orphaned))
  BY DEF OutstandingPass, PassAnswers
<1> HIDE DEF e
<1>4. PlanSound(OutstandingPlan(reservation, pass.trunk, e, answer))
  BY <1>1, <1>2, OutstandingPlanSound
<1> QED BY <1>3, <1>4, AppendKeeps

LEMMA JudgingPassKeeps ==
  ASSUME EvidenceInv, ReleasedPass \/ HookPass
  PROVE  EvidenceInv'
<1>1. /\ TypeOK /\ Histories /\ Sound(reservation) /\ pass.trunk \in commits.made
  BY DEF EvidenceInv, ReleasedPass, HookPass, ReadsDone, TypeOK
<1>2. CASE ReleasedPass /\ ~GitBacked(reservation)
  <2>1. AppendPlan(<<>>, TRUE)
    BY <1>2 DEF ReleasedPass
  <2>2. PlanSound(<<>>)
    BY DEF PlanSound
  <2> QED BY <2>1, <2>2, AppendKeeps
<1>3. CASE ReleasedPass /\ GitBacked(reservation)
  <2>1. PICK answer \in Answers(reservation.tip, pass.trunk) :
           AppendPlan(ReleasedPlan(reservation, pass.trunk, answer),
                      Definite(answer))
    BY <1>3 DEF ReleasedPass, PassAnswers
  <2>2. PlanSound(ReleasedPlan(reservation, pass.trunk, answer))
    BY <1>1, <1>3, ReleasedPlanSound DEF Judgeable
  <2> QED BY <2>1, <2>2, AppendKeeps
<1>4. CASE HookPass
  <2>1. PICK answer \in Answers(reservation.tip, pass.trunk) :
           AppendPlan(HookPlan(reservation, pass.trunk, answer), FALSE)
    BY <1>4 DEF HookPass, PassAnswers
  <2>2. PlanSound(HookPlan(reservation, pass.trunk, answer))
    BY <1>1, <1>4, ReleasedPlanSound DEF HookPass, TakesEvidence, Judgeable
  <2> QED BY <2>1, <2>2, AppendKeeps
<1> QED BY <1>2, <1>3, <1>4

LEMMA VerbStepKeeps ==
  ASSUME EvidenceInv, VerbStep
  PROVE  EvidenceInv'
<1>1. ASSUME NEW invoking \in BOOLEAN, NEW readable \in BOOLEAN,
             Release(invoking, readable)
      PROVE  EvidenceInv'
  <2> DEFINE plan == VerbPlan(invoking, readable)
  <2>1. PlanSound(plan)
    BY <1>1, VerbPlanSound DEF Release
  <2>2. /\ \E n \in 1 .. Len(plan) : reservation' = plan[n]
        /\ pass' = NextPass(FALSE) /\ UNCHANGED gitVars
    BY <1>1 DEF Release, Unread
  <2> HIDE DEF plan
  <2>3. Sound(reservation')
    BY <2>1, <2>2 DEF PlanSound
  <2> QED BY <2>2, <2>3, NothingReadKeeps
<1>2. CASE ReleaseKeptOnBranch
  <2>1. Sound(reservation')
    BY <1>2, DecisionSound DEF ReleaseKeptOnBranch, EvidenceInv
  <2> QED BY <1>2, <2>1, NothingReadKeeps DEF ReleaseKeptOnBranch, Unread
<1> QED BY <1>1, <1>2 DEF VerbStep

LEMMA NextKeeps ==
  ASSUME EvidenceInv, [Next]_vars
  PROVE  EvidenceInv'
<1>1. CASE GitStep
  BY <1>1, GitStepKeeps
<1>2. CASE PassStep
  BY <1>2, ReadsKeep, ActivePassKeeps, OutstandingPassKeeps, JudgingPassKeeps
     DEF PassStep, PassAppends
<1>3. CASE VerbStep
  BY <1>3, VerbStepKeeps
<1>4. CASE UNCHANGED vars
  <2>1. UNCHANGED gitVars /\ Sound(reservation')
    BY <1>4 DEF EvidenceInv, vars, gitVars
  <2>2. pass' = pass
    BY <1>4 DEF vars
  <2> QED BY <2>1, <2>2, GitStaysKeeps DEF EvidenceInv, TypeOK
<1> QED BY <1>1, <1>2, <1>3, <1>4 DEF Next

-----------------------------------------------------------------------------

THEOREM EvidenceInvariant == Spec => []EvidenceInv
<1>1. Init => EvidenceInv
  BY Begins
<1>2. EvidenceInv /\ [Next]_vars => EvidenceInv'
  BY NextKeeps
<1> QED BY <1>1, <1>2, PTL DEF Spec

\* The record stays of its type, and git's branches and what a pass read of
\* them name commits that were made.
THEOREM TypeCorrect == Spec => []TypeOK
<1>1. EvidenceInv => TypeOK
  BY DEF EvidenceInv
<1> QED BY <1>1, EvidenceInvariant, PTL

\* What the ledger holds of a reservation is true of its phase, whatever git
\* and the passes did, and every operation of every plan replayed.
THEOREM RecordsSound == Spec => []RecordSound
<1>1. EvidenceInv => RecordSound
  BY DEF EvidenceInv, Sound, Proven, Found, RecordSound
<1> QED BY <1>1, EvidenceInvariant, PTL

-----------------------------------------------------------------------------
(* An ending by a pass. *)

Ends(plan) ==
    \E n \in 1 .. Len(plan) : plan[n].stage = "Released" /\ GitBacked(plan[n])

LEMMA StageKept ==
  ASSUME NEW r \in Records, NEW status, NEW verdicts, NEW e
  PROVE  /\ ApplyExtent(r, e).stage = r.stage
         /\ RecordEvidence(r, status).stage = r.stage
         /\ RecordVerdicts(RecordEvidence(r, status), verdicts).stage = r.stage
  BY DEF Records, ApplyExtent, RecordEvidence, RecordVerdicts, ApplyEvidence,
         ApplyVerdict, Replayed

LEMMA ExtentRecord ==
  ASSUME NEW r \in Records, NEW e \in Extents
  PROVE  ApplyExtent(r, e) \in Records
  BY DEF ApplyExtent, Records

LEMMA ActivePlanEnds ==
  ASSUME NEW r \in Records, r.stage = "Active", NEW t, NEW h, NEW e \in Extents,
         NEW orphaned, NEW ends, Ends(ActivePlan(r, t, h, e, orphaned, ends))
  PROVE  FreshEmpty(e)
<1> SUFFICES ASSUME ~FreshEmpty(e) PROVE FALSE
  OBVIOUS
<1> DEFINE extended == ApplyExtent(r, e)
           retired == ApplyRelease(extended, "RetiredOrphan", None)
<1>1. extended \in Records /\ extended.stage = "Active"
  BY ExtentRecord, StageKept
<1>2. ActivePlan(r, t, h, e, orphaned, ends) \in
         {<<extended, retired>>, <<extended>>}
  BY DEF ActivePlan, MergedRun
<1> HIDE DEF extended
<1>3. ~GitBacked(retired)
  BY <1>1 DEF ApplyRelease, End, Replayed, GitBacked, Records
<1> HIDE DEF retired
<1>4. ~Ends(<<extended, retired>>) /\ ~Ends(<<extended>>)
  BY <1>1, <1>3 DEF Ends
<1> QED BY <1>2, <1>4

LEMMA OutstandingPlanEnds ==
  ASSUME NEW r \in Records, r.stage = "Outstanding", NEW t, NEW e \in Extents,
         NEW answer, Ends(OutstandingPlan(r, t, e, answer))
  PROVE  FreshEmpty(e)
<1> SUFFICES ASSUME ~FreshEmpty(e) PROVE FALSE
  OBVIOUS
<1> DEFINE observed == PassObservation(r, t, answer)
           status == RecordedStatus(r, e, observed)
           extended == ApplyExtent(r, e)
           judged == RecordEvidence(extended, status)
           both == RecordVerdicts(judged, observed.verdicts)
<1>1. OutstandingPlan(r, t, e, answer) = <<extended, judged, both>>
  BY DEF OutstandingPlan
<1>2. extended \in Records /\ extended.stage = "Outstanding"
  BY ExtentRecord, StageKept
<1> HIDE DEF extended, observed, status
<1>3. judged.stage = "Outstanding" /\ both.stage = "Outstanding"
  BY <1>2, StageKept
<1> HIDE DEF judged, both
<1>4. ~Ends(<<extended, judged, both>>)
  BY <1>2, <1>3 DEF Ends
<1> QED BY <1>1, <1>4

LEMMA EmptyExtent ==
  ASSUME NEW succeeds, FreshEmpty(PassExtent(reservation, succeeds)),
         reservation \in Records
  PROVE  Unmerged(pass.trunk, pass.head) \cup dirty = {}
<1>1. succeeds
  BY DEF FreshEmpty, PassExtent, UnavailableExtent, Records, Extents
<1>2. DerivedExtent(pass.trunk, pass.head, dirty).kind = "Empty"
  BY <1>1 DEF FreshEmpty, PassExtent
<1> QED BY <1>2 DEF DerivedExtent, Extent

LEMMA AppendEnds ==
  ASSUME NEW plan, NEW answered, AppendPlan(plan, answered), EndsIntegrated
  PROVE  Ends(plan)
<1>1. PICK n \in 0 .. Len(plan) : reservation' = Leaves(plan, n)
  BY DEF AppendPlan
<1>2. n # 0
  BY <1>1 DEF Leaves, EndsIntegrated
<1>3. n \in 1 .. Len(plan) /\ reservation' = plan[n]
  BY <1>1, <1>2 DEF Leaves
<1> QED BY <1>3 DEF Ends, EndsIntegrated

LEMMA EndingLeavesNothing ==
  ASSUME EvidenceInv, PassAppends, EndsIntegrated
  PROVE  Unmerged(pass.trunk, pass.head) \cup dirty = {}
<1>1. reservation \in Records /\ reservation.stage # "Released"
  BY DEF EvidenceInv, TypeOK, EndsIntegrated
<1>2. ASSUME NEW succeeds \in BOOLEAN, NEW ends \in BOOLEAN,
             ActivePass(succeeds, ends)
      PROVE  Unmerged(pass.trunk, pass.head) \cup dirty = {}
  <2> DEFINE e == PassExtent(reservation, succeeds)
             plan == ActivePlan(reservation, pass.trunk, pass.head, e,
                                pass.orphaned, ends)
  <2>1. e \in Extents /\ reservation.stage = "Active"
    BY <1>2, PassExtentRead DEF ActivePass
  <2>2. AppendPlan(plan, ends /\ (succeeds \/ pass.orphaned))
    BY <1>2 DEF ActivePass
  <2> HIDE DEF plan
  <2>3. Ends(plan)
    BY <2>2, AppendEnds
  <2>4. FreshEmpty(e)
    BY <1>1, <2>1, <2>3, ActivePlanEnds DEF plan
  <2> QED BY <1>1, <2>4, EmptyExtent
<1>3. ASSUME NEW succeeds \in BOOLEAN, OutstandingPass(succeeds)
      PROVE  Unmerged(pass.trunk, pass.head) \cup dirty = {}
  <2> DEFINE e == PassExtent(reservation, succeeds)
  <2>1. e \in Extents /\ reservation.stage = "Outstanding"
    BY <1>3, PassExtentRead DEF OutstandingPass
  <2>2. PICK answer \in PassAnswers :
           AppendPlan(OutstandingPlan(reservation, pass.trunk, e, answer),
                      Definite(answer) /\ (succeeds \/ pass.orphaned))
    BY <1>3 DEF OutstandingPass
  <2>3. Ends(OutstandingPlan(reservation, pass.trunk, e, answer))
    BY <2>2, AppendEnds
  <2>4. FreshEmpty(e)
    BY <1>1, <2>1, <2>3, OutstandingPlanEnds
  <2> QED BY <1>1, <2>4, EmptyExtent
<1>4. ~ReleasedPass
  BY <1>1 DEF ReleasedPass
<1> QED BY <1>2, <1>3, <1>4 DEF PassAppends

\* A pass ends a reservation as integrated only when nothing was left to merge,
\* where the branch has not moved since the registry was read.
THEOREM SettlesWithNothingLeft == Spec => SettledWithNothingLeft
<1>1. EvidenceInv /\ [Next]_vars =>
         [EndsIntegrated /\ head = pass.head /\ PassAppends => NothingLeft]_vars
  BY EndingLeavesNothing DEF NothingLeft
<1> QED BY <1>1, EvidenceInvariant, PTL DEF Spec, SettledWithNothingLeft
=============================================================================
