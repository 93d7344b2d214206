------------------------- MODULE ReservationReplay -------------------------
(***************************************************************************)
(* What replay folds from journal records: the retained reservations, the  *)
(* incursion incidents, the clock of finished history and the account of   *)
(* superseded extent observations.  A record is reduced to its operation,  *)
(* its subjects (`about`), every reservation its wire form names (`refs`), *)
(* its time (`at`) and one argument.                                       *)
(***************************************************************************)
EXTENDS Naturals, FiniteSets

\* An extent observation: successful emptiness ends merge protection.  Two
\* empty observations differ in the key they were taken under.
Extents == {"work", "empty 0", "empty 1"}
IsEmpty(extent) == extent \in {"empty 0", "empty 1"}

\* Dispositions that rest on git evidence; a decision (unchanged scopes, work
\* kept or abandoned, a retired orphan) has none to revalidate.
Evidenced == {"integrated", "rewritten"}

\* JournalOperation: what a record may be, as far as replay tells them apart.
JournalOperations ==
    {"claim", "extent", "renew", "widen", "retarget", "checkpoint", "resnapshot",
     "evidence", "release", "replace", "sequence", "incursion", "resolve"}

Terminal(r) ==
    \/ r.stage = "released"
    \/ r.stage = "outstanding" /\ IsEmpty(r.extent)

\* What g maps, and f over it: the map after each entry of f is inserted.
Over(f, g) == [x \in DOMAIN f \cup DOMAIN g |-> IF x \in DOMAIN f THEN f[x] ELSE g[x]]

Bumped(r) == [r EXCEPT !.revision = @ + 1]

----------------------------------------------------------------------------
(* RetainedReservationSet::apply: which records are accepted, and the        *)
(* reservation each one leaves.                                              *)

NewReservation ==
    [stage |-> "active", disposition |-> "none", tip |-> FALSE, base |-> "claim",
     integrated |-> FALSE, extent |-> "underived", revision |-> 1]

\* The lifecycle transitions and the checks around them.
Accepts(retained, x) ==
    LET known == DOMAIN retained
    IN CASE x.op = "claim" -> \A r \in x.about : r \notin known
         [] x.op = "sequence" -> TRUE
         [] x.op \in {"extent", "renew"} -> x.about \subseteq known
         [] OTHER ->
              \A r \in x.about :
                /\ r \in known
                /\ LET stage == retained[r].stage IN
                   CASE x.op \in {"widen", "retarget"} -> stage # "released"
                     [] x.op = "checkpoint" -> stage = "active"
                     [] x.op = "resnapshot" -> stage = x.arg
                     [] x.op = "release" ->
                          IF x.arg = "decision" THEN stage # "released"
                          ELSE /\ stage = "outstanding"
                               /\ x.arg = "integrated" => retained[r].integrated
                     [] x.op = "replace" ->
                          stage = "released" /\ x.arg # "integrated"
                     [] x.op = "evidence" ->
                          \/ stage = "outstanding"
                          \/ stage = "released" /\ retained[r].disposition \in Evidenced

\* Mutant: a retarget always reanchors the comparison at the claim.
AppliedRetargetingClaims(r, x) ==
    CASE x.op = "extent" -> [r EXCEPT !.extent = x.arg]
      [] x.op = "retarget" -> Bumped([r EXCEPT !.base = "claim", !.integrated = FALSE])
      [] x.op = "checkpoint" ->
           Bumped([r EXCEPT !.stage = "outstanding", !.tip = TRUE, !.base = "checkpoint",
                            !.integrated = FALSE])
      [] x.op = "release" -> Bumped([r EXCEPT !.stage = "released", !.disposition = x.arg])
      [] OTHER -> r

\* One subject of a record after it.
Applied(r, x) ==
    CASE x.op = "extent" -> [r EXCEPT !.extent = x.arg]
      [] x.op = "renew" -> Bumped(r)
      [] x.op = "widen" ->
           Bumped([r EXCEPT !.integrated = @ /\ r.stage # "outstanding"])
      [] x.op = "retarget" ->
           Bumped([r EXCEPT !.base = IF r.stage = "active" THEN "claim" ELSE "checkpoint",
                            !.integrated = FALSE])
      [] x.op = "checkpoint" ->
           Bumped([r EXCEPT !.stage = "outstanding", !.tip = TRUE, !.base = "checkpoint",
                            !.integrated = FALSE])
      [] x.op = "resnapshot" ->
           Bumped(IF x.arg = "active" THEN r
                  ELSE [r EXCEPT !.tip = TRUE, !.base = "checkpoint", !.integrated = FALSE])
      [] x.op = "release" ->
           Bumped([r EXCEPT !.stage = "released", !.disposition = x.arg,
                            !.integrated = @ \/ x.arg = "rewritten"])
      [] x.op = "replace" ->
           Bumped([r EXCEPT !.disposition = x.arg,
                            !.integrated = @ \/ x.arg = "rewritten"])
      [] x.op = "evidence" -> Bumped([r EXCEPT !.integrated = x.arg])

RetainedAfter(retained, x) ==
    CASE x.op = "claim" -> Over([r \in x.about |-> NewReservation], retained)
      [] x.op \in {"sequence", "incursion", "resolve"} -> retained
      [] OTHER -> Over([r \in x.about |-> Applied(retained[r], x)], retained)

\* What evidence_state reads back from a reservation without an error.
EvidenceState(r) ==
    CASE r.stage = "active" -> IF r.base = "claim" THEN "active" ELSE "error"
      [] r.stage = "outstanding" ->
           IF r.tip /\ r.base = "checkpoint" THEN "outstanding" ELSE "error"
      [] r.stage = "released" ->
           IF r.tip THEN (IF r.base = "checkpoint" THEN "released" ELSE "error")
           ELSE IF r.disposition = "decision" THEN "released without checkpoint"
           ELSE "error"

----------------------------------------------------------------------------
(* Incursion incidents: open until resolved, whatever happens to the branch. *)

IncidentsAfter(incidents, x) ==
    CASE x.op = "incursion" -> Over([i \in {x.arg} |-> [refs |-> x.refs, open |-> TRUE]], incidents)
      [] x.op = "resolve" -> [incidents EXCEPT ![x.arg].open = FALSE]
      [] OTHER -> incidents

AcceptsIncident(retained, incidents, x) ==
    CASE x.op = "incursion" -> x.arg \notin DOMAIN incidents /\ x.about \subseteq DOMAIN retained
      [] x.op = "resolve" -> x.arg \in DOMAIN incidents /\ incidents[x.arg].open
      [] OTHER -> TRUE

----------------------------------------------------------------------------
(* FinishedHistory::observe: when a reservation entered its terminal state.  *)

Terminating == {"release", "replace", "checkpoint", "resnapshot", "extent"}

\* Subjects whose clock this record starts, or replaces.
Started(finished, retained, x) ==
    {r \in x.about : /\ x.op \in Terminating
                     /\ Terminal(retained[r])
                     /\ x.op \in {"release", "replace"} \/ r \notin DOMAIN finished}

Ended(finished, retained, x) ==
    {r \in x.about : x.op \in Terminating /\ ~Terminal(retained[r]) /\ r \in DOMAIN finished}

FinishedAfter(finished, retained, x) ==
    LET started == Started(finished, retained, x)
        ended == Ended(finished, retained, x)
    IN [r \in (DOMAIN finished \ ended) \cup started |->
          IF r \in started THEN x.at ELSE finished[r]]

----------------------------------------------------------------------------
(* SupersededExtents: which observations compaction can drop.                *)

NoExtents == [latest |-> <<>>, live |-> <<>>, roots |-> <<>>, droppable |-> 0]

\* The observations `lost` stop naming are dropped when nothing else names them.
Unnamed(s, pointers, lost) ==
    LET fewer(o) == Cardinality({r \in lost : pointers[r] = o})
        dropped == {o \in DOMAIN s.live : fewer(o) > 0 /\ s.live[o] = fewer(o)}
    IN [s EXCEPT !.live = [o \in DOMAIN s.live \ dropped |-> s.live[o] - fewer(o)],
                 !.droppable = @ + Cardinality(dropped)]

\* The record at `ordinal` becomes the latest observation of its subjects.
Observed(s, ordinal, x) ==
    IF x.op # "extent" THEN s
    ELSE LET t == Unnamed(s, s.latest, x.about \cap DOMAIN s.latest)
         IN [t EXCEPT !.latest = Over([r \in x.about |-> ordinal], @),
                      !.live = Over([o \in {ordinal} |-> Cardinality(x.about)], @)]

\* Mutant: a clock that is replaced does not let go of its first observation.
HistoryObservedForever(s, ordinal, x, started, ended) ==
    LET rooted == IF x.op = "extent" THEN started ELSE {}
        roots == [r \in DOMAIN s.roots \ (started \cup ended) |-> s.roots[r]]
        live == IF rooted = {} THEN s.live
                ELSE [s.live EXCEPT ![ordinal] = @ + Cardinality(rooted)]
    IN [s EXCEPT !.roots = Over([r \in rooted |-> ordinal], roots), !.live = live]

\* The observation that started a clock is held until the clock is replaced.
HistoryObserved(s, ordinal, x, started, ended) ==
    LET t == Unnamed(s, s.roots, (started \cup ended) \cap DOMAIN s.roots)
        rooted == IF x.op = "extent" THEN started ELSE {}
        roots == [r \in DOMAIN s.roots \ (started \cup ended) |-> s.roots[r]]
        live == IF rooted = {} THEN t.live
                ELSE [t.live EXCEPT ![ordinal] = @ + Cardinality(rooted)]
    IN [t EXCEPT !.roots = Over([r \in rooted |-> ordinal], roots), !.live = live]

----------------------------------------------------------------------------
(* JournalReplay::apply_record.                                              *)

Coordination == {"claim", "sequence"}

EmptyReplay ==
    [retained |-> <<>>, incidents |-> <<>>, finished |-> <<>>, superseded |-> NoExtents,
     coordination |-> {}, count |-> 0, generation |-> 0, failed |-> FALSE]

ApplyRecord(replay, x) ==
    LET accepted == /\ ~replay.failed
                    /\ x.op \in {"incursion", "resolve"} \/ Accepts(replay.retained, x)
                    /\ AcceptsIncident(replay.retained, replay.incidents, x)
        retained == IF accepted THEN RetainedAfter(replay.retained, x) ELSE replay.retained
        started == IF accepted THEN Started(replay.finished, retained, x) ELSE {}
        ended == IF accepted THEN Ended(replay.finished, retained, x) ELSE {}
    IN [retained     |-> retained,
        incidents    |-> IF accepted THEN IncidentsAfter(replay.incidents, x)
                         ELSE replay.incidents,
        finished     |-> IF accepted THEN FinishedAfter(replay.finished, retained, x)
                         ELSE replay.finished,
        superseded   |-> HistoryObserved(Observed(replay.superseded, replay.count, x),
                                         replay.count, x, started, ended),
        coordination |-> IF x.op \in Coordination
                         THEN replay.coordination \cup {x.generation} ELSE replay.coordination,
        count        |-> replay.count + 1,
        generation   |-> x.generation,
        failed       |-> ~accepted]
=============================================================================
