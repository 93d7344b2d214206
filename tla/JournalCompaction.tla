------------------------- MODULE JournalCompaction -------------------------
(***************************************************************************)
(* Which records a compaction drops.  Verbs append records that replay     *)
(* accepts; a compaction plans a rewrite of the journal as it reads it,    *)
(* verifies that the rewrite replays to what it pruned the original to,     *)
(* and publishes it under the lock, after the records that were committed   *)
(* meanwhile.  BerthLedger has the files and the lock; here is the content. *)
(***************************************************************************)
EXTENDS ReservationReplay, Sequences, SequencesExt

CONSTANTS
    Reservations,  \* reservation identities
    Incidents,     \* incursion incident identities
    Operations,    \* the operations the verbs record
    Retention,     \* FINISHED_HISTORY_RETENTION, in ticks
    MaxRecords,    \* bound: records ever appended
    MaxTime,       \* bound: ticks of the clock
    None           \* no rewrite is prepared

ASSUME CompactionAssumption ==
    /\ Retention \in Nat /\ MaxRecords \in Nat /\ MaxTime \in Nat
    /\ Operations \subseteq JournalOperations

VARIABLES
    journal,   \* the complete records, in append order
    replay,    \* what a replay of the journal holds
    now,       \* the clock
    prepared,  \* None, or [kept, upto, exact]: the rewrite that was verified
    refused    \* a rewrite did not replay to the pruned original

vars == <<journal, replay, now, prepared, refused>>

Init ==
    /\ journal = <<>>
    /\ replay = EmptyReplay
    /\ now = 0
    /\ prepared = None
    /\ refused = FALSE

Replayed(records) == FoldLeft(ApplyRecord, EmptyReplay, records)

----------------------------------------------------------------------------
(* The records verbs append.                                                *)

Arguments(op) ==
    CASE op = "extent" -> Extents
      [] op = "release" -> Evidenced \cup {"decision"}
      [] op = "replace" -> {"rewritten", "decision"}
      [] op = "resnapshot" -> {"active", "outstanding"}
      [] op = "evidence" -> BOOLEAN
      [] op \in {"incursion", "resolve"} -> Incidents
      [] OTHER -> {"none"}

\* One holder observation names every reservation it was shared by; a claim or
\* an incursion may name the holders it met; a sequence names two.
Subjects(op) ==
    CASE op = "extent" -> (SUBSET Reservations) \ {{}}
      [] op = "sequence" -> {s \in SUBSET Reservations : Cardinality(s) = 2}
      [] op = "resolve" -> {{}}
      [] OTHER -> {{r} : r \in Reservations}

References(op, about) ==
    IF op \in {"claim", "incursion"}
    THEN {about \cup more : more \in SUBSET DOMAIN replay.retained}
    ELSE {about}

\* What the verbs ask beyond what replay accepts: an observation is recorded
\* of unreleased reservations it changes, an order is declared between known
\* reservations, and a disposition is replaced once its git evidence is lost.
Recorded(x) ==
    /\ x.op = "sequence" => x.about \subseteq DOMAIN replay.retained
    /\ x.op = "extent" =>
          \A r \in x.about : /\ replay.retained[r].stage # "released"
                             /\ replay.retained[r].extent # x.arg
    /\ x.op = "replace" =>
          \A r \in x.about : /\ replay.retained[r].disposition \in Evidenced
                             /\ ~replay.retained[r].integrated

Record(op) ==
    \E about \in Subjects(op), arg \in Arguments(op) :
    \E refs \in References(op, about) :
        LET x == [op |-> op, about |-> about, refs |-> refs, arg |-> arg, at |-> now,
                  generation |-> replay.generation + 1]
            next == ApplyRecord(replay, x)
        IN /\ replay.generation < MaxRecords
           /\ ~next.failed
           /\ Recorded(x)
           /\ journal' = Append(journal, x)
           /\ replay' = next
           /\ UNCHANGED <<now, prepared, refused>>

Tick ==
    /\ now < MaxTime
    /\ now' = now + 1
    /\ UNCHANGED <<journal, replay, prepared, refused>>

----------------------------------------------------------------------------
(* ExpiredHistory: finished reservations nothing retained still needs.      *)

\* Mutant: the account's zero-based ordinals are read as one-based.
KeptExtentOneBased(full, o) == o \in DOMAIN full.superseded.live

KeptExtent(full, o) == o - 1 \in DOMAIN full.superseded.live

\* Whether the record at o is anything but a superseded observation.
KeepsObservation(full, records, o) == records[o].op = "extent" => KeptExtent(full, o)

\* A resolution refers to what its incident refers to.
RefsOf(full, x) ==
    (IF x.op = "resolve" THEN full.incidents[x.arg].refs ELSE x.refs)
        \cap DOMAIN full.retained

Recent(full) ==
    {r \in DOMAIN full.retained :
        r \in DOMAIN full.finished => now - full.finished[r] <= Retention}

Unsettled(full) ==
    {r \in DOMAIN full.retained :
        \/ EvidenceState(full.retained[r]) \in {"outstanding", "error"}
        \/ /\ EvidenceState(full.retained[r]) = "released"
           /\ full.retained[r].disposition \in Evidenced
           /\ ~full.retained[r].integrated}

OpenIncidents(full) ==
    (UNION {full.incidents[i].refs : i \in {j \in DOMAIN full.incidents : full.incidents[j].open}})
        \cap DOMAIN full.retained

\* Mutant: an open incident does not hold the reservations it names.
SeedsWithoutIncidents(full, records) ==
    Recent(full) \cup Unsettled(full)
        \cup (IF records = <<>> THEN {} ELSE RefsOf(full, records[Len(records)]))

Seeds(full, records) ==
    Recent(full) \cup Unsettled(full) \cup OpenIncidents(full)
        \cup (IF records = <<>> THEN {} ELSE RefsOf(full, records[Len(records)]))

\* Mutant: only the seeds are retained, not what their records refer to.
RetainedSeeds(full, records) == Seeds(full, records)

\* The least set with the seeds and everything a kept record ties to them.
RetainedClosure(full, records) ==
    LET known == DOMAIN full.retained
        closed(S) == \A o \in DOMAIN records :
                        LET refs == RefsOf(full, records[o])
                        IN KeepsObservation(full, records, o) /\ refs \cap S # {}
                              => refs \subseteq S
    IN {r \in known :
          \A S \in SUBSET known : Seeds(full, records) \subseteq S /\ closed(S) => r \in S}

Expired(full, records) == DOMAIN full.retained \ RetainedClosure(full, records)

----------------------------------------------------------------------------
(* CompactionPlan::of, and what the rewrite must replay to.                 *)

KeepsRecord(full, records, expired, o) ==
    /\ KeepsObservation(full, records, o)
    /\ LET refs == RefsOf(full, records[o]) IN refs = {} \/ ~(refs \subseteq expired)

\* The records it keeps, in their order.
Kept(full, records, expired) ==
    LET Keeping(kept, o) == IF KeepsRecord(full, records, expired, o)
                            THEN Append(kept, records[o]) ELSE kept
    IN FoldLeftDomain(Keeping, <<>>, records)

\* ExpiredHistory::prune: the fold the rewrite is expected to have.
Pruned(full, records, expired) ==
    [reservations |-> [r \in DOMAIN full.retained \ expired |-> full.retained[r]],
     incidents    |-> LET kept == {i \in DOMAIN full.incidents :
                                      full.incidents[i].refs \cap expired = {}}
                      IN [i \in kept |-> full.incidents[i]],
     coordination |-> {records[o].generation :
                         o \in {q \in DOMAIN records :
                                  /\ records[q].op \in Coordination
                                  /\ records[q].refs \cap expired = {}}},
     generation   |-> full.generation]

PrunedClocks(full, expired) ==
    [r \in DOMAIN full.finished \ expired |-> full.finished[r]]

Content(full) ==
    [reservations |-> full.retained, incidents |-> full.incidents,
     coordination |-> full.coordination, generation |-> full.generation]

\* The two halves of replays_agree.
ContentAgrees(full, records, expired) ==
    LET compacted == Replayed(Kept(full, records, expired))
    IN /\ ~compacted.failed
       /\ Content(compacted) = Pruned(full, records, expired)

ClocksAgree(full, records, expired) ==
    Replayed(Kept(full, records, expired)).finished = PrunedClocks(full, expired)

NothingToCompact(full, expired) == full.superseded.droppable = 0 /\ expired = {}

Prepare ==
    LET expired == Expired(replay, journal)
    IN /\ prepared = None
       /\ ~NothingToCompact(replay, expired)
       /\ IF ContentAgrees(replay, journal, expired) /\ ClocksAgree(replay, journal, expired)
          THEN /\ prepared' = [kept |-> Kept(replay, journal, expired), upto |-> Len(journal),
                               exact |-> expired # {}]
               /\ UNCHANGED refused
          ELSE refused' = TRUE /\ UNCHANGED prepared
       /\ UNCHANGED <<journal, replay, now>>

----------------------------------------------------------------------------
(* Publication under the lock: include_committed_tail, publish_compacted.   *)

CommittedSince(records, upto) == SubSeq(records, upto + 1, Len(records))

\* Mutant: records committed meanwhile are left behind.
RewriteWithoutTail == prepared.kept

Rewrite == prepared.kept \o CommittedSince(journal, prepared.upto)

\* Mutant: a rewrite that pruned history takes new records in as well.
TailAlwaysAdmitted == TRUE

TailAdmitted == Len(journal) = prepared.upto \/ ~prepared.exact

Publish ==
    /\ prepared # None
    /\ TailAdmitted
    /\ journal' = Rewrite
    /\ replay' = Replayed(journal')
    /\ prepared' = None
    /\ UNCHANGED <<now, refused>>

\* The source moved under a rewrite that cannot follow it.
Lose ==
    /\ prepared # None
    /\ ~TailAdmitted
    /\ prepared' = None
    /\ UNCHANGED <<journal, replay, now, refused>>

Next == (\E op \in Operations : Record(op)) \/ Tick \/ Prepare \/ Publish \/ Lose

Spec == Init /\ [][Next]_vars
----------------------------------------------------------------------------
(* Properties.                                                              *)

\* The account replay keeps of superseded observations is exact: droppable
\* counts the records compaction would drop, and a live observation is named
\* as often as it is some reservation's latest or holds its clock.
DroppableExact ==
    LET s == replay.superseded
        naming(f, q) == Cardinality({r \in DOMAIN f : f[r] = q})
    IN /\ s.droppable = Cardinality({o \in DOMAIN journal :
                                       ~KeepsObservation(replay, journal, o)})
       /\ \A q \in DOMAIN s.live : s.live[q] = naming(s.latest, q) + naming(s.roots, q)

\* Whatever legal operations follow one another, and after every compaction,
\* replay accepts the journal and every reservation's evidence can be read.
EvidenceReadable ==
    /\ ~replay.failed
    /\ \A r \in DOMAIN replay.retained : EvidenceState(replay.retained[r]) # "error"

\* The published journal, with whatever was committed while the rewrite was
\* verified, replays to what the journal it replaced replays to, without the
\* forgotten reservations and with every clock as it was.
PublishedAgrees ==
    [][prepared # None /\ journal' # journal /\ prepared' = None =>
          LET expired == DOMAIN replay.retained \ DOMAIN replay'.retained
          IN /\ ~replay'.failed
             /\ Content(replay') = Pruned(replay, journal, expired)
             /\ replay'.finished = PrunedClocks(replay, expired)]_vars

\* A rewrite is only ever refused over a clock: its reservations, incidents,
\* coordination records and generation always replay as expected.
OnlyClocksRefuse ==
    [][refused' /\ ~refused => ContentAgrees(replay, journal, Expired(replay, journal))]_vars

\* A reservation is forgotten only after its day of retention, with no open
\* incident naming it, and together with every record that names it.
AuditRetained ==
    [][\A r \in DOMAIN replay.retained \ DOMAIN replay'.retained :
          /\ r \in DOMAIN replay.finished /\ now - replay.finished[r] > Retention
          /\ r \notin OpenIncidents(replay)
          /\ \A o \in DOMAIN journal' : r \notin RefsOf(replay, journal'[o])]_vars
=============================================================================
