---------------------------- MODULE BerthLedger ----------------------------
(***************************************************************************)
(* The shared reservation ledger of one git common directory: an           *)
(* append-only journal, the disposable projection beside it, and the       *)
(* advisory mutation lock.  Processes prepare a mutation outside the lock,  *)
(* recheck it under the lock, append, publish the projection and unlock;   *)
(* lock-free readers pair a replay with the projection; compaction,        *)
(* projection repair and reinitialization replace files by rename.  Any    *)
(* process may be killed between two steps.                                *)
(*                                                                         *)
(* A record's position in the journal is its generation: the journal is    *)
(* kept as the set of its complete records.  `torn` says that bytes follow *)
(* the final newline.  Losing power is the subject of ReplayCheckpoint.    *)
(***************************************************************************)
EXTENDS Naturals, Sequences, FiniteSets

CONSTANTS
    Procs,          \* the cargo-berth processes
    Reservations,   \* reservation identities
    Overlaps,       \* two-element sets of reservations whose scopes overlap
    Roles,          \* Roles[p] is the set of verbs process p runs
    Impatient,      \* processes whose wait for the lock may time out
    MaxAttempts,    \* MUTATION_PREPARATION_ATTEMPTS
    MaxReads,       \* reads in retry_concurrent_projection_publication
    MaxGeneration,  \* bound: no mutation starts past this generation
    MaxResets,      \* bound: journals discarded by reinitialization
    MaxFaults,      \* bound: kills and I/O failures
    None            \* no process holds the lock, no projection is readable

Verbs == {"mutate", "read", "compact", "autocompact", "repair", "reinit"}

ASSUME LedgerAssumption ==
    /\ Roles \in [Procs -> SUBSET Verbs]
    /\ Overlaps \subseteq SUBSET Reservations
    /\ Impatient \subseteq Procs
    /\ MaxAttempts \in Nat \ {0}
    /\ MaxReads \in Nat \ {0}
    /\ MaxGeneration \in Nat /\ MaxResets \in Nat /\ MaxFaults \in Nat
    /\ None \notin Procs

----------------------------------------------------------------------------
(* Journal records and what replay folds from them.                         *)

Kinds == {"claim", "extent", "release", "evidence"}
Record == [gen : Nat \ {0}, kind : Kinds, res : Reservations]

Last(recs) == CHOOSE m \in recs : \A x \in recs : x.gen <= m.gen
Gen(recs) == IF recs = {} THEN 0 ELSE Last(recs).gen

Claimed(recs) == {x.res : x \in {y \in recs : y.kind = "claim"}}
Released(recs) == {x.res : x \in {y \in recs : y.kind = "release"}}
Active(recs) == Claimed(recs) \ Released(recs)

\* A requested mutation: the operations its validator decided to append.
Operations(op) ==
    CASE op = "claim"   -> <<"claim">>
      [] op = "observe" -> <<"extent">>
      [] op = "settle"  -> <<"extent", "release">>
      [] op = "amend"   -> <<"evidence">>

\* What a validator accepts of the state it is shown.
Admissible(q, recs) ==
    \/ /\ q.op = "claim"
       /\ q.res \notin Claimed(recs)
       /\ \A a \in Active(recs) : {a, q.res} \notin Overlaps
    \/ q.op \in {"observe", "settle"} /\ q.res \in Active(recs)
    \/ q.op = "amend" /\ q.res \in Claimed(recs) \cap Released(recs)

\* An extent observation that a later one of the same reservation replaces.
Superseded(recs) ==
    {x \in recs : /\ x.kind = "extent"
                  /\ \E y \in recs : y.kind = "extent" /\ y.res = x.res /\ y.gen > x.gen}

\* The records a compaction keeps when the history of `expired` has run out.
Kept(recs, expired) == {x \in recs \ Superseded(recs) : x.res \notin expired}

\* Mutant: the final record does not keep its reservation.
ExpirableWithLast(recs) == SUBSET Released(recs)

\* Histories that may have run out: finished, and not named by the last record.
Expirable(recs) == SUBSET {r \in Released(recs) : r # Last(recs).res}

----------------------------------------------------------------------------
VARIABLES
    journal,  \* [ino, recs, torn]: the file at the journal path
    proj,     \* None, or [gen, end, recs]: the published projection
    lock,     \* the holder of the mutation lock
    pc,       \* pc[p]: where process p is
    req,      \* req[p]: the verb p runs, and what it asks
    view,     \* view[p]: the replay p works from, and the file it read
    plan,     \* plan[p]: the rewrite p verified: [src, kept, exact]
    todo,     \* todo[p]: the operations p still has to append
    verdict,  \* verdict[p]: what p's validator decided of view[p]
    tries,    \* tries[p]: optimistic preparations p has lost
    reads,    \* reads[p]: replay/projection pairs p has lost
    reread,   \* reread[p]: p replayed again inside this preparation
    answer,   \* answer[p]: what p last told its caller
    faults,   \* kills and failures so far
    resets    \* reinitializations so far

vars == <<journal, proj, lock, pc, req, view, plan, todo, verdict, tries, reads,
          reread, answer, faults, resets>>
local == <<req, view, plan, todo, verdict, tries, reads, reread>>

Idle == [verb |-> "idle"]
NoView == [ino |-> 0, recs |-> {}, torn |-> FALSE]
NoPlan == [src |-> {}, kept |-> {}, exact |-> FALSE]

ProjectionOf(recs) == [gen |-> Gen(recs), end |-> Cardinality(recs), recs |-> recs]

Init ==
    /\ journal = [ino |-> 1, recs |-> {}, torn |-> FALSE]
    /\ proj = ProjectionOf({})
    /\ lock = None
    /\ pc = [p \in Procs |-> "idle"]
    /\ req = [p \in Procs |-> Idle]
    /\ view = [p \in Procs |-> NoView]
    /\ plan = [p \in Procs |-> NoPlan]
    /\ todo = [p \in Procs |-> <<>>]
    /\ verdict = [p \in Procs |-> FALSE]
    /\ tries = [p \in Procs |-> 0]
    /\ reads = [p \in Procs |-> 0]
    /\ reread = [p \in Procs |-> FALSE]
    /\ answer = [p \in Procs |-> "none"]
    /\ faults = 0
    /\ resets = 0

----------------------------------------------------------------------------
(* Helpers shared by the verbs.                                             *)

\* The projection claims more than this replay can show.
CacheAhead(recs) ==
    proj # None /\ (proj.gen > Gen(recs) \/ proj.end > Cardinality(recs))

\* The projection stands at this replay's point but over other bytes.
FingerprintMismatch(recs) ==
    /\ proj # None
    /\ proj.gen = Gen(recs) /\ proj.end = Cardinality(recs)
    /\ proj.recs # recs

RebuildRequired(recs) ==
    proj = None \/ proj.gen # Gen(recs) \/ proj.end # Cardinality(recs)

\* Mutant: a replaced journal passes for the one that was read.
StillCurrentByLength(v) == Cardinality(journal.recs) >= Cardinality(v.recs)

StillCurrent(v) ==
    journal.ino = v.ino /\ Cardinality(journal.recs) >= Cardinality(v.recs)

\* The operation ends: its result is reported and its memory is gone.
Finish(p, result) ==
    /\ pc' = [pc EXCEPT ![p] = "idle"]
    /\ answer' = [answer EXCEPT ![p] = result]
    /\ req' = [req EXCEPT ![p] = Idle]
    /\ view' = [view EXCEPT ![p] = NoView]
    /\ plan' = [plan EXCEPT ![p] = NoPlan]
    /\ todo' = [todo EXCEPT ![p] = <<>>]
    /\ verdict' = [verdict EXCEPT ![p] = FALSE]
    /\ tries' = [tries EXCEPT ![p] = 0]
    /\ reads' = [reads EXCEPT ![p] = 0]
    /\ reread' = [reread EXCEPT ![p] = FALSE]

Goto(p, step) == pc' = [pc EXCEPT ![p] = step]

\* The first step of each verb's preparation.
Prepare(verb) ==
    CASE verb = "mutate" -> "decide"
      [] verb \in {"compact", "autocompact"} -> "source"
      [] verb \in {"repair", "reinit"} -> "observe"

\* A process that prepared under the lock goes on; the others queue for it.
Prepared(p, next) == Goto(p, IF lock = p THEN next ELSE "acquire")

\* The lock is dropped, and the lost preparation is counted.
Retry(p) ==
    /\ lock' = None
    /\ tries' = [tries EXCEPT ![p] = @ + 1]
    /\ reread' = [reread EXCEPT ![p] = FALSE]
    /\ Goto(p, IF tries[p] + 1 < MaxAttempts THEN Prepare(req[p].verb) ELSE "acquire")

Begin(p, request, step) ==
    /\ pc[p] = "idle"
    /\ request.verb \in Roles[p]
    /\ req' = [req EXCEPT ![p] = request]
    /\ answer' = [answer EXCEPT ![p] = "none"]
    /\ Goto(p, step)
    /\ UNCHANGED <<journal, proj, lock, view, plan, todo, verdict, tries, reads,
                   reread, faults, resets>>

----------------------------------------------------------------------------
(* The mutation lock.                                                       *)

Acquire(p) ==
    /\ pc[p] = "acquire"
    /\ lock = None
    /\ lock' = p
    /\ Goto(p, IF tries[p] < MaxAttempts THEN "recheck" ELSE Prepare(req[p].verb))
    /\ UNCHANGED <<journal, proj, local, answer, faults, resets>>

\* The wait outlasts the caller's tolerance.  An automatic compaction has none.
GiveUp(p) ==
    /\ pc[p] = "acquire"
    /\ lock # None
    /\ p \in Impatient \/ req[p].verb = "autocompact"
    /\ Finish(p, "done")
    /\ UNCHANGED <<journal, proj, lock, faults, resets>>

----------------------------------------------------------------------------
(* A mutation: prepare_mutation_from_replay and the transaction it opens.   *)

BeginMutation(p) ==
    \E op \in {"claim", "observe", "settle", "amend"}, r \in Reservations :
        /\ Gen(journal.recs) + Len(Operations(op)) <= MaxGeneration
        /\ Begin(p, [verb |-> "mutate", op |-> op, res |-> r], "stat")

\* prepare_journal reads the file's identity, replays it, and reads it again.
Stat(p) ==
    /\ pc[p] = "stat"
    /\ view' = [view EXCEPT ![p] = [NoView EXCEPT !.ino = journal.ino]]
    /\ Goto(p, "replay")
    /\ UNCHANGED <<journal, proj, lock, req, plan, todo, verdict, tries, reads, reread,
                   answer, faults, resets>>

Replay(p) ==
    /\ pc[p] = "replay"
    /\ view' = [view EXCEPT ![p].recs = journal.recs]
    /\ Goto(p, "restat")
    /\ UNCHANGED <<journal, proj, lock, req, plan, todo, verdict, tries, reads, reread,
                   answer, faults, resets>>

Restat(p) ==
    /\ pc[p] = "restat"
    /\ \/ /\ journal.ino = view[p].ino
          /\ Goto(p, "decide")
          /\ UNCHANGED <<local, answer>>
       \/ /\ journal.ino # view[p].ino
          /\ reads[p] + 1 < MaxReads
          /\ reads' = [reads EXCEPT ![p] = @ + 1]
          /\ Goto(p, "stat")
          /\ UNCHANGED <<req, view, plan, todo, verdict, tries, reread, answer>>
       \/ /\ journal.ino # view[p].ino
          /\ reads[p] + 1 >= MaxReads
          /\ Finish(p, "cache_ahead")
    /\ UNCHANGED <<journal, proj, lock, faults, resets>>

\* Mutant: a lost preparation's decision is kept for the next attempt.
DecideOnce(p) ==
    /\ pc[p] = "decide"
    /\ reread[p] \/ StillCurrent(view[p])
    /\ LET seen == IF reread[p] THEN view[p] ELSE [view[p] EXCEPT !.recs = journal.recs]
       IN /\ view' = [view EXCEPT ![p] = seen]
          /\ verdict' = [verdict EXCEPT ![p] =
                            IF tries[p] > 0 THEN @ ELSE Admissible(req[p], seen.recs)]
    /\ Prepared(p, "synchronize")
    /\ UNCHANGED <<journal, proj, lock, req, plan, todo, tries, reads, reread, answer,
                   faults, resets>>

\* A current replay takes in the new tail, and the validator decides on it.
Decide(p) ==
    /\ pc[p] = "decide"
    /\ reread[p] \/ StillCurrent(view[p])
    /\ LET seen == IF reread[p] THEN view[p] ELSE [view[p] EXCEPT !.recs = journal.recs]
       IN /\ view' = [view EXCEPT ![p] = seen]
          /\ verdict' = [verdict EXCEPT ![p] = Admissible(req[p], seen.recs)]
    /\ Prepared(p, "synchronize")
    /\ UNCHANGED <<journal, proj, lock, req, plan, todo, tries, reads, reread, answer,
                   faults, resets>>

\* The journal was replaced since: replay it whole, inside this preparation.
Reread(p) ==
    /\ pc[p] = "decide"
    /\ ~reread[p]
    /\ ~StillCurrent(view[p])
    /\ reread' = [reread EXCEPT ![p] = TRUE]
    /\ reads' = [reads EXCEPT ![p] = 0]
    /\ Goto(p, "stat")
    /\ UNCHANGED <<journal, proj, lock, req, view, plan, todo, verdict, tries, answer,
                   faults, resets>>

\* Mutant: records that arrived since the preparation are let through.
UnchangedFile(v) == StillCurrent(v)

\* The preparation holds under the lock: same file, and no record arrived.
Unchanged(v) == StillCurrent(v) /\ Gen(journal.recs) = Gen(v.recs)

RecheckMutation(p) ==
    /\ pc[p] = "recheck"
    /\ req[p].verb = "mutate"
    /\ LET seen == IF StillCurrent(view[p]) THEN journal.recs ELSE view[p].recs
       IN view' = [view EXCEPT ![p].recs = seen]
    /\ journal' = [journal EXCEPT !.torn = @ /\ ~StillCurrent(view[p])]
    /\ \/ /\ Unchanged(view[p])
          /\ Goto(p, "synchronize")
          /\ UNCHANGED <<lock, tries, reread>>
       \/ /\ ~Unchanged(view[p])
          /\ Retry(p)
    /\ UNCHANGED <<proj, req, plan, todo, verdict, reads, answer, faults, resets>>

\* Under the lock: a torn tail is cut off and the projection is validated.
Synchronized(p) ==
    /\ pc[p] = "synchronize"
    /\ view' = [view EXCEPT ![p].recs = journal.recs]
    /\ journal' = [journal EXCEPT !.torn = FALSE]

\* Mutant: the projection is not compared with the locked replay.
OpenUnvalidated(p) ==
    /\ Synchronized(p)
    /\ verdict[p]
    /\ todo' = [todo EXCEPT ![p] = Operations(req[p].op)]
    /\ Goto(p, "append")
    /\ UNCHANGED <<proj, lock, req, plan, verdict, tries, reads, reread, answer, faults,
                   resets>>

OpenTransaction(p) ==
    /\ Synchronized(p)
    /\ ~CacheAhead(journal.recs) /\ ~FingerprintMismatch(journal.recs)
    /\ verdict[p]
    /\ todo' = [todo EXCEPT ![p] = Operations(req[p].op)]
    /\ Goto(p, "append")
    /\ UNCHANGED <<proj, lock, req, plan, verdict, tries, reads, reread, answer, faults,
                   resets>>

\* Mutant: a refusal leaves the lock behind.
RejectHolding(p) ==
    /\ pc[p] = "synchronize"
    /\ ~CacheAhead(journal.recs) /\ ~FingerprintMismatch(journal.recs)
    /\ ~verdict[p]
    /\ proj' = IF RebuildRequired(journal.recs) THEN ProjectionOf(journal.recs) ELSE proj
    /\ journal' = [journal EXCEPT !.torn = FALSE]
    /\ Finish(p, "rejected")
    /\ UNCHANGED <<lock, faults, resets>>

\* A refusal republishes a projection that is missing or behind.
Reject(p) ==
    /\ pc[p] = "synchronize"
    /\ ~CacheAhead(journal.recs) /\ ~FingerprintMismatch(journal.recs)
    /\ ~verdict[p]
    /\ proj' = IF RebuildRequired(journal.recs) THEN ProjectionOf(journal.recs) ELSE proj
    /\ journal' = [journal EXCEPT !.torn = FALSE]
    /\ lock' = None
    /\ Finish(p, "rejected")
    /\ UNCHANGED <<faults, resets>>

\* A projection ahead of the locked replay stops the mutation.
RefuseProjection(p) ==
    /\ pc[p] = "synchronize"
    /\ CacheAhead(journal.recs) \/ FingerprintMismatch(journal.recs)
    /\ journal' = [journal EXCEPT !.torn = FALSE]
    /\ lock' = None
    /\ Finish(p, "unreadable")
    /\ UNCHANGED <<proj, faults, resets>>

NextRecord(p) ==
    [gen |-> Gen(view[p].recs) + 1, kind |-> Head(todo[p]), res |-> req[p].res]

\* The bytes of one record start to reach the file, then its newline does.
BeginRecord(p) ==
    /\ pc[p] = "append"
    /\ journal' = [journal EXCEPT !.torn = TRUE]
    /\ Goto(p, "write")
    /\ UNCHANGED <<proj, lock, local, answer, faults, resets>>

EndRecord(p) ==
    /\ pc[p] = "write"
    /\ journal' = [journal EXCEPT !.recs = @ \cup {NextRecord(p)}, !.torn = FALSE]
    /\ view' = [view EXCEPT ![p].recs = @ \cup {NextRecord(p)}]
    /\ todo' = [todo EXCEPT ![p] = Tail(@)]
    /\ Goto(p, IF Tail(todo[p]) = <<>> THEN "publish" ELSE "append")
    /\ UNCHANGED <<proj, lock, req, plan, verdict, tries, reads, reread, answer, faults,
                   resets>>

\* The append fails: the bytes are incomplete, or complete and not synced.
FailRecord(p) ==
    /\ pc[p] = "write"
    /\ faults < MaxFaults
    /\ journal' \in {journal,
                     [journal EXCEPT !.recs = @ \cup {NextRecord(p)}, !.torn = FALSE]}
    /\ lock' = None
    /\ faults' = faults + 1
    /\ Finish(p, "done")
    /\ UNCHANGED <<proj, resets>>

Publish(p) ==
    /\ pc[p] = "publish"
    /\ proj' = ProjectionOf(view[p].recs)
    /\ lock' = None
    /\ Finish(p, "appended")
    /\ UNCHANGED <<journal, faults, resets>>

----------------------------------------------------------------------------
(* A lock-free reader: read_validated_journal.                              *)

\* `from` remembers the generation the read began at.
BeginRead(p) ==
    Begin(p, [verb |-> "read", from |-> Gen(journal.recs)], "read")

Read(p) ==
    /\ pc[p] = "read"
    /\ view' = [view EXCEPT ![p] = [NoView EXCEPT !.ino = journal.ino,
                                                  !.recs = journal.recs]]
    /\ Goto(p, "validate")
    /\ UNCHANGED <<journal, proj, lock, req, plan, todo, verdict, tries, reads, reread,
                   answer, faults, resets>>

Validate(p) ==
    /\ pc[p] = "validate"
    /\ \/ /\ CacheAhead(view[p].recs)
          /\ reads[p] + 1 < MaxReads
          /\ reads' = [reads EXCEPT ![p] = @ + 1]
          /\ Goto(p, "read")
          /\ UNCHANGED <<req, view, plan, todo, verdict, tries, reread, answer>>
       \/ /\ CacheAhead(view[p].recs)
          /\ reads[p] + 1 >= MaxReads
          /\ Finish(p, "cache_ahead")
       \/ /\ FingerprintMismatch(view[p].recs)
          /\ Finish(p, "unreadable")
       \/ /\ ~CacheAhead(view[p].recs) /\ ~FingerprintMismatch(view[p].recs)
          /\ Finish(p, "done")
    /\ UNCHANGED <<journal, proj, lock, faults, resets>>

----------------------------------------------------------------------------
(* Compaction: explicit (compact_journal) and after a transaction.          *)

BeginCompaction(p) ==
    \E verb \in {"compact", "autocompact"} : Begin(p, [verb |-> verb], "source")

\* The source file's stamp is taken before its bytes are read.
Source(p) ==
    /\ pc[p] = "source"
    /\ view' = [view EXCEPT ![p] = journal]
    /\ Goto(p, "rewrite")
    /\ UNCHANGED <<journal, proj, lock, req, plan, todo, verdict, tries, reads, reread,
                   answer, faults, resets>>

Release(p) == lock' = IF lock = p THEN None ELSE lock

\* Bytes after the final newline refuse the rewrite; so does an empty plan.
RefuseRewrite(p) ==
    /\ pc[p] = "rewrite"
    /\ \/ journal.torn /\ Finish(p, "done")
       \/ ~journal.torn /\ Superseded(journal.recs) = {} /\ Finish(p, "done")
    /\ Release(p)
    /\ UNCHANGED <<journal, proj, faults, resets>>

Rewrite(p) ==
    /\ pc[p] = "rewrite"
    /\ ~journal.torn
    /\ \E expired \in Expirable(journal.recs) :
          /\ Superseded(journal.recs) # {} \/ expired # {}
          /\ plan' = [plan EXCEPT ![p] = [src   |-> journal.recs,
                                          kept  |-> Kept(journal.recs, expired),
                                          exact |-> expired # {}]]
    /\ Prepared(p, "project")
    /\ UNCHANGED <<journal, proj, lock, req, view, todo, verdict, tries, reads, reread,
                   answer, faults, resets>>

\* The whole source is as it was, or the rewrite may take its new records in.
SameSource(p) ==
    journal.ino = view[p].ino /\ journal.recs = view[p].recs
        /\ journal.recs = plan[p].src /\ ~journal.torn /\ ~view[p].torn

TailAdmitted(p) ==
    /\ ~plan[p].exact
    /\ journal.ino = view[p].ino
    /\ Cardinality(journal.recs) >= Cardinality(plan[p].src)

RecheckCompaction(p) ==
    /\ pc[p] = "recheck"
    /\ req[p].verb \in {"compact", "autocompact"}
    /\ \/ /\ SameSource(p)
          /\ Goto(p, "project")
          /\ UNCHANGED <<lock, local, answer>>
       \/ /\ ~SameSource(p) /\ TailAdmitted(p) /\ ~journal.torn
          /\ plan' = [plan EXCEPT ![p].kept = @ \cup (journal.recs \ plan[p].src)]
          /\ Goto(p, "project")
          /\ UNCHANGED <<lock, req, view, todo, verdict, tries, reads, reread, answer>>
       \/ /\ ~SameSource(p) /\ TailAdmitted(p) /\ journal.torn
          /\ lock' = None
          /\ Finish(p, "done")
       \/ /\ ~SameSource(p) /\ ~TailAdmitted(p) /\ req[p].verb = "compact"
          /\ Retry(p)
          /\ UNCHANGED <<req, view, plan, todo, verdict, reads, answer>>
       \/ /\ ~SameSource(p) /\ ~TailAdmitted(p) /\ req[p].verb = "autocompact"
          /\ lock' = None
          /\ Finish(p, "done")
    /\ UNCHANGED <<journal, proj, faults, resets>>

\* Mutant: the journal is replaced before its projection is published.
ProjectCompactedLate(p) ==
    /\ pc[p] = "project"
    /\ Goto(p, "rename")
    /\ UNCHANGED <<journal, proj, lock, local, answer, faults, resets>>

\* The compacted journal's projection is published first, then the journal.
ProjectCompacted(p) ==
    /\ pc[p] = "project"
    /\ proj' = ProjectionOf(plan[p].kept)
    /\ Goto(p, "rename")
    /\ UNCHANGED <<journal, lock, local, answer, faults, resets>>

RenameCompacted(p) ==
    /\ pc[p] = "rename"
    /\ journal' = [ino |-> journal.ino + 1, recs |-> plan[p].kept, torn |-> FALSE]
    /\ lock' = None
    /\ Finish(p, "done")
    /\ UNCHANGED <<proj, faults, resets>>

----------------------------------------------------------------------------
(* init --repair-projection and the reviewed reinitialization.              *)

BeginRepair(p) == Begin(p, [verb |-> "repair"], "observe")

BeginReinitialize(p) ==
    resets < MaxResets /\ Begin(p, [verb |-> "reinit"], "observe")

Observe(p) ==
    /\ pc[p] = "observe"
    /\ view' = [view EXCEPT ![p] = journal]
    /\ Prepared(p, IF req[p].verb = "repair" THEN "rebuild" ELSE "discard")
    /\ UNCHANGED <<journal, proj, lock, req, plan, todo, verdict, tries, reads, reread,
                   answer, faults, resets>>

\* Mutant: only the identity of the file is compared.
RecheckRepairByInode(p) ==
    /\ pc[p] = "recheck"
    /\ req[p].verb \in {"repair", "reinit"}
    /\ \/ /\ journal.ino = view[p].ino
          /\ Goto(p, IF req[p].verb = "repair" THEN "rebuild" ELSE "discard")
          /\ UNCHANGED <<lock, tries, reread>>
       \/ /\ journal.ino # view[p].ino
          /\ Retry(p)
    /\ UNCHANGED <<journal, proj, req, view, plan, todo, verdict, reads, answer, faults,
                   resets>>

RecheckRepair(p) ==
    /\ pc[p] = "recheck"
    /\ req[p].verb \in {"repair", "reinit"}
    /\ \/ /\ journal = view[p]
          /\ Goto(p, IF req[p].verb = "repair" THEN "rebuild" ELSE "discard")
          /\ UNCHANGED <<lock, tries, reread>>
       \/ /\ journal # view[p]
          /\ Retry(p)
    /\ UNCHANGED <<journal, proj, req, view, plan, todo, verdict, reads, answer, faults,
                   resets>>

Rebuild(p) ==
    /\ pc[p] = "rebuild"
    /\ proj' = ProjectionOf(view[p].recs)
    /\ lock' = None
    /\ Finish(p, "done")
    /\ UNCHANGED <<journal, faults, resets>>

\* An empty file replaces the journal, and only then its projection follows.
Discard(p) ==
    /\ pc[p] = "discard"
    /\ journal' = [ino |-> journal.ino + 1, recs |-> {}, torn |-> FALSE]
    /\ resets' = resets + 1
    /\ Goto(p, "clear")
    /\ UNCHANGED <<proj, lock, local, answer, faults>>

Clear(p) ==
    /\ pc[p] = "clear"
    /\ proj' = ProjectionOf({})
    /\ lock' = None
    /\ Finish(p, "done")
    /\ UNCHANGED <<journal, faults, resets>>

----------------------------------------------------------------------------
\* The process dies: the kernel drops its lock, its files stay as they are.
Kill(p) ==
    /\ pc[p] # "idle"
    /\ faults < MaxFaults
    /\ faults' = faults + 1
    /\ Release(p)
    /\ Finish(p, "done")
    /\ UNCHANGED <<journal, proj, resets>>

Start(p) ==
    \/ BeginMutation(p) \/ BeginRead(p) \/ BeginCompaction(p)
    \/ BeginRepair(p) \/ BeginReinitialize(p)

Step(p) ==
    \/ Acquire(p)
    \/ Stat(p) \/ Replay(p) \/ Restat(p) \/ Decide(p) \/ Reread(p)
    \/ RecheckMutation(p) \/ OpenTransaction(p) \/ Reject(p) \/ RefuseProjection(p)
    \/ BeginRecord(p) \/ EndRecord(p) \/ Publish(p)
    \/ Read(p) \/ Validate(p)
    \/ Source(p) \/ RefuseRewrite(p) \/ Rewrite(p) \/ RecheckCompaction(p)
    \/ ProjectCompacted(p) \/ RenameCompacted(p)
    \/ Observe(p) \/ RecheckRepair(p) \/ Rebuild(p) \/ Discard(p) \/ Clear(p)

Next ==
    \E p \in Procs : Start(p) \/ Step(p) \/ GiveUp(p) \/ FailRecord(p) \/ Kill(p)

Spec == Init /\ [][Next]_vars

\* A running process keeps stepping, and the kernel's lock queue is fair.
Fairness ==
    \A p \in Procs : WF_vars(Step(p)) /\ SF_vars(Acquire(p)) /\ WF_vars(GiveUp(p))

FairSpec == Spec /\ Fairness

----------------------------------------------------------------------------
(* Properties.                                                              *)

Steps ==
    {"idle", "acquire", "recheck", "stat", "replay", "restat", "decide", "synchronize",
     "append", "write", "publish", "read", "validate", "source", "rewrite", "project",
     "rename", "observe", "rebuild", "discard", "clear"}

\* "done" stands for every answer that claims nothing of a mutation.
Answers == {"none", "appended", "rejected", "unreadable", "cache_ahead", "done"}

Request ==
    {Idle} \cup [verb : {"mutate"}, op : {"claim", "observe", "settle", "amend"},
                 res : Reservations]
           \cup [verb : {"read"}, from : Nat]
           \cup [verb : {"compact", "autocompact", "repair", "reinit"}]

JournalFile == [ino : Nat, recs : SUBSET Record, torn : BOOLEAN]
Projection == [gen : Nat, end : Nat, recs : SUBSET Record]

\* Every variable has the shape its declaration gives it.
TypeOK ==
    /\ journal \in JournalFile
    /\ proj \in Projection \cup {None}
    /\ lock \in Procs \cup {None}
    /\ pc \in [Procs -> Steps]
    /\ req \in [Procs -> Request]
    /\ view \in [Procs -> JournalFile]
    /\ plan \in [Procs -> [src : SUBSET Record, kept : SUBSET Record, exact : BOOLEAN]]
    /\ todo \in [Procs -> Seq(Kinds)]
    /\ verdict \in [Procs -> BOOLEAN]
    /\ tries \in [Procs -> 0 .. MaxAttempts]
    /\ reads \in [Procs -> 0 .. MaxReads]
    /\ reread \in [Procs -> BOOLEAN]
    /\ answer \in [Procs -> Answers]
    /\ faults \in 0 .. MaxFaults
    /\ resets \in Nat

\* No two reservations whose scopes overlap are active at once, whatever the
\* processes that claimed them saw when they decided (claim validation runs
\* outside the lock).
NoOverlappingHolders ==
    \A a, b \in Active(journal.recs) : a # b => {a, b} \notin Overlaps

\* Replay accepts the journal: whatever compaction dropped, every remaining
\* record names a reservation whose claim precedes it, no reservation is
\* claimed or released twice, and no active one lost its claim.
ReplayAccepts ==
    \A x \in journal.recs :
        /\ x.kind # "claim" =>
              \E c \in journal.recs : c.kind = "claim" /\ c.res = x.res /\ c.gen < x.gen
        /\ x.kind \in {"claim", "release"} =>
              \A y \in journal.recs : y.kind = x.kind /\ y.res = x.res => y = x

\* No two records carry the same generation: no decision was taken on a
\* journal another process had already extended.
GenerationsDistinct ==
    \A x, y \in journal.recs : x.gen = y.gen => x = y

\* A journal is only extended while its projection is that of a part of it,
\* also when a reinitialization was killed after it discarded the journal:
\* records of the discarded one and new ones of the same generations are never
\* behind one projection.
NothingAppendedWhileAhead ==
    [][Gen(journal'.recs) > Gen(journal.recs) =>
          /\ ~CacheAhead(journal.recs)
          /\ proj = None \/ proj.recs \subseteq journal.recs]_vars

\* A completed projection repair leaves the projection of the journal as it
\* is then, although the replay was made before the lock was taken.
RepairRestores ==
    [][\A p \in Procs :
          pc[p] = "rebuild" /\ pc'[p] = "idle" /\ faults' = faults
             => proj' = ProjectionOf(journal.recs)]_vars

\* A lock-free reader gives up only because a commit was published between
\* each of its replay/projection pairs: never because of a compaction.
ReadersYieldOnlyToCommits ==
    [][\A p \in Procs :
          pc[p] = "validate" /\ answer'[p] \in {"cache_ahead", "unreadable"}
             => Gen(journal.recs) >= req[p].from + MaxReads]_vars

\* The generation never goes back, and a claim or release is forgotten only
\* together with its whole finished reservation.
HistoryKept ==
    [][resets' = resets =>
          /\ Gen(journal'.recs) >= Gen(journal.recs)
          /\ Active(journal.recs) \ Active(journal'.recs)
                \subseteq Released(journal'.recs)
          /\ \A r \in Claimed(journal'.recs) :
                {x \in journal.recs : x.res = r /\ x \notin Superseded(journal.recs)}
                   \subseteq journal'.recs \cup Superseded(journal'.recs)]_vars

\* Every operation ends: lost preparations are bounded by the fallback that
\* prepares under the lock, and no path leaves the lock behind.
EveryOperationEnds ==
    \A p \in Procs : (pc[p] # "idle") ~> (pc[p] = "idle")
=============================================================================
