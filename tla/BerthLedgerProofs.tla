-------------------------- MODULE BerthLedgerProofs --------------------------
(***************************************************************************)
(* What BerthLedger promises for any number of processes, reservations,    *)
(* attempts and failures: types, no two overlapping holders, distinct      *)
(* generations, a journal replay accepts, repairs and compactions that     *)
(* keep what they must, readers that yield only to commits, and the        *)
(* refinement of AtomicLedger.                                             *)
(*                                                                         *)
(* The first inductive invariant, LedgerInv, says of each process what its *)
(* step implies (AtStep), that its replay is a prefix of the file it was   *)
(* read from (Seen), that its decision is one the replay supports          *)
(* (Decided), that an open transaction works on the journal as it is       *)
(* (Writing), and that a rewrite is of records the journal still has       *)
(* (Planned, Rewriting).  The second, FilesInv, rests on it and says what  *)
(* the two files are to each other: what replay accepts, which records an  *)
(* open transaction may still append (Legal), that verdicts are exact      *)
(* (Judged), and what is about to be published (Publishing).  The third,   *)
(* ReadInv, counts the commits a lock-free reader has lost races to.       *)
(***************************************************************************)
EXTENDS BerthLedgerRefinement, FiniteSetTheorems, TLAPS

HasLast(recs) == recs = {} \/ \E m \in recs : \A x \in recs : x.gen <= m.gen

\* A set of records replay can give a generation and a length.
WellFormed(recs) == recs \in SUBSET Record /\ IsFiniteSet(recs) /\ HasLast(recs)

\* `old` is the journal before some records were appended to it.
Prefix(old, new) == old \subseteq new /\ \A x \in new \ old : x.gen > Gen(old)

MutationSteps ==
    {"stat", "replay", "restat", "decide", "synchronize", "append", "write", "publish"}
CompactionSteps == {"source", "rewrite", "project", "rename"}
RepairSteps == {"observe", "rebuild", "discard", "clear"}
LockedSteps ==
    {"recheck", "synchronize", "append", "write", "publish", "project", "rename",
     "rebuild", "discard", "clear"}

\* The step a process is at determines its verb, its lock and its attempts.
AtStep(p) ==
    /\ pc[p] \in MutationSteps => req[p].verb = "mutate"
    /\ pc[p] \in {"read", "validate"} => req[p].verb = "read"
    /\ pc[p] \in CompactionSteps => req[p].verb \in {"compact", "autocompact"}
    /\ pc[p] \in RepairSteps => req[p].verb \in {"repair", "reinit"}
    /\ pc[p] \in {"acquire", "recheck"} => req[p].verb \notin {"idle", "read"}
    /\ pc[p] \in LockedSteps => lock = p
    /\ pc[p] = "idle" => tries[p] = 0
    /\ pc[p] = "recheck" => tries[p] < MaxAttempts
    /\ tries[p] = MaxAttempts => (pc[p] = "acquire" /\ ~reread[p]) \/ lock = p

\* What a process read is the start of the file it was read from.
Seen(p) ==
    /\ WellFormed(view[p].recs)
    /\ view[p].ino <= journal.ino
    /\ view[p].ino = journal.ino => Prefix(view[p].recs, journal.recs)
    /\ lock = p /\ reread[p] /\ pc[p] \in {"restat", "decide"}
          => view[p].recs = journal.recs

\* A positive verdict holds of what the decision was taken on.
Decided(p) ==
    /\ /\ pc[p] \in {"acquire", "recheck"} /\ tries[p] < MaxAttempts
       /\ req[p].verb = "mutate" /\ verdict[p]
       => Admissible(req[p], view[p].recs)
    /\ pc[p] = "synchronize" /\ verdict[p] => Admissible(req[p], journal.recs)

\* Inside a transaction the replay is the journal, and a claim that is still
\* to be appended is free of every active reservation.
Writing(p) ==
    pc[p] \in {"append", "write"} =>
        /\ view[p].recs = journal.recs
        /\ todo[p] \in {<<"claim">>, <<"extent">>, <<"extent", "release">>, <<"release">>,
                        <<"evidence">>}
        /\ todo[p] = <<"claim">> =>
              \A a \in Active(journal.recs) : {a, req[p].res} \notin Overlaps

\* A rewrite that waits for the lock is of a prefix of the file it was read
\* from, and drops only superseded observations and finished histories.
Planned(p) ==
    pc[p] \in {"acquire", "recheck"} /\ req[p].verb \in {"compact", "autocompact"} =>
        /\ WellFormed(plan[p].src)
        /\ \E expired \in Expirable(plan[p].src) :
              /\ plan[p].kept = Kept(plan[p].src, expired)
              /\ plan[p].exact <=> expired # {}
        /\ view[p].ino = journal.ino => plan[p].src \subseteq journal.recs

\* A rewrite about to be published keeps only records of the journal it
\* replaces, and activates nothing.
Rewriting(p) ==
    pc[p] \in {"project", "rename"} =>
        /\ WellFormed(plan[p].kept)
        /\ plan[p].kept \subseteq journal.recs
        /\ Active(plan[p].kept) \subseteq Active(journal.recs)

ProcessInv(p) ==
    AtStep(p) /\ Seen(p) /\ Decided(p) /\ Writing(p) /\ Planned(p) /\ Rewriting(p)

\* The inductive invariant.
LedgerInv ==
    /\ TypeOK
    /\ WellFormed(journal.recs)
    /\ GenerationsDistinct
    /\ NoOverlappingHolders
    /\ \A p \in Procs : ProcessInv(p)

----------------------------------------------------------------------------
(* Sets of records.                                                         *)

\* A well-formed set has a generation that bounds its records, and a last one.
LEMMA GenBounds ==
    ASSUME NEW S, WellFormed(S)
    PROVE  /\ Gen(S) \in Nat
           /\ \A x \in S : x.gen <= Gen(S)
           /\ S # {} => Last(S) \in S /\ Last(S).gen = Gen(S)
           /\ Cardinality(S) \in Nat
<1>1. CASE S = {}
  BY <1>1, FS_EmptySet DEF Gen
<1>2. CASE S # {}
  <2>1. PICK m \in S : \A x \in S : x.gen <= m.gen
    BY <1>2 DEF WellFormed, HasLast
  <2>2. Last(S) \in S /\ \A x \in S : x.gen <= Last(S).gen
    BY <2>1 DEF Last
  <2>3. Cardinality(S) \in Nat
    BY FS_CardinalityType DEF WellFormed
  <2> QED
    BY <1>2, <2>2, <2>3 DEF Gen, WellFormed, Record
<1> QED BY <1>1, <1>2

\* Appending the next record extends what was there.
LEMMA NextExtends ==
    ASSUME NEW S, WellFormed(S), NEW r \in Record, r.gen = Gen(S) + 1
    PROVE  WellFormed(S \cup {r}) /\ Prefix(S, S \cup {r})
<1>1. Gen(S) \in Nat /\ \A x \in S : x.gen <= Gen(S)
  BY GenBounds
<1>2. IsFiniteSet(S \cup {r})
  BY FS_AddElement DEF WellFormed
<1>3. \A x \in S \cup {r} : x.gen <= r.gen
  BY <1>1 DEF WellFormed, Record
<1>4. HasLast(S \cup {r})
  BY <1>3 DEF HasLast
<1>5. S \cup {r} \in SUBSET Record
  BY DEF WellFormed
<1>6. Prefix(S, S \cup {r})
  BY <1>1 DEF Prefix
<1> QED BY <1>2, <1>4, <1>5, <1>6 DEF WellFormed

\* A prefix of the journal stays one when the next record is appended.
LEMMA PrefixExtends ==
    ASSUME NEW S, NEW T, WellFormed(S), WellFormed(T), Prefix(S, T),
           NEW r \in Record, r.gen = Gen(T) + 1
    PROVE  Prefix(S, T \cup {r})
<1>1. Gen(S) \in Nat /\ Gen(T) \in Nat
  BY GenBounds
<1>2. S # {} => Last(S) \in T /\ Last(S).gen = Gen(S)
  BY GenBounds DEF Prefix
<1>3. Gen(S) <= Gen(T)
  BY <1>1, <1>2, GenBounds DEF Gen
<1> QED BY <1>1, <1>3 DEF Prefix

\* A prefix with the journal's generation is the journal.
LEMMA PrefixComplete ==
    ASSUME NEW S, NEW T, WellFormed(S), WellFormed(T), Prefix(S, T), Gen(S) = Gen(T)
    PROVE  S = T
BY GenBounds DEF Prefix, WellFormed, Record

LEMMA PrefixReflexive == \A S : Prefix(S, S)
BY DEF Prefix

LEMMA EmptyPrefix ==
    ASSUME NEW S, WellFormed(S)
    PROVE  WellFormed({}) /\ Prefix({}, S)
BY FS_EmptySet DEF WellFormed, HasLast, Prefix, Gen, Record

\* A projection of well-formed records has the type of one.
LEMMA ProjectionType ==
    ASSUME NEW S, WellFormed(S)
    PROVE  ProjectionOf(S) \in Projection
BY GenBounds DEF ProjectionOf, Projection, WellFormed

\* A rewrite keeps the last record, and releases and claims together.
LEMMA KeptSound ==
    ASSUME NEW S, WellFormed(S), NEW expired \in Expirable(S)
    PROVE  /\ WellFormed(Kept(S, expired))
           /\ Kept(S, expired) \subseteq S
           /\ Active(Kept(S, expired)) \subseteq Active(S)
<1> DEFINE K == Kept(S, expired)
<1>1. K \subseteq S
  BY DEF Kept
<1>2. IsFiniteSet(K)
  BY <1>1, FS_Subset DEF WellFormed
<1>3. HasLast(K)
  <2>1. CASE S = {}
    BY <1>1, <2>1 DEF HasLast
  <2>2. CASE S # {}
    <3>1. /\ Last(S) \in S
          /\ \A x \in S : x.gen <= Last(S).gen
      BY <2>2, GenBounds
    <3>2. Last(S) \notin Superseded(S)
      BY <3>1 DEF Superseded, WellFormed, Record
    <3>3. Last(S).res \notin expired
      BY DEF Expirable
    <3>4. Last(S) \in K
      BY <3>1, <3>2, <3>3 DEF Kept
    <3> QED BY <1>1, <3>1, <3>4 DEF HasLast
  <2> QED BY <2>1, <2>2
<1>4. Active(K) \subseteq Active(S)
  <2>1. \A x \in S : x.kind \in {"claim", "release"} /\ x.res \notin expired => x \in K
    BY DEF Kept, Superseded
  <2>2. \A x \in K : x.res \notin expired
    BY DEF Kept
  <2> QED BY <1>1, <2>1, <2>2 DEF Active, Claimed, Released
<1> QED BY <1>1, <1>2, <1>3, <1>4 DEF WellFormed

\* So does one that dropped no history and takes in what was committed since.
LEMMA KeptWithTailSound ==
    ASSUME NEW S, NEW T, WellFormed(S), WellFormed(T), S \subseteq T,
           NEW K, K = Kept(S, {}) \cup (T \ S)
    PROVE  WellFormed(K) /\ K \subseteq T /\ Active(K) \subseteq Active(T)
<1>1. K \subseteq T
  BY DEF Kept
<1>2. IsFiniteSet(K)
  BY <1>1, FS_Subset DEF WellFormed
<1>3. HasLast(K)
  <2>1. CASE T = {}
    BY <1>1, <2>1 DEF HasLast
  <2>2. CASE T # {}
    <3>1. Last(T) \in T /\ \A x \in T : x.gen <= Last(T).gen
      BY <2>2, GenBounds
    <3>2. Last(T) \notin Superseded(S)
      BY <3>1 DEF Superseded, WellFormed, Record
    <3>3. Last(T) \in K
      BY <3>1, <3>2 DEF Kept
    <3> QED BY <1>1, <3>1, <3>3 DEF HasLast
  <2> QED BY <2>1, <2>2
<1>4. Active(K) \subseteq Active(T)
  <2>1. \A x \in T : x.kind = "release" => x \in K
    BY DEF Kept, Superseded
  <2> QED BY <1>1, <2>1 DEF Active, Claimed, Released
<1> QED BY <1>1, <1>2, <1>3, <1>4 DEF WellFormed

----------------------------------------------------------------------------
(* What another process's step leaves of a process's invariant.             *)

Unmoved(p) ==
    /\ pc'[p] = pc[p] /\ req'[p] = req[p] /\ view'[p] = view[p] /\ plan'[p] = plan[p]
    /\ todo'[p] = todo[p] /\ verdict'[p] = verdict[p] /\ tries'[p] = tries[p]
    /\ reread'[p] = reread[p]
    /\ lock' = p <=> lock = p

\* A step of another process that leaves the journal's records.
LEMMA SameJournal ==
    ASSUME NEW p \in Procs, ProcessInv(p), Unmoved(p),
           journal'.ino = journal.ino, journal'.recs = journal.recs
    PROVE  ProcessInv(p)'
<1>1. AtStep(p)'
  BY DEF ProcessInv, Unmoved, AtStep
<1>2. Seen(p)'
  BY DEF ProcessInv, Unmoved, Seen
<1>3. Decided(p)'
  BY DEF ProcessInv, Unmoved, Decided
<1>4. Writing(p)'
  BY DEF ProcessInv, Unmoved, Writing
<1>5. Planned(p)'
  BY DEF ProcessInv, Unmoved, Planned
<1>6. Rewriting(p)'
  BY DEF ProcessInv, Unmoved, Rewriting
<1> QED BY <1>1, <1>2, <1>3, <1>4, <1>5, <1>6 DEF ProcessInv

\* A record appended under somebody else's lock.
LEMMA JournalExtended ==
    ASSUME NEW p \in Procs, ProcessInv(p), Unmoved(p), lock # p,
           WellFormed(journal.recs), NEW r \in Record, r.gen = Gen(journal.recs) + 1,
           journal'.ino = journal.ino, journal'.recs = journal.recs \cup {r}
    PROVE  ProcessInv(p)'
<1>1. AtStep(p)'
  BY DEF ProcessInv, Unmoved, AtStep
<1>2. Seen(p)'
  BY PrefixExtends DEF ProcessInv, Unmoved, Seen
<1>3. pc[p] \notin LockedSteps
  BY DEF ProcessInv, AtStep
<1>4. Decided(p)'
  BY <1>3 DEF ProcessInv, Unmoved, Decided, LockedSteps
<1>5. Writing(p)'
  BY <1>3 DEF ProcessInv, Unmoved, Writing, LockedSteps
<1>6. Planned(p)'
  BY DEF ProcessInv, Unmoved, Planned
<1>7. Rewriting(p)'
  BY <1>3 DEF ProcessInv, Unmoved, Rewriting, LockedSteps
<1> QED BY <1>1, <1>2, <1>4, <1>5, <1>6, <1>7 DEF ProcessInv

\* A journal replaced under somebody else's lock.
LEMMA JournalReplaced ==
    ASSUME NEW p \in Procs, ProcessInv(p), Unmoved(p), lock # p,
           journal.ino \in Nat, view[p].ino \in Nat, journal'.ino = journal.ino + 1
    PROVE  ProcessInv(p)'
<1>1. AtStep(p)'
  BY DEF ProcessInv, Unmoved, AtStep
<1>2. view'[p].ino < journal'.ino
  BY DEF ProcessInv, Unmoved, Seen
<1>3. Seen(p)'
  BY <1>2 DEF ProcessInv, Unmoved, Seen
<1>4. pc[p] \notin LockedSteps
  BY DEF ProcessInv, AtStep
<1>5. Decided(p)'
  BY <1>4 DEF ProcessInv, Unmoved, Decided, LockedSteps
<1>6. Writing(p)'
  BY <1>4 DEF ProcessInv, Unmoved, Writing, LockedSteps
<1>7. Planned(p)'
  BY <1>2 DEF ProcessInv, Unmoved, Planned
<1>8. Rewriting(p)'
  BY <1>4 DEF ProcessInv, Unmoved, Rewriting, LockedSteps
<1> QED BY <1>1, <1>3, <1>5, <1>6, <1>7, <1>8 DEF ProcessInv

\* A process whose operation ended has nothing to keep.
LEMMA Ended ==
    ASSUME LedgerInv, NEW p \in Procs, NEW result, Finish(p, result),
           journal'.ino \in Nat, WellFormed(journal'.recs)
    PROVE  ProcessInv(p)'
<1>1. /\ pc'[p] = "idle" /\ view'[p] = NoView /\ ~reread'[p]
      /\ tries'[p] = 0 /\ MaxAttempts # 0
  BY LedgerAssumption DEF Finish, LedgerInv, TypeOK
<1>2. Seen(p)'
  BY <1>1, EmptyPrefix DEF Seen, NoView
<1> QED
  BY <1>1, <1>2 DEF ProcessInv, AtStep, Decided, Writing, Planned, Rewriting, MutationSteps,
                    CompactionSteps, RepairSteps, LockedSteps

\* A step that leaves the journal's records and the other processes.
LEMMA LocalStep ==
    ASSUME LedgerInv, TypeOK', NEW q \in Procs, ProcessInv(q)',
           journal'.ino = journal.ino, journal'.recs = journal.recs,
           \A p \in Procs \ {q} : Unmoved(p)
    PROVE  LedgerInv'
<1>1. \A p \in Procs \ {q} : ProcessInv(p)'
  BY SameJournal DEF LedgerInv
<1>2. WellFormed(journal.recs)' /\ GenerationsDistinct' /\ NoOverlappingHolders'
  BY DEF LedgerInv, GenerationsDistinct, NoOverlappingHolders
<1> QED BY <1>1, <1>2 DEF LedgerInv

\* The variables an operation's end resets keep their types.
LEMMA FinishTyped ==
    ASSUME TypeOK, NEW p \in Procs, NEW result \in Answers, Finish(p, result),
           journal' \in JournalFile, proj' \in Projection \cup {None},
           lock' \in Procs \cup {None}, faults' \in 0 .. MaxFaults, resets' \in Nat
    PROVE  TypeOK'
<1>1. Idle \in Request
  BY DEF Idle, Request
<1>2. NoView \in JournalFile
  BY DEF NoView, JournalFile
<1>3. NoPlan \in [src : SUBSET Record, kept : SUBSET Record, exact : BOOLEAN]
  BY DEF NoPlan
<1>4. /\ pc' \in [Procs -> Steps]
      /\ req' \in [Procs -> Request]
      /\ view' \in [Procs -> JournalFile]
      /\ plan' \in [Procs -> [src : SUBSET Record, kept : SUBSET Record, exact : BOOLEAN]]
      /\ answer' \in [Procs -> Answers]
  BY <1>1, <1>2, <1>3 DEF TypeOK, Finish, Steps
<1>5. /\ todo' \in [Procs -> Seq(Kinds)]
      /\ verdict' \in [Procs -> BOOLEAN]
      /\ reread' \in [Procs -> BOOLEAN]
  BY DEF TypeOK, Finish
<1>6. /\ tries' \in [Procs -> 0 .. MaxAttempts]
      /\ reads' \in [Procs -> 0 .. MaxReads]
  BY LedgerAssumption DEF TypeOK, Finish
<1> QED BY <1>4, <1>5, <1>6 DEF TypeOK

\* An operation ends, and the journal's records are what they were.
LEMMA FinishStep ==
    ASSUME LedgerInv, NEW p \in Procs, NEW result \in Answers, Finish(p, result),
           journal' \in JournalFile, journal'.ino = journal.ino,
           journal'.recs = journal.recs, proj' \in Projection \cup {None},
           lock' = lock \/ (lock = p /\ lock' = None),
           faults' \in 0 .. MaxFaults, resets' \in Nat
    PROVE  LedgerInv'
<1> USE LedgerAssumption
<1>1. lock' \in Procs \cup {None}
  BY DEF LedgerInv, TypeOK
<1>2. TypeOK'
  BY <1>1, FinishTyped DEF LedgerInv
<1>3. \A q \in Procs \ {p} : Unmoved(q)
  BY DEF Finish, Unmoved, LedgerInv, TypeOK
<1>4. ProcessInv(p)'
  BY Ended DEF LedgerInv, JournalFile
<1> QED BY <1>2, <1>3, <1>4, LocalStep

\* A verb begins.
LEMMA BeginStep ==
    ASSUME LedgerInv, NEW p \in Procs, NEW request \in Request,
           NEW step \in {"stat", "read", "source", "observe"}, Begin(p, request, step),
           step = "stat" => request.verb = "mutate",
           step = "read" => request.verb = "read",
           step = "source" => request.verb \in {"compact", "autocompact"},
           step = "observe" => request.verb \in {"repair", "reinit"}
    PROVE  LedgerInv'
<1>1. TypeOK'
  BY DEF LedgerInv, TypeOK, Begin, Goto, Steps, Answers
<1>2. \A q \in Procs \ {p} : Unmoved(q)
  BY DEF Begin, Goto, Unmoved, LedgerInv, TypeOK
<1>3. pc'[p] = step /\ req'[p] = request
  BY DEF Begin, Goto, LedgerInv, TypeOK
<1>4. AtStep(p)'
  BY <1>3, LedgerAssumption DEF Begin, LedgerInv, ProcessInv, AtStep, MutationSteps, CompactionSteps, RepairSteps, LockedSteps
<1>5. Seen(p)'
  BY <1>3 DEF Begin, Seen, LedgerInv, ProcessInv
<1>6. Decided(p)' /\ Writing(p)' /\ Planned(p)' /\ Rewriting(p)'
  BY <1>3 DEF Decided, Writing, Planned, Rewriting
<1> QED BY <1>1, <1>2, <1>4, <1>5, <1>6, LocalStep DEF ProcessInv, Begin

LEMMA Starts == ASSUME LedgerInv, NEW p \in Procs, Start(p) PROVE LedgerInv'
<1>1. CASE BeginMutation(p)
  <2>1. PICK op \in {"claim", "observe", "settle", "amend"}, r \in Reservations :
            Begin(p, [verb |-> "mutate", op |-> op, res |-> r], "stat")
    BY <1>1 DEF BeginMutation
  <2>2. [verb |-> "mutate", op |-> op, res |-> r] \in Request
    BY DEF Request
  <2> QED BY <2>1, <2>2, BeginStep
<1>2. CASE BeginRead(p)
  <2>1. [verb |-> "read", from |-> Gen(journal.recs)] \in Request
    BY GenBounds DEF Request, LedgerInv
  <2> QED BY <1>2, <2>1, BeginStep DEF BeginRead
<1>3. CASE BeginCompaction(p)
  <2>1. PICK verb \in {"compact", "autocompact"} : Begin(p, [verb |-> verb], "source")
    BY <1>3 DEF BeginCompaction
  <2>2. [verb |-> verb] \in Request
    BY DEF Request
  <2> QED BY <2>1, <2>2, BeginStep
<1>4. CASE BeginRepair(p) \/ BeginReinitialize(p)
  <2>1. [verb |-> "repair"] \in Request /\ [verb |-> "reinit"] \in Request
    BY DEF Request
  <2> QED BY <1>4, <2>1, BeginStep DEF BeginRepair, BeginReinitialize
<1> QED BY <1>1, <1>2, <1>3, <1>4 DEF Start

----------------------------------------------------------------------------
(* The steps of one process that leave the journal's records.               *)

\* An operation ends without touching a file.
LEMMA QuietEnd ==
    ASSUME LedgerInv, NEW p \in Procs, NEW result \in Answers, Finish(p, result),
           UNCHANGED <<journal, proj, resets>>, faults' \in 0 .. MaxFaults,
           lock' = lock \/ (lock = p /\ lock' = None)
    PROVE  LedgerInv'
<1>1. journal \in JournalFile /\ proj \in Projection \cup {None} /\ resets \in Nat
  BY DEF LedgerInv, TypeOK
<1> QED BY <1>1, FinishStep

LEMMA GiveUpKeeps == ASSUME LedgerInv, NEW p \in Procs, GiveUp(p) PROVE LedgerInv'
<1>1. faults' \in 0 .. MaxFaults /\ "done" \in Answers
  BY DEF GiveUp, LedgerInv, TypeOK, Answers
<1>2. Finish(p, "done") /\ UNCHANGED <<journal, proj, resets>> /\ lock' = lock
  BY DEF GiveUp
<1> QED BY <1>1, <1>2, QuietEnd

LEMMA KillKeeps == ASSUME LedgerInv, NEW p \in Procs, Kill(p) PROVE LedgerInv'
<1>1. faults' \in 0 .. MaxFaults /\ "done" \in Answers
  BY LedgerAssumption DEF Kill, LedgerInv, TypeOK, Answers
<1>2. /\ Finish(p, "done") /\ UNCHANGED <<journal, proj, resets>>
      /\ lock' = lock \/ (lock = p /\ lock' = None)
  BY DEF Kill, Release
<1> QED BY <1>1, <1>2, QuietEnd

LEMMA AcquireKeeps == ASSUME LedgerInv, NEW p \in Procs, Acquire(p) PROVE LedgerInv'
<1>1. TypeOK /\ ProcessInv(p)
  BY DEF LedgerInv
<1>2. pc[p] = "acquire" /\ lock = None /\ lock # p /\ lock' = p
  BY LedgerAssumption DEF Acquire
<1>3. UNCHANGED <<journal, proj, req, view, plan, todo, verdict, tries, reads, reread,
                  answer, faults, resets>>
  BY DEF Acquire, local
<1>4. tries[p] \in 0 .. MaxAttempts /\ req[p].verb \in Verbs \ {"read"}
  BY <1>1, <1>2 DEF TypeOK, ProcessInv, AtStep, Request, Idle, Verbs
<1>5. /\ pc' = [pc EXCEPT ![p] = pc'[p]]
      /\ \/ pc'[p] = "recheck" /\ tries[p] < MaxAttempts
         \/ pc'[p] = "decide" /\ tries[p] = MaxAttempts /\ req[p].verb = "mutate"
         \/ pc'[p] = "source" /\ req[p].verb \in {"compact", "autocompact"}
         \/ pc'[p] = "observe" /\ req[p].verb \in {"repair", "reinit"}
  <2>1. pc' = [pc EXCEPT ![p] = IF tries[p] < MaxAttempts THEN "recheck"
                                ELSE Prepare(req[p].verb)]
    BY DEF Acquire, Goto
  <2>2. pc' = [pc EXCEPT ![p] = pc'[p]]
    BY <1>1, <2>1 DEF TypeOK
  <2>3. CASE tries[p] < MaxAttempts
    BY <1>1, <2>1, <2>2, <2>3 DEF TypeOK
  <2>4. CASE ~(tries[p] < MaxAttempts)
    <3>1. tries[p] = MaxAttempts
      BY <1>4, <2>4, LedgerAssumption
    <3>2. pc'[p] = Prepare(req[p].verb)
      BY <1>1, <2>1, <2>4 DEF TypeOK
    <3> QED
      BY <1>1, <1>2, <1>4, <2>2, <3>1, <3>2 DEF Prepare, Verbs, ProcessInv, AtStep
  <2> QED BY <2>3, <2>4
<1>6. TypeOK'
  BY <1>1, <1>2, <1>3, <1>5 DEF TypeOK, Steps
<1>7. \A q \in Procs \ {p} : Unmoved(q)
  BY <1>1, <1>2, <1>3, <1>5, LedgerAssumption DEF Unmoved, TypeOK
<1>8. AtStep(p)'
  BY <1>1, <1>2, <1>3, <1>5 DEF ProcessInv, AtStep, MutationSteps, CompactionSteps, RepairSteps,
                              LockedSteps
<1>9. Seen(p)'
  BY <1>1, <1>2, <1>3, <1>5 DEF ProcessInv, AtStep, Seen
<1>10. Decided(p)' /\ Planned(p)'
  BY <1>1, <1>2, <1>3, <1>5 DEF ProcessInv, Decided, Planned
<1>11. Writing(p)' /\ Rewriting(p)'
  BY <1>5 DEF Writing, Rewriting
<1> QED BY <1>3, <1>6, <1>7, <1>8, <1>9, <1>10, <1>11, LocalStep DEF ProcessInv

LEMMA StatKeeps == ASSUME LedgerInv, NEW p \in Procs, Stat(p) PROVE LedgerInv'
<1> USE DEF LedgerInv
<1>1. TypeOK'
  BY DEF Stat, TypeOK, Goto, Steps, NoView, JournalFile
<1>2. \A q \in Procs \ {p} : Unmoved(q)
  BY DEF Stat, Goto, Unmoved, TypeOK
<1>3. /\ pc'[p] = "replay" /\ req'[p] = req[p]
      /\ view'[p] = [ino |-> journal.ino, recs |-> {}, torn |-> FALSE]
  BY DEF Stat, Goto, TypeOK, NoView
<1>4. AtStep(p)'
  BY <1>3 DEF AtStep, Stat, MutationSteps, CompactionSteps, RepairSteps, LockedSteps, ProcessInv
<1>5. Seen(p)'
  <2>1. journal' = journal /\ journal.ino \in Nat /\ Prefix({}, journal.recs) /\ WellFormed({})
    BY EmptyPrefix DEF Stat, TypeOK, JournalFile
  <2> QED BY <1>3, <2>1 DEF Seen
<1>6. Decided(p)' /\ Writing(p)' /\ Planned(p)' /\ Rewriting(p)'
  BY <1>3 DEF Decided, Writing, Planned, Rewriting
<1> QED BY <1>1, <1>2, <1>4, <1>5, <1>6, LocalStep DEF ProcessInv, Stat

LEMMA ReplayKeeps == ASSUME LedgerInv, NEW p \in Procs, Replay(p) PROVE LedgerInv'
<1> USE DEF LedgerInv
<1>1. TypeOK'
  BY DEF Replay, TypeOK, Goto, Steps, JournalFile
<1>2. \A q \in Procs \ {p} : Unmoved(q)
  BY DEF Replay, Goto, Unmoved, TypeOK
<1>3. /\ pc'[p] = "restat" /\ req'[p] = req[p]
      /\ view'[p].ino = view[p].ino /\ view'[p].recs = journal.recs
  BY DEF Replay, Goto, TypeOK, JournalFile
<1>4. AtStep(p)'
  BY <1>3 DEF AtStep, Replay, MutationSteps, CompactionSteps, RepairSteps, LockedSteps, ProcessInv
<1>5. Seen(p)'
  BY <1>3, PrefixReflexive DEF Seen, Replay, ProcessInv
<1>6. Decided(p)' /\ Writing(p)' /\ Planned(p)' /\ Rewriting(p)'
  BY <1>3 DEF Decided, Writing, Planned, Rewriting
<1> QED BY <1>1, <1>2, <1>4, <1>5, <1>6, LocalStep DEF ProcessInv, Replay

LEMMA RestatKeeps == ASSUME LedgerInv, NEW p \in Procs, Restat(p) PROVE LedgerInv'
<1> USE DEF LedgerInv
<1>1. CASE reads[p] + 1 >= MaxReads /\ Finish(p, "cache_ahead")
  <2>1. faults' \in 0 .. MaxFaults /\ "cache_ahead" \in Answers
    BY DEF Restat, TypeOK, Answers
  <2>2. UNCHANGED <<journal, proj, resets>> /\ lock' = lock
    BY DEF Restat
  <2> QED BY <1>1, <2>1, <2>2, QuietEnd
<1>2. CASE /\ pc' = [pc EXCEPT ![p] = "decide"]
           /\ UNCHANGED <<local, answer>>
  <2>1. TypeOK'
    BY <1>2 DEF Restat, TypeOK, Steps, local
  <2>2. \A q \in Procs \ {p} : Unmoved(q)
    BY <1>2 DEF Restat, Unmoved, TypeOK, local
  <2>3. pc'[p] = "decide"
    BY <1>2 DEF TypeOK
  <2>4. AtStep(p)'
    BY <1>2, <2>3 DEF AtStep, Restat, local, MutationSteps, CompactionSteps, RepairSteps,
                      LockedSteps, ProcessInv
  <2>5. Seen(p)'
    BY <1>2, <2>3 DEF Seen, Restat, local, ProcessInv
  <2>6. Decided(p)' /\ Writing(p)' /\ Planned(p)' /\ Rewriting(p)'
    BY <2>3 DEF Decided, Writing, Planned, Rewriting
  <2> QED BY <2>1, <2>2, <2>4, <2>5, <2>6, LocalStep DEF ProcessInv, Restat
<1>3. CASE /\ reads[p] + 1 < MaxReads
           /\ reads' = [reads EXCEPT ![p] = @ + 1]
           /\ pc' = [pc EXCEPT ![p] = "stat"]
           /\ UNCHANGED <<req, view, plan, todo, verdict, tries, reread, answer>>
  <2>1. TypeOK'
    BY <1>3, LedgerAssumption DEF Restat, TypeOK, Steps
  <2>2. \A q \in Procs \ {p} : Unmoved(q)
    BY <1>3 DEF Restat, Unmoved, TypeOK
  <2>3. pc'[p] = "stat"
    BY <1>3 DEF TypeOK
  <2>4. AtStep(p)'
    BY <1>3, <2>3 DEF AtStep, Restat, MutationSteps, CompactionSteps, RepairSteps,
                      LockedSteps, ProcessInv
  <2>5. Seen(p)'
    BY <1>3, <2>3 DEF Seen, Restat, ProcessInv
  <2>6. Decided(p)' /\ Writing(p)' /\ Planned(p)' /\ Rewriting(p)'
    BY <2>3 DEF Decided, Writing, Planned, Rewriting
  <2> QED BY <2>1, <2>2, <2>4, <2>5, <2>6, LocalStep DEF ProcessInv, Restat
<1> QED BY <1>1, <1>2, <1>3 DEF Restat, Goto

LEMMA DecideKeeps == ASSUME LedgerInv, NEW p \in Procs, Decide(p) PROVE LedgerInv'
<1> USE DEF LedgerInv
<1> DEFINE seen == IF reread[p] THEN view[p] ELSE [view[p] EXCEPT !.recs = journal.recs]
<1>1. /\ seen \in JournalFile
      /\ seen.ino = view[p].ino
      /\ seen.recs = IF reread[p] THEN view[p].recs ELSE journal.recs
  BY DEF TypeOK, JournalFile
<1>2. /\ view' = [view EXCEPT ![p] = seen]
      /\ verdict' = [verdict EXCEPT ![p] = Admissible(req[p], seen.recs)]
      /\ pc' = [pc EXCEPT ![p] = IF lock = p THEN "synchronize" ELSE "acquire"]
      /\ UNCHANGED <<journal, proj, lock, req, plan, todo, tries, reads, reread, answer,
                     faults, resets>>
  BY DEF Decide, Prepared, Goto
<1> HIDE DEF seen
<1>3. Admissible(req[p], seen.recs) \in BOOLEAN
  BY DEF Admissible
<1>4. TypeOK'
  BY <1>1, <1>2, <1>3 DEF TypeOK, Steps
<1>5. \A q \in Procs \ {p} : Unmoved(q)
  BY <1>2 DEF Unmoved, TypeOK
<1>6. /\ pc'[p] = IF lock = p THEN "synchronize" ELSE "acquire"
      /\ view'[p] = seen /\ (verdict'[p] <=> Admissible(req[p], seen.recs))
  BY <1>2, <1>3 DEF TypeOK
<1>7. req[p].verb = "mutate"
  BY DEF Decide, ProcessInv, AtStep, MutationSteps
<1>8. lock = p => seen.recs = journal.recs
  BY <1>1 DEF Decide, ProcessInv, Seen
<1>9. AtStep(p)'
  BY <1>2, <1>6, <1>7 DEF Decide, ProcessInv, AtStep, MutationSteps, CompactionSteps,
                          RepairSteps, LockedSteps
<1>10. Seen(p)'
  BY <1>1, <1>2, <1>6, PrefixReflexive DEF Seen, ProcessInv
<1>11. Decided(p)'
  BY <1>2, <1>6, <1>8 DEF Decided
<1>12. Writing(p)' /\ Planned(p)' /\ Rewriting(p)'
  BY <1>2, <1>6, <1>7 DEF Writing, Planned, Rewriting
<1> QED
  BY <1>2, <1>4, <1>5, <1>9, <1>10, <1>11, <1>12, LocalStep DEF ProcessInv

LEMMA RereadKeeps == ASSUME LedgerInv, NEW p \in Procs, Reread(p) PROVE LedgerInv'
<1> USE DEF LedgerInv
<1>1. /\ pc' = [pc EXCEPT ![p] = "stat"]
      /\ reread' = [reread EXCEPT ![p] = TRUE]
      /\ reads' = [reads EXCEPT ![p] = 0]
      /\ UNCHANGED <<journal, proj, lock, req, view, plan, todo, verdict, tries, answer,
                     faults, resets>>
      /\ pc[p] = "decide"
  BY DEF Reread, Goto
<1>2. TypeOK'
  BY <1>1, LedgerAssumption DEF TypeOK, Steps
<1>3. \A q \in Procs \ {p} : Unmoved(q)
  BY <1>1 DEF Unmoved, TypeOK
<1>4. pc'[p] = "stat"
  BY <1>1 DEF TypeOK
<1>5. AtStep(p)'
  BY <1>1, <1>4 DEF AtStep, MutationSteps, CompactionSteps, RepairSteps, LockedSteps, ProcessInv
<1>6. Seen(p)'
  BY <1>1, <1>4 DEF Seen, ProcessInv
<1>7. Decided(p)' /\ Writing(p)' /\ Planned(p)' /\ Rewriting(p)'
  BY <1>4 DEF Decided, Writing, Planned, Rewriting
<1> QED BY <1>1, <1>2, <1>3, <1>5, <1>6, <1>7, LocalStep DEF ProcessInv

\* A lost preparation: the lock is dropped and the attempt counted.
LEMMA RetrySound ==
    ASSUME LedgerInv, NEW p \in Procs, pc[p] = "recheck", Retry(p),
           \A q \in Procs \ {p} : req'[q] = req[q] /\ view'[q] = view[q] /\ plan'[q] = plan[q]
                                  /\ todo'[q] = todo[q] /\ verdict'[q] = verdict[q],
           req'[p] = req[p], plan'[p] = plan[p], Seen(p)', view'[p].ino = view[p].ino,
           journal'.ino = journal.ino, journal'.recs = journal.recs
    PROVE  /\ tries' \in [Procs -> 0 .. MaxAttempts] /\ reread' \in [Procs -> BOOLEAN]
           /\ pc' \in [Procs -> Steps] /\ lock' \in Procs \cup {None}
           /\ \A q \in Procs \ {p} : Unmoved(q)
           /\ ProcessInv(p)'
<1> USE LedgerAssumption DEF LedgerInv
<1>1. lock = p /\ tries[p] < MaxAttempts /\ tries[p] \in Nat
      /\ req[p].verb \notin {"idle", "read"} /\ req[p].verb \in Verbs \cup {"idle"}
  BY DEF ProcessInv, AtStep, LockedSteps, TypeOK, Request, Idle, Verbs
<1>2. /\ lock' = None
      /\ tries' = [tries EXCEPT ![p] = tries[p] + 1]
      /\ reread' = [reread EXCEPT ![p] = FALSE]
      /\ pc' = [pc EXCEPT ![p] = IF tries[p] + 1 < MaxAttempts THEN Prepare(req[p].verb)
                                 ELSE "acquire"]
  BY DEF Retry, Goto
<1>3. \/ pc'[p] = "acquire" /\ tries[p] + 1 = MaxAttempts
      \/ /\ tries[p] + 1 < MaxAttempts
         /\ \/ pc'[p] = "decide" /\ req[p].verb = "mutate"
            \/ pc'[p] = "source" /\ req[p].verb \in {"compact", "autocompact"}
            \/ pc'[p] = "observe" /\ req[p].verb \in {"repair", "reinit"}
  BY <1>1, <1>2 DEF TypeOK, Prepare, Verbs
<1>4. pc' = [pc EXCEPT ![p] = pc'[p]] /\ tries'[p] = tries[p] + 1 /\ ~reread'[p]
  BY <1>2 DEF TypeOK
<1>5. /\ tries' \in [Procs -> 0 .. MaxAttempts] /\ reread' \in [Procs -> BOOLEAN]
      /\ pc' \in [Procs -> Steps] /\ lock' \in Procs \cup {None}
  BY <1>1, <1>2, <1>3, <1>4 DEF TypeOK, Steps
<1>6. \A q \in Procs \ {p} : Unmoved(q)
  BY <1>1, <1>2, <1>4 DEF TypeOK, Unmoved
<1>7. AtStep(p)'
  BY <1>1, <1>2, <1>3, <1>4 DEF AtStep, MutationSteps, CompactionSteps, RepairSteps, LockedSteps
<1>8. Decided(p)'
  BY <1>1, <1>3, <1>4 DEF Decided
<1>9. Planned(p)'
  <2>1. CASE req[p].verb \notin {"compact", "autocompact"}
    BY <2>1 DEF Planned
  <2>2. CASE req[p].verb \in {"compact", "autocompact"}
    <3>1. /\ WellFormed(plan[p].src)
          /\ \E expired \in Expirable(plan[p].src) :
                /\ plan[p].kept = Kept(plan[p].src, expired)
                /\ plan[p].exact <=> expired # {}
          /\ view[p].ino = journal.ino => plan[p].src \subseteq journal.recs
      BY <2>2 DEF Planned, ProcessInv
    <3> QED BY <3>1 DEF Planned
  <2> QED BY <2>1, <2>2
<1>10. Writing(p)' /\ Rewriting(p)'
  BY <1>3 DEF Writing, Rewriting
<1> QED BY <1>5, <1>6, <1>7, <1>8, <1>9, <1>10 DEF ProcessInv

LEMMA RecheckMutationKeeps ==
    ASSUME LedgerInv, NEW p \in Procs, RecheckMutation(p) PROVE LedgerInv'
<1> USE DEF LedgerInv
<1> DEFINE seen == IF StillCurrent(view[p]) THEN journal.recs ELSE view[p].recs
<1>1. /\ pc[p] = "recheck" /\ req[p].verb = "mutate"
      /\ view' = [view EXCEPT ![p].recs = seen]
      /\ UNCHANGED <<proj, req, plan, todo, verdict, reads, answer, faults, resets>>
      /\ journal' = [journal EXCEPT !.torn = @ /\ ~StillCurrent(view[p])]
  BY DEF RecheckMutation
<1>2. journal' \in JournalFile /\ journal'.ino = journal.ino /\ journal'.recs = journal.recs
  BY <1>1 DEF TypeOK, JournalFile
<1>3. view' \in [Procs -> JournalFile]
  BY <1>1 DEF TypeOK, JournalFile
<1>4. /\ view'[p].ino = view[p].ino /\ view'[p].recs = seen
      /\ \A q \in Procs \ {p} : view'[q] = view[q]
  BY <1>1 DEF TypeOK, JournalFile
<1>5. Seen(p)'
  BY <1>1, <1>2, <1>4, PrefixReflexive DEF Seen, ProcessInv, RecheckMutation, Retry, Goto, TypeOK,
     StillCurrent
<1>6. CASE Unchanged(view[p]) /\ Goto(p, "synchronize") /\ UNCHANGED <<lock, tries, reread>>
  <2>1. pc' = [pc EXCEPT ![p] = "synchronize"] /\ pc'[p] = "synchronize"
    BY <1>6 DEF Goto, TypeOK
  <2>2. TypeOK'
    BY <1>1, <1>2, <1>3, <1>6, <2>1 DEF TypeOK, Steps
  <2>3. \A q \in Procs \ {p} : Unmoved(q)
    BY <1>1, <1>4, <1>6, <2>1 DEF Unmoved, TypeOK
  <2>4. AtStep(p)'
    BY <1>1, <1>6, <2>1 DEF AtStep, MutationSteps, CompactionSteps, RepairSteps, LockedSteps,
                            ProcessInv
  <2>5. view[p].recs = journal.recs
    BY <1>6, PrefixComplete DEF Unchanged, StillCurrent, ProcessInv, Seen
  <2>6. Decided(p)'
    BY <1>1, <1>2, <2>1, <2>5 DEF Decided, ProcessInv, AtStep
  <2>7. Writing(p)' /\ Planned(p)' /\ Rewriting(p)'
    BY <2>1 DEF Writing, Planned, Rewriting
  <2> QED BY <1>2, <1>5, <2>2, <2>3, <2>4, <2>6, <2>7, LocalStep DEF ProcessInv
<1>7. CASE Retry(p)
  <2>1. /\ tries' \in [Procs -> 0 .. MaxAttempts] /\ reread' \in [Procs -> BOOLEAN]
        /\ pc' \in [Procs -> Steps] /\ lock' \in Procs \cup {None}
        /\ \A q \in Procs \ {p} : Unmoved(q)
        /\ ProcessInv(p)'
    BY <1>1, <1>2, <1>4, <1>5, <1>7, RetrySound
  <2>2. TypeOK'
    BY <1>1, <1>2, <1>3, <2>1 DEF TypeOK
  <2> QED BY <1>2, <2>1, <2>2, LocalStep
<1> QED BY <1>6, <1>7 DEF RecheckMutation

LEMMA OpenTransactionKeeps ==
    ASSUME LedgerInv, NEW p \in Procs, OpenTransaction(p) PROVE LedgerInv'
<1> USE DEF LedgerInv
<1>1. /\ pc[p] = "synchronize" /\ verdict[p]
      /\ view' = [view EXCEPT ![p].recs = journal.recs]
      /\ journal' = [journal EXCEPT !.torn = FALSE]
      /\ todo' = [todo EXCEPT ![p] = Operations(req[p].op)]
      /\ pc' = [pc EXCEPT ![p] = "append"]
      /\ UNCHANGED <<proj, lock, req, plan, verdict, tries, reads, reread, answer, faults, resets>>
  BY DEF OpenTransaction, Synchronized, Goto
<1>2. req[p].op \in {"claim", "observe", "settle", "amend"}
  <2>1. req[p] \in Request /\ req[p].verb = "mutate"
    BY <1>1 DEF ProcessInv, AtStep, MutationSteps, TypeOK
  <2> QED BY <2>1 DEF Request, Idle
<1>3. Operations(req[p].op) \in
         {<<"claim">>, <<"extent">>, <<"extent", "release">>, <<"evidence">>}
      /\ (Operations(req[p].op) = <<"claim">> => req[p].op = "claim")
  BY <1>2 DEF Operations
<1>4. Operations(req[p].op) \in Seq(Kinds)
  <2>1. {"claim", "extent", "release", "evidence"} \subseteq Kinds
    BY DEF Kinds
  <2>2. /\ <<"claim">> \in Seq(Kinds) /\ <<"extent">> \in Seq(Kinds)
        /\ <<"extent", "release">> \in Seq(Kinds) /\ <<"evidence">> \in Seq(Kinds)
    BY <2>1
  <2> QED BY <1>3, <2>2
<1>5. journal' \in JournalFile /\ journal'.ino = journal.ino /\ journal'.recs = journal.recs
  BY <1>1 DEF TypeOK, JournalFile
<1>6. view' \in [Procs -> JournalFile]
  BY <1>1 DEF TypeOK, JournalFile
<1>7. /\ view'[p].ino = view[p].ino /\ view'[p].recs = journal.recs
      /\ \A q \in Procs \ {p} : view'[q] = view[q]
  BY <1>1 DEF TypeOK, JournalFile
<1>8. pc'[p] = "append" /\ todo'[p] = Operations(req[p].op)
  BY <1>1 DEF TypeOK
<1>9. TypeOK'
  BY <1>1, <1>4, <1>5, <1>6 DEF TypeOK, Steps
<1>10. \A q \in Procs \ {p} : Unmoved(q)
  BY <1>1, <1>7 DEF Unmoved, TypeOK
<1>11. AtStep(p)'
  BY <1>1, <1>8 DEF AtStep, MutationSteps, CompactionSteps, RepairSteps, LockedSteps, ProcessInv
<1>12. Seen(p)'
  BY <1>1, <1>5, <1>7, <1>8, PrefixReflexive DEF Seen, ProcessInv
<1>13. Writing(p)'
  <2>1. Admissible(req[p], journal.recs)
    BY <1>1 DEF ProcessInv, Decided
  <2>2. todo'[p] = <<"claim">> =>
           \A a \in Active(journal.recs) : {a, req[p].res} \notin Overlaps
    BY <1>3, <1>8, <2>1 DEF Admissible
  <2> QED BY <1>1, <1>3, <1>5, <1>7, <1>8, <2>2 DEF Writing
<1>14. Decided(p)' /\ Planned(p)' /\ Rewriting(p)'
  BY <1>8 DEF Decided, Planned, Rewriting
<1> QED BY <1>5, <1>9, <1>10, <1>11, <1>12, <1>13, <1>14, LocalStep DEF ProcessInv

\* A mutation that ends at validation, with the tail synchronized.
LEMMA SynchronizedEnd ==
    ASSUME LedgerInv, NEW p \in Procs, pc[p] = "synchronize", NEW result \in Answers,
           Finish(p, result), journal' = [journal EXCEPT !.torn = FALSE], lock' = None,
           proj' \in {proj, ProjectionOf(journal.recs)}, UNCHANGED <<faults, resets>>
    PROVE  LedgerInv'
<1> USE DEF LedgerInv
<1>1. journal' \in JournalFile /\ journal'.ino = journal.ino /\ journal'.recs = journal.recs
  BY DEF TypeOK, JournalFile
<1>2. proj' \in Projection \cup {None}
  BY ProjectionType DEF TypeOK
<1>3. lock = p
  BY DEF ProcessInv, AtStep, LockedSteps
<1>4. faults' \in 0 .. MaxFaults /\ resets' \in Nat
  BY DEF TypeOK
<1> QED BY <1>1, <1>2, <1>3, <1>4, FinishStep

LEMMA RefusalsKeep ==
    ASSUME LedgerInv, NEW p \in Procs, Reject(p) \/ RefuseProjection(p) PROVE LedgerInv'
<1>1. "rejected" \in Answers /\ "unreadable" \in Answers
  BY DEF Answers
<1>2. CASE Reject(p)
  <2>1. /\ pc[p] = "synchronize" /\ Finish(p, "rejected") /\ lock' = None
        /\ journal' = [journal EXCEPT !.torn = FALSE]
        /\ proj' \in {proj, ProjectionOf(journal.recs)} /\ UNCHANGED <<faults, resets>>
    BY <1>2 DEF Reject
  <2> QED BY <1>1, <2>1, SynchronizedEnd
<1>3. CASE RefuseProjection(p)
  <2>1. /\ pc[p] = "synchronize" /\ Finish(p, "unreadable") /\ lock' = None
        /\ journal' = [journal EXCEPT !.torn = FALSE]
        /\ proj' \in {proj, ProjectionOf(journal.recs)} /\ UNCHANGED <<faults, resets>>
    BY <1>3 DEF RefuseProjection
  <2> QED BY <1>1, <2>1, SynchronizedEnd
<1> QED BY <1>2, <1>3

LEMMA BeginRecordKeeps ==
    ASSUME LedgerInv, NEW p \in Procs, BeginRecord(p) PROVE LedgerInv'
<1> USE DEF LedgerInv
<1>1. /\ pc[p] = "append" /\ pc' = [pc EXCEPT ![p] = "write"]
      /\ journal' = [journal EXCEPT !.torn = TRUE]
      /\ UNCHANGED <<proj, lock, req, view, plan, todo, verdict, tries, reads, reread, answer,
                     faults, resets>>
  BY DEF BeginRecord, Goto, local
<1>2. journal' \in JournalFile /\ journal'.ino = journal.ino /\ journal'.recs = journal.recs
  BY <1>1 DEF TypeOK, JournalFile
<1>3. TypeOK'
  BY <1>1, <1>2 DEF TypeOK, Steps
<1>4. \A q \in Procs \ {p} : Unmoved(q)
  BY <1>1 DEF Unmoved, TypeOK
<1>5. pc'[p] = "write"
  BY <1>1 DEF TypeOK
<1>6. AtStep(p)'
  BY <1>1, <1>5 DEF AtStep, MutationSteps, CompactionSteps, RepairSteps, LockedSteps, ProcessInv
<1>7. Seen(p)'
  BY <1>1, <1>2, <1>5 DEF Seen, ProcessInv
<1>8. Writing(p)'
  BY <1>1, <1>2, <1>5 DEF Writing, ProcessInv
<1>9. Decided(p)' /\ Planned(p)' /\ Rewriting(p)'
  BY <1>5 DEF Decided, Planned, Rewriting
<1> QED BY <1>2, <1>3, <1>4, <1>6, <1>7, <1>8, <1>9, LocalStep DEF ProcessInv

\* An operation ends by publishing the projection of well-formed records.
LEMMA PublishingEnd ==
    ASSUME LedgerInv, NEW p \in Procs, pc[p] \in LockedSteps, NEW result \in Answers,
           Finish(p, result), NEW S, WellFormed(S), proj' = ProjectionOf(S), lock' = None,
           UNCHANGED <<journal, faults, resets>>
    PROVE  LedgerInv'
<1>1. journal \in JournalFile /\ faults \in 0 .. MaxFaults /\ resets \in Nat
  BY DEF LedgerInv, TypeOK
<1>2. lock = p
  BY DEF LedgerInv, ProcessInv, AtStep
<1>3. proj' \in Projection \cup {None}
  BY ProjectionType
<1> QED BY <1>1, <1>2, <1>3, FinishStep

LEMMA PublicationsKeep ==
    ASSUME LedgerInv, NEW p \in Procs, Publish(p) \/ Rebuild(p) \/ Clear(p) PROVE LedgerInv'
<1>1. WellFormed(view[p].recs) /\ WellFormed({})
  BY EmptyPrefix DEF LedgerInv, ProcessInv, Seen
<1>2. "appended" \in Answers /\ "done" \in Answers
  BY DEF Answers
<1>3. CASE Publish(p)
  <2>1. /\ pc[p] \in LockedSteps /\ Finish(p, "appended") /\ lock' = None
        /\ proj' = ProjectionOf(view[p].recs) /\ UNCHANGED <<journal, faults, resets>>
    BY <1>3 DEF Publish, LockedSteps
  <2> QED BY <1>1, <1>2, <2>1, PublishingEnd
<1>4. CASE Rebuild(p)
  <2>1. /\ pc[p] \in LockedSteps /\ Finish(p, "done") /\ lock' = None
        /\ proj' = ProjectionOf(view[p].recs) /\ UNCHANGED <<journal, faults, resets>>
    BY <1>4 DEF Rebuild, LockedSteps
  <2> QED BY <1>1, <1>2, <2>1, PublishingEnd
<1>5. CASE Clear(p)
  <2>1. /\ pc[p] \in LockedSteps /\ Finish(p, "done") /\ lock' = None
        /\ proj' = ProjectionOf({}) /\ UNCHANGED <<journal, faults, resets>>
    BY <1>5 DEF Clear, LockedSteps
  <2> QED BY <1>1, <1>2, <2>1, PublishingEnd
<1> QED BY <1>3, <1>4, <1>5

\* Reading the whole journal, on the way to a step outside the lock.
LEMMA WholeRead ==
    ASSUME LedgerInv, NEW p \in Procs, NEW file \in JournalFile,
           file.ino = journal.ino, file.recs = journal.recs,
           NEW step \in Steps \ {"idle", "decide", "restat"}, pc' = [pc EXCEPT ![p] = step],
           view' = [view EXCEPT ![p] = file],
           UNCHANGED <<journal, proj, lock, req, plan, todo, verdict, tries, reads, reread,
                       answer, faults, resets>>,
           AtStep(p)', Decided(p)', Writing(p)', Planned(p)', Rewriting(p)'
    PROVE  LedgerInv'
<1> USE DEF LedgerInv
<1>1. TypeOK'
  BY DEF TypeOK
<1>2. \A q \in Procs \ {p} : Unmoved(q)
  BY DEF Unmoved, TypeOK
<1>3. pc'[p] = step /\ view'[p] = file
  BY DEF TypeOK
<1>4. journal.ino \in Nat
  BY DEF TypeOK, JournalFile
<1>5. Seen(p)'
  BY <1>3, <1>4, PrefixReflexive DEF Seen
<1> QED BY <1>1, <1>2, <1>5, LocalStep DEF ProcessInv

LEMMA ReadKeeps == ASSUME LedgerInv, NEW p \in Procs, Read(p) PROVE LedgerInv'
<1> DEFINE file == [NoView EXCEPT !.ino = journal.ino, !.recs = journal.recs]
<1>1. file \in JournalFile /\ file.ino = journal.ino /\ file.recs = journal.recs
  BY DEF LedgerInv, TypeOK, JournalFile, NoView
<1>2. /\ pc[p] = "read" /\ pc' = [pc EXCEPT ![p] = "validate"]
      /\ view' = [view EXCEPT ![p] = file]
      /\ UNCHANGED <<journal, proj, lock, req, plan, todo, verdict, tries, reads, reread,
                     answer, faults, resets>>
  BY DEF Read, Goto
<1>3. pc'[p] = "validate" /\ "validate" \in Steps \ {"idle", "decide", "restat"}
  BY <1>2 DEF LedgerInv, TypeOK, Steps
<1>4. AtStep(p)'
  BY <1>2, <1>3 DEF AtStep, LedgerInv, ProcessInv, MutationSteps, CompactionSteps, RepairSteps,
                    LockedSteps
<1>5. Decided(p)' /\ Writing(p)' /\ Planned(p)' /\ Rewriting(p)'
  BY <1>3 DEF Decided, Writing, Planned, Rewriting
<1> HIDE DEF file
<1> QED BY <1>1, <1>2, <1>3, <1>4, <1>5, WholeRead

LEMMA SourceKeeps == ASSUME LedgerInv, NEW p \in Procs, Source(p) PROVE LedgerInv'
<1>1. journal \in JournalFile
  BY DEF LedgerInv, TypeOK
<1>2. /\ pc[p] = "source" /\ pc' = [pc EXCEPT ![p] = "rewrite"]
      /\ view' = [view EXCEPT ![p] = journal]
      /\ UNCHANGED <<journal, proj, lock, req, plan, todo, verdict, tries, reads, reread,
                     answer, faults, resets>>
  BY DEF Source, Goto
<1>3. pc'[p] = "rewrite" /\ "rewrite" \in Steps \ {"idle", "decide", "restat"}
  BY <1>2 DEF LedgerInv, TypeOK, Steps
<1>4. AtStep(p)'
  BY <1>2, <1>3 DEF AtStep, LedgerInv, ProcessInv, MutationSteps, CompactionSteps, RepairSteps,
                    LockedSteps
<1>5. Decided(p)' /\ Writing(p)' /\ Planned(p)' /\ Rewriting(p)'
  BY <1>3 DEF Decided, Writing, Planned, Rewriting
<1> QED BY <1>1, <1>2, <1>3, <1>4, <1>5, WholeRead

LEMMA ObserveKeeps == ASSUME LedgerInv, NEW p \in Procs, Observe(p) PROVE LedgerInv'
<1> DEFINE step == IF lock = p THEN IF req[p].verb = "repair" THEN "rebuild" ELSE "discard"
                   ELSE "acquire"
<1>1. journal \in JournalFile
  BY DEF LedgerInv, TypeOK
<1>2. /\ pc[p] = "observe" /\ pc' = [pc EXCEPT ![p] = step]
      /\ view' = [view EXCEPT ![p] = journal]
      /\ UNCHANGED <<journal, proj, lock, req, plan, todo, verdict, tries, reads, reread,
                     answer, faults, resets>>
  BY DEF Observe, Prepared, Goto
<1>3. pc'[p] = step /\ step \in Steps \ {"idle", "decide", "restat"}
  BY <1>2 DEF LedgerInv, TypeOK, Steps
<1>4. req[p].verb \in {"repair", "reinit"}
  BY <1>2 DEF LedgerInv, ProcessInv, AtStep, RepairSteps
<1>5. AtStep(p)'
  BY <1>2, <1>3, <1>4 DEF AtStep, LedgerInv, ProcessInv, MutationSteps, CompactionSteps,
                          RepairSteps, LockedSteps
<1>6. Decided(p)' /\ Writing(p)' /\ Planned(p)' /\ Rewriting(p)'
  BY <1>2, <1>3, <1>4 DEF Decided, Writing, Planned, Rewriting
<1> HIDE DEF step
<1> QED BY <1>1, <1>2, <1>3, <1>5, <1>6, WholeRead

LEMMA ValidateKeeps == ASSUME LedgerInv, NEW p \in Procs, Validate(p) PROVE LedgerInv'
<1> USE DEF LedgerInv
<1>1. /\ pc[p] = "validate" /\ lock' = lock /\ UNCHANGED <<journal, proj, resets>>
      /\ faults' \in 0 .. MaxFaults
      /\ {"cache_ahead", "unreadable", "done"} \subseteq Answers
  BY DEF Validate, TypeOK, Answers
<1>2. CASE \E result \in {"cache_ahead", "unreadable", "done"} : Finish(p, result)
  BY <1>1, <1>2, QuietEnd
<1>3. CASE /\ reads[p] + 1 < MaxReads
           /\ reads' = [reads EXCEPT ![p] = @ + 1]
           /\ pc' = [pc EXCEPT ![p] = "read"]
           /\ UNCHANGED <<req, view, plan, todo, verdict, tries, reread, answer>>
  <2>1. TypeOK'
    BY <1>3, LedgerAssumption DEF Validate, TypeOK, Steps
  <2>2. \A q \in Procs \ {p} : Unmoved(q)
    BY <1>1, <1>3 DEF Unmoved, TypeOK
  <2>3. pc'[p] = "read"
    BY <1>3 DEF TypeOK
  <2>4. AtStep(p)'
    BY <1>1, <1>3, <2>3 DEF AtStep, MutationSteps, CompactionSteps, RepairSteps, LockedSteps,
                            ProcessInv
  <2>5. Seen(p)'
    BY <1>1, <1>3, <2>3 DEF Seen, ProcessInv
  <2>6. Decided(p)' /\ Writing(p)' /\ Planned(p)' /\ Rewriting(p)'
    BY <2>3 DEF Decided, Writing, Planned, Rewriting
  <2> QED BY <1>1, <2>1, <2>2, <2>4, <2>5, <2>6, LocalStep DEF ProcessInv
<1> QED BY <1>2, <1>3 DEF Validate, Goto

LEMMA RefuseRewriteKeeps ==
    ASSUME LedgerInv, NEW p \in Procs, RefuseRewrite(p) PROVE LedgerInv'
<1>1. faults' \in 0 .. MaxFaults /\ "done" \in Answers
  BY DEF RefuseRewrite, LedgerInv, TypeOK, Answers
<1>2. /\ Finish(p, "done") /\ UNCHANGED <<journal, proj, resets>>
      /\ lock' = lock \/ (lock = p /\ lock' = None)
  BY DEF RefuseRewrite, Release
<1> QED BY <1>1, <1>2, QuietEnd

LEMMA ProjectCompactedKeeps ==
    ASSUME LedgerInv, NEW p \in Procs, ProjectCompacted(p) PROVE LedgerInv'
<1> USE DEF LedgerInv
<1>1. /\ pc[p] = "project" /\ pc' = [pc EXCEPT ![p] = "rename"]
      /\ proj' = ProjectionOf(plan[p].kept)
      /\ UNCHANGED <<journal, lock, req, view, plan, todo, verdict, tries, reads, reread, answer,
                     faults, resets>>
  BY DEF ProjectCompacted, Goto, local
<1>2. proj' \in Projection
  BY <1>1, ProjectionType DEF ProcessInv, Rewriting
<1>3. TypeOK'
  BY <1>1, <1>2 DEF TypeOK, Steps
<1>4. \A q \in Procs \ {p} : Unmoved(q)
  BY <1>1 DEF Unmoved, TypeOK
<1>5. pc'[p] = "rename"
  BY <1>1 DEF TypeOK
<1>6. AtStep(p)'
  BY <1>1, <1>5 DEF AtStep, MutationSteps, CompactionSteps, RepairSteps, LockedSteps, ProcessInv
<1>7. Seen(p)'
  BY <1>1, <1>5 DEF Seen, ProcessInv
<1>8. Rewriting(p)'
  BY <1>1, <1>5 DEF Rewriting, ProcessInv
<1>9. Decided(p)' /\ Planned(p)' /\ Writing(p)'
  BY <1>5 DEF Decided, Planned, Writing
<1> QED BY <1>1, <1>3, <1>4, <1>6, <1>7, <1>8, <1>9, LocalStep DEF ProcessInv

LEMMA RewriteKeeps == ASSUME LedgerInv, NEW p \in Procs, Rewrite(p) PROVE LedgerInv'
<1> USE DEF LedgerInv
<1>1. PICK expired \in Expirable(journal.recs) :
         plan' = [plan EXCEPT ![p] = [src |-> journal.recs, kept |-> Kept(journal.recs, expired),
                                      exact |-> expired # {}]]
  BY DEF Rewrite
<1>2. /\ pc[p] = "rewrite"
      /\ pc' = [pc EXCEPT ![p] = IF lock = p THEN "project" ELSE "acquire"]
      /\ UNCHANGED <<journal, proj, lock, req, view, todo, verdict, tries, reads, reread,
                     answer, faults, resets>>
  BY DEF Rewrite, Prepared, Goto
<1>3. /\ WellFormed(Kept(journal.recs, expired))
      /\ Kept(journal.recs, expired) \subseteq journal.recs
      /\ Active(Kept(journal.recs, expired)) \subseteq Active(journal.recs)
  BY KeptSound
<1>4. /\ plan'[p].src = journal.recs
      /\ plan'[p].kept = Kept(journal.recs, expired)
      /\ plan'[p].exact <=> expired # {}
      /\ \A q \in Procs \ {p} : plan'[q] = plan[q]
  BY <1>1 DEF TypeOK
<1>5. plan' \in [Procs -> [src : SUBSET Record, kept : SUBSET Record, exact : BOOLEAN]]
  BY <1>1, <1>3 DEF TypeOK, WellFormed
<1>6. TypeOK'
  BY <1>2, <1>5 DEF TypeOK, Steps
<1>7. \A q \in Procs \ {p} : Unmoved(q)
  BY <1>2, <1>4 DEF Unmoved, TypeOK
<1>8. pc'[p] = IF lock = p THEN "project" ELSE "acquire"
  BY <1>2 DEF TypeOK
<1>9. req[p].verb \in {"compact", "autocompact"}
  BY <1>2 DEF ProcessInv, AtStep, CompactionSteps
<1>10. AtStep(p)'
  BY <1>2, <1>8, <1>9 DEF AtStep, MutationSteps, CompactionSteps, RepairSteps, LockedSteps,
                          ProcessInv
<1>11. Seen(p)'
  BY <1>2, <1>8 DEF Seen, ProcessInv
<1>12. Planned(p)'
  BY <1>2, <1>4 DEF Planned
<1>13. Rewriting(p)'
  BY <1>2, <1>3, <1>4 DEF Rewriting
<1>14. Decided(p)' /\ Writing(p)'
  BY <1>2, <1>8, <1>9 DEF Decided, Writing
<1> QED BY <1>2, <1>6, <1>7, <1>10, <1>11, <1>12, <1>13, <1>14, LocalStep DEF ProcessInv

\* A rechecked rewrite goes on to publication.
LEMMA RewriteAdmitted ==
    ASSUME LedgerInv, NEW p \in Procs, pc[p] = "recheck",
           req[p].verb \in {"compact", "autocompact"},
           pc' = [pc EXCEPT ![p] = "project"],
           NEW K, WellFormed(K), K \subseteq journal.recs,
           Active(K) \subseteq Active(journal.recs),
           plan' = [plan EXCEPT ![p].kept = K],
           UNCHANGED <<journal, proj, lock, req, view, todo, verdict, tries, reads, reread,
                       answer, faults, resets>>
    PROVE  LedgerInv'
<1> USE DEF LedgerInv
<1>1. plan' \in [Procs -> [src : SUBSET Record, kept : SUBSET Record, exact : BOOLEAN]]
  BY DEF TypeOK, WellFormed
<1>2. plan'[p].kept = K /\ \A q \in Procs \ {p} : plan'[q] = plan[q]
  BY DEF TypeOK
<1>3. TypeOK'
  BY <1>1 DEF TypeOK, Steps
<1>4. \A q \in Procs \ {p} : Unmoved(q)
  BY <1>2 DEF Unmoved, TypeOK
<1>5. pc'[p] = "project"
  BY DEF TypeOK
<1>6. AtStep(p)'
  BY <1>5 DEF AtStep, MutationSteps, CompactionSteps, RepairSteps, LockedSteps, ProcessInv
<1>7. Seen(p)'
  BY <1>5 DEF Seen, ProcessInv
<1>8. Rewriting(p)'
  BY <1>2 DEF Rewriting
<1>9. Decided(p)' /\ Planned(p)' /\ Writing(p)'
  BY <1>5 DEF Decided, Planned, Writing
<1> QED BY <1>3, <1>4, <1>6, <1>7, <1>8, <1>9, LocalStep DEF ProcessInv

LEMMA RecheckCompactionKeeps ==
    ASSUME LedgerInv, NEW p \in Procs, RecheckCompaction(p) PROVE LedgerInv'
<1> USE DEF LedgerInv
<1>1. /\ pc[p] = "recheck" /\ req[p].verb \in {"compact", "autocompact"}
      /\ UNCHANGED <<journal, proj, faults, resets>>
  BY DEF RecheckCompaction
<1>2. lock = p /\ "done" \in Answers /\ faults' \in 0 .. MaxFaults
  BY <1>1 DEF ProcessInv, AtStep, LockedSteps, Answers, TypeOK
<1>3. WellFormed(plan[p].src)
  BY <1>1 DEF ProcessInv, Planned
<1>4. PICK expired \in Expirable(plan[p].src) :
         /\ plan[p].kept = Kept(plan[p].src, expired)
         /\ plan[p].exact <=> expired # {}
  BY <1>1 DEF ProcessInv, Planned
<1>5. CASE SameSource(p) /\ Goto(p, "project") /\ UNCHANGED <<lock, local, answer>>
  <2>1. plan[p].src = journal.recs
    BY <1>5 DEF SameSource
  <2>2. /\ WellFormed(plan[p].kept) /\ plan[p].kept \subseteq journal.recs
        /\ Active(plan[p].kept) \subseteq Active(journal.recs)
    BY <1>3, <1>4, <2>1, KeptSound
  <2>3. plan' = [plan EXCEPT ![p].kept = plan[p].kept]
    BY <1>5 DEF local, TypeOK
  <2>4. /\ pc' = [pc EXCEPT ![p] = "project"]
        /\ UNCHANGED <<journal, proj, lock, req, view, todo, verdict, tries, reads, reread,
                       answer, faults, resets>>
    BY <1>1, <1>5 DEF Goto, local
  <2> QED BY <1>1, <2>2, <2>3, <2>4, RewriteAdmitted
<1>6. CASE /\ TailAdmitted(p)
           /\ plan' = [plan EXCEPT ![p].kept = @ \cup (journal.recs \ plan[p].src)]
           /\ Goto(p, "project")
           /\ UNCHANGED <<lock, req, view, todo, verdict, tries, reads, reread, answer>>
  <2> DEFINE K == Kept(plan[p].src, {}) \cup (journal.recs \ plan[p].src)
  <2>1. expired = {} /\ plan[p].src \subseteq journal.recs
    BY <1>1, <1>4, <1>6 DEF TailAdmitted, ProcessInv, Planned
  <2>2. WellFormed(K) /\ K \subseteq journal.recs /\ Active(K) \subseteq Active(journal.recs)
    <3>1. WellFormed(journal.recs) /\ K = Kept(plan[p].src, {}) \cup (journal.recs \ plan[p].src)
      OBVIOUS
    <3> HIDE DEF LedgerInv, K
    <3> QED BY <1>3, <2>1, <3>1, KeptWithTailSound
  <2>3. plan' = [plan EXCEPT ![p].kept = K]
    BY <1>4, <1>6, <2>1 DEF TypeOK
  <2>4. /\ pc' = [pc EXCEPT ![p] = "project"]
        /\ UNCHANGED <<journal, proj, lock, req, view, todo, verdict, tries, reads, reread,
                       answer, faults, resets>>
    BY <1>1, <1>6 DEF Goto
  <2> HIDE DEF K
  <2> QED BY <1>1, <2>2, <2>3, <2>4, RewriteAdmitted
<1>7. CASE lock' = None /\ Finish(p, "done")
  BY <1>1, <1>2, <1>7, QuietEnd
<1>8. CASE Retry(p) /\ UNCHANGED <<req, view, plan, todo, verdict, reads, answer>>
  <2>1. pc'[p] # "restat" /\ pc'[p] # "idle" /\ ~reread'[p] /\ journal' = journal
    BY <1>1, <1>8 DEF Retry, Goto, Prepare, TypeOK
  <2>2. Seen(p)'
    BY <1>8, <2>1 DEF Seen, ProcessInv
  <2>3. /\ tries' \in [Procs -> 0 .. MaxAttempts] /\ reread' \in [Procs -> BOOLEAN]
        /\ pc' \in [Procs -> Steps] /\ lock' \in Procs \cup {None}
        /\ \A q \in Procs \ {p} : Unmoved(q)
        /\ ProcessInv(p)'
    BY <1>1, <1>8, <2>1, <2>2, RetrySound
  <2>4. TypeOK'
    BY <1>1, <1>8, <2>3 DEF TypeOK
  <2> QED BY <2>1, <2>3, <2>4, LocalStep
<1> QED BY <1>5, <1>6, <1>7, <1>8 DEF RecheckCompaction

LEMMA RecheckRepairKeeps ==
    ASSUME LedgerInv, NEW p \in Procs, RecheckRepair(p) PROVE LedgerInv'
<1> USE DEF LedgerInv
<1>1. /\ pc[p] = "recheck" /\ req[p].verb \in {"repair", "reinit"}
      /\ UNCHANGED <<journal, proj, req, view, plan, todo, verdict, reads, answer, faults, resets>>
  BY DEF RecheckRepair
<1>2. lock = p
  BY <1>1 DEF ProcessInv, AtStep, LockedSteps
<1>3. CASE /\ Goto(p, IF req[p].verb = "repair" THEN "rebuild" ELSE "discard")
           /\ UNCHANGED <<lock, tries, reread>>
  <2>1. /\ pc' = [pc EXCEPT ![p] = pc'[p]] /\ pc'[p] \in {"rebuild", "discard"}
    BY <1>3 DEF Goto, TypeOK
  <2>2. TypeOK'
    BY <1>1, <1>3, <2>1 DEF TypeOK, Steps
  <2>3. \A q \in Procs \ {p} : Unmoved(q)
    BY <1>1, <1>3, <2>1 DEF Unmoved, TypeOK
  <2>4. AtStep(p)'
    BY <1>1, <1>2, <1>3, <2>1 DEF AtStep, MutationSteps, CompactionSteps, RepairSteps,
                                  LockedSteps, ProcessInv
  <2>5. Seen(p)'
    BY <1>1, <1>3, <2>1 DEF Seen, ProcessInv
  <2>6. Decided(p)' /\ Planned(p)' /\ Writing(p)' /\ Rewriting(p)'
    BY <2>1 DEF Decided, Planned, Writing, Rewriting
  <2> QED BY <1>1, <2>2, <2>3, <2>4, <2>5, <2>6, LocalStep DEF ProcessInv
<1>4. CASE Retry(p)
  <2>1. ~reread'[p] /\ journal' = journal
    BY <1>1, <1>4 DEF Retry, TypeOK
  <2>2. Seen(p)'
    BY <1>1, <1>4, <2>1 DEF Seen, ProcessInv
  <2>3. /\ tries' \in [Procs -> 0 .. MaxAttempts] /\ reread' \in [Procs -> BOOLEAN]
        /\ pc' \in [Procs -> Steps] /\ lock' \in Procs \cup {None}
        /\ \A q \in Procs \ {p} : Unmoved(q)
        /\ ProcessInv(p)'
    BY <1>1, <1>4, <2>1, <2>2, RetrySound
  <2>4. TypeOK'
    BY <1>1, <2>3 DEF TypeOK
  <2> QED BY <2>1, <2>3, <2>4, LocalStep
<1> QED BY <1>3, <1>4 DEF RecheckRepair

----------------------------------------------------------------------------
(* The steps that change the journal's records.                             *)

\* The record about to be appended extends the journal, and adds no overlap.
LEMMA NextRecordSound ==
    ASSUME LedgerInv, NEW p \in Procs, pc[p] = "write"
    PROVE  /\ lock = p /\ view[p].recs = journal.recs
           /\ NextRecord(p) \in Record /\ NextRecord(p).gen = Gen(journal.recs) + 1
           /\ WellFormed(journal.recs \cup {NextRecord(p)})
           /\ \A x, y \in journal.recs \cup {NextRecord(p)} : x.gen = y.gen => x = y
           /\ \A a, b \in Active(journal.recs \cup {NextRecord(p)}) :
                 a # b => {a, b} \notin Overlaps
<1> USE DEF LedgerInv
<1> DEFINE r == NextRecord(p)
<1>1. /\ lock = p /\ view[p].recs = journal.recs /\ req[p].res \in Reservations
      /\ todo[p] \in {<<"claim">>, <<"extent">>, <<"extent", "release">>, <<"release">>,
                      <<"evidence">>}
      /\ todo[p] = <<"claim">> => \A a \in Active(journal.recs) : {a, req[p].res} \notin Overlaps
  <2>1. req[p] \in Request /\ req[p].verb = "mutate"
    BY DEF ProcessInv, AtStep, MutationSteps, TypeOK
  <2>2. req[p].res \in Reservations
    BY <2>1 DEF Request, Idle
  <2> QED BY <2>2 DEF ProcessInv, AtStep, LockedSteps, Writing
<1>2. Head(todo[p]) \in Kinds /\ (Head(todo[p]) = "claim" => todo[p] = <<"claim">>)
  BY <1>1 DEF Kinds
<1>3. Gen(journal.recs) \in Nat /\ \A x \in journal.recs : x.gen <= Gen(journal.recs)
  BY GenBounds
<1>4. r \in Record /\ r.gen = Gen(journal.recs) + 1 /\ r.kind = Head(todo[p])
      /\ r.res = req[p].res
  BY <1>1, <1>2, <1>3 DEF NextRecord, Record
<1> HIDE DEF r
<1>5. WellFormed(journal.recs \cup {r})
  BY <1>4, NextExtends
<1>6. \A x, y \in journal.recs \cup {r} : x.gen = y.gen => x = y
  <2>1. \A x \in journal.recs : x.gen \in Nat
    BY DEF WellFormed, Record
  <2> QED BY <1>3, <1>4, <2>1 DEF GenerationsDistinct
<1>7. \A a, b \in Active(journal.recs \cup {r}) : a # b => {a, b} \notin Overlaps
  <2>1. CASE r.kind # "claim"
    <3>1. Active(journal.recs \cup {r}) \subseteq Active(journal.recs)
      BY <2>1 DEF Active, Claimed, Released
    <3> QED BY <3>1 DEF NoOverlappingHolders
  <2>2. CASE r.kind = "claim"
    <3>1. Active(journal.recs \cup {r}) \subseteq Active(journal.recs) \cup {req[p].res}
      BY <1>4 DEF Active, Claimed, Released
    <3>2. \A a \in Active(journal.recs) : {a, req[p].res} \notin Overlaps
      BY <1>1, <1>2, <1>4, <2>2
    <3>3. \A a, b : {a, b} = {b, a}
      OBVIOUS
    <3> QED BY <3>1, <3>2, <3>3 DEF NoOverlappingHolders
  <2> QED BY <2>1, <2>2
<1> QED BY <1>1, <1>4, <1>5, <1>6, <1>7 DEF r

LEMMA EndRecordKeeps ==
    ASSUME LedgerInv, NEW p \in Procs, EndRecord(p) PROVE LedgerInv'
<1> USE DEF LedgerInv
<1> DEFINE r == NextRecord(p)
<1>1. /\ pc[p] = "write"
      /\ journal' = [journal EXCEPT !.recs = @ \cup {r}, !.torn = FALSE]
      /\ view' = [view EXCEPT ![p].recs = @ \cup {r}]
      /\ todo' = [todo EXCEPT ![p] = Tail(@)]
      /\ pc' = [pc EXCEPT ![p] = IF Tail(todo[p]) = <<>> THEN "publish" ELSE "append"]
      /\ UNCHANGED <<proj, lock, req, plan, verdict, tries, reads, reread, answer, faults, resets>>
  BY DEF EndRecord, Goto
<1> HIDE DEF r
<1>2. /\ lock = p /\ view[p].recs = journal.recs
      /\ r \in Record /\ r.gen = Gen(journal.recs) + 1
      /\ WellFormed(journal.recs \cup {r})
      /\ \A x, y \in journal.recs \cup {r} : x.gen = y.gen => x = y
      /\ \A a, b \in Active(journal.recs \cup {r}) : a # b => {a, b} \notin Overlaps
  BY <1>1, NextRecordSound DEF r
<1>3. todo[p] \in {<<"claim">>, <<"extent">>, <<"extent", "release">>, <<"release">>,
                   <<"evidence">>}
  BY <1>1 DEF ProcessInv, Writing
<1>4. Tail(todo[p]) \in {<<>>, <<"release">>} /\ Tail(todo[p]) \in Seq(Kinds)
  <2>1. "release" \in Kinds
    BY DEF Kinds
  <2>2. <<>> \in Seq(Kinds) /\ <<"release">> \in Seq(Kinds)
    BY <2>1
  <2>3. todo[p] = <<"extent", "release">> => Tail(todo[p]) = <<"release">>
    OBVIOUS
  <2>4. \A kind : Tail(<<kind>>) = <<>>
    OBVIOUS
  <2> QED BY <1>3, <2>2, <2>3, <2>4
<1>5. /\ journal' \in JournalFile /\ journal'.ino = journal.ino
      /\ journal'.recs = journal.recs \cup {r}
  BY <1>1, <1>2 DEF TypeOK, JournalFile, WellFormed
<1>6. /\ view' \in [Procs -> JournalFile]
      /\ view'[p].ino = view[p].ino /\ view'[p].recs = journal.recs \cup {r}
      /\ \A q \in Procs \ {p} : view'[q] = view[q]
  BY <1>1, <1>2 DEF TypeOK, JournalFile, WellFormed
<1>7. /\ pc'[p] = IF Tail(todo[p]) = <<>> THEN "publish" ELSE "append"
      /\ todo'[p] = Tail(todo[p])
  BY <1>1 DEF TypeOK
<1>8. TypeOK'
  BY <1>1, <1>4, <1>5, <1>6 DEF TypeOK, Steps
<1>9. \A q \in Procs \ {p} : ProcessInv(q)'
  <2>1. \A q \in Procs \ {p} : Unmoved(q)
    BY <1>1, <1>6 DEF Unmoved, TypeOK
  <2>2. \A q \in Procs \ {p} : lock # q
    BY <1>2
  <2> QED BY <1>2, <1>5, <2>1, <2>2, JournalExtended
<1>10. AtStep(p)'
  BY <1>1, <1>7 DEF AtStep, MutationSteps, CompactionSteps, RepairSteps, LockedSteps, ProcessInv
<1>11. Seen(p)'
  BY <1>2, <1>5, <1>6, <1>7, PrefixReflexive DEF Seen, ProcessInv
<1>12. Writing(p)'
  BY <1>4, <1>5, <1>6, <1>7 DEF Writing
<1>13. Decided(p)' /\ Planned(p)' /\ Rewriting(p)'
  BY <1>7 DEF Decided, Planned, Rewriting
<1>14. ProcessInv(p)'
  BY <1>10, <1>11, <1>12, <1>13 DEF ProcessInv
<1>15. WellFormed(journal.recs)' /\ GenerationsDistinct' /\ NoOverlappingHolders'
  BY <1>2, <1>5 DEF GenerationsDistinct, NoOverlappingHolders
<1> QED BY <1>8, <1>9, <1>14, <1>15

LEMMA FailRecordKeeps ==
    ASSUME LedgerInv, NEW p \in Procs, FailRecord(p) PROVE LedgerInv'
<1> USE DEF LedgerInv
<1> DEFINE r == NextRecord(p)
<1>1. /\ pc[p] = "write" /\ lock' = None /\ Finish(p, "done")
      /\ \/ journal' = journal
         \/ journal' = [journal EXCEPT !.recs = @ \cup {r}, !.torn = FALSE]
      /\ UNCHANGED <<proj, resets>>
  BY DEF FailRecord
<1>2. faults' \in 0 .. MaxFaults /\ "done" \in Answers
  BY LedgerAssumption DEF FailRecord, TypeOK, Answers
<1> HIDE DEF r
<1>3. /\ lock = p
      /\ r \in Record /\ r.gen = Gen(journal.recs) + 1
      /\ WellFormed(journal.recs \cup {r})
      /\ \A x, y \in journal.recs \cup {r} : x.gen = y.gen => x = y
      /\ \A a, b \in Active(journal.recs \cup {r}) : a # b => {a, b} \notin Overlaps
  BY <1>1, NextRecordSound DEF r
<1>4. CASE journal' = journal
  BY <1>1, <1>2, <1>3, <1>4, QuietEnd
<1>5. CASE journal' = [journal EXCEPT !.recs = @ \cup {r}, !.torn = FALSE]
  <2>1. /\ journal' \in JournalFile /\ journal'.ino = journal.ino
        /\ journal'.recs = journal.recs \cup {r}
    BY <1>3, <1>5 DEF TypeOK, JournalFile, WellFormed
  <2>2. proj' \in Projection \cup {None} /\ lock' \in Procs \cup {None} /\ resets' \in Nat
    BY <1>1 DEF TypeOK
  <2>3. TypeOK'
    BY <1>1, <1>2, <2>1, <2>2, FinishTyped
  <2>4. \A q \in Procs \ {p} : Unmoved(q) /\ lock # q
    BY <1>1, <1>3, LedgerAssumption DEF Finish, Unmoved, TypeOK
  <2>5. \A q \in Procs \ {p} : ProcessInv(q)'
    BY <1>3, <2>1, <2>4, JournalExtended
  <2>6. ProcessInv(p)'
    BY <1>1, <1>3, <2>1, Ended DEF JournalFile
  <2>7. WellFormed(journal.recs)' /\ GenerationsDistinct' /\ NoOverlappingHolders'
    BY <1>3, <2>1 DEF GenerationsDistinct, NoOverlappingHolders
  <2> QED BY <2>3, <2>5, <2>6, <2>7
<1> QED BY <1>1, <1>4, <1>5

LEMMA RenameCompactedKeeps ==
    ASSUME LedgerInv, NEW p \in Procs, RenameCompacted(p) PROVE LedgerInv'
<1> USE DEF LedgerInv
<1>1. /\ pc[p] = "rename" /\ lock' = None /\ Finish(p, "done")
      /\ journal' = [ino |-> journal.ino + 1, recs |-> plan[p].kept, torn |-> FALSE]
      /\ UNCHANGED <<proj, faults, resets>>
  BY DEF RenameCompacted
<1>2. /\ lock = p /\ WellFormed(plan[p].kept) /\ plan[p].kept \subseteq journal.recs
      /\ Active(plan[p].kept) \subseteq Active(journal.recs)
  BY <1>1 DEF ProcessInv, AtStep, LockedSteps, Rewriting
<1>3. journal.ino \in Nat /\ \A q \in Procs : view[q].ino \in Nat
  BY DEF TypeOK, JournalFile
<1>4. /\ journal' \in JournalFile /\ journal'.ino = journal.ino + 1
      /\ journal'.recs = plan[p].kept
  BY <1>1, <1>2, <1>3 DEF JournalFile, WellFormed
<1>5. /\ proj' \in Projection \cup {None} /\ lock' \in Procs \cup {None} /\ resets' \in Nat
      /\ faults' \in 0 .. MaxFaults /\ "done" \in Answers
  BY <1>1 DEF TypeOK, Answers
<1>6. TypeOK'
  BY <1>1, <1>4, <1>5, FinishTyped
<1>7. \A q \in Procs \ {p} : Unmoved(q) /\ lock # q
  BY <1>1, <1>2, LedgerAssumption DEF Finish, Unmoved, TypeOK
<1>8. \A q \in Procs \ {p} : ProcessInv(q)'
  BY <1>3, <1>4, <1>7, JournalReplaced
<1>9. ProcessInv(p)'
  BY <1>1, <1>2, <1>4, Ended DEF JournalFile
<1>10. WellFormed(journal.recs)' /\ GenerationsDistinct' /\ NoOverlappingHolders'
  BY <1>2, <1>4 DEF GenerationsDistinct, NoOverlappingHolders
<1> QED BY <1>6, <1>8, <1>9, <1>10

LEMMA DiscardKeeps == ASSUME LedgerInv, NEW p \in Procs, Discard(p) PROVE LedgerInv'
<1> USE DEF LedgerInv
<1>1. /\ pc[p] = "discard" /\ pc' = [pc EXCEPT ![p] = "clear"]
      /\ journal' = [ino |-> journal.ino + 1, recs |-> {}, torn |-> FALSE]
      /\ resets' = resets + 1
      /\ UNCHANGED <<proj, lock, req, view, plan, todo, verdict, tries, reads, reread, answer,
                     faults>>
  BY DEF Discard, Goto, local
<1>2. lock = p
  BY <1>1 DEF ProcessInv, AtStep, LockedSteps
<1>3. journal.ino \in Nat /\ \A q \in Procs : view[q].ino \in Nat
  BY DEF TypeOK, JournalFile
<1>4. journal' \in JournalFile /\ journal'.ino = journal.ino + 1 /\ journal'.recs = {}
  BY <1>1, <1>3 DEF JournalFile
<1>5. TypeOK'
  BY <1>1, <1>4 DEF TypeOK, Steps
<1>6. \A q \in Procs \ {p} : Unmoved(q) /\ lock # q
  BY <1>1, <1>2 DEF Unmoved, TypeOK
<1>7. \A q \in Procs \ {p} : ProcessInv(q)'
  BY <1>3, <1>4, <1>6, JournalReplaced
<1>8. pc'[p] = "clear"
  BY <1>1 DEF TypeOK
<1>9. AtStep(p)'
  BY <1>1, <1>8 DEF AtStep, MutationSteps, CompactionSteps, RepairSteps, LockedSteps, ProcessInv
<1>10. Seen(p)'
  BY <1>1, <1>3, <1>4, <1>8 DEF Seen, ProcessInv
<1>11. Decided(p)' /\ Planned(p)' /\ Writing(p)' /\ Rewriting(p)'
  BY <1>8 DEF Decided, Planned, Writing, Rewriting
<1>12. WellFormed(journal.recs)' /\ GenerationsDistinct' /\ NoOverlappingHolders'
  BY <1>4, EmptyPrefix DEF GenerationsDistinct, NoOverlappingHolders, Active, Claimed
<1> QED BY <1>5, <1>7, <1>9, <1>10, <1>11, <1>12 DEF ProcessInv

----------------------------------------------------------------------------
(* The theorems.                                                            *)

LEMMA InitialInv == Init => LedgerInv
<1> SUFFICES ASSUME Init PROVE LedgerInv
  OBVIOUS
<1>1. WellFormed({}) /\ journal.recs = {} /\ journal.ino = 1
  BY FS_EmptySet DEF Init, WellFormed, HasLast
<1>2. TypeOK
  <2>1. proj \in Projection
    BY <1>1, ProjectionType DEF Init
  <2>2. Idle \in Request /\ NoView \in JournalFile /\ journal \in JournalFile
    BY DEF Init, Idle, Request, NoView, JournalFile
  <2>3. NoPlan \in [src : SUBSET Record, kept : SUBSET Record, exact : BOOLEAN]
    BY DEF NoPlan
  <2> QED BY <2>1, <2>2, <2>3, LedgerAssumption DEF Init, TypeOK, Steps, Answers
<1>3. ASSUME NEW p \in Procs PROVE ProcessInv(p)
  <2>1. view[p].ino = 0 /\ view[p].recs = {} /\ ~reread[p]
    BY DEF Init, NoView
  <2>2. Seen(p)
    BY <1>1, <2>1 DEF Seen
  <2> QED
    BY <2>2, LedgerAssumption DEF Init, ProcessInv, AtStep, Decided, Writing, Planned, Rewriting, MutationSteps,
                CompactionSteps, RepairSteps, LockedSteps
<1> QED
  BY <1>1, <1>2, <1>3 DEF LedgerInv, GenerationsDistinct, NoOverlappingHolders, Active, Claimed

\* Every step of every process keeps the invariant.
LEMMA NextKeeps == LedgerInv /\ [Next]_vars => LedgerInv'
<1> SUFFICES ASSUME LedgerInv, [Next]_vars PROVE LedgerInv'
  OBVIOUS
<1>1. CASE UNCHANGED vars
  <2>1. TypeOK'
    BY <1>1 DEF LedgerInv, TypeOK, vars
  <2>2. \A p \in Procs : ProcessInv(p)'
    BY <1>1, SameJournal DEF LedgerInv, Unmoved, vars
  <2> QED BY <1>1, <2>1, <2>2 DEF LedgerInv, GenerationsDistinct, NoOverlappingHolders, vars
<1>2. ASSUME NEW p \in Procs, Step(p) PROVE LedgerInv'
  BY <1>2, AcquireKeeps, StatKeeps, ReplayKeeps, RestatKeeps, DecideKeeps, RereadKeeps,
     RecheckMutationKeeps, OpenTransactionKeeps, RefusalsKeep, BeginRecordKeeps,
     EndRecordKeeps, PublicationsKeep, ReadKeeps, ValidateKeeps, SourceKeeps,
     RefuseRewriteKeeps, RewriteKeeps, RecheckCompactionKeeps, ProjectCompactedKeeps,
     RenameCompactedKeeps, ObserveKeeps, RecheckRepairKeeps, DiscardKeeps DEF Step
<1>3. ASSUME NEW p \in Procs, Start(p) \/ GiveUp(p) \/ FailRecord(p) \/ Kill(p) PROVE LedgerInv'
  BY <1>3, Starts, GiveUpKeeps, FailRecordKeeps, KillKeeps
<1> QED BY <1>1, <1>2, <1>3 DEF Next

\* The inductive invariant holds in every reachable state.
THEOREM LedgerInvariant == Spec => []LedgerInv
<1> QED BY InitialInv, NextKeeps, PTL DEF Spec

\* The variables have their types for any number of processes, reservations,
\* attempts, faults and resets.
THEOREM LedgerTypeCorrect == Spec => []TypeOK
<1>1. LedgerInv => TypeOK BY DEF LedgerInv
<1> QED BY <1>1, LedgerInvariant, PTL

\* No two reservations whose scopes overlap are ever active at once, although
\* claims are decided outside the lock and journals are compacted and reset.
THEOREM NoOverlap == Spec => []NoOverlappingHolders
<1>1. LedgerInv => NoOverlappingHolders BY DEF LedgerInv
<1> QED BY <1>1, LedgerInvariant, PTL

\* No two records ever carry the same generation.
THEOREM DistinctGenerations == Spec => []GenerationsDistinct
<1>1. LedgerInv => GenerationsDistinct BY DEF LedgerInv
<1> QED BY <1>1, LedgerInvariant, PTL

----------------------------------------------------------------------------
(* What the journal and the projection are to each other.                   *)

\* What replay accepts of a set of records: ReplayAccepts of any of them.
Accepted(recs) ==
    \A x \in recs :
        /\ x.kind # "claim" =>
              \E c \in recs : c.kind = "claim" /\ c.res = x.res /\ c.gen < x.gen
        /\ x.kind \in {"claim", "release"} =>
              \A y \in recs : y.kind = x.kind /\ y.res = x.res => y = x

\* What a compaction may make of records: finished reservations go whole, the
\* others lose nothing but superseded observations, and the generation stays.
Rewritten(new, old) ==
    /\ new \subseteq old
    /\ Gen(new) = Gen(old)
    /\ \E gone \in SUBSET Released(old) :
          /\ Claimed(new) = Claimed(old) \ gone
          /\ Released(new) = Released(old) \ gone
    /\ Accepted(new)
    /\ \A x \in old \ Superseded(old) : x.res \in Claimed(new) => x \in new

\* The next operation of an open transaction is legal.
Legal(p) ==
    pc[p] \in {"append", "write"} =>
        /\ todo[p] = <<"claim">> => req[p].res \notin Claimed(journal.recs)
        /\ todo[p] \in {<<"extent">>, <<"extent", "release">>, <<"release">>}
              => req[p].res \in Active(journal.recs)
        /\ todo[p] = <<"evidence">> => req[p].res \in Claimed(journal.recs)
        /\ proj = None \/ proj.recs \subseteq journal.recs

\* A verdict is exactly what the validator says of what it was shown.
Judged(p) ==
    /\ /\ pc[p] \in {"acquire", "recheck"} /\ tries[p] < MaxAttempts
       /\ req[p].verb = "mutate"
       => verdict[p] = Admissible(req[p], view[p].recs)
    /\ pc[p] = "synchronize" => verdict[p] = Admissible(req[p], journal.recs)

\* What is about to be published is of the journal as it is.
Publishing(p) ==
    /\ pc[p] = "publish" => todo[p] = <<>> /\ view[p].recs = journal.recs
    /\ pc[p] \in {"project", "rename"} => Rewritten(plan[p].kept, journal.recs)
    /\ pc[p] = "rename" => proj = ProjectionOf(plan[p].kept)
    /\ pc[p] = "rebuild" => view[p].recs = journal.recs

Resting(p) ==
    /\ pc[p] = "idle" => req[p] = Idle /\ reads[p] = 0
    /\ pc[p] \in {"discard", "clear"} => req[p].verb = "reinit"

Working(p) == Legal(p) /\ Judged(p) /\ Publishing(p) /\ Resting(p)

\* The projection is of a part of the journal, or visibly of another journal.
ProjectionShown ==
    proj # None =>
        /\ WellFormed(proj.recs) /\ proj = ProjectionOf(proj.recs)
        /\ proj.recs \subseteq journal.recs \/ CacheAhead(journal.recs)

FilesInv ==
    /\ Accepted(journal.recs)
    /\ ProjectionShown
    /\ \A p \in Procs : Working(p)

\* Where nothing is reinitialized: a reader has met a commit for every
\* projection that was ahead of its replay.
Reading(p) ==
    /\ pc[p] \in {"read", "validate"} => answer[p] = "none"
    /\ pc[p] = "read" => req[p].from + reads[p] <= Gen(journal.recs)
    /\ pc[p] = "validate" =>
          /\ req[p].from + reads[p] <= Gen(view[p].recs)
          /\ Gen(view[p].recs) <= Gen(journal.recs)
          /\ \A x \in journal.recs : x.gen <= Gen(view[p].recs) => x \in view[p].recs
    /\ req[p].verb # "reinit"

ReadInv ==
    /\ proj # None => proj.recs \subseteq journal.recs
    /\ \A p \in Procs : Reading(p)

----------------------------------------------------------------------------
(* What a rewrite and an append make of a set of records.                   *)

\* The generation of records is that of the last of them.
LEMMA GenOfLast ==
    ASSUME NEW S, WellFormed(S), NEW m \in S, \A x \in S : x.gen <= m.gen
    PROVE  Gen(S) = m.gen
<1>1. Gen(S) \in Nat /\ m.gen <= Gen(S) /\ Last(S) \in S /\ Last(S).gen = Gen(S)
  BY GenBounds
<1>2. Gen(S) <= m.gen /\ m.gen \in Nat
  BY <1>1 DEF WellFormed, Record
<1> QED BY <1>1, <1>2

\* A rewrite of some records that keeps the claims and the releases of the
\* histories it does not drop.
LEMMA Rewrites ==
    ASSUME NEW K, NEW T, WellFormed(K), WellFormed(T), Accepted(T), K \subseteq T,
           NEW gone \in SUBSET Released(T),
           \A x \in T : x.kind # "extent" => (x \in K <=> x.res \notin gone),
           \A x \in K : x.res \notin gone,
           T # {} => Last(T) \in K,
           \A x \in T \ Superseded(T) : x.res \notin gone => x \in K
    PROVE  Rewritten(K, T)
<1>1. Gen(K) = Gen(T)
  <2>1. CASE T = {}
    BY <2>1 DEF Gen
  <2>2. CASE T # {}
    <3>1. Last(T) \in K /\ (\A x \in K : x.gen <= Last(T).gen) /\ Last(T).gen = Gen(T)
      BY <2>2, GenBounds
    <3> QED BY <3>1, GenOfLast
  <2> QED BY <2>1, <2>2
<1>2. Claimed(K) = Claimed(T) \ gone
  BY DEF Claimed
<1>3. Released(K) = Released(T) \ gone
  BY DEF Released
<1>4. Accepted(K)
  <2>1. ASSUME NEW x \in K, x.kind # "claim"
        PROVE  \E c \in K : c.kind = "claim" /\ c.res = x.res /\ c.gen < x.gen
    <3>1. PICK c \in T : c.kind = "claim" /\ c.res = x.res /\ c.gen < x.gen
      BY <2>1 DEF Accepted
    <3>2. c \in K
      BY <3>1
    <3> QED BY <3>1, <3>2
  <2>2. \A x \in K : x.kind \in {"claim", "release"} =>
           \A y \in K : y.kind = x.kind /\ y.res = x.res => y = x
    BY DEF Accepted
  <2> QED BY <2>1, <2>2 DEF Accepted
<1>5. \A x \in T \ Superseded(T) : x.res \in Claimed(K) => x \in K
  BY <1>2
<1> QED BY <1>1, <1>2, <1>3, <1>4, <1>5 DEF Rewritten

\* The last record is of the latest generation, so nothing supersedes it.
LEMMA LastKept ==
    ASSUME NEW S, NEW T, WellFormed(T), S \subseteq T, T # {}
    PROVE  Last(T) \in T /\ Last(T) \notin Superseded(S)
BY GenBounds DEF Superseded, WellFormed, Record

\* A compaction drops finished histories whole and superseded observations.
LEMMA KeptRewrites ==
    ASSUME NEW S, WellFormed(S), Accepted(S), NEW expired \in Expirable(S)
    PROVE  Rewritten(Kept(S, expired), S)
<1> DEFINE K == Kept(S, expired)
<1>1. WellFormed(K) /\ K \subseteq S
  BY KeptSound
<1>2. expired \in SUBSET Released(S) /\ Last(S).res \notin expired
  BY DEF Expirable
<1>3. \A x \in K : x.res \notin expired
  BY DEF Kept
<1>4. \A x \in S \ Superseded(S) : x.res \notin expired => x \in K
  BY DEF Kept
<1>5. \A x \in S : x.kind # "extent" => x \notin Superseded(S)
  BY DEF Superseded
<1>6. S # {} => Last(S) \in K
  BY <1>2, <1>4, LastKept
<1> HIDE DEF K
<1>7. Rewritten(K, S)
  BY <1>1, <1>2, <1>3, <1>4, <1>5, <1>6, Rewrites
<1> QED BY <1>7 DEF K

\* So does one that dropped no history and takes in what was committed since.
LEMMA TailRewrites ==
    ASSUME NEW S, NEW T, WellFormed(S), WellFormed(T), Accepted(T), S \subseteq T,
           NEW K, K = Kept(S, {}) \cup (T \ S)
    PROVE  Rewritten(K, T)
<1>1. WellFormed(K) /\ K \subseteq T
  BY KeptWithTailSound
<1>2. \A x \in T : x \notin Superseded(S) => x \in K
  BY DEF Kept
<1>3. Superseded(S) \subseteq Superseded(T)
  BY DEF Superseded
<1>4. \A x \in T : x.kind # "extent" => x \notin Superseded(S)
  BY DEF Superseded
<1>5. T # {} => Last(T) \in K
  BY <1>2, LastKept
<1>6. {} \in SUBSET Released(T)
  OBVIOUS
<1> QED BY <1>1, <1>2, <1>3, <1>4, <1>5, <1>6, Rewrites

\* A legal record leaves records that replay accepts.
LEMMA AcceptedNext ==
    ASSUME NEW S, WellFormed(S), Accepted(S), NEW r \in Record, r.gen = Gen(S) + 1,
           r.kind = "claim" => r.res \notin Claimed(S),
           r.kind = "release" => r.res \notin Released(S),
           r.kind # "claim" => r.res \in Claimed(S)
    PROVE  Accepted(S \cup {r})
<1> DEFINE T == S \cup {r}
<1>1. Gen(S) \in Nat /\ \A x \in S : x.gen <= Gen(S) /\ x.gen \in Nat
  BY GenBounds DEF WellFormed, Record
<1>2. ASSUME NEW x \in T, x.kind # "claim"
      PROVE  \E c \in T : c.kind = "claim" /\ c.res = x.res /\ c.gen < x.gen
  <2>1. CASE x \in S
    BY <1>2, <2>1 DEF Accepted
  <2>2. CASE x = r
    <3>1. PICK c \in S : c.kind = "claim" /\ c.res = r.res
      BY <1>2, <2>2 DEF Claimed
    <3>2. c.gen < r.gen
      BY <1>1
    <3> QED BY <2>2, <3>1, <3>2
  <2> QED BY <2>1, <2>2
<1>3. ASSUME NEW x \in T, NEW y \in T, x.kind \in {"claim", "release"},
             y.kind = x.kind, y.res = x.res
      PROVE  y = x
  <2>1. CASE x \in S /\ y \in S
    BY <1>3, <2>1 DEF Accepted
  <2>2. \A z \in S : /\ z.kind = "claim" => z.res \in Claimed(S)
                     /\ z.kind = "release" => z.res \in Released(S)
    BY DEF Claimed, Released
  <2> QED BY <1>3, <2>1, <2>2
<1> QED BY <1>2, <1>3 DEF Accepted

\* A part of the journal is not ahead of it.
LEMMA PartBounds ==
    ASSUME NEW S, NEW T, WellFormed(S), WellFormed(T), S \subseteq T
    PROVE  Gen(S) <= Gen(T) /\ Cardinality(S) <= Cardinality(T)
<1>1. Cardinality(S) <= Cardinality(T)
  BY FS_Subset DEF WellFormed
<1>2. Gen(S) <= Gen(T)
  <2>1. CASE S = {}
    BY <2>1, GenBounds DEF Gen
  <2>2. CASE S # {}
    BY <2>2, GenBounds
  <2> QED BY <2>1, <2>2
<1> QED BY <1>1, <1>2

\* A part of a finite set as large as the whole is the whole.
LEMMA WholePart ==
    ASSUME NEW S, NEW T, IsFiniteSet(T), S \subseteq T, Cardinality(S) = Cardinality(T)
    PROVE  S = T
BY FS_Subset

----------------------------------------------------------------------------
(* What a step of one process is to the others, and to the files.           *)

Untouched(q) == Unmoved(q) /\ reads'[q] = reads[q] /\ answer'[q] = answer[q]

FilesKept == journal'.recs = journal.recs /\ proj' = proj

\* Every variable of the processes is a function on them.
PerProcess ==
    /\ DOMAIN pc = Procs /\ DOMAIN req = Procs /\ DOMAIN view = Procs
    /\ DOMAIN plan = Procs /\ DOMAIN todo = Procs /\ DOMAIN verdict = Procs
    /\ DOMAIN tries = Procs /\ DOMAIN reads = Procs /\ DOMAIN reread = Procs
    /\ DOMAIN answer = Procs /\ None \notin Procs

LEMMA Domains == ASSUME TypeOK PROVE PerProcess
BY LedgerAssumption DEF TypeOK, PerProcess

LEMMA FinishUntouched ==
    ASSUME PerProcess, NEW p \in Procs, NEW result, Finish(p, result),
           lock' = lock \/ (lock = p /\ lock' = None)
    PROVE  \A q \in Procs \ {p} : Untouched(q)
<1>1. \A q \in Procs \ {p} : lock' = q <=> lock = q
  BY DEF PerProcess
<1>2. \A q \in Procs \ {p} : /\ pc'[q] = pc[q] /\ req'[q] = req[q] /\ view'[q] = view[q]
                             /\ plan'[q] = plan[q] /\ todo'[q] = todo[q]
  BY DEF Finish, PerProcess
<1>3. \A q \in Procs \ {p} : /\ verdict'[q] = verdict[q] /\ tries'[q] = tries[q]
                             /\ reads'[q] = reads[q] /\ reread'[q] = reread[q]
                             /\ answer'[q] = answer[q]
  BY DEF Finish, PerProcess
<1> QED BY <1>1, <1>2, <1>3 DEF Untouched, Unmoved

LEMMA BeginUntouched ==
    ASSUME PerProcess, NEW p \in Procs, Start(p)
    PROVE  /\ \A q \in Procs \ {p} : Untouched(q)
           /\ journal' = journal /\ proj' = proj /\ lock' = lock /\ resets' = resets
           /\ pc[p] = "idle" /\ pc'[p] \in {"stat", "read", "source", "observe"}
           /\ answer'[p] = "none" /\ reads'[p] = reads[p] /\ view' = view
           /\ req'[p].verb \in Roles[p]
           /\ pc'[p] = "stat" => \E op \in {"claim", "observe", "settle", "amend"},
                                     r \in Reservations :
                    req'[p] = [verb |-> "mutate", op |-> op, res |-> r]
           /\ pc'[p] = "read" => req'[p] = [verb |-> "read", from |-> Gen(journal.recs)]
           /\ pc'[p] \in {"source", "observe"} =>
                 req'[p].verb \in {"compact", "autocompact", "repair", "reinit"}
<1>1. ASSUME NEW request, NEW step, Begin(p, request, step)
      PROVE  /\ \A q \in Procs \ {p} : Untouched(q)
             /\ journal' = journal /\ proj' = proj /\ lock' = lock /\ resets' = resets
             /\ pc[p] = "idle" /\ pc'[p] = step /\ req'[p] = request
             /\ answer'[p] = "none" /\ reads'[p] = reads[p] /\ view' = view
             /\ request.verb \in Roles[p]
  BY <1>1 DEF Begin, Goto, Untouched, Unmoved, PerProcess
<1>2. CASE BeginMutation(p)
  <2>1. PICK op \in {"claim", "observe", "settle", "amend"}, r \in Reservations :
           Begin(p, [verb |-> "mutate", op |-> op, res |-> r], "stat")
    BY <1>2 DEF BeginMutation
  <2> DEFINE request == [verb |-> "mutate", op |-> op, res |-> r]
  <2>2. Begin(p, request, "stat")
    BY <2>1
  <2> HIDE DEF request
  <2>3. pc'[p] = "stat" /\ req'[p] = request
    BY <1>1, <2>2
  <2> QED BY <1>1, <2>2, <2>3 DEF request
<1>3. CASE BeginRead(p)
  BY <1>1, <1>3 DEF BeginRead
<1>4. CASE BeginCompaction(p)
  <2>1. PICK verb \in {"compact", "autocompact"} : Begin(p, [verb |-> verb], "source")
    BY <1>4 DEF BeginCompaction
  <2> QED BY <1>1, <2>1
<1>5. CASE BeginRepair(p)
  BY <1>1, <1>5 DEF BeginRepair
<1>6. CASE BeginReinitialize(p)
  BY <1>1, <1>6 DEF BeginReinitialize
<1> QED BY <1>2, <1>3, <1>4, <1>5, <1>6 DEF Start

\* The step a preparation goes back to.
Preparing == {"stat", "replay", "restat", "decide", "source", "rewrite", "observe"}

LEMMA PrepareQuiet ==
    ASSUME TypeOK, NEW p \in Procs, req[p].verb \notin {"idle", "read"}
    PROVE  Prepare(req[p].verb) \in Preparing
<1>1. req[p] \in Request
  BY DEF TypeOK
<1>2. req[p].verb \in {"mutate", "compact", "autocompact", "repair", "reinit"}
  BY <1>1 DEF Request, Idle
<1> QED BY <1>2 DEF Prepare, Preparing

\* A lost preparation starts over, or queues to prepare under the lock.
LEMMA RetryUntouched ==
    ASSUME TypeOK, PerProcess, NEW p \in Procs, lock = p, Retry(p),
           req[p].verb \notin {"idle", "read"}, tries[p] < MaxAttempts,
           UNCHANGED <<req, view, plan, todo, verdict, reads, answer>>
           \/ (UNCHANGED <<req, plan, todo, verdict, reads, answer>>
               /\ \E v : view' = [view EXCEPT ![p] = v])
    PROVE  /\ \A q \in Procs \ {p} : Untouched(q)
           /\ lock' = None /\ req'[p] = req[p] /\ answer'[p] = answer[p]
           /\ \/ pc'[p] \in Preparing
              \/ pc'[p] = "acquire" /\ ~(tries'[p] < MaxAttempts)
<1>1. \A q \in Procs \ {p} : lock' = q <=> lock = q
  BY DEF Retry, PerProcess
<1>2. \A q \in Procs \ {p} : Untouched(q)
  BY <1>1 DEF Retry, Goto, Untouched, Unmoved, PerProcess
<1>3. tries'[p] = tries[p] + 1
  BY DEF Retry, PerProcess
<1>4. pc'[p] = IF tries[p] + 1 < MaxAttempts THEN Prepare(req[p].verb) ELSE "acquire"
  BY DEF Retry, Goto, PerProcess
<1>5. Prepare(req[p].verb) \in Preparing
  BY PrepareQuiet
<1> QED BY <1>2, <1>3, <1>4, <1>5 DEF Retry

----------------------------------------------------------------------------
(* The steps of one process keep what FilesInv says of it.                  *)

LEMMA InvFacts ==
    ASSUME LedgerInv
    PROVE  /\ TypeOK /\ PerProcess /\ WellFormed(journal.recs) /\ GenerationsDistinct
           /\ \A p \in Procs : AtStep(p) /\ Seen(p) /\ Decided(p) /\ Writing(p)
                               /\ Planned(p) /\ Rewriting(p)
BY Domains DEF LedgerInv, ProcessInv

LEMMA FileFacts ==
    ASSUME FilesInv
    PROVE  /\ Accepted(journal.recs) /\ ProjectionShown
           /\ \A p \in Procs : Legal(p) /\ Judged(p) /\ Publishing(p) /\ Resting(p)
BY DEF FilesInv, Working

LEMMA QuietWorking ==
    ASSUME NEW p \in Procs, pc'[p] \in Preparing \cup {"read", "validate"}
    PROVE  Working(p)'
BY DEF Working, Legal, Judged, Publishing, Resting, Preparing

LEMMA IdleWorking ==
    ASSUME PerProcess, NEW p \in Procs, NEW result, Finish(p, result)
    PROVE  Working(p)'
<1>1. pc'[p] = "idle" /\ req'[p] = Idle /\ reads'[p] = 0
  BY DEF Finish, PerProcess
<1> QED BY <1>1 DEF Working, Legal, Judged, Publishing, Resting

LEMMA LostWorking ==
    ASSUME NEW p \in Procs,
           \/ pc'[p] \in Preparing
           \/ pc'[p] = "acquire" /\ ~(tries'[p] < MaxAttempts)
    PROVE  Working(p)'
<1>1. CASE pc'[p] \in Preparing
  BY <1>1, QuietWorking
<1>2. CASE pc'[p] = "acquire" /\ ~(tries'[p] < MaxAttempts)
  BY <1>2 DEF Working, Legal, Judged, Publishing, Resting
<1> QED BY <1>1, <1>2

\* A process queues for the lock with a verb that is not a mutation's.
LEMMA QueuedWorking ==
    ASSUME NEW p \in Procs, pc'[p] = "acquire", req'[p].verb # "mutate"
    PROVE  Working(p)'
BY DEF Working, Legal, Judged, Publishing, Resting

\* What other processes' steps leave of it.
LEMMA OtherWorking ==
    ASSUME LedgerInv, NEW q \in Procs, Working(q), Untouched(q), FilesKept \/ lock # q
    PROVE  Working(q)'
<1>1. pc'[q] = pc[q] /\ req'[q] = req[q] /\ view'[q] = view[q] /\ plan'[q] = plan[q]
      /\ todo'[q] = todo[q] /\ verdict'[q] = verdict[q] /\ tries'[q] = tries[q]
      /\ reads'[q] = reads[q]
  BY DEF Untouched, Unmoved
<1>2. CASE FilesKept
  <2>1. Legal(q)' /\ Judged(q)'
    BY <1>1, <1>2 DEF Working, Legal, Judged, FilesKept
  <2>2. Publishing(q)' /\ Resting(q)'
    BY <1>1, <1>2 DEF Working, Publishing, Resting, FilesKept
  <2> QED BY <2>1, <2>2 DEF Working
<1>3. CASE lock # q
  <2>1. pc[q] \notin LockedSteps
    BY <1>3, InvFacts DEF AtStep
  <2>2. Legal(q)' /\ Publishing(q)'
    BY <1>1, <2>1 DEF Legal, Publishing, LockedSteps
  <2>3. Judged(q)' /\ Resting(q)'
    BY <1>1, <2>1 DEF Working, Judged, Resting, LockedSteps
  <2> QED BY <2>2, <2>3 DEF Working
<1> QED BY <1>2, <1>3

\* Steps of a preparation and of a read.
LEMMA PreparationsWork ==
    ASSUME LedgerInv, NEW p \in Procs,
           Stat(p) \/ Replay(p) \/ Restat(p) \/ Reread(p) \/ Read(p) \/ Validate(p) \/ Source(p)
    PROVE  /\ \A q \in Procs \ {p} : Untouched(q)
           /\ FilesKept /\ lock' = lock /\ Working(p)'
<1> USE InvFacts
<1>1. CASE Stat(p)
  <2>1. \A q \in Procs \ {p} : Untouched(q)
    BY <1>1 DEF Stat, Goto, Untouched, Unmoved, PerProcess
  <2>2. pc'[p] = "replay" /\ FilesKept /\ lock' = lock
    BY <1>1 DEF Stat, Goto, PerProcess, FilesKept
  <2> QED BY <2>1, <2>2, QuietWorking DEF Preparing
<1>2. CASE Replay(p)
  <2>1. \A q \in Procs \ {p} : Untouched(q)
    BY <1>2 DEF Replay, Goto, Untouched, Unmoved, PerProcess
  <2>2. pc'[p] = "restat" /\ FilesKept /\ lock' = lock
    BY <1>2 DEF Replay, Goto, PerProcess, FilesKept
  <2> QED BY <2>1, <2>2, QuietWorking DEF Preparing
<1>3. CASE Restat(p)
  <2>1. FilesKept /\ lock' = lock
    BY <1>3 DEF Restat, FilesKept
  <2>2. CASE Finish(p, "cache_ahead")
    BY <2>1, <2>2, FinishUntouched, IdleWorking
  <2>3. CASE Goto(p, "decide") /\ UNCHANGED <<local, answer>>
    <3>1. \A q \in Procs \ {p} : Untouched(q)
      BY <2>1, <2>3 DEF Goto, local, Untouched, Unmoved, PerProcess
    <3>2. pc'[p] = "decide"
      BY <2>3 DEF Goto, PerProcess
    <3> QED BY <2>1, <3>1, <3>2, QuietWorking DEF Preparing
  <2>4. CASE /\ reads' = [reads EXCEPT ![p] = @ + 1]
             /\ Goto(p, "stat")
             /\ UNCHANGED <<req, view, plan, todo, verdict, tries, reread, answer>>
    <3>1. \A q \in Procs \ {p} : Untouched(q)
      BY <2>1, <2>4 DEF Goto, Untouched, Unmoved, PerProcess
    <3>2. pc'[p] = "stat"
      BY <2>4 DEF Goto, PerProcess
    <3> QED BY <2>1, <3>1, <3>2, QuietWorking DEF Preparing
  <2> QED BY <1>3, <2>2, <2>3, <2>4 DEF Restat
<1>4. CASE Reread(p)
  <2>1. \A q \in Procs \ {p} : Untouched(q)
    BY <1>4 DEF Reread, Goto, Untouched, Unmoved, PerProcess
  <2>2. pc'[p] = "stat" /\ FilesKept /\ lock' = lock
    BY <1>4 DEF Reread, Goto, PerProcess, FilesKept
  <2> QED BY <2>1, <2>2, QuietWorking DEF Preparing
<1>5. CASE Read(p)
  <2>1. \A q \in Procs \ {p} : Untouched(q)
    BY <1>5 DEF Read, Goto, Untouched, Unmoved, PerProcess
  <2>2. pc'[p] = "validate" /\ FilesKept /\ lock' = lock
    BY <1>5 DEF Read, Goto, PerProcess, FilesKept
  <2> QED BY <2>1, <2>2, QuietWorking
<1>6. CASE Validate(p)
  <2>1. FilesKept /\ lock' = lock
    BY <1>6 DEF Validate, FilesKept
  <2>2. ASSUME NEW result, Finish(p, result)
        PROVE  (\A q \in Procs \ {p} : Untouched(q)) /\ Working(p)'
    BY <2>1, <2>2, FinishUntouched, IdleWorking
  <2>3. CASE /\ reads' = [reads EXCEPT ![p] = @ + 1]
             /\ Goto(p, "read")
             /\ UNCHANGED <<req, view, plan, todo, verdict, tries, reread, answer>>
    <3>1. \A q \in Procs \ {p} : Untouched(q)
      BY <2>1, <2>3 DEF Goto, Untouched, Unmoved, PerProcess
    <3>2. pc'[p] = "read"
      BY <2>3 DEF Goto, PerProcess
    <3> QED BY <2>1, <3>1, <3>2, QuietWorking
  <2> QED BY <1>6, <2>1, <2>2, <2>3 DEF Validate
<1>7. CASE Source(p)
  <2>1. \A q \in Procs \ {p} : Untouched(q)
    BY <1>7 DEF Source, Goto, Untouched, Unmoved, PerProcess
  <2>2. pc'[p] = "rewrite" /\ FilesKept /\ lock' = lock
    BY <1>7 DEF Source, Goto, PerProcess, FilesKept
  <2> QED BY <2>1, <2>2, QuietWorking DEF Preparing
<1> QED BY <1>1, <1>2, <1>3, <1>4, <1>5, <1>6, <1>7

\* The lock is taken, or the operation ends without it.
LEMMA AcquireWorks ==
    ASSUME LedgerInv, FilesInv, NEW p \in Procs, Acquire(p)
    PROVE  /\ \A q \in Procs \ {p} : Untouched(q)
           /\ FilesKept /\ Working(p)'
<1> USE InvFacts, FileFacts
<1>1. /\ pc[p] = "acquire" /\ lock = None /\ lock' = p
      /\ pc' = [pc EXCEPT ![p] = IF tries[p] < MaxAttempts THEN "recheck"
                                 ELSE Prepare(req[p].verb)]
      /\ UNCHANGED <<journal, proj, req, view, plan, todo, verdict, tries, reads, reread, answer>>
  BY DEF Acquire, Goto, local
<1>2. \A q \in Procs \ {p} : lock' = q <=> lock = q
  BY <1>1 DEF PerProcess
<1>3. \A q \in Procs \ {p} : Untouched(q)
  BY <1>1, <1>2 DEF Untouched, Unmoved, PerProcess
<1>4. CASE tries[p] < MaxAttempts
  <2>1. pc'[p] = "recheck"
    BY <1>1, <1>4 DEF PerProcess
  <2>2. Judged(p)'
    BY <1>1, <2>1 DEF Judged
  <2>3. Legal(p)' /\ Publishing(p)' /\ Resting(p)'
    BY <2>1 DEF Legal, Publishing, Resting
  <2> QED BY <1>1, <1>3, <2>2, <2>3 DEF Working, FilesKept
<1>5. CASE ~(tries[p] < MaxAttempts)
  <2>1. req[p].verb \notin {"idle", "read"}
    BY <1>1 DEF AtStep
  <2>2. pc'[p] \in Preparing
    BY <1>1, <1>5, <2>1, PrepareQuiet DEF PerProcess
  <2> QED BY <1>1, <1>3, <2>2, QuietWorking DEF FilesKept
<1> QED BY <1>4, <1>5

\* The steps that end an operation and leave the files.
LEMMA EndsWork ==
    ASSUME LedgerInv, NEW p \in Procs,
           GiveUp(p) \/ Kill(p) \/ RefuseRewrite(p) \/ RefuseProjection(p)
    PROVE  /\ \A q \in Procs \ {p} : Untouched(q)
           /\ FilesKept /\ Working(p)'
<1> USE InvFacts
<1>1. PICK result : Finish(p, result)
  BY DEF GiveUp, Kill, RefuseRewrite, RefuseProjection
<1>2. lock' = lock \/ (lock = p /\ lock' = None)
  <2>1. CASE RefuseProjection(p)
    <3>1. lock = p
      BY <2>1 DEF RefuseProjection, AtStep, LockedSteps
    <3> QED BY <2>1, <3>1 DEF RefuseProjection
  <2> QED BY <2>1 DEF GiveUp, Kill, RefuseRewrite, Release
<1>3. journal'.recs = journal.recs /\ proj' = proj
  <2>1. journal.recs = [journal EXCEPT !.torn = FALSE].recs
    BY DEF TypeOK, JournalFile
  <2> QED BY <2>1 DEF GiveUp, Kill, RefuseRewrite, RefuseProjection
<1> QED BY <1>1, <1>2, <1>3, FinishUntouched, IdleWorking DEF FilesKept

\* A validator's verdict is of the replay it was shown.
LEMMA DecideWorks ==
    ASSUME LedgerInv, FilesInv, NEW p \in Procs, Decide(p)
    PROVE  /\ \A q \in Procs \ {p} : Untouched(q)
           /\ FilesKept /\ lock' = lock /\ Working(p)'
<1> USE InvFacts, FileFacts
<1> DEFINE seen == IF reread[p] THEN view[p] ELSE [view[p] EXCEPT !.recs = journal.recs]
<1>1. /\ pc[p] = "decide"
      /\ view' = [view EXCEPT ![p] = seen]
      /\ verdict' = [verdict EXCEPT ![p] = Admissible(req[p], seen.recs)]
      /\ pc' = [pc EXCEPT ![p] = IF lock = p THEN "synchronize" ELSE "acquire"]
      /\ UNCHANGED <<journal, proj, lock, req, plan, todo, tries, reads, reread, answer>>
  BY DEF Decide, Prepared, Goto
<1>2. lock = p => seen.recs = journal.recs
  <2>1. CASE reread[p]
    BY <1>1, <2>1 DEF Seen
  <2>2. CASE ~reread[p]
    BY <2>2 DEF TypeOK, JournalFile
  <2> QED BY <2>1, <2>2
<1> HIDE DEF seen
<1>3. \A q \in Procs \ {p} : Untouched(q)
  BY <1>1 DEF Untouched, Unmoved, PerProcess
<1>4. view'[p] = seen /\ verdict'[p] = Admissible(req[p], seen.recs) /\ req'[p] = req[p]
      /\ pc'[p] = IF lock = p THEN "synchronize" ELSE "acquire"
  BY <1>1 DEF PerProcess
<1>6. Judged(p)'
  BY <1>1, <1>2, <1>4 DEF Judged
<1>7. Legal(p)' /\ Publishing(p)' /\ Resting(p)'
  BY <1>4 DEF Legal, Publishing, Resting
<1> QED BY <1>1, <1>3, <1>6, <1>7 DEF Working, FilesKept

\* The replay holds under the lock, or the preparation is lost.
LEMMA RecheckMutationWorks ==
    ASSUME LedgerInv, FilesInv, NEW p \in Procs, RecheckMutation(p)
    PROVE  /\ \A q \in Procs \ {p} : Untouched(q)
           /\ FilesKept /\ Working(p)'
<1> USE InvFacts, FileFacts
<1>1. /\ pc[p] = "recheck" /\ req[p].verb = "mutate"
      /\ \E seen : view' = [view EXCEPT ![p].recs = seen]
      /\ Unchanged(view[p]) => view' = [view EXCEPT ![p].recs = journal.recs]
      /\ journal' = [journal EXCEPT !.torn = @ /\ ~StillCurrent(view[p])]
      /\ UNCHANGED <<proj, req, plan, todo, verdict, reads, answer>>
  BY DEF RecheckMutation, Unchanged
<1>2. lock = p /\ tries[p] < MaxAttempts
  BY <1>1 DEF AtStep, LockedSteps
<1>3. journal'.recs = journal.recs /\ FilesKept
  BY <1>1 DEF TypeOK, JournalFile, FilesKept
<1>4. CASE Unchanged(view[p]) /\ Goto(p, "synchronize") /\ UNCHANGED <<lock, tries, reread>>
  <2>1. \A q \in Procs \ {p} : Untouched(q)
    BY <1>1, <1>4 DEF Goto, Untouched, Unmoved, PerProcess
  <2>2. view[p].recs = journal.recs
    <3>1. view[p].ino = journal.ino /\ Gen(view[p].recs) = Gen(journal.recs)
      BY <1>4 DEF Unchanged, StillCurrent
    <3>2. WellFormed(view[p].recs) /\ Prefix(view[p].recs, journal.recs)
      BY <3>1 DEF Seen
    <3> QED BY <3>1, <3>2, PrefixComplete
  <2>3. verdict[p] = Admissible(req[p], journal.recs)
    BY <1>1, <1>2, <2>2 DEF Judged
  <2>4. pc'[p] = "synchronize" /\ verdict'[p] = verdict[p] /\ req'[p] = req[p]
    BY <1>1, <1>4 DEF Goto, PerProcess
  <2>5. Judged(p)'
    BY <1>3, <2>3, <2>4 DEF Judged
  <2>6. Legal(p)' /\ Publishing(p)' /\ Resting(p)'
    BY <2>4 DEF Legal, Publishing, Resting
  <2> QED BY <1>3, <2>1, <2>5, <2>6 DEF Working
<1>5. CASE Retry(p)
  <2>1. \E v : view' = [view EXCEPT ![p] = v]
    <3>1. PICK seen : view' = [view EXCEPT ![p].recs = seen]
      BY <1>1
    <3>2. view' = [view EXCEPT ![p] = [view[p] EXCEPT !.recs = seen]]
      BY <3>1
    <3> QED BY <3>2
  <2> QED BY <1>1, <1>2, <1>3, <1>5, <2>1, RetryUntouched, LostWorking
<1> QED BY <1>4, <1>5 DEF RecheckMutation

\* A request, and the operations it appends.
LEMMA Requests ==
    ASSUME TypeOK, NEW p \in Procs, req[p].verb = "mutate"
    PROVE  /\ req[p].op \in {"claim", "observe", "settle", "amend"}
           /\ req[p].res \in Reservations
           /\ req[p] = [verb |-> "mutate", op |-> req[p].op, res |-> req[p].res]
<1>1. req[p] \in Request
  BY DEF TypeOK
<1> QED BY <1>1 DEF Request, Idle

LEMMA OperationsOf ==
    /\ Operations("claim") = <<"claim">> /\ Operations("observe") = <<"extent">>
    /\ Operations("settle") = <<"extent", "release">> /\ Operations("amend") = <<"evidence">>
BY DEF Operations

LEMMA OpenTransactionWorks ==
    ASSUME LedgerInv, FilesInv, NEW p \in Procs, OpenTransaction(p)
    PROVE  /\ \A q \in Procs \ {p} : Untouched(q)
           /\ FilesKept /\ lock' = lock /\ Working(p)'
           /\ pc[p] = "synchronize" /\ pc'[p] = "append"
           /\ todo'[p] = Operations(req[p].op) /\ Admissible(req[p], journal.recs)
           /\ req[p].verb = "mutate" /\ req' = req /\ answer' = answer
<1> USE InvFacts, FileFacts
<1>1. /\ pc[p] = "synchronize" /\ verdict[p]
      /\ view' = [view EXCEPT ![p].recs = journal.recs]
      /\ journal' = [journal EXCEPT !.torn = FALSE]
      /\ ~CacheAhead(journal.recs)
      /\ todo' = [todo EXCEPT ![p] = Operations(req[p].op)]
      /\ pc' = [pc EXCEPT ![p] = "append"]
      /\ UNCHANGED <<proj, lock, req, plan, verdict, tries, reads, reread, answer>>
  BY DEF OpenTransaction, Synchronized, Goto
<1>2. \A q \in Procs \ {p} : Untouched(q)
  BY <1>1 DEF Untouched, Unmoved, PerProcess
<1>3. FilesKept
  BY <1>1 DEF TypeOK, JournalFile, FilesKept
<1>4. Admissible(req[p], journal.recs) /\ req[p].verb = "mutate"
  BY <1>1 DEF Judged, AtStep, MutationSteps
<1>5. pc'[p] = "append" /\ todo'[p] = Operations(req[p].op)
  BY <1>1 DEF PerProcess
<1>6. proj = None \/ proj.recs \subseteq journal.recs
  BY <1>1 DEF ProjectionShown
<1>7. Legal(p)'
  <2>1. req[p].op \in {"claim", "observe", "settle", "amend"}
    BY <1>4, Requests
  <2>2. CASE req[p].op = "claim"
    <3>1. req[p].res \notin Claimed(journal.recs)
      BY <1>4, <2>2 DEF Admissible
    <3>2. todo'[p] = <<"claim">>
      BY <1>5, <2>2, OperationsOf
    <3> QED BY <1>1, <1>3, <1>6, <3>1, <3>2 DEF Legal, FilesKept
  <2>3. CASE req[p].op \in {"observe", "settle"}
    <3>1. req[p].res \in Active(journal.recs)
      BY <1>4, <2>3 DEF Admissible
    <3>2. todo'[p] \in {<<"extent">>, <<"extent", "release">>}
      BY <1>5, <2>3, OperationsOf
    <3> QED BY <1>1, <1>3, <1>6, <3>1, <3>2 DEF Legal, FilesKept
  <2>4. CASE req[p].op = "amend"
    <3>1. req[p].res \in Claimed(journal.recs)
      BY <1>4, <2>4 DEF Admissible
    <3>2. todo'[p] = <<"evidence">>
      BY <1>5, <2>4, OperationsOf
    <3> QED BY <1>1, <1>3, <1>6, <3>1, <3>2 DEF Legal, FilesKept
  <2> QED BY <2>1, <2>2, <2>3, <2>4
<1>8. Judged(p)' /\ Publishing(p)' /\ Resting(p)'
  BY <1>5 DEF Judged, Publishing, Resting
<1> QED BY <1>1, <1>2, <1>3, <1>4, <1>5, <1>7, <1>8 DEF Working

\* A refusal is true of the journal; what it may publish is its projection.
LEMMA RejectWorks ==
    ASSUME LedgerInv, FilesInv, NEW p \in Procs, Reject(p)
    PROVE  /\ \A q \in Procs \ {p} : Untouched(q)
           /\ lock = p /\ journal'.recs = journal.recs /\ Working(p)'
           /\ proj' \in {proj, ProjectionOf(journal.recs)}
           /\ Finish(p, "rejected") /\ lock' = None
           /\ pc[p] = "synchronize" /\ req[p].verb = "mutate"
           /\ ~Admissible(req[p], journal.recs)
<1> USE InvFacts, FileFacts
<1>1. /\ pc[p] = "synchronize" /\ ~verdict[p] /\ lock' = None /\ Finish(p, "rejected")
      /\ journal' = [journal EXCEPT !.torn = FALSE]
      /\ proj' \in {proj, ProjectionOf(journal.recs)}
  BY DEF Reject
<1>2. lock = p /\ req[p].verb = "mutate"
  BY <1>1 DEF AtStep, LockedSteps, MutationSteps
<1>3. journal'.recs = journal.recs
  BY <1>1 DEF TypeOK, JournalFile
<1>4. ~Admissible(req[p], journal.recs)
  BY <1>1 DEF Judged
<1> QED BY <1>1, <1>2, <1>3, <1>4, FinishUntouched, IdleWorking

LEMMA BeginRecordWorks ==
    ASSUME LedgerInv, FilesInv, NEW p \in Procs, BeginRecord(p)
    PROVE  /\ \A q \in Procs \ {p} : Untouched(q)
           /\ FilesKept /\ lock' = lock /\ Working(p)'
           /\ pc[p] = "append" /\ pc'[p] = "write"
           /\ todo' = todo /\ req' = req /\ answer' = answer
<1> USE InvFacts, FileFacts
<1>1. /\ pc[p] = "append" /\ pc' = [pc EXCEPT ![p] = "write"]
      /\ journal' = [journal EXCEPT !.torn = TRUE]
      /\ UNCHANGED <<proj, lock, req, view, plan, todo, verdict, tries, reads, reread, answer>>
  BY DEF BeginRecord, Goto, local
<1>2. \A q \in Procs \ {p} : Untouched(q)
  BY <1>1 DEF Untouched, Unmoved, PerProcess
<1>3. FilesKept /\ pc'[p] = "write"
  BY <1>1 DEF TypeOK, JournalFile, FilesKept, PerProcess
<1>4. Legal(p)'
  BY <1>1, <1>3 DEF Legal, FilesKept
<1>5. Judged(p)' /\ Publishing(p)' /\ Resting(p)'
  BY <1>3 DEF Judged, Publishing, Resting
<1> QED BY <1>1, <1>2, <1>3, <1>4, <1>5 DEF Working

\* The operations that may be left to append, and what is left after one.
Pending == {<<"claim">>, <<"extent">>, <<"extent", "release">>, <<"release">>, <<"evidence">>}

LEMMA HeadsAndTails ==
    /\ Head(<<"claim">>) = "claim" /\ Tail(<<"claim">>) = <<>>
    /\ Head(<<"extent">>) = "extent" /\ Tail(<<"extent">>) = <<>>
    /\ Head(<<"extent", "release">>) = "extent" /\ Tail(<<"extent", "release">>) = <<"release">>
    /\ Head(<<"release">>) = "release" /\ Tail(<<"release">>) = <<>>
    /\ Head(<<"evidence">>) = "evidence" /\ Tail(<<"evidence">>) = <<>>
<1>1. \A kind : Head(<<kind>>) = kind /\ Tail(<<kind>>) = <<>>
  OBVIOUS
<1>2. Head(<<"extent", "release">>) = "extent" /\ Tail(<<"extent", "release">>) = <<"release">>
  OBVIOUS
<1> QED BY <1>1, <1>2

\* The record a transaction is writing is one replay accepts.
LEMMA NextRecordLegal ==
    ASSUME LedgerInv, FilesInv, NEW p \in Procs, pc[p] = "write"
    PROVE  /\ lock = p /\ view[p].recs = journal.recs /\ todo[p] \in Pending
           /\ NextRecord(p) \in Record /\ NextRecord(p).gen = Gen(journal.recs) + 1
           /\ NextRecord(p).kind = Head(todo[p]) /\ NextRecord(p).res = req[p].res
           /\ WellFormed(journal.recs \cup {NextRecord(p)})
           /\ Accepted(journal.recs \cup {NextRecord(p)})
           /\ proj = None \/ proj.recs \subseteq journal.recs
<1> USE InvFacts, FileFacts
<1> DEFINE r == NextRecord(p)
<1>1. /\ lock = p /\ view[p].recs = journal.recs
      /\ r \in Record /\ r.gen = Gen(journal.recs) + 1
      /\ WellFormed(journal.recs \cup {r})
  BY NextRecordSound
<1>2. todo[p] \in Pending
  BY DEF Writing, Pending
<1>3. r.kind = Head(todo[p]) /\ r.res = req[p].res
  BY DEF NextRecord
<1>4. /\ todo[p] = <<"claim">> => req[p].res \notin Claimed(journal.recs)
      /\ todo[p] \in {<<"extent">>, <<"extent", "release">>, <<"release">>}
            => req[p].res \in Active(journal.recs)
      /\ todo[p] = <<"evidence">> => req[p].res \in Claimed(journal.recs)
      /\ proj = None \/ proj.recs \subseteq journal.recs
  BY DEF Legal
<1> HIDE DEF r
<1>5. /\ r.kind = "claim" => r.res \notin Claimed(journal.recs)
      /\ r.kind = "release" => r.res \notin Released(journal.recs)
      /\ r.kind # "claim" => r.res \in Claimed(journal.recs)
  <2>1. CASE todo[p] = <<"claim">>
    BY <1>3, <1>4, <2>1, HeadsAndTails
  <2>2. CASE todo[p] = <<"evidence">>
    BY <1>3, <1>4, <2>2, HeadsAndTails
  <2>3. CASE todo[p] \in {<<"extent">>, <<"extent", "release">>, <<"release">>}
    <3>1. r.kind \in {"extent", "release"}
      BY <1>3, <2>3, HeadsAndTails
    <3>2. r.res \in Claimed(journal.recs) /\ r.res \notin Released(journal.recs)
      BY <1>3, <1>4, <2>3 DEF Active
    <3> QED BY <3>1, <3>2
  <2> QED BY <1>2, <2>1, <2>2, <2>3 DEF Pending
<1>6. Accepted(journal.recs \cup {r})
  BY <1>1, <1>5, AcceptedNext
<1> QED BY <1>1, <1>2, <1>3, <1>4, <1>6 DEF r

LEMMA EndRecordWorks ==
    ASSUME LedgerInv, FilesInv, NEW p \in Procs, EndRecord(p)
    PROVE  /\ \A q \in Procs \ {p} : Untouched(q)
           /\ lock = p /\ lock' = lock /\ proj' = proj /\ Working(p)'
           /\ journal'.recs = journal.recs \cup {NextRecord(p)}
           /\ pc[p] = "write" /\ pc'[p] \in {"append", "publish"}
           /\ todo'[p] = Tail(todo[p]) /\ req' = req /\ answer' = answer
<1> USE InvFacts, FileFacts
<1> DEFINE r == NextRecord(p)
<1>1. /\ pc[p] = "write"
      /\ journal' = [journal EXCEPT !.recs = @ \cup {r}, !.torn = FALSE]
      /\ view' = [view EXCEPT ![p].recs = @ \cup {r}]
      /\ todo' = [todo EXCEPT ![p] = Tail(@)]
      /\ pc' = [pc EXCEPT ![p] = IF Tail(todo[p]) = <<>> THEN "publish" ELSE "append"]
      /\ UNCHANGED <<proj, lock, req, plan, verdict, tries, reads, reread, answer>>
  BY DEF EndRecord, Goto
<1>2. /\ lock = p /\ view[p].recs = journal.recs /\ todo[p] \in Pending
      /\ r.kind = Head(todo[p]) /\ r.res = req[p].res
      /\ proj = None \/ proj.recs \subseteq journal.recs
  BY <1>1, NextRecordLegal
<1> HIDE DEF r
<1>3. \A q \in Procs \ {p} : Untouched(q)
  BY <1>1 DEF Untouched, Unmoved, PerProcess
<1>4. journal'.recs = journal.recs \cup {r} /\ view'[p].recs = journal.recs \cup {r}
  BY <1>1, <1>2 DEF TypeOK, JournalFile
<1>5. /\ pc'[p] = IF Tail(todo[p]) = <<>> THEN "publish" ELSE "append"
      /\ todo'[p] = Tail(todo[p])
  BY <1>1 DEF PerProcess
<1>6. Legal(p)'
  <2> SUFFICES ASSUME pc'[p] = "append" PROVE Legal(p)'
    BY <1>5 DEF Legal
  <2>1. Tail(todo[p]) # <<>>
    BY <1>5
  <2>2. todo[p] = <<"extent", "release">>
    BY <1>2, <2>1, HeadsAndTails DEF Pending
  <2>3. todo'[p] = <<"release">> /\ r.kind = "extent"
    BY <1>2, <1>5, <2>2, HeadsAndTails
  <2>4. req[p].res \in Active(journal.recs)
    BY <1>1, <2>2 DEF Legal
  <2>5. Active(journal.recs \cup {r}) = Active(journal.recs)
    BY <2>3 DEF Active, Claimed, Released
  <2> QED BY <1>1, <1>2, <1>4, <2>3, <2>4, <2>5 DEF Legal
<1>7. Publishing(p)'
  BY <1>4, <1>5 DEF Publishing
<1>8. Judged(p)' /\ Resting(p)'
  BY <1>5 DEF Judged, Resting
<1> QED BY <1>1, <1>2, <1>3, <1>4, <1>5, <1>6, <1>7, <1>8 DEF Working, r

LEMMA FailRecordWorks ==
    ASSUME LedgerInv, FilesInv, NEW p \in Procs, FailRecord(p)
    PROVE  /\ \A q \in Procs \ {p} : Untouched(q)
           /\ lock = p /\ proj' = proj /\ Working(p)' /\ pc[p] = "write"
           /\ journal'.recs = journal.recs
              \/ journal'.recs = journal.recs \cup {NextRecord(p)}
           /\ Finish(p, "done") /\ lock' = None
<1> USE InvFacts, FileFacts
<1>1. /\ pc[p] = "write" /\ lock' = None /\ Finish(p, "done") /\ proj' = proj
      /\ journal' \in {journal,
                       [journal EXCEPT !.recs = @ \cup {NextRecord(p)}, !.torn = FALSE]}
  BY DEF FailRecord
<1>2. lock = p
  BY <1>1 DEF AtStep, LockedSteps
<1>3. journal'.recs = journal.recs \/ journal'.recs = journal.recs \cup {NextRecord(p)}
  BY <1>1 DEF TypeOK, JournalFile
<1> QED BY <1>1, <1>2, <1>3, FinishUntouched, IdleWorking

LEMMA PublishWorks ==
    ASSUME LedgerInv, FilesInv, NEW p \in Procs, Publish(p)
    PROVE  /\ \A q \in Procs \ {p} : Untouched(q)
           /\ lock = p /\ journal'.recs = journal.recs /\ Working(p)'
           /\ proj' = ProjectionOf(journal.recs)
           /\ Finish(p, "appended") /\ lock' = None
           /\ pc[p] = "publish" /\ todo[p] = <<>>
<1> USE InvFacts, FileFacts
<1>1. /\ pc[p] = "publish" /\ lock' = None /\ Finish(p, "appended") /\ journal' = journal
      /\ proj' = ProjectionOf(view[p].recs)
  BY DEF Publish
<1>2. lock = p /\ view[p].recs = journal.recs /\ todo[p] = <<>>
  BY <1>1 DEF AtStep, LockedSteps, Publishing
<1> QED BY <1>1, <1>2, FinishUntouched, IdleWorking

\* A rewrite is of the journal it was made of; what remains is to publish it.
LEMMA RewriteWorks ==
    ASSUME LedgerInv, FilesInv, NEW p \in Procs, Rewrite(p)
    PROVE  /\ \A q \in Procs \ {p} : Untouched(q)
           /\ FilesKept /\ lock' = lock /\ Working(p)'
<1> USE InvFacts, FileFacts
<1>1. PICK expired \in Expirable(journal.recs) :
         plan' = [plan EXCEPT ![p] = [src   |-> journal.recs,
                                      kept  |-> Kept(journal.recs, expired),
                                      exact |-> expired # {}]]
  BY DEF Rewrite
<1>2. /\ pc[p] = "rewrite"
      /\ pc' = [pc EXCEPT ![p] = IF lock = p THEN "project" ELSE "acquire"]
      /\ UNCHANGED <<journal, proj, lock, req, view, todo, verdict, tries, reads, reread, answer>>
  BY DEF Rewrite, Prepared, Goto
<1>3. \A q \in Procs \ {p} : Untouched(q)
  BY <1>1, <1>2 DEF Untouched, Unmoved, PerProcess
<1>4. plan'[p].kept = Kept(journal.recs, expired)
      /\ pc'[p] = IF lock = p THEN "project" ELSE "acquire"
  BY <1>1, <1>2 DEF PerProcess
<1>5. CASE pc'[p] = "project"
  <2>1. Rewritten(plan'[p].kept, journal'.recs)
    BY <1>2, <1>4, KeptRewrites
  <2>2. Publishing(p)'
    BY <1>5, <2>1 DEF Publishing
  <2>3. Legal(p)' /\ Judged(p)' /\ Resting(p)'
    BY <1>5 DEF Legal, Judged, Resting
  <2> QED BY <1>2, <1>3, <2>2, <2>3 DEF Working, FilesKept
<1>6. CASE pc'[p] = "acquire"
  <2>1. req'[p].verb # "mutate"
    BY <1>2 DEF AtStep, CompactionSteps
  <2> QED BY <1>2, <1>3, <1>6, <2>1, QueuedWorking DEF FilesKept
<1> QED BY <1>4, <1>5, <1>6

\* A rewrite admitted under the lock: the whole source, or with its new tail.
LEMMA AdmittedWorks ==
    ASSUME LedgerInv, FilesInv, NEW p \in Procs, NEW kept, Rewritten(kept, journal.recs),
           plan' = [plan EXCEPT ![p].kept = kept],
           pc' = [pc EXCEPT ![p] = "project"],
           UNCHANGED <<journal, lock, req, view, todo, verdict, tries, reads, reread, answer>>
    PROVE  (\A q \in Procs \ {p} : Untouched(q)) /\ Working(p)'
<1> USE InvFacts, FileFacts
<1>1. \A q \in Procs \ {p} : Untouched(q)
  BY DEF Untouched, Unmoved, PerProcess
<1>2. pc'[p] = "project" /\ plan'[p].kept = kept
  BY DEF PerProcess, TypeOK
<1>3. Publishing(p)'
  BY <1>2 DEF Publishing
<1>4. Legal(p)' /\ Judged(p)' /\ Resting(p)'
  BY <1>2 DEF Legal, Judged, Resting
<1> QED BY <1>1, <1>3, <1>4 DEF Working

LEMMA RecheckCompactionWorks ==
    ASSUME LedgerInv, FilesInv, NEW p \in Procs, RecheckCompaction(p)
    PROVE  /\ \A q \in Procs \ {p} : Untouched(q)
           /\ FilesKept /\ Working(p)'
           /\ pc'[p] = "idle" => Finish(p, "done")
<1> USE InvFacts, FileFacts
<1>1. /\ pc[p] = "recheck" /\ req[p].verb \in {"compact", "autocompact"}
      /\ journal' = journal /\ proj' = proj
  BY DEF RecheckCompaction
<1>2. lock = p /\ tries[p] < MaxAttempts
  BY <1>1 DEF AtStep, LockedSteps
<1>3. PICK expired \in Expirable(plan[p].src) :
         /\ plan[p].kept = Kept(plan[p].src, expired)
         /\ plan[p].exact <=> expired # {}
  BY <1>1 DEF Planned
<1>4. WellFormed(plan[p].src) /\ (view[p].ino = journal.ino => plan[p].src \subseteq journal.recs)
  BY <1>1 DEF Planned
<1>5. CASE SameSource(p) /\ Goto(p, "project") /\ UNCHANGED <<lock, local, answer>>
  <2>1. plan[p].src = journal.recs
    BY <1>5 DEF SameSource
  <2>2. Rewritten(plan[p].kept, journal.recs)
    BY <1>3, <2>1, KeptRewrites
  <2>3. plan' = [plan EXCEPT ![p].kept = plan[p].kept]
    BY <1>5 DEF local, TypeOK
  <2>4. /\ pc' = [pc EXCEPT ![p] = "project"]
        /\ UNCHANGED <<journal, lock, req, view, todo, verdict, tries, reads, reread, answer>>
    BY <1>1, <1>5 DEF Goto, local
  <2>5. pc'[p] = "project"
    BY <2>4 DEF PerProcess
  <2> QED BY <1>1, <2>2, <2>3, <2>4, <2>5, AdmittedWorks DEF FilesKept
<1>6. CASE /\ TailAdmitted(p)
           /\ plan' = [plan EXCEPT ![p].kept = @ \cup (journal.recs \ plan[p].src)]
           /\ Goto(p, "project")
           /\ UNCHANGED <<lock, req, view, todo, verdict, tries, reads, reread, answer>>
  <2> DEFINE K == Kept(plan[p].src, {}) \cup (journal.recs \ plan[p].src)
  <2>1. expired = {} /\ plan[p].src \subseteq journal.recs
    BY <1>3, <1>4, <1>6 DEF TailAdmitted
  <2>2. plan' = [plan EXCEPT ![p].kept = K]
    BY <1>3, <1>6, <2>1
  <2>3. K = Kept(plan[p].src, {}) \cup (journal.recs \ plan[p].src)
    OBVIOUS
  <2> HIDE DEF K
  <2>4. Rewritten(K, journal.recs)
    BY <1>4, <2>1, <2>3, TailRewrites
  <2>5. /\ pc' = [pc EXCEPT ![p] = "project"]
        /\ UNCHANGED <<journal, lock, req, view, todo, verdict, tries, reads, reread, answer>>
    BY <1>1, <1>6 DEF Goto
  <2>6. pc'[p] = "project"
    BY <2>5 DEF PerProcess
  <2> QED BY <1>1, <2>2, <2>4, <2>5, <2>6, AdmittedWorks DEF FilesKept
<1>7. CASE lock' = None /\ Finish(p, "done")
  BY <1>1, <1>2, <1>7, FinishUntouched, IdleWorking DEF FilesKept
<1>8. CASE Retry(p) /\ UNCHANGED <<req, view, plan, todo, verdict, reads, answer>>
  <2>1. /\ \A q \in Procs \ {p} : Untouched(q)
        /\ \/ pc'[p] \in Preparing
           \/ pc'[p] = "acquire" /\ ~(tries'[p] < MaxAttempts)
    BY <1>1, <1>2, <1>8, RetryUntouched
  <2> QED BY <1>1, <2>1, LostWorking DEF FilesKept, Preparing
<1> QED BY <1>5, <1>6, <1>7, <1>8 DEF RecheckCompaction

LEMMA ProjectCompactedWorks ==
    ASSUME LedgerInv, FilesInv, NEW p \in Procs, ProjectCompacted(p)
    PROVE  /\ \A q \in Procs \ {p} : Untouched(q)
           /\ lock = p /\ lock' = lock /\ journal' = journal /\ Working(p)'
           /\ WellFormed(plan[p].kept) /\ plan[p].kept \subseteq journal.recs
           /\ proj' = ProjectionOf(plan[p].kept)
           /\ pc[p] = "project" /\ pc'[p] = "rename" /\ req' = req /\ answer' = answer
<1> USE InvFacts, FileFacts
<1>1. /\ pc[p] = "project" /\ pc' = [pc EXCEPT ![p] = "rename"]
      /\ proj' = ProjectionOf(plan[p].kept)
      /\ UNCHANGED <<journal, lock, req, view, plan, todo, verdict, tries, reads, reread, answer>>
  BY DEF ProjectCompacted, Goto, local
<1>2. \A q \in Procs \ {p} : Untouched(q)
  BY <1>1 DEF Untouched, Unmoved, PerProcess
<1>3. lock = p /\ WellFormed(plan[p].kept) /\ plan[p].kept \subseteq journal.recs
  BY <1>1 DEF AtStep, LockedSteps, Rewriting
<1>4. pc'[p] = "rename" /\ plan' = plan /\ journal' = journal
  BY <1>1 DEF PerProcess
<1>5. Rewritten(plan[p].kept, journal.recs)
  BY <1>1 DEF Publishing
<1>6. Publishing(p)'
  BY <1>1, <1>4, <1>5 DEF Publishing, Rewritten, ProjectionOf
<1>7. Legal(p)' /\ Judged(p)' /\ Resting(p)'
  BY <1>4 DEF Legal, Judged, Resting
<1> QED BY <1>1, <1>2, <1>3, <1>4, <1>6, <1>7 DEF Working

LEMMA RenameCompactedWorks ==
    ASSUME LedgerInv, FilesInv, NEW p \in Procs, RenameCompacted(p)
    PROVE  /\ \A q \in Procs \ {p} : Untouched(q)
           /\ lock = p /\ proj' = proj /\ Working(p)'
           /\ journal'.recs = plan[p].kept /\ Rewritten(plan[p].kept, journal.recs)
           /\ WellFormed(plan[p].kept) /\ proj = ProjectionOf(plan[p].kept)
           /\ Finish(p, "done") /\ lock' = None /\ pc[p] = "rename"
<1> USE InvFacts, FileFacts
<1>1. /\ pc[p] = "rename" /\ lock' = None /\ Finish(p, "done") /\ proj' = proj
      /\ journal'.recs = plan[p].kept
  BY DEF RenameCompacted
<1>2. lock = p /\ WellFormed(plan[p].kept)
  BY <1>1 DEF AtStep, LockedSteps, Rewriting
<1>3. Rewritten(plan[p].kept, journal.recs) /\ proj = ProjectionOf(plan[p].kept)
  BY <1>1 DEF Publishing
<1> QED BY <1>1, <1>2, <1>3, FinishUntouched, IdleWorking

\* A repair or a reinitialization reads the journal and queues for the lock.
LEMMA ObserveWorks ==
    ASSUME LedgerInv, FilesInv, NEW p \in Procs, Observe(p)
    PROVE  /\ \A q \in Procs \ {p} : Untouched(q)
           /\ FilesKept /\ Working(p)'
           /\ pc'[p] # "idle" /\ req' = req /\ answer' = answer
<1> USE InvFacts, FileFacts
<1> DEFINE next == IF req[p].verb = "repair" THEN "rebuild" ELSE "discard"
<1>1. /\ pc[p] = "observe"
      /\ view' = [view EXCEPT ![p] = journal]
      /\ pc' = [pc EXCEPT ![p] = IF lock = p THEN next ELSE "acquire"]
      /\ UNCHANGED <<journal, proj, lock, req, plan, todo, verdict, tries, reads, reread, answer>>
  BY DEF Observe, Prepared, Goto
<1>2. req[p].verb \in {"repair", "reinit"}
  BY <1>1 DEF AtStep, RepairSteps
<1>3. \A q \in Procs \ {p} : Untouched(q)
  BY <1>1 DEF Untouched, Unmoved, PerProcess
<1>4. /\ pc'[p] = IF lock = p THEN next ELSE "acquire"
      /\ view'[p].recs = journal'.recs
  BY <1>1 DEF PerProcess
<1>5. CASE pc'[p] = "acquire"
  BY <1>1, <1>2, <1>3, <1>5, QueuedWorking DEF FilesKept
<1>6. CASE pc'[p] = next
  <2>1. Publishing(p)'
    BY <1>4, <1>6 DEF Publishing
  <2>2. Legal(p)' /\ Judged(p)'
    BY <1>6 DEF Legal, Judged
  <2>3. Resting(p)'
    BY <1>1, <1>2, <1>6 DEF Resting
  <2> QED BY <1>1, <1>3, <1>6, <2>1, <2>2, <2>3 DEF Working, FilesKept
<1> QED BY <1>4, <1>5, <1>6

\* The journal is as the preparation read it, or the preparation is lost.
LEMMA RecheckRepairWorks ==
    ASSUME LedgerInv, FilesInv, NEW p \in Procs, RecheckRepair(p)
    PROVE  /\ \A q \in Procs \ {p} : Untouched(q)
           /\ FilesKept /\ Working(p)'
           /\ pc'[p] # "idle" /\ pc[p] = "recheck" /\ req' = req /\ answer' = answer
<1> USE InvFacts, FileFacts
<1> DEFINE next == IF req[p].verb = "repair" THEN "rebuild" ELSE "discard"
<1>1. /\ pc[p] = "recheck" /\ req[p].verb \in {"repair", "reinit"}
      /\ UNCHANGED <<journal, proj, req, view, plan, todo, verdict, reads, answer>>
  BY DEF RecheckRepair
<1>2. lock = p /\ tries[p] < MaxAttempts
  BY <1>1 DEF AtStep, LockedSteps
<1>3. CASE journal = view[p] /\ Goto(p, next) /\ UNCHANGED <<lock, tries, reread>>
  <2>1. \A q \in Procs \ {p} : Untouched(q)
    BY <1>1, <1>3 DEF Goto, Untouched, Unmoved, PerProcess
  <2>2. pc'[p] = next /\ view'[p].recs = journal'.recs
    BY <1>1, <1>3 DEF Goto, PerProcess
  <2>3. Publishing(p)'
    BY <2>2 DEF Publishing
  <2>4. Legal(p)' /\ Judged(p)'
    BY <2>2 DEF Legal, Judged
  <2>5. Resting(p)'
    BY <1>1, <2>2 DEF Resting
  <2> QED BY <1>1, <2>1, <2>2, <2>3, <2>4, <2>5 DEF Working, FilesKept
<1>4. CASE Retry(p)
  <2>1. /\ \A q \in Procs \ {p} : Untouched(q)
        /\ \/ pc'[p] \in Preparing
           \/ pc'[p] = "acquire" /\ ~(tries'[p] < MaxAttempts)
    BY <1>1, <1>2, <1>4, RetryUntouched
  <2> QED BY <1>1, <2>1, LostWorking DEF FilesKept, Preparing
<1> QED BY <1>3, <1>4 DEF RecheckRepair

LEMMA RebuildWorks ==
    ASSUME LedgerInv, FilesInv, NEW p \in Procs, Rebuild(p)
    PROVE  /\ \A q \in Procs \ {p} : Untouched(q)
           /\ lock = p /\ journal'.recs = journal.recs /\ Working(p)'
           /\ proj' = ProjectionOf(journal.recs)
           /\ Finish(p, "done") /\ lock' = None /\ pc[p] = "rebuild"
<1> USE InvFacts, FileFacts
<1>1. /\ pc[p] = "rebuild" /\ lock' = None /\ Finish(p, "done") /\ journal' = journal
      /\ proj' = ProjectionOf(view[p].recs)
  BY DEF Rebuild
<1>2. lock = p /\ view[p].recs = journal.recs
  BY <1>1 DEF AtStep, LockedSteps, Publishing
<1> QED BY <1>1, <1>2, FinishUntouched, IdleWorking

LEMMA DiscardWorks ==
    ASSUME LedgerInv, FilesInv, NEW p \in Procs, Discard(p)
    PROVE  /\ \A q \in Procs \ {p} : Untouched(q)
           /\ lock = p /\ lock' = lock /\ proj' = proj /\ Working(p)'
           /\ journal'.recs = {} /\ resets' = resets + 1 /\ resets' # resets
           /\ req[p].verb = "reinit" /\ pc[p] = "discard" /\ pc'[p] = "clear"
           /\ req' = req /\ answer' = answer
<1> USE InvFacts, FileFacts
<1>1. /\ pc[p] = "discard" /\ pc' = [pc EXCEPT ![p] = "clear"]
      /\ journal'.recs = {} /\ resets' = resets + 1
      /\ UNCHANGED <<proj, lock, req, view, plan, todo, verdict, tries, reads, reread, answer>>
  BY DEF Discard, Goto, local
<1>2. \A q \in Procs \ {p} : Untouched(q)
  BY <1>1 DEF Untouched, Unmoved, PerProcess
<1>3. lock = p /\ req[p].verb = "reinit"
  BY <1>1 DEF AtStep, LockedSteps, Resting
<1>4. pc'[p] = "clear" /\ resets' # resets
  BY <1>1 DEF PerProcess, TypeOK
<1>5. Working(p)'
  BY <1>1, <1>3, <1>4 DEF Working, Legal, Judged, Publishing, Resting
<1> QED BY <1>1, <1>2, <1>3, <1>4, <1>5

LEMMA ClearWorks ==
    ASSUME LedgerInv, FilesInv, NEW p \in Procs, Clear(p)
    PROVE  /\ \A q \in Procs \ {p} : Untouched(q)
           /\ lock = p /\ journal'.recs = journal.recs /\ Working(p)'
           /\ proj' = ProjectionOf({})
           /\ Finish(p, "done") /\ lock' = None
           /\ pc[p] = "clear" /\ req[p].verb = "reinit"
<1> USE InvFacts, FileFacts
<1>1. /\ pc[p] = "clear" /\ lock' = None /\ Finish(p, "done") /\ journal' = journal
      /\ proj' = ProjectionOf({})
  BY DEF Clear
<1>2. lock = p /\ req[p].verb = "reinit"
  BY <1>1 DEF AtStep, LockedSteps, Resting
<1> QED BY <1>1, <1>2, FinishUntouched, IdleWorking

----------------------------------------------------------------------------
(* What a step of a process does to the two files.                          *)

\* The projection becomes that of a part of the journal.
Republished ==
    /\ journal'.recs = journal.recs
    /\ \E shown : /\ WellFormed(shown) /\ shown \subseteq journal.recs
                  /\ proj' = ProjectionOf(shown)

\* A legal record of the open transaction reaches the journal.
Extended(p) ==
    /\ pc[p] = "write" /\ proj' = proj
    /\ journal'.recs = journal.recs \cup {NextRecord(p)}

\* A rewrite whose projection is published takes the journal's place.
Replaced(p) ==
    /\ pc[p] = "rename" /\ proj' = proj
    /\ Rewritten(plan[p].kept, journal.recs) /\ WellFormed(plan[p].kept)
    /\ proj = ProjectionOf(plan[p].kept) /\ journal'.recs = plan[p].kept

Discarded(p) ==
    req[p].verb = "reinit" /\ proj' = proj /\ journal'.recs = {} /\ resets' # resets

FileStep(p) ==
    \/ FilesKept
    \/ lock = p /\ (Republished \/ Extended(p) \/ Replaced(p) \/ Discarded(p))

Moves(p) == Start(p) \/ Step(p) \/ GiveUp(p) \/ FailRecord(p) \/ Kill(p)

\* Every step of a process is a step on the files that its lock allows, keeps
\* what the invariant says of the process, and leaves the other processes.
LEMMA StepWorks ==
    ASSUME LedgerInv, FilesInv, NEW p \in Procs, Moves(p)
    PROVE  (\A q \in Procs \ {p} : Untouched(q)) /\ Working(p)' /\ FileStep(p)
<1> USE InvFacts
<1> DEFINE Goal == (\A q \in Procs \ {p} : Untouched(q)) /\ Working(p)' /\ FileStep(p)
<1>a. WellFormed({}) /\ \A S : S \subseteq S /\ {} \subseteq S
  BY EmptyPrefix
<1>1. CASE Start(p)
  <2>1. /\ \A q \in Procs \ {p} : Untouched(q)
        /\ journal' = journal /\ proj' = proj
        /\ pc'[p] \in {"stat", "read", "source", "observe"}
    BY <1>1, BeginUntouched
  <2> QED BY <2>1, QuietWorking DEF Preparing, FileStep, FilesKept
<1>2. CASE Stat(p) \/ Replay(p) \/ Restat(p) \/ Reread(p) \/ Read(p) \/ Validate(p) \/ Source(p)
  BY <1>2, PreparationsWork DEF FileStep
<1>3. CASE GiveUp(p) \/ Kill(p) \/ RefuseRewrite(p) \/ RefuseProjection(p)
  BY <1>3, EndsWork DEF FileStep
<1>4. CASE Acquire(p) \/ Decide(p) \/ RecheckMutation(p) \/ OpenTransaction(p) \/ BeginRecord(p)
  BY <1>4, AcquireWorks, DecideWorks, RecheckMutationWorks, OpenTransactionWorks,
     BeginRecordWorks DEF FileStep
<1>5. CASE Rewrite(p) \/ RecheckCompaction(p) \/ Observe(p) \/ RecheckRepair(p)
  BY <1>5, RewriteWorks, RecheckCompactionWorks, ObserveWorks, RecheckRepairWorks DEF FileStep
<1>6. CASE Reject(p)
  <2>1. (\A q \in Procs \ {p} : Untouched(q)) /\ Working(p)' /\ lock = p
        /\ journal'.recs = journal.recs /\ proj' \in {proj, ProjectionOf(journal.recs)}
    BY <1>6, RejectWorks
  <2> QED BY <1>a, <2>1 DEF FileStep, FilesKept, Republished
<1>7. CASE Publish(p) \/ Rebuild(p)
  <2>1. (\A q \in Procs \ {p} : Untouched(q)) /\ Working(p)' /\ lock = p
        /\ journal'.recs = journal.recs /\ proj' = ProjectionOf(journal.recs)
    BY <1>7, PublishWorks, RebuildWorks
  <2> QED BY <1>a, <2>1 DEF FileStep, Republished
<1>8. CASE EndRecord(p)
  BY <1>8, EndRecordWorks DEF FileStep, Extended
<1>9. CASE FailRecord(p)
  BY <1>9, FailRecordWorks DEF FileStep, FilesKept, Extended
<1>10. CASE ProjectCompacted(p)
  <2>1. (\A q \in Procs \ {p} : Untouched(q)) /\ Working(p)' /\ lock = p
        /\ journal' = journal /\ proj' = ProjectionOf(plan[p].kept)
        /\ WellFormed(plan[p].kept) /\ plan[p].kept \subseteq journal.recs
    BY <1>10, ProjectCompactedWorks
  <2> QED BY <2>1 DEF FileStep, Republished
<1>11. CASE RenameCompacted(p)
  BY <1>11, RenameCompactedWorks DEF FileStep, Replaced
<1>12. CASE Discard(p)
  BY <1>12, DiscardWorks DEF FileStep, Discarded
<1>13. CASE Clear(p)
  <2>1. (\A q \in Procs \ {p} : Untouched(q)) /\ Working(p)' /\ lock = p
        /\ journal'.recs = journal.recs /\ proj' = ProjectionOf({})
    BY <1>13, ClearWorks
  <2> QED BY <1>a, <2>1 DEF FileStep, Republished
<1> QED
  BY <1>1, <1>2, <1>3, <1>4, <1>5, <1>6, <1>7, <1>8, <1>9, <1>10, <1>11, <1>12, <1>13
  DEF Moves, Step

\* The next journal is one replay accepts, whichever step made it.
LEMMA JournalAccepted ==
    ASSUME LedgerInv, FilesInv, NEW p \in Procs, FileStep(p)
    PROVE  Accepted(journal'.recs)
<1> USE FileFacts
<1>1. CASE FilesKept \/ Republished
  BY <1>1 DEF FilesKept, Republished
<1>2. CASE Extended(p)
  BY <1>2, NextRecordLegal DEF Extended
<1>3. CASE Replaced(p)
  BY <1>3 DEF Replaced, Rewritten
<1>4. CASE Discarded(p)
  BY <1>4 DEF Discarded, Accepted
<1> QED BY <1>1, <1>2, <1>3, <1>4 DEF FileStep

LEMMA ProjectionStaysShown ==
    ASSUME LedgerInv, FilesInv, NEW p \in Procs, FileStep(p)
    PROVE  ProjectionShown'
<1> USE FileFacts
<1>1. CASE FilesKept
  BY <1>1 DEF FilesKept, ProjectionShown, CacheAhead
<1>2. CASE Republished
  <2>1. PICK shown : /\ WellFormed(shown) /\ shown \subseteq journal'.recs
                     /\ proj' = ProjectionOf(shown)
    BY <1>2 DEF Republished
  <2>2. proj'.recs = shown
    BY <2>1 DEF ProjectionOf
  <2> QED BY <2>1, <2>2 DEF ProjectionShown
<1>3. CASE Extended(p)
  <2>1. proj = None \/ proj.recs \subseteq journal'.recs
    BY <1>3, NextRecordLegal DEF Extended
  <2> QED BY <1>3, <2>1 DEF Extended, ProjectionShown
<1>4. CASE Replaced(p)
  <2>1. proj.recs = journal'.recs
    BY <1>4 DEF Replaced, ProjectionOf
  <2> QED BY <1>4, <2>1 DEF Replaced, ProjectionShown
<1>5. CASE Discarded(p)
  <2> SUFFICES ASSUME proj # None, proj.recs # {} PROVE CacheAhead({})'
    BY <1>5 DEF Discarded, ProjectionShown
  <2>1. WellFormed(proj.recs) /\ proj = ProjectionOf(proj.recs)
    BY DEF ProjectionShown
  <2>2. proj.gen = Gen(proj.recs)
    BY <2>1 DEF ProjectionOf
  <2>3. Last(proj.recs) \in proj.recs /\ Last(proj.recs).gen = Gen(proj.recs)
    BY <2>1, GenBounds
  <2>4. Gen(proj.recs) \in Nat \ {0}
    BY <2>1, <2>3 DEF WellFormed, Record
  <2> QED BY <1>5, <2>2, <2>4 DEF CacheAhead, Discarded, Gen
<1> QED BY <1>1, <1>2, <1>3, <1>4, <1>5 DEF FileStep

LEMMA InitialFiles == Init => FilesInv
<1> SUFFICES ASSUME Init PROVE FilesInv
  OBVIOUS
<1>1. Accepted(journal.recs)
  BY DEF Init, Accepted
<1>2. ProjectionShown
  <2>1. WellFormed({})
    BY FS_EmptySet DEF WellFormed, HasLast, Record
  <2>2. proj = ProjectionOf({}) /\ journal.recs = {}
    BY DEF Init
  <2>3. proj.recs = {}
    BY <2>2 DEF ProjectionOf
  <2> QED BY <2>1, <2>2, <2>3 DEF ProjectionShown
<1>3. \A p \in Procs : Working(p)
  BY DEF Init, Working, Legal, Judged, Publishing, Resting
<1> QED BY <1>1, <1>2, <1>3 DEF FilesInv

LEMMA FilesUnchanged ==
    ASSUME FilesInv, UNCHANGED vars
    PROVE  FilesInv'
<1>1. Accepted(journal.recs)' /\ ProjectionShown'
  BY DEF FilesInv, vars, ProjectionShown, CacheAhead
<1>2. ASSUME NEW p \in Procs PROVE Working(p)'
  <2>1. Working(p)
    BY DEF FilesInv
  <2>2. Legal(p)' /\ Judged(p)'
    BY <2>1 DEF vars, Working, Legal, Judged
  <2>3. Publishing(p)' /\ Resting(p)'
    BY <2>1 DEF vars, Working, Publishing, Resting
  <2> QED BY <2>2, <2>3 DEF Working
<1> QED BY <1>1, <1>2 DEF FilesInv

LEMMA NextFiles == LedgerInv /\ FilesInv /\ [Next]_vars => FilesInv'
<1> SUFFICES ASSUME LedgerInv, FilesInv, [Next]_vars PROVE FilesInv'
  OBVIOUS
<1>1. CASE UNCHANGED vars
  BY <1>1, FilesUnchanged
<1>2. CASE Next
  <2>1. PICK p \in Procs : Moves(p)
    BY <1>2 DEF Next, Moves
  <2>2. (\A q \in Procs \ {p} : Untouched(q)) /\ Working(p)' /\ FileStep(p)
    BY <2>1, StepWorks
  <2>3. ASSUME NEW q \in Procs \ {p} PROVE Working(q)'
    <3>1. FilesKept \/ lock # q
      BY <2>2 DEF FileStep
    <3> QED BY <2>2, <3>1, OtherWorking DEF FilesInv
  <2>4. Accepted(journal'.recs) /\ ProjectionShown'
    BY <2>2, JournalAccepted, ProjectionStaysShown
  <2> QED BY <2>2, <2>3, <2>4 DEF FilesInv
<1> QED BY <1>1, <1>2

----------------------------------------------------------------------------
(* Theorems about the journal and the projection.                           *)

\* The journal, the projection and every process's part in them satisfy
\* FilesInv in every reachable state.
THEOREM FilesInvariant == Spec => []FilesInv
<1>1. Init => FilesInv
  BY InitialFiles
<1>2. LedgerInv /\ FilesInv /\ [Next]_vars => FilesInv'
  BY NextFiles
<1> QED BY <1>1, <1>2, LedgerInvariant, PTL DEF Spec

\* Replay accepts the journal in every reachable state (the fold of
\* journal.rs over what appends, compactions and reinitializations leave).
THEOREM ReplayAccepted == Spec => []ReplayAccepts
<1>1. FilesInv => ReplayAccepts
  BY DEF FilesInv, Accepted, ReplayAccepts
<1> QED BY <1>1, FilesInvariant, PTL

\* A record is only appended behind a projection of a part of the journal,
\* whatever a killed reinitialization left.
THEOREM AppendsBehindTheProjection == Spec => NothingAppendedWhileAhead
<1> DEFINE Shown == /\ ~CacheAhead(journal.recs)
                    /\ proj = None \/ proj.recs \subseteq journal.recs
<1>1. ASSUME LedgerInv, FilesInv, [Next]_vars, Gen(journal'.recs) > Gen(journal.recs)
      PROVE  Shown
  <2>0. Gen(journal.recs) \in Nat
    BY <1>1, InvFacts, GenBounds
  <2>1. journal'.recs # journal.recs /\ journal'.recs # {}
    BY <1>1, <2>0 DEF Gen
  <2>2. PICK p \in Procs : Moves(p)
    BY <1>1, <2>1 DEF Next, Moves, vars
  <2>3. FileStep(p)
    BY <1>1, <2>2, StepWorks
  <2>4. Extended(p)
    BY <1>1, <2>0, <2>1, <2>3 DEF FileStep, FilesKept, Republished, Replaced, Rewritten, Discarded
  <2>5. proj = None \/ proj.recs \subseteq journal.recs
    BY <1>1, <2>4, NextRecordLegal DEF Extended
  <2>6. ~CacheAhead(journal.recs)
    <3> SUFFICES ASSUME proj # None PROVE ~CacheAhead(journal.recs)
      BY DEF CacheAhead
    <3>1. /\ WellFormed(proj.recs) /\ WellFormed(journal.recs)
          /\ proj = ProjectionOf(proj.recs) /\ proj.recs \subseteq journal.recs
      BY <1>1, <2>5, InvFacts, FileFacts DEF ProjectionShown
    <3>2. proj.gen <= Gen(journal.recs) /\ proj.end <= Cardinality(journal.recs)
      BY <3>1, PartBounds DEF ProjectionOf
    <3>3. /\ proj.gen \in Nat /\ proj.end \in Nat
          /\ Gen(journal.recs) \in Nat /\ Cardinality(journal.recs) \in Nat
      BY <3>1, GenBounds DEF ProjectionOf
    <3> QED BY <3>2, <3>3 DEF CacheAhead
  <2> QED BY <2>5, <2>6
<1>2. LedgerInv /\ FilesInv /\ [Next]_vars
         => [Gen(journal'.recs) > Gen(journal.recs) => Shown]_vars
  BY <1>1
<1> QED BY <1>2, LedgerInvariant, FilesInvariant, PTL DEF Spec, NothingAppendedWhileAhead

\* What a process does when it is about to rebuild the projection.
LEMMA RebuildOrDie ==
    ASSUME LedgerInv, NEW p \in Procs, pc[p] = "rebuild", Moves(p)
    PROVE  Rebuild(p) \/ Kill(p)
<1>1. ~Start(p)
  BY DEF Start, BeginMutation, BeginRead, BeginCompaction, BeginRepair, BeginReinitialize, Begin
<1>2. ~(Acquire(p) \/ Stat(p) \/ Replay(p) \/ Restat(p) \/ Decide(p) \/ Reread(p))
  BY DEF Acquire, Stat, Replay, Restat, Decide, Reread
<1>3. ~(RecheckMutation(p) \/ OpenTransaction(p) \/ Reject(p) \/ RefuseProjection(p)
        \/ BeginRecord(p) \/ EndRecord(p) \/ Publish(p))
  BY DEF RecheckMutation, OpenTransaction, Synchronized, Reject, RefuseProjection, BeginRecord,
         EndRecord, Publish
<1>4. ~(Read(p) \/ Validate(p) \/ Source(p) \/ RefuseRewrite(p) \/ Rewrite(p)
        \/ RecheckCompaction(p) \/ ProjectCompacted(p) \/ RenameCompacted(p))
  BY DEF Read, Validate, Source, RefuseRewrite, Rewrite, RecheckCompaction, ProjectCompacted,
         RenameCompacted
<1>5. ~(Observe(p) \/ RecheckRepair(p) \/ Discard(p) \/ Clear(p) \/ GiveUp(p) \/ FailRecord(p))
  BY DEF Observe, RecheckRepair, Discard, Clear, GiveUp, FailRecord
<1> QED BY <1>1, <1>2, <1>3, <1>4, <1>5 DEF Moves, Step

\* init --repair-projection ends with the projection of the journal as it is
\* then: the recheck under the lock covers what changed since its replay.
THEOREM RepairIsCurrent == Spec => RepairRestores
<1> DEFINE Restored == \A p \in Procs :
              pc[p] = "rebuild" /\ pc'[p] = "idle" /\ faults' = faults
                 => proj' = ProjectionOf(journal.recs)
<1>1. ASSUME LedgerInv, FilesInv, [Next]_vars, NEW p \in Procs,
             pc[p] = "rebuild", pc'[p] = "idle", faults' = faults
      PROVE  proj' = ProjectionOf(journal.recs)
  <2>1. PICK q \in Procs : Moves(q)
    BY <1>1 DEF Next, Moves, vars
  <2>2. q = p
    <3>1. \A r \in Procs \ {q} : Untouched(r)
      BY <1>1, <2>1, StepWorks
    <3> QED BY <1>1, <3>1 DEF Untouched, Unmoved
  <2>3. Rebuild(p) \/ Kill(p)
    BY <1>1, <2>1, <2>2, RebuildOrDie
  <2>4. ~Kill(p)
    <3>1. faults \in Nat
      BY <1>1, InvFacts, LedgerAssumption DEF TypeOK
    <3> QED BY <1>1, <3>1 DEF Kill
  <2> QED BY <1>1, <2>3, <2>4, RebuildWorks
<1>2. LedgerInv /\ FilesInv /\ [Next]_vars => [Restored]_vars
  BY <1>1
<1> QED BY <1>2, LedgerInvariant, FilesInvariant, PTL DEF Spec, RepairRestores

\* Only a reinitialization takes the generation back, and what a compaction
\* forgets of claims and releases it forgets with the whole reservation.
THEOREM HistoryIsKept == Spec => HistoryKept
<1> DEFINE KeptIn(new, old) ==
              /\ Gen(new) >= Gen(old)
              /\ Active(old) \ Active(new) \subseteq Released(new)
              /\ \A r \in Claimed(new) :
                    {x \in old : x.res = r /\ x \notin Superseded(old)}
                       \subseteq new \cup Superseded(new)
<1>1. ASSUME LedgerInv, FilesInv, [Next]_vars, resets' = resets
      PROVE  KeptIn(journal'.recs, journal.recs)
  <2>0. Gen(journal.recs) \in Nat
    BY <1>1, InvFacts, GenBounds
  <2>1. CASE journal'.recs = journal.recs
    BY <2>0, <2>1
  <2>2. CASE journal'.recs # journal.recs
    <3>1. PICK p \in Procs : Moves(p)
      BY <1>1, <2>2 DEF Next, Moves, vars
    <3>2. FileStep(p)
      BY <1>1, <3>1, StepWorks
    <3>3. Extended(p) \/ Replaced(p)
      BY <1>1, <2>2, <3>2 DEF FileStep, FilesKept, Republished, Discarded
    <3>4. CASE Extended(p)
      <4> DEFINE r == NextRecord(p)
      <4>1. /\ journal'.recs = journal.recs \cup {r} /\ r \in Record
            /\ r.gen = Gen(journal.recs) + 1 /\ WellFormed(journal.recs \cup {r})
        BY <1>1, <3>4, NextRecordLegal DEF Extended
      <4> HIDE DEF r
      <4>2. Gen(journal'.recs) >= Gen(journal.recs)
        BY <2>0, <4>1, GenBounds
      <4>3. Active(journal.recs) \ Active(journal'.recs) \subseteq Released(journal'.recs)
        BY <4>1 DEF Active, Claimed
      <4> QED BY <4>1, <4>2, <4>3
    <3>5. CASE Replaced(p)
      <4> DEFINE new == journal'.recs  old == journal.recs
      <4>1. Rewritten(new, old)
        BY <3>5 DEF Replaced
      <4> HIDE DEF new, old
      <4>2. PICK gone \in SUBSET Released(old) :
               Claimed(new) = Claimed(old) \ gone /\ Released(new) = Released(old) \ gone
        BY <4>1 DEF Rewritten
      <4>3. Active(old) \ Active(new) \subseteq Released(new)
        BY <4>2 DEF Active
      <4>4. \A r \in Claimed(new) : {x \in old : x.res = r /\ x \notin Superseded(old)} \subseteq new
        BY <4>1 DEF Rewritten
      <4>5. Gen(new) >= Gen(old)
        BY <2>0, <4>1 DEF Rewritten, old
      <4> QED BY <4>3, <4>4, <4>5 DEF new, old
    <3> QED BY <3>3, <3>4, <3>5
  <2> QED BY <2>1, <2>2
<1>2. LedgerInv /\ FilesInv /\ [Next]_vars
         => [resets' = resets => KeptIn(journal'.recs, journal.recs)]_vars
  BY <1>1
<1> QED BY <1>2, LedgerInvariant, FilesInvariant, PTL DEF Spec, HistoryKept

----------------------------------------------------------------------------
(* The lock-free readers, where nothing is reinitialized.                   *)

NothingReinitialized == MaxResets = 0 \/ \A p \in Procs : "reinit" \notin Roles[p]

\* What the steps other than a reader's do to a process.
LEMMA NotReading ==
    ASSUME LedgerInv, FilesInv, NEW p \in Procs, Moves(p), ~Start(p), ~Read(p), ~Validate(p)
    PROVE  pc'[p] \notin {"read", "validate"} /\ req'[p] \in {req[p], Idle}
<1> USE InvFacts
<1>a. ASSUME NEW result, Finish(p, result)
      PROVE  pc'[p] = "idle" /\ req'[p] = Idle
  BY <1>a DEF Finish, PerProcess
<1>b. ASSUME Retry(p), req' = req, req[p].verb \notin {"idle", "read"}
      PROVE  pc'[p] \notin {"read", "validate"}
  <2>1. Prepare(req[p].verb) \in Preparing
    BY <1>b, PrepareQuiet
  <2>2. pc'[p] \in {Prepare(req[p].verb), "acquire"}
    BY <1>b DEF Retry, Goto, PerProcess
  <2> QED BY <2>1, <2>2 DEF Preparing
<1>1. CASE Acquire(p)
  <2>1. pc'[p] \in {"recheck", Prepare(req[p].verb)} /\ req' = req
    BY <1>1 DEF Acquire, Goto, local, PerProcess
  <2>2. Prepare(req[p].verb) \in Preparing
    BY <1>1, PrepareQuiet DEF Acquire, AtStep
  <2> QED BY <2>1, <2>2 DEF Preparing
<1>2. CASE Stat(p) \/ Replay(p) \/ Reread(p) \/ Source(p)
  BY <1>2 DEF Stat, Replay, Reread, Source, Goto, PerProcess
<1>3. CASE Restat(p)
  <2>1. CASE Finish(p, "cache_ahead")
    BY <1>a, <2>1
  <2>2. CASE (Goto(p, "decide") \/ Goto(p, "stat")) /\ req' = req
    BY <2>2 DEF Goto, PerProcess
  <2> QED BY <1>3, <2>1, <2>2 DEF Restat, local
<1>4. CASE Decide(p) \/ Rewrite(p) \/ Observe(p)
  BY <1>4 DEF Decide, Rewrite, Observe, Prepared, Goto, PerProcess
<1>5. CASE RecheckMutation(p) \/ RecheckRepair(p)
  <2>1. req' = req /\ req[p].verb \notin {"idle", "read"}
    BY <1>5 DEF RecheckMutation, RecheckRepair
  <2>2. CASE Retry(p)
    BY <1>b, <2>1, <2>2
  <2>3. CASE Goto(p, "synchronize") \/ Goto(p, "rebuild") \/ Goto(p, "discard")
    BY <2>1, <2>3 DEF Goto, PerProcess
  <2> QED BY <1>5, <2>2, <2>3 DEF RecheckMutation, RecheckRepair
<1>6. CASE OpenTransaction(p) \/ BeginRecord(p) \/ EndRecord(p)
  BY <1>6 DEF OpenTransaction, BeginRecord, EndRecord, Goto, local, PerProcess
<1>7. CASE Reject(p) \/ RefuseProjection(p) \/ FailRecord(p) \/ Publish(p)
  BY <1>a, <1>7 DEF Reject, RefuseProjection, FailRecord, Publish
<1>8. CASE RefuseRewrite(p) \/ RenameCompacted(p) \/ Rebuild(p) \/ Clear(p)
  BY <1>a, <1>8 DEF RefuseRewrite, RenameCompacted, Rebuild, Clear
<1>9. CASE RecheckCompaction(p)
  <2>1. CASE Finish(p, "done")
    BY <1>a, <2>1
  <2>2. CASE Goto(p, "project") /\ req' = req
    BY <2>2 DEF Goto, PerProcess
  <2>3. CASE Retry(p) /\ req' = req
    BY <1>9, <1>b, <2>3 DEF RecheckCompaction
  <2> QED BY <1>9, <2>1, <2>2, <2>3 DEF RecheckCompaction, local
<1>10. CASE ProjectCompacted(p) \/ Discard(p)
  BY <1>10 DEF ProjectCompacted, Discard, Goto, local, PerProcess
<1>11. CASE GiveUp(p) \/ Kill(p)
  BY <1>a, <1>11 DEF GiveUp, Kill
<1> QED
  BY <1>1, <1>2, <1>3, <1>4, <1>5, <1>6, <1>7, <1>8, <1>9, <1>10, <1>11 DEF Moves, Step

\* A projection ahead of a replay was published with a later commit, and one
\* that stands at the replay's point is the replay's.
LEMMA AheadMeansCommit ==
    ASSUME LedgerInv, FilesInv, ReadInv, NEW p \in Procs, pc[p] = "validate"
    PROVE  /\ CacheAhead(view[p].recs) => Gen(journal.recs) > Gen(view[p].recs)
           /\ ~FingerprintMismatch(view[p].recs)
<1> USE InvFacts, FileFacts
<1> DEFINE seen == view[p].recs
<1>1. /\ WellFormed(seen) /\ Gen(seen) <= Gen(journal.recs)
      /\ \A x \in journal.recs : x.gen <= Gen(seen) => x \in seen
  BY DEF Seen, ReadInv, Reading
<1> HIDE DEF seen
<1>2. /\ Gen(seen) \in Nat /\ Gen(journal.recs) \in Nat /\ Cardinality(seen) \in Nat
  BY <1>1, GenBounds
<1>3. CASE proj = None
  BY <1>3 DEF CacheAhead, FingerprintMismatch, seen
<1>4. CASE proj # None
  <2>1. /\ WellFormed(proj.recs) /\ proj.recs \subseteq journal.recs
        /\ proj.gen = Gen(proj.recs) /\ proj.end = Cardinality(proj.recs)
    BY <1>4 DEF ProjectionShown, ReadInv, ProjectionOf
  <2>2. /\ Gen(proj.recs) \in Nat /\ Cardinality(proj.recs) \in Nat
        /\ \A x \in proj.recs : x.gen <= Gen(proj.recs)
        /\ \A x \in journal.recs : x.gen \in Nat /\ x.gen <= Gen(journal.recs)
    BY <2>1, GenBounds DEF WellFormed, Record
  <2>3. Gen(journal.recs) > Gen(seen) \/ ~CacheAhead(seen)
    <3> SUFFICES ASSUME Gen(journal.recs) = Gen(seen) PROVE ~CacheAhead(seen)
      BY <1>1, <1>2
    <3>1. proj.recs \subseteq seen
      BY <1>1, <2>1, <2>2
    <3>2. Gen(proj.recs) <= Gen(seen) /\ Cardinality(proj.recs) <= Cardinality(seen)
      BY <1>1, <2>1, <3>1, PartBounds
    <3> QED BY <1>2, <2>1, <2>2, <3>2 DEF CacheAhead
  <2>4. ~FingerprintMismatch(seen)
    <3> SUFFICES ASSUME proj.gen = Gen(seen), proj.end = Cardinality(seen)
                 PROVE  proj.recs = seen
      BY DEF FingerprintMismatch
    <3>1. proj.recs \subseteq seen
      BY <1>1, <2>1, <2>2
    <3>2. IsFiniteSet(seen) /\ Cardinality(proj.recs) = Cardinality(seen)
      BY <1>1, <2>1 DEF WellFormed
    <3> QED BY <3>1, <3>2, WholePart
  <2> QED BY <2>3, <2>4 DEF seen
<1> QED BY <1>3, <1>4

\* Where nothing is reinitialized no step takes the generation back, and the
\* records it adds are later than the ones it found.
LEMMA JournalAdvances ==
    ASSUME LedgerInv, FilesInv, ReadInv, NEW p \in Procs, FileStep(p)
    PROVE  /\ Gen(journal.recs) \in Nat /\ Gen(journal'.recs) \in Nat
           /\ Gen(journal'.recs) >= Gen(journal.recs)
           /\ \A x \in journal'.recs : x \in journal.recs \/ x.gen = Gen(journal.recs) + 1
           /\ proj' # None => proj'.recs \subseteq journal'.recs
<1> USE InvFacts
<1>1. Gen(journal.recs) \in Nat
  BY GenBounds
<1>2. CASE FilesKept
  BY <1>1, <1>2 DEF FilesKept, ReadInv
<1>3. CASE Republished
  BY <1>1, <1>3 DEF Republished, ProjectionOf
<1>4. CASE Extended(p)
  <2> DEFINE r == NextRecord(p)
  <2>1. /\ journal'.recs = journal.recs \cup {r} /\ r.gen = Gen(journal.recs) + 1
        /\ WellFormed(journal.recs \cup {r})
    BY <1>4, NextRecordLegal DEF Extended
  <2> HIDE DEF r
  <2>2. Gen(journal'.recs) \in Nat /\ r.gen <= Gen(journal'.recs)
    BY <2>1, GenBounds
  <2> QED BY <1>1, <1>4, <2>1, <2>2 DEF Extended, ReadInv
<1>5. CASE Replaced(p)
  BY <1>1, <1>5 DEF Replaced, Rewritten, ProjectionOf
<1>6. ~Discarded(p)
  BY DEF Discarded, ReadInv, Reading
<1> QED BY <1>2, <1>3, <1>4, <1>5, <1>6 DEF FileStep

\* The numbers a read counts with.
LEMMA ReadTyped ==
    ASSUME LedgerInv, NEW p \in Procs, pc[p] \in {"read", "validate"}
    PROVE  req[p].from \in Nat /\ reads[p] \in Nat /\ req[p].verb = "read"
<1> USE InvFacts
<1>1. req[p] \in Request /\ req[p].verb = "read"
  BY DEF TypeOK, AtStep
<1>2. req[p].from \in Nat
  BY <1>1 DEF Request, Idle
<1>3. reads[p] \in Nat
  BY LedgerAssumption DEF TypeOK
<1> QED BY <1>1, <1>2, <1>3

LEMMA OtherReading ==
    ASSUME LedgerInv, FilesInv, ReadInv, NEW p \in Procs, FileStep(p),
           NEW q \in Procs, Untouched(q)
    PROVE  Reading(q)'
<1>1. /\ pc'[q] = pc[q] /\ req'[q] = req[q] /\ view'[q] = view[q] /\ reads'[q] = reads[q]
      /\ answer'[q] = answer[q] /\ Reading(q)
  BY DEF Untouched, Unmoved, ReadInv
<1>2. /\ Gen(journal.recs) \in Nat /\ Gen(journal'.recs) \in Nat
      /\ Gen(journal'.recs) >= Gen(journal.recs)
      /\ \A x \in journal'.recs : x \in journal.recs \/ x.gen = Gen(journal.recs) + 1
  BY JournalAdvances
<1>3. pc[q] \in {"read", "validate"} => req[q].from \in Nat /\ reads[q] \in Nat
  BY ReadTyped
<1>4. Gen(view[q].recs) \in Nat
  BY InvFacts, GenBounds DEF Seen
<1>5. CASE pc[q] = "read"
  <2>1. req[q].from + reads[q] <= Gen(journal'.recs)
    BY <1>1, <1>2, <1>3, <1>5 DEF Reading
  <2> QED BY <1>1, <1>5, <2>1 DEF Reading
<1>6. CASE pc[q] = "validate"
  <2>1. Gen(view[q].recs) <= Gen(journal'.recs)
    BY <1>1, <1>2, <1>4, <1>6 DEF Reading
  <2>2. \A x \in journal'.recs : x.gen <= Gen(view[q].recs) => x \in view[q].recs
    BY <1>1, <1>2, <1>4, <1>6 DEF Reading
  <2> QED BY <1>1, <1>6, <2>1, <2>2 DEF Reading
<1>7. CASE pc[q] \notin {"read", "validate"}
  BY <1>1, <1>7 DEF Reading
<1> QED BY <1>5, <1>6, <1>7

LEMMA OwnReading ==
    ASSUME NothingReinitialized, LedgerInv, FilesInv, ReadInv, NEW p \in Procs, Moves(p)
    PROVE  Reading(p)'
<1> USE InvFacts, FileFacts
<1>1. Gen(journal.recs) \in Nat
  BY GenBounds
<1>2. CASE Start(p)
  <2>1. /\ journal' = journal /\ pc[p] = "idle" /\ answer'[p] = "none" /\ reads'[p] = reads[p]
        /\ req'[p].verb \in Roles[p]
        /\ pc'[p] \in {"stat", "read", "source", "observe"}
        /\ pc'[p] = "read" => req'[p] = [verb |-> "read", from |-> Gen(journal.recs)]
    BY <1>2, BeginUntouched
  <2>2. req'[p].verb # "reinit"
    <3>1. CASE BeginMutation(p)
      <4>1. PICK op \in {"claim", "observe", "settle", "amend"}, r \in Reservations :
               req' = [req EXCEPT ![p] = [verb |-> "mutate", op |-> op, res |-> r]]
        BY <3>1 DEF BeginMutation, Begin
      <4> QED BY <4>1 DEF PerProcess
    <3>2. CASE BeginRead(p) \/ BeginCompaction(p) \/ BeginRepair(p)
      BY <3>2 DEF BeginRead, BeginCompaction, BeginRepair, Begin, PerProcess
    <3>3. CASE BeginReinitialize(p)
      <4>1. resets < MaxResets /\ resets \in Nat
        BY <3>3 DEF BeginReinitialize, TypeOK
      <4> QED BY <2>1, <4>1 DEF NothingReinitialized
    <3> QED BY <1>2, <3>1, <3>2, <3>3 DEF Start
  <2>3. reads[p] = 0
    BY <2>1 DEF Resting
  <2>4. pc'[p] = "read" => req'[p].from + reads'[p] <= Gen(journal'.recs)
    BY <1>1, <2>1, <2>3
  <2> QED BY <2>1, <2>2, <2>4 DEF Reading
<1>3. CASE Read(p)
  <2>1. /\ pc[p] = "read" /\ journal' = journal /\ pc'[p] = "validate" /\ req' = req
        /\ reads' = reads /\ answer' = answer
        /\ view'[p].recs = journal.recs
    BY <1>3 DEF Read, Goto, PerProcess, NoView
  <2>2. /\ req[p].from + reads[p] <= Gen(journal.recs) /\ answer[p] = "none"
        /\ req[p].verb # "reinit"
    BY <2>1 DEF ReadInv, Reading
  <2> QED BY <1>1, <2>1, <2>2 DEF Reading
<1>4. CASE Validate(p)
  <2>1. CASE /\ CacheAhead(view[p].recs) /\ reads' = [reads EXCEPT ![p] = @ + 1]
             /\ Goto(p, "read") /\ UNCHANGED <<req, answer>>
    <3>1. pc[p] = "validate" /\ journal' = journal
      BY <1>4 DEF Validate
    <3>2. /\ pc'[p] = "read" /\ reads'[p] = reads[p] + 1 /\ req'[p] = req[p]
          /\ answer'[p] = answer[p]
      BY <2>1 DEF Goto, PerProcess
    <3>3. /\ req[p].from + reads[p] <= Gen(view[p].recs) /\ answer[p] = "none"
          /\ req[p].verb # "reinit"
      BY <3>1 DEF ReadInv, Reading
    <3>4. Gen(journal.recs) > Gen(view[p].recs) /\ Gen(view[p].recs) \in Nat
      BY <2>1, <3>1, AheadMeansCommit, GenBounds DEF Seen
    <3>5. req[p].from \in Nat /\ reads[p] \in Nat
      BY <3>1, ReadTyped
    <3>6. req'[p].from + reads'[p] <= Gen(journal'.recs)
      BY <1>1, <3>1, <3>2, <3>3, <3>4, <3>5
    <3> QED BY <3>2, <3>3, <3>6 DEF Reading
  <2>2. CASE \E result : Finish(p, result)
    BY <2>2 DEF Finish, Reading, Idle, PerProcess
  <2> QED BY <1>4, <2>1, <2>2 DEF Validate
<1>5. CASE ~Start(p) /\ ~Read(p) /\ ~Validate(p)
  <2>1. pc'[p] \notin {"read", "validate"} /\ req'[p] \in {req[p], Idle}
    BY <1>5, NotReading
  <2>2. req[p].verb # "reinit"
    BY DEF ReadInv, Reading
  <2> QED BY <2>1, <2>2 DEF Reading, Idle
<1> QED BY <1>2, <1>3, <1>4, <1>5

LEMMA InitialReads == Init => ReadInv
<1> SUFFICES ASSUME Init PROVE ReadInv
  OBVIOUS
<1>1. proj.recs = {}
  BY DEF Init, ProjectionOf
<1>2. \A p \in Procs : Reading(p)
  BY DEF Init, Reading, Idle
<1> QED BY <1>1, <1>2 DEF ReadInv

LEMMA NextReads == NothingReinitialized /\ LedgerInv /\ FilesInv /\ ReadInv /\ [Next]_vars => ReadInv'
<1> SUFFICES ASSUME NothingReinitialized, LedgerInv, FilesInv, ReadInv, [Next]_vars
             PROVE  ReadInv'
  OBVIOUS
<1>1. CASE UNCHANGED vars
  <2>1. \A p \in Procs : Reading(p)'
    BY <1>1 DEF vars, ReadInv, Reading
  <2>2. proj' # None => proj'.recs \subseteq journal'.recs
    BY <1>1 DEF vars, ReadInv
  <2> QED BY <2>1, <2>2 DEF ReadInv
<1>2. CASE Next
  <2>1. PICK p \in Procs : Moves(p)
    BY <1>2 DEF Next, Moves
  <2>2. (\A q \in Procs \ {p} : Untouched(q)) /\ FileStep(p)
    BY <2>1, StepWorks
  <2>3. \A q \in Procs \ {p} : Reading(q)'
    BY <2>2, OtherReading
  <2>4. Reading(p)'
    BY <2>1, OwnReading
  <2>5. proj' # None => proj'.recs \subseteq journal'.recs
    BY <2>2, JournalAdvances
  <2> QED BY <2>3, <2>4, <2>5 DEF ReadInv
<1> QED BY <1>1, <1>2

\* A reader that has validated leaves with what its validation said, or dies.
LEMMA ValidateOrDie ==
    ASSUME LedgerInv, NEW p \in Procs, pc[p] = "validate", Moves(p)
    PROVE  Validate(p) \/ Kill(p)
<1>1. ~Start(p)
  BY DEF Start, BeginMutation, BeginRead, BeginCompaction, BeginRepair, BeginReinitialize, Begin
<1>2. ~(Acquire(p) \/ Stat(p) \/ Replay(p) \/ Restat(p) \/ Decide(p) \/ Reread(p))
  BY DEF Acquire, Stat, Replay, Restat, Decide, Reread
<1>3. ~(RecheckMutation(p) \/ OpenTransaction(p) \/ Reject(p) \/ RefuseProjection(p)
        \/ BeginRecord(p) \/ EndRecord(p) \/ Publish(p))
  BY DEF RecheckMutation, OpenTransaction, Synchronized, Reject, RefuseProjection, BeginRecord,
         EndRecord, Publish
<1>4. ~(Read(p) \/ Source(p) \/ RefuseRewrite(p) \/ Rewrite(p)
        \/ RecheckCompaction(p) \/ ProjectCompacted(p) \/ RenameCompacted(p))
  BY DEF Read, Source, RefuseRewrite, Rewrite, RecheckCompaction, ProjectCompacted,
         RenameCompacted
<1>5. ~(Observe(p) \/ RecheckRepair(p) \/ Rebuild(p) \/ Discard(p) \/ Clear(p) \/ GiveUp(p)
        \/ FailRecord(p))
  BY DEF Observe, RecheckRepair, Rebuild, Discard, Clear, GiveUp, FailRecord
<1> QED BY <1>1, <1>2, <1>3, <1>4, <1>5 DEF Moves, Step

\* Where nothing is reinitialized, a reader that gives up has lost MaxReads
\* races to commits: no compaction, no repair and no death makes it refuse.
THEOREM ReadersYield ==
    ASSUME NothingReinitialized
    PROVE  Spec => ReadersYieldOnlyToCommits
<1> DEFINE Yields == \A p \in Procs :
              pc[p] = "validate" /\ answer'[p] \in {"cache_ahead", "unreadable"}
                 => Gen(journal.recs) >= req[p].from + MaxReads
<1>1. ASSUME LedgerInv, FilesInv, ReadInv, [Next]_vars, NEW p \in Procs,
             pc[p] = "validate", answer'[p] \in {"cache_ahead", "unreadable"}
      PROVE  Gen(journal.recs) >= req[p].from + MaxReads
  <2>1. answer[p] = "none" /\ req[p].from + reads[p] <= Gen(view[p].recs)
    BY <1>1 DEF ReadInv, Reading
  <2>2. PICK q \in Procs : Moves(q)
    BY <1>1, <2>1 DEF Next, Moves, vars
  <2>3. q = p
    <3>1. \A r \in Procs \ {q} : Untouched(r)
      BY <1>1, <2>2, StepWorks
    <3> QED BY <1>1, <2>1, <3>1 DEF Untouched
  <2>4. \A result : Finish(p, result) => answer'[p] = result
    BY <1>1, InvFacts DEF Finish, PerProcess
  <2>5. ~Kill(p)
    BY <1>1, <2>4 DEF Kill
  <2>6. Validate(p)
    BY <1>1, <2>2, <2>3, <2>5, ValidateOrDie
  <2>7. ~FingerprintMismatch(view[p].recs)
    BY <1>1, AheadMeansCommit
  <2>8. CacheAhead(view[p].recs) /\ reads[p] + 1 >= MaxReads
    BY <1>1, <2>1, <2>4, <2>6, <2>7 DEF Validate
  <2>9. Gen(journal.recs) > Gen(view[p].recs)
    BY <1>1, <2>8, AheadMeansCommit
  <2>10. Gen(view[p].recs) \in Nat /\ Gen(journal.recs) \in Nat
    BY <1>1, InvFacts, GenBounds DEF Seen
  <2>11. req[p].from \in Nat /\ reads[p] \in Nat /\ MaxReads \in Nat
    BY <1>1, ReadTyped, LedgerAssumption
  <2> QED BY <2>1, <2>8, <2>9, <2>10, <2>11
<1>2. LedgerInv /\ FilesInv /\ ReadInv /\ [Next]_vars => [Yields]_vars
  BY <1>1
<1>3. Init => ReadInv
  BY InitialReads
<1>4. LedgerInv /\ FilesInv /\ ReadInv /\ [Next]_vars => ReadInv'
  BY NextReads
<1> QED
  BY <1>2, <1>3, <1>4, LedgerInvariant, FilesInvariant, PTL DEF Spec, ReadersYieldOnlyToCommits

----------------------------------------------------------------------------
(* The refinement of the serial ledger.                                     *)

\* One transaction is open at a time: its process holds the lock.
LEMMA BatchOpen ==
    ASSUME LedgerInv, NEW p \in Procs, InTransaction(p)
    PROVE  /\ OpenBatch = [by |-> p, res |-> req[p].res, ops |-> todo[p]]
           /\ lock = p
<1>1. \A q \in Procs : InTransaction(q) => lock = q
  BY InvFacts DEF InTransaction, AtStep, LockedSteps
<1>2. (CHOOSE q \in Procs : InTransaction(q)) = p
  BY <1>1
<1> QED BY <1>1, <1>2 DEF OpenBatch

LEMMA NoBatchOpen ==
    ASSUME \A p \in Procs : ~InTransaction(p)
    PROVE  OpenBatch = None
BY DEF OpenBatch

\* The same of the next state.
LEMMA BatchOpenNext ==
    ASSUME LedgerInv', NEW p \in Procs, InTransaction(p)'
    PROVE  OpenBatch' = [by |-> p, res |-> req'[p].res, ops |-> todo'[p]]
<1>1. \A q \in Procs : InTransaction(q)' => lock' = q
  BY DEF LedgerInv, ProcessInv, InTransaction, AtStep, LockedSteps
<1>2. (CHOOSE q \in Procs : InTransaction(q)') = p
  BY <1>1
<1> QED BY <1>1, <1>2 DEF OpenBatch

LEMMA NoBatchOpenNext ==
    ASSUME \A p \in Procs : ~InTransaction(p)'
    PROVE  OpenBatch' = None
BY DEF OpenBatch

LEMMA Told ==
    ASSUME PerProcess, NEW p \in Procs, NEW result, Finish(p, result)
    PROVE  Atomic!Tell(p, result)
<1>1. answer' = [answer EXCEPT ![p] = result] /\ req' = [req EXCEPT ![p] = Idle]
  BY DEF Finish
<1>2. Asked' = [Asked EXCEPT ![p] = None]
  BY <1>1 DEF Asked, Idle, PerProcess
<1> QED BY <1>1, <1>2 DEF Atomic!Tell

\* A process outside a transaction leaves the open one as it is.
LEMMA BatchKept ==
    ASSUME LedgerInv, LedgerInv', NEW p \in Procs, \A q \in Procs \ {p} : Untouched(q),
           ~InTransaction(p), ~InTransaction(p)'
    PROVE  OpenBatch' = OpenBatch /\ (OpenBatch = None \/ OpenBatch.by # p)
<1>1. \A q \in Procs \ {p} : /\ InTransaction(q)' <=> InTransaction(q)
                             /\ req'[q] = req[q] /\ todo'[q] = todo[q]
  BY DEF Untouched, Unmoved, InTransaction
<1>2. CASE \E q \in Procs : InTransaction(q)
  <2>1. PICK q \in Procs : InTransaction(q)
    BY <1>2
  <2>2. OpenBatch = [by |-> q, res |-> req[q].res, ops |-> todo[q]] /\ q # p
    BY <2>1, BatchOpen
  <2>3. OpenBatch' = [by |-> q, res |-> req'[q].res, ops |-> todo'[q]]
    BY <1>1, <2>1, <2>2, BatchOpenNext
  <2> QED BY <1>1, <2>2, <2>3
<1>3. CASE \A q \in Procs : ~InTransaction(q)
  BY <1>1, <1>3, NoBatchOpen, NoBatchOpenNext
<1> QED BY <1>2, <1>3

\* Whoever holds the lock outside a transaction knows that none is open.
LEMMA LockedBatch ==
    ASSUME LedgerInv, NEW p \in Procs, lock = p, ~InTransaction(p)
    PROVE  OpenBatch = None
BY BatchOpen, NoBatchOpen

\* A transaction that ends leaves none open.
LEMMA BatchClosed ==
    ASSUME LedgerInv, NEW p \in Procs, \A q \in Procs \ {p} : Untouched(q),
           lock = p, ~InTransaction(p)'
    PROVE  OpenBatch' = None
<1>1. \A q \in Procs \ {p} : ~InTransaction(q)
  BY BatchOpen
<1>2. \A q \in Procs \ {p} : ~InTransaction(q)'
  BY <1>1 DEF Untouched, Unmoved, InTransaction
<1> QED BY <1>2, NoBatchOpenNext

LEMMA FactsKept == ASSUME journal'.recs = journal.recs PROVE Facts' = Facts
BY DEF Facts

LEMMA AskedKept == ASSUME req' = req PROVE Asked' = Asked
BY DEF Asked

\* The steps that change nothing of what was promised.
LEMMA Stutters ==
    ASSUME LedgerInv, LedgerInv', NEW p \in Procs, \A q \in Procs \ {p} : Untouched(q),
           ~InTransaction(p), ~InTransaction(p)',
           journal'.recs = journal.recs, req' = req, answer' = answer
    PROVE  UNCHANGED Atomic!vars
<1>1. OpenBatch' = OpenBatch
  BY BatchKept
<1>2. Facts' = Facts /\ Asked' = Asked
  BY FactsKept, AskedKept
<1> QED BY <1>1, <1>2 DEF Atomic!vars

\* The ends of an operation that decide nothing.
LEMMA Inconclusives ==
    ASSUME LedgerInv, LedgerInv', NEW p \in Procs, \A q \in Procs \ {p} : Untouched(q),
           ~InTransaction(p), journal'.recs = journal.recs,
           NEW result \in {"unreadable", "cache_ahead", "done"}, Finish(p, result)
    PROVE  Atomic!Inconclusive(p)
<1>1. pc'[p] = "idle"
  BY InvFacts DEF Finish, PerProcess
<1>2. ~InTransaction(p)'
  BY <1>1 DEF InTransaction
<1>3. OpenBatch' = OpenBatch /\ (OpenBatch = None \/ OpenBatch.by # p)
  BY <1>2, BatchKept
<1>4. Facts' = Facts /\ Atomic!Tell(p, result)
  BY FactsKept, Told, InvFacts
<1> QED BY <1>3, <1>4 DEF Atomic!Inconclusive

\* What the serial ledger judges is what the validator judges.
LEMMA SameVerdict ==
    ASSUME LedgerInv, NEW p \in Procs, req[p].verb = "mutate"
    PROVE  /\ Asked[p] = [op |-> req[p].op, res |-> req[p].res]
           /\ Asked[p] # None
           /\ Atomic!Valid(Asked[p]) <=> Admissible(req[p], journal.recs)
<1>1. /\ req[p].op \in {"claim", "observe", "settle", "amend"}
      /\ req[p].res \in Reservations
  BY InvFacts, Requests
<1>2. Asked[p] = [op |-> req[p].op, res |-> req[p].res]
  BY DEF Asked
<1>3. Asked[p] # None
  BY <1>1, <1>2, RefinementAssumption
<1>4. Asked[p].op = req[p].op /\ Asked[p].res = req[p].res
  BY <1>2
<1>5. Atomic!Active = Active(journal.recs)
  BY DEF Atomic!Active, Facts, Active
<1>6. Facts.claimed = Claimed(journal.recs) /\ Facts.released = Released(journal.recs)
  BY DEF Facts
<1>7. Atomic!Valid(Asked[p]) <=> Admissible(req[p], journal.recs)
  BY <1>4, <1>5, <1>6 DEF Atomic!Valid, Admissible
<1> QED BY <1>2, <1>3, <1>7

\* A step outside a transaction that changes no fact: nothing is told, or the
\* operation ends with an answer that decides nothing.
Undecided(p) ==
    /\ ~InTransaction(p) /\ journal'.recs = journal.recs
    /\ \/ ~InTransaction(p)' /\ req' = req /\ answer' = answer
       \/ \E result \in {"unreadable", "cache_ahead", "done"} : Finish(p, result)

LEMMA RetryUndecided ==
    ASSUME LedgerInv, NEW p \in Procs, Retry(p), req[p].verb \notin {"idle", "read"}
    PROVE  ~InTransaction(p)'
<1>1. pc'[p] \in {Prepare(req[p].verb), "acquire"}
  BY InvFacts DEF Retry, Goto, PerProcess
<1>2. Prepare(req[p].verb) \in Preparing
  BY PrepareQuiet, InvFacts
<1> QED BY <1>1, <1>2 DEF InTransaction, Preparing

LEMMA PreparationsUndecided ==
    ASSUME LedgerInv, NEW p \in Procs,
           \/ Acquire(p) \/ Stat(p) \/ Replay(p) \/ Restat(p) \/ Decide(p) \/ Reread(p)
           \/ RecheckMutation(p) \/ RefuseProjection(p) \/ Read(p) \/ Validate(p)
           \/ GiveUp(p) \/ (Kill(p) /\ ~InTransaction(p))
    PROVE  Undecided(p)
<1> USE InvFacts
<1>1. CASE Acquire(p)
  <2>1. pc[p] = "acquire" /\ pc'[p] \in {"recheck", Prepare(req[p].verb)}
        /\ journal' = journal /\ req' = req /\ answer' = answer
    BY <1>1 DEF Acquire, Goto, local, PerProcess
  <2>2. Prepare(req[p].verb) \in Preparing
    BY <2>1, PrepareQuiet DEF AtStep
  <2> QED BY <2>1, <2>2 DEF Preparing, Undecided, InTransaction
<1>2. CASE Stat(p) \/ Replay(p) \/ Reread(p) \/ Read(p)
  BY <1>2 DEF Stat, Replay, Reread, Read, Goto, PerProcess, Undecided, InTransaction
<1>3. CASE Restat(p)
  <2>1. pc[p] = "restat" /\ journal' = journal
    BY <1>3 DEF Restat
  <2>2. CASE Finish(p, "cache_ahead")
    BY <2>1, <2>2 DEF Undecided, InTransaction
  <2>3. CASE (Goto(p, "decide") \/ Goto(p, "stat")) /\ req' = req /\ answer' = answer
    BY <2>1, <2>3 DEF Goto, PerProcess, Undecided, InTransaction
  <2> QED BY <1>3, <2>2, <2>3 DEF Restat, local
<1>4. CASE Decide(p)
  <2>1. pc[p] = "decide" /\ pc'[p] \in {"synchronize", "acquire"}
        /\ journal' = journal /\ req' = req /\ answer' = answer
    BY <1>4 DEF Decide, Prepared, Goto, PerProcess
  <2> QED BY <2>1 DEF Undecided, InTransaction
<1>5. CASE RecheckMutation(p)
  <2>1. /\ pc[p] = "recheck" /\ req[p].verb = "mutate" /\ req' = req /\ answer' = answer
        /\ journal' = [journal EXCEPT !.torn = @ /\ ~StillCurrent(view[p])]
    BY <1>5 DEF RecheckMutation
  <2>2. journal'.recs = journal.recs
    BY <2>1 DEF TypeOK, JournalFile
  <2>3. CASE Goto(p, "synchronize")
    BY <2>1, <2>2, <2>3 DEF Goto, PerProcess, Undecided, InTransaction
  <2>4. CASE Retry(p)
    BY <2>1, <2>2, <2>4, RetryUndecided DEF Undecided, InTransaction
  <2> QED BY <1>5, <2>3, <2>4 DEF RecheckMutation
<1>6. CASE RefuseProjection(p)
  <2>1. /\ pc[p] = "synchronize" /\ Finish(p, "unreadable")
        /\ journal' = [journal EXCEPT !.torn = FALSE]
    BY <1>6 DEF RefuseProjection
  <2>2. journal'.recs = journal.recs
    BY <2>1 DEF TypeOK, JournalFile
  <2> QED BY <2>1, <2>2 DEF Undecided, InTransaction
<1>7. CASE Validate(p)
  <2>1. pc[p] = "validate" /\ journal' = journal
    BY <1>7 DEF Validate
  <2>2. CASE \E result \in {"unreadable", "cache_ahead", "done"} : Finish(p, result)
    BY <2>1, <2>2 DEF Undecided, InTransaction
  <2>3. CASE Goto(p, "read") /\ req' = req /\ answer' = answer
    BY <2>1, <2>3 DEF Goto, PerProcess, Undecided, InTransaction
  <2> QED BY <1>7, <2>2, <2>3 DEF Validate
<1>8. CASE GiveUp(p) \/ (Kill(p) /\ ~InTransaction(p))
  BY <1>8 DEF GiveUp, Kill, Undecided, InTransaction
<1> QED BY <1>1, <1>2, <1>3, <1>4, <1>5, <1>6, <1>7, <1>8

LEMMA PublicationsUndecided ==
    ASSUME LedgerInv, NEW p \in Procs,
           \/ Source(p) \/ RefuseRewrite(p) \/ Rewrite(p) \/ RecheckCompaction(p)
           \/ ProjectCompacted(p) \/ Observe(p) \/ RecheckRepair(p) \/ Rebuild(p) \/ Clear(p)
    PROVE  Undecided(p)
<1> USE InvFacts
<1>1. CASE Source(p) \/ ProjectCompacted(p)
  BY <1>1 DEF Source, ProjectCompacted, Goto, local, PerProcess, Undecided, InTransaction
<1>2. CASE RefuseRewrite(p) \/ Rebuild(p) \/ Clear(p)
  BY <1>2 DEF RefuseRewrite, Rebuild, Clear, Undecided, InTransaction
<1>3. CASE Rewrite(p)
  <2>1. pc[p] = "rewrite" /\ pc'[p] \in {"project", "acquire"}
        /\ journal' = journal /\ req' = req /\ answer' = answer
    BY <1>3 DEF Rewrite, Prepared, Goto, PerProcess
  <2> QED BY <2>1 DEF Undecided, InTransaction
<1>4. CASE Observe(p)
  <2>1. pc[p] = "observe" /\ pc'[p] \in {"rebuild", "discard", "acquire"}
        /\ journal' = journal /\ req' = req /\ answer' = answer
    BY <1>4 DEF Observe, Prepared, Goto, PerProcess
  <2> QED BY <2>1 DEF Undecided, InTransaction
<1>5. CASE RecheckCompaction(p)
  <2>1. /\ pc[p] = "recheck" /\ req[p].verb \in {"compact", "autocompact"}
        /\ journal' = journal
    BY <1>5 DEF RecheckCompaction
  <2>2. CASE Finish(p, "done")
    BY <2>1, <2>2 DEF Undecided, InTransaction
  <2>3. CASE Goto(p, "project") /\ req' = req /\ answer' = answer
    BY <2>1, <2>3 DEF Goto, PerProcess, Undecided, InTransaction
  <2>4. CASE Retry(p) /\ req' = req /\ answer' = answer
    BY <2>1, <2>4, RetryUndecided DEF Undecided, InTransaction
  <2> QED BY <1>5, <2>2, <2>3, <2>4 DEF RecheckCompaction, local
<1>6. CASE RecheckRepair(p)
  <2>1. /\ pc[p] = "recheck" /\ req[p].verb \in {"repair", "reinit"}
        /\ journal' = journal /\ req' = req /\ answer' = answer
    BY <1>6 DEF RecheckRepair
  <2>2. CASE Goto(p, "rebuild") \/ Goto(p, "discard")
    BY <2>1, <2>2 DEF Goto, PerProcess, Undecided, InTransaction
  <2>3. CASE Retry(p)
    BY <2>1, <2>3, RetryUndecided DEF Undecided, InTransaction
  <2> QED BY <1>6, <2>2, <2>3 DEF RecheckRepair
<1> QED BY <1>1, <1>2, <1>3, <1>4, <1>5, <1>6

LEMMA UndecidedRefines ==
    ASSUME LedgerInv, LedgerInv', NEW p \in Procs, Undecided(p),
           \A q \in Procs \ {p} : Untouched(q)
    PROVE  [Atomic!Next]_(Atomic!vars)
<1>1. ~InTransaction(p) /\ journal'.recs = journal.recs
  BY DEF Undecided
<1>2. CASE ~InTransaction(p)' /\ req' = req /\ answer' = answer
  BY <1>1, <1>2, Stutters
<1>3. CASE \E result \in {"unreadable", "cache_ahead", "done"} : Finish(p, result)
  BY <1>1, <1>3, Inconclusives DEF Atomic!Next
<1> QED BY <1>2, <1>3 DEF Undecided

\* One record more: what the journal folds to changes as the serial ledger's
\* operation says.
LEMMA AppliedNext ==
    ASSUME LedgerInv, FilesInv, NEW p \in Procs, pc[p] = "write",
           journal'.recs = journal.recs \cup {NextRecord(p)}
    PROVE  Atomic!Apply
<1> USE InvFacts
<1> DEFINE r == NextRecord(p)
           S == journal.recs
<1>1. /\ todo[p] \in Pending /\ r \in Record /\ r.gen = Gen(S) + 1
      /\ r.kind = Head(todo[p]) /\ r.res = req[p].res
      /\ WellFormed(S \cup {r})
  BY NextRecordLegal
<1>2. InTransaction(p)
  BY DEF InTransaction
<1>3. OpenBatch = [by |-> p, res |-> req[p].res, ops |-> todo[p]]
  BY <1>2, BatchOpen
<1>4. OpenBatch # None
  <2>1. todo[p] \in Seq(Kinds) /\ req[p].verb = "mutate"
    BY DEF TypeOK, AtStep, MutationSteps
  <2>2. req[p].res \in Reservations
    BY <2>1, Requests
  <2> QED BY <1>3, <2>1, <2>2, RefinementAssumption
<1>5. OpenBatch.ops # <<>>
  BY <1>1, <1>3 DEF Pending
<1> HIDE DEF r, S
<1>6. Gen(S \cup {r}) = Gen(S) + 1
  <2>1. WellFormed(S)
    BY DEF S
  <2>2. \A x \in S : x.gen <= Gen(S) /\ x.gen \in Nat
    BY <2>1, GenBounds DEF WellFormed, Record
  <2>3. Gen(S) \in Nat
    BY <2>1, GenBounds
  <2>4. \A x \in S \cup {r} : x.gen <= r.gen
    BY <1>1, <2>2, <2>3
  <2>5. r \in S \cup {r}
    OBVIOUS
  <2> QED BY <1>1, <2>4, <2>5, GenOfLast
<1>7. /\ Claimed(S \cup {r}) = IF r.kind = "claim" THEN Claimed(S) \cup {r.res} ELSE Claimed(S)
      /\ Released(S \cup {r}) = IF r.kind = "release" THEN Released(S) \cup {r.res}
                                                      ELSE Released(S)
  BY DEF Claimed, Released
<1>8. Facts = [gen |-> Gen(S), claimed |-> Claimed(S), released |-> Released(S)]
  BY DEF Facts, S
<1>9. Facts' = [gen |-> Gen(S \cup {r}), claimed |-> Claimed(S \cup {r}),
                released |-> Released(S \cup {r})]
  BY DEF Facts, S, r
<1>10. Facts' = Atomic!Applied(r.kind, r.res)
  BY <1>6, <1>7, <1>8, <1>9 DEF Atomic!Applied
<1>11. Head(OpenBatch.ops) = r.kind /\ OpenBatch.res = r.res
  BY <1>1, <1>3
<1> QED BY <1>4, <1>5, <1>10, <1>11 DEF Atomic!Apply

LEMMA EndRecordRefines ==
    ASSUME LedgerInv, LedgerInv', FilesInv, NEW p \in Procs, EndRecord(p)
    PROVE  Atomic!ApplyNext
<1> USE InvFacts
<1>1. /\ pc[p] = "write" /\ pc'[p] \in {"append", "publish"}
      /\ journal'.recs = journal.recs \cup {NextRecord(p)}
      /\ todo'[p] = Tail(todo[p]) /\ req' = req /\ answer' = answer
  BY EndRecordWorks
<1>2. Atomic!Apply
  BY <1>1, AppliedNext
<1>3. OpenBatch = [by |-> p, res |-> req[p].res, ops |-> todo[p]]
  BY <1>1, BatchOpen DEF InTransaction
<1>4. InTransaction(p)'
  BY <1>1 DEF InTransaction
<1>5. OpenBatch' = [by |-> p, res |-> req'[p].res, ops |-> todo'[p]]
  BY <1>4, BatchOpenNext
<1>6. OpenBatch' = [OpenBatch EXCEPT !.ops = Tail(@)]
  <2>1. OpenBatch' = [by |-> p, res |-> req[p].res, ops |-> Tail(todo[p])]
    BY <1>1, <1>5
  <2>2. \A r, ops, rest : [[by |-> p, res |-> r, ops |-> ops] EXCEPT !.ops = rest]
                             = [by |-> p, res |-> r, ops |-> rest]
    OBVIOUS
  <2>3. OpenBatch.ops = todo[p]
    BY <1>3
  <2> QED BY <1>3, <2>1, <2>2, <2>3
<1>7. Asked' = Asked /\ answer' = answer
  BY <1>1, AskedKept
<1> QED BY <1>2, <1>6, <1>7 DEF Atomic!ApplyNext

\* The first bytes of a record are nothing yet.
LEMMA BeginRecordRefines ==
    ASSUME LedgerInv, LedgerInv', FilesInv, NEW p \in Procs, BeginRecord(p)
    PROVE  UNCHANGED Atomic!vars
<1>1. /\ FilesKept /\ pc[p] = "append" /\ pc'[p] = "write"
      /\ todo' = todo /\ req' = req /\ answer' = answer
  BY BeginRecordWorks
<1>2. OpenBatch = [by |-> p, res |-> req[p].res, ops |-> todo[p]]
  BY <1>1, BatchOpen DEF InTransaction
<1>3. InTransaction(p)'
  BY <1>1 DEF InTransaction
<1>4. OpenBatch' = OpenBatch
  BY <1>1, <1>2, <1>3, BatchOpenNext
<1>5. Facts' = Facts /\ Asked' = Asked
  BY <1>1, FactsKept, AskedKept DEF FilesKept
<1> QED BY <1>1, <1>4, <1>5 DEF Atomic!vars

\* A transaction opens on the facts as they are.
LEMMA OpenTransactionRefines ==
    ASSUME LedgerInv, LedgerInv', FilesInv, NEW p \in Procs, OpenTransaction(p)
    PROVE  Atomic!Open(p)
<1>1. /\ FilesKept /\ pc[p] = "synchronize" /\ pc'[p] = "append"
      /\ todo'[p] = Operations(req[p].op) /\ Admissible(req[p], journal.recs)
      /\ req[p].verb = "mutate" /\ req' = req /\ answer' = answer
  BY OpenTransactionWorks
<1>2. lock = p /\ ~InTransaction(p)
  BY <1>1, InvFacts DEF AtStep, LockedSteps, InTransaction
<1>3. OpenBatch = None
  BY <1>2, LockedBatch
<1>4. InTransaction(p)'
  BY <1>1 DEF InTransaction
<1>5. OpenBatch' = [by |-> p, res |-> req'[p].res, ops |-> todo'[p]]
  BY <1>4, BatchOpenNext
<1>6. /\ Asked[p] = [op |-> req[p].op, res |-> req[p].res] /\ Asked[p] # None
      /\ Atomic!Valid(Asked[p])
  BY <1>1, SameVerdict
<1>7. OpenBatch' = [by |-> p, res |-> Asked[p].res, ops |-> Operations(Asked[p].op)]
  BY <1>1, <1>5, <1>6
<1>8. Facts' = Facts /\ Asked' = Asked /\ answer' = answer
  BY <1>1, FactsKept, AskedKept DEF FilesKept
<1> QED BY <1>3, <1>6, <1>7, <1>8 DEF Atomic!Open

\* A refusal is true of the facts when it is given.
LEMMA RejectRefines ==
    ASSUME LedgerInv, LedgerInv', FilesInv, NEW p \in Procs, Reject(p)
    PROVE  Atomic!Refuse(p)
<1> USE InvFacts
<1>1. /\ \A q \in Procs \ {p} : Untouched(q)
      /\ lock = p /\ journal'.recs = journal.recs /\ Finish(p, "rejected")
      /\ pc[p] = "synchronize" /\ req[p].verb = "mutate"
      /\ ~Admissible(req[p], journal.recs)
  BY RejectWorks
<1>2. ~InTransaction(p) /\ OpenBatch = None
  BY <1>1, LockedBatch DEF InTransaction
<1>3. pc'[p] = "idle"
  BY <1>1 DEF Finish, PerProcess
<1>4. OpenBatch' = None
  BY <1>1, <1>3, BatchClosed DEF InTransaction
<1>5. Asked[p] # None /\ ~Atomic!Valid(Asked[p])
  BY <1>1, SameVerdict
<1>6. Facts' = Facts /\ Atomic!Tell(p, "rejected")
  BY <1>1, FactsKept, Told
<1> QED BY <1>2, <1>4, <1>5, <1>6 DEF Atomic!Refuse

\* "appended" is told of a batch with nothing left to apply.
LEMMA PublishRefines ==
    ASSUME LedgerInv, LedgerInv', FilesInv, NEW p \in Procs, Publish(p)
    PROVE  Atomic!Close(p)
<1> USE InvFacts
<1>1. /\ \A q \in Procs \ {p} : Untouched(q)
      /\ lock = p /\ journal'.recs = journal.recs /\ Finish(p, "appended")
      /\ pc[p] = "publish" /\ todo[p] = <<>>
  BY PublishWorks
<1>2. OpenBatch = [by |-> p, res |-> req[p].res, ops |-> todo[p]]
  BY <1>1, BatchOpen DEF InTransaction
<1>3. OpenBatch # None
  <2>1. todo[p] \in Seq(Kinds) /\ req[p].verb = "mutate"
    BY <1>1 DEF TypeOK, AtStep, MutationSteps
  <2>2. req[p].res \in Reservations
    BY <2>1, Requests
  <2> QED BY <1>2, <2>1, <2>2, RefinementAssumption
<1>4. pc'[p] = "idle"
  BY <1>1 DEF Finish, PerProcess
<1>5. OpenBatch' = None
  BY <1>1, <1>4, BatchClosed DEF InTransaction
<1>6. Facts' = Facts /\ Atomic!Tell(p, "appended")
  BY <1>1, FactsKept, Told
<1> QED BY <1>1, <1>2, <1>3, <1>5, <1>6 DEF Atomic!Close

\* A transaction cut short by a failed append or a death: what was appended
\* stays applied, the rest is dropped, and nothing is claimed of it.
LEMMA Abandons ==
    ASSUME LedgerInv, LedgerInv', NEW p \in Procs, InTransaction(p), Finish(p, "done"),
           \A q \in Procs \ {p} : Untouched(q), Atomic!Apply \/ Facts' = Facts
    PROVE  Atomic!Abandon(p)
<1> USE InvFacts
<1>1. OpenBatch = [by |-> p, res |-> req[p].res, ops |-> todo[p]] /\ lock = p
  BY BatchOpen
<1>2. OpenBatch # None
  <2>1. todo[p] \in Seq(Kinds) /\ req[p].verb = "mutate"
    BY DEF TypeOK, AtStep, MutationSteps, InTransaction
  <2>2. req[p].res \in Reservations
    BY <2>1, Requests
  <2> QED BY <1>1, <2>1, <2>2, RefinementAssumption
<1>3. pc'[p] = "idle"
  BY DEF Finish, PerProcess
<1>4. OpenBatch' = None
  BY <1>1, <1>3, BatchClosed DEF InTransaction
<1>5. Atomic!Tell(p, "done")
  BY Told
<1> QED BY <1>1, <1>2, <1>4, <1>5 DEF Atomic!Abandon

LEMMA FailRecordRefines ==
    ASSUME LedgerInv, LedgerInv', FilesInv, NEW p \in Procs, FailRecord(p)
    PROVE  Atomic!Abandon(p)
<1>1. /\ \A q \in Procs \ {p} : Untouched(q)
      /\ pc[p] = "write" /\ Finish(p, "done")
      /\ journal'.recs = journal.recs \/ journal'.recs = journal.recs \cup {NextRecord(p)}
  BY FailRecordWorks
<1>2. Atomic!Apply \/ Facts' = Facts
  BY <1>1, AppliedNext, FactsKept
<1> QED BY <1>1, <1>2, Abandons DEF InTransaction

LEMMA KillRefines ==
    ASSUME LedgerInv, LedgerInv', NEW p \in Procs, Kill(p), InTransaction(p)
    PROVE  Atomic!Abandon(p)
<1>1. (\A q \in Procs \ {p} : Untouched(q)) /\ FilesKept
  BY EndsWork
<1>2. Facts' = Facts /\ Finish(p, "done")
  BY <1>1, FactsKept DEF FilesKept, Kill
<1> QED BY <1>1, <1>2, Abandons

\* A record of facts with other releases.
LEMMA WithReleased ==
    \A g, c, r, y : [[gen |-> g, claimed |-> c, released |-> r] EXCEPT !.released = y]
                       = [gen |-> g, claimed |-> c, released |-> y]
OBVIOUS

\* A compaction forgets finished reservations whole.
LEMMA RenameCompactedRefines ==
    ASSUME LedgerInv, LedgerInv', FilesInv, NEW p \in Procs, RenameCompacted(p)
    PROVE  Atomic!Expire(p)
<1> USE InvFacts
<1> DEFINE new == journal'.recs
           old == journal.recs
<1>1. /\ \A q \in Procs \ {p} : Untouched(q)
      /\ lock = p /\ Rewritten(new, old) /\ Finish(p, "done") /\ pc[p] = "rename"
  BY RenameCompactedWorks
<1>2. ~InTransaction(p) /\ OpenBatch = None
  BY <1>1, LockedBatch DEF InTransaction
<1>3. pc'[p] = "idle"
  BY <1>1 DEF Finish, PerProcess
<1>4. OpenBatch' = None
  BY <1>1, <1>3, BatchClosed DEF InTransaction
<1>5. Facts = [gen |-> Gen(old), claimed |-> Claimed(old), released |-> Released(old)]
      /\ Facts' = [gen |-> Gen(new), claimed |-> Claimed(new), released |-> Released(new)]
  BY DEF Facts
<1>6. Released(old) \subseteq Claimed(old)
  <2>1. Accepted(old)
    BY FileFacts
  <2> QED BY <2>1 DEF Accepted, Released, Claimed
<1> HIDE DEF new, old
<1>7. \E gone \in SUBSET (Facts.claimed \cap Facts.released) :
         Facts' = [Facts EXCEPT !.claimed = @ \ gone, !.released = @ \ gone]
  <2>1. PICK gone \in SUBSET Released(old) :
           Claimed(new) = Claimed(old) \ gone /\ Released(new) = Released(old) \ gone
    BY <1>1 DEF Rewritten
  <2>2. Gen(new) = Gen(old)
    BY <1>1 DEF Rewritten
  <2>3. gone \in SUBSET (Facts.claimed \cap Facts.released)
    BY <1>5, <1>6
  <2>4. Facts.claimed = Claimed(old) /\ Facts.released = Released(old)
    BY <1>5
  <2> DEFINE A == [Facts EXCEPT !.claimed = Claimed(old) \ gone]
  <2>5. A = [gen |-> Gen(old), claimed |-> Claimed(old) \ gone, released |-> Released(old)]
    BY <1>5
  <2>6. [A EXCEPT !.released = Released(old) \ gone]
           = [Facts EXCEPT !.claimed = @ \ gone, !.released = @ \ gone]
    BY <2>4
  <2> HIDE DEF A
  <2>7. [A EXCEPT !.released = Released(old) \ gone]
           = [gen |-> Gen(old), claimed |-> Claimed(old) \ gone,
              released |-> Released(old) \ gone]
    BY <2>5, WithReleased
  <2>8. Facts' = [Facts EXCEPT !.claimed = @ \ gone, !.released = @ \ gone]
    BY <1>5, <2>1, <2>2, <2>6, <2>7
  <2> QED BY <2>3, <2>8
<1>8. Atomic!Tell(p, "done")
  BY <1>1, Told
<1> QED BY <1>2, <1>4, <1>7, <1>8 DEF Atomic!Expire

LEMMA DiscardRefines ==
    ASSUME LedgerInv, LedgerInv', FilesInv, NEW p \in Procs, Discard(p)
    PROVE  Atomic!Reset
<1>1. /\ \A q \in Procs \ {p} : Untouched(q)
      /\ lock = p /\ journal'.recs = {} /\ pc[p] = "discard" /\ pc'[p] = "clear"
      /\ req' = req /\ answer' = answer
  BY DiscardWorks
<1>2. ~InTransaction(p) /\ OpenBatch = None
  BY <1>1, LockedBatch DEF InTransaction
<1>3. OpenBatch' = None
  BY <1>1, BatchClosed DEF InTransaction
<1>4. Facts' = [gen |-> 0, claimed |-> {}, released |-> {}]
  BY <1>1 DEF Facts, Gen, Claimed, Released
<1>5. Asked' = Asked
  BY <1>1, AskedKept
<1> QED BY <1>1, <1>2, <1>3, <1>4, <1>5 DEF Atomic!Reset, Atomic!Empty

\* A request is asked for; any other verb only takes its last answer away.
LEMMA StartRefines ==
    ASSUME LedgerInv, LedgerInv', FilesInv, NEW p \in Procs, Start(p)
    PROVE  Atomic!Ask(p) \/ Atomic!Forget(p)
<1> USE InvFacts, FileFacts
<1>1. /\ \A q \in Procs \ {p} : Untouched(q)
      /\ journal' = journal /\ pc[p] = "idle"
      /\ pc'[p] \in {"stat", "read", "source", "observe"}
  BY BeginUntouched
<1>2. ~InTransaction(p) /\ ~InTransaction(p)'
  BY <1>1 DEF InTransaction
<1>3. OpenBatch' = OpenBatch /\ Facts' = Facts
  BY <1>1, <1>2, BatchKept, FactsKept
<1>4. req[p] = Idle
  BY <1>1 DEF Resting
<1>5. Asked[p] = None
  BY <1>4 DEF Asked, Idle
<1>6. PICK request, step : Begin(p, request, step)
  BY DEF Start, BeginMutation, BeginRead, BeginCompaction, BeginRepair, BeginReinitialize
<1>7. answer' = [answer EXCEPT ![p] = "none"]
  BY <1>6 DEF Begin
<1>8. CASE BeginMutation(p)
  <2>1. PICK op \in {"claim", "observe", "settle", "amend"}, r \in Reservations :
           req' = [req EXCEPT ![p] = [verb |-> "mutate", op |-> op, res |-> r]]
    BY <1>8 DEF BeginMutation, Begin
  <2>2. Asked' = [Asked EXCEPT ![p] = [op |-> op, res |-> r]]
    BY <2>1 DEF Asked, PerProcess
  <2> QED BY <1>3, <1>5, <1>7, <2>1, <2>2 DEF Atomic!Ask
<1>9. CASE BeginRead(p) \/ BeginCompaction(p) \/ BeginRepair(p) \/ BeginReinitialize(p)
  <2>1. req' = [req EXCEPT ![p] = request] /\ req'[p] = request
    BY <1>6 DEF Begin, PerProcess
  <2>2. pc'[p] \in {"read", "source", "observe"}
    BY <1>9 DEF BeginRead, BeginCompaction, BeginRepair, BeginReinitialize, Begin, Goto, PerProcess
  <2>3. request.verb # "mutate"
    BY <2>1, <2>2, BeginUntouched
  <2>4. Asked' = Asked
    BY <1>4, <2>1, <2>3 DEF Asked, PerProcess, Idle
  <2> QED BY <1>3, <1>7, <2>4 DEF Atomic!Forget
<1> QED BY <1>8, <1>9 DEF Start

\* Every step of the ledger is a step of the serial one, or none.
LEMMA NextRefines ==
    ASSUME LedgerInv, LedgerInv', FilesInv, [Next]_vars
    PROVE  [Atomic!Next]_(Atomic!vars)
<1>1. CASE UNCHANGED vars
  <2>1. OpenBatch' = OpenBatch /\ Facts' = Facts /\ Asked' = Asked /\ answer' = answer
    BY <1>1 DEF vars, OpenBatch, InTransaction, Facts, Asked
  <2> QED BY <2>1 DEF Atomic!vars
<1>2. CASE Next
  <2>1. PICK p \in Procs : Moves(p)
    BY <1>2 DEF Next, Moves
  <2>2. \A q \in Procs \ {p} : Untouched(q)
    BY <2>1, StepWorks
  <2>3. CASE Start(p)
    BY <2>3, StartRefines DEF Atomic!Next
  <2>4. CASE EndRecord(p)
    BY <2>4, EndRecordRefines DEF Atomic!Next
  <2>5. CASE BeginRecord(p)
    BY <2>5, BeginRecordRefines
  <2>6. CASE OpenTransaction(p)
    BY <2>6, OpenTransactionRefines DEF Atomic!Next
  <2>7. CASE Reject(p)
    BY <2>7, RejectRefines DEF Atomic!Next
  <2>8. CASE Publish(p)
    BY <2>8, PublishRefines DEF Atomic!Next
  <2>9. CASE FailRecord(p) \/ (Kill(p) /\ InTransaction(p))
    BY <2>9, FailRecordRefines, KillRefines DEF Atomic!Next
  <2>10. CASE RenameCompacted(p)
    BY <2>10, RenameCompactedRefines DEF Atomic!Next
  <2>11. CASE Discard(p)
    BY <2>11, DiscardRefines DEF Atomic!Next
  <2>12. CASE \/ Acquire(p) \/ Stat(p) \/ Replay(p) \/ Restat(p) \/ Decide(p) \/ Reread(p)
              \/ RecheckMutation(p) \/ RefuseProjection(p) \/ Read(p) \/ Validate(p)
              \/ GiveUp(p) \/ (Kill(p) /\ ~InTransaction(p))
    BY <2>2, <2>12, PreparationsUndecided, UndecidedRefines
  <2>13. CASE \/ Source(p) \/ RefuseRewrite(p) \/ Rewrite(p) \/ RecheckCompaction(p)
              \/ ProjectCompacted(p) \/ Observe(p) \/ RecheckRepair(p) \/ Rebuild(p)
              \/ Clear(p)
    BY <2>2, <2>13, PublicationsUndecided, UndecidedRefines
  <2> QED
    BY <2>1, <2>3, <2>4, <2>5, <2>6, <2>7, <2>8, <2>9, <2>10, <2>11, <2>12, <2>13
    DEF Moves, Step
<1> QED BY <1>1, <1>2

\* The optimistic protocol implements serial transactions: each mutation is
\* judged on the facts as they are when its batch opens, and a caller told
\* "appended" had all of it applied with nothing in between.
THEOREM LedgerRefines == Spec => ImplementsAtomicLedger
<1>1. Init => Atomic!Init
  <2> SUFFICES ASSUME Init PROVE Atomic!Init
    OBVIOUS
  <2>1. Facts = [gen |-> 0, claimed |-> {}, released |-> {}]
    BY DEF Init, Facts, Gen, Claimed, Released
  <2>2. OpenBatch = None
    BY NoBatchOpen DEF Init, InTransaction
  <2>3. Asked = [p \in Procs |-> None]
    BY DEF Init, Asked, Idle
  <2> QED BY <2>1, <2>2, <2>3 DEF Init, Atomic!Init, Atomic!Empty
<1>2. LedgerInv /\ LedgerInv' /\ FilesInv /\ [Next]_vars => [Atomic!Next]_(Atomic!vars)
  BY NextRefines
<1> QED
  BY <1>1, <1>2, LedgerInvariant, FilesInvariant, PTL
  DEF Spec, ImplementsAtomicLedger, Atomic!Spec
=============================================================================
