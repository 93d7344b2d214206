------------------------ MODULE CoordinationIdentity ------------------------
(***************************************************************************)
(* Who a command acts for.  A harness session is mapped to a reservation by  *)
(* a file beside the journal, a worktree is marked with the run that last    *)
(* claimed in it, and neither is written in one step with the records it     *)
(* follows from.  The commands here claim, select a reservation, release it, *)
(* clear a session and sweep the markers of worktrees; each is prepared      *)
(* before it holds the lock, from files that others replace meanwhile.       *)
(*                                                                           *)
(* Claims are for disjoint paths, and a release gives its disposition, so    *)
(* that it ends the reservation.                                             *)
(***************************************************************************)
EXTENDS Naturals, FiniteSets

CONSTANTS
    Processes, Reservations, Sessions, Worktrees,
    Runs,          \* the runs a caller can present
    SessionOf,     \* the harness session of a process, or None
    WorktreesOf,   \* where a process is started
    EnvironmentOf, \* its CARGO_BERTH_RUN, or None
    Commands,      \* the commands it runs
    ArgumentsOf,   \* bound: what it is given as --run
    Found,         \* what the marker of each worktree may be found as
    Inodes,        \* bound: the inodes the mapping can have
    ReusesInodes,  \* whether an inode another process remembers is given again
    MaxAttempts,   \* preparations without the lock
    MaxFaults,     \* bound: kills and failed writes
    None,
    Malformed,     \* a marker whose text names no run
    Unreadable     \* one whose bytes cannot be read

Verbs == {"claim", "select", "release", "clear", "board", "drift"}
\* A run issued for a caller nobody identified is named after what it claims.
AllRuns == Runs \cup Reservations
\* What the mapping file says of a session.
Entries == [res : Reservations, run : AllRuns] \cup {None}

ASSUME IdentityAssumption ==
    /\ SessionOf \in [Processes -> Sessions \cup {None}]
    /\ WorktreesOf \in [Processes -> SUBSET Worktrees]
    /\ EnvironmentOf \in [Processes -> Runs \cup {None}]
    /\ Commands \in [Processes -> SUBSET Verbs]
    /\ ArgumentsOf \in [Processes -> SUBSET Runs]
    /\ Found \in [Worktrees -> SUBSET {None, Malformed, Unreadable}]
    /\ Inodes \subseteq Nat /\ ReusesInodes \in BOOLEAN
    /\ MaxAttempts \in Nat /\ MaxFaults \in Nat
    /\ Runs \cap Reservations = {}
    /\ {None, Malformed, Unreadable} \cap (Runs \cup Reservations) = {}
    /\ None \notin {Malformed, Unreadable} /\ Malformed # Unreadable
    /\ None \notin Processes \cup Sessions \cup Worktrees \cup Nat
    /\ None \notin [Sessions -> Entries]

VARIABLES
    res,        \* what the journal says of each reservation
    generation,
    mapping,    \* session-identities.json: the reservation and run of each session
    ino,        \* its inode, which is its version
    marker,     \* the coordination-run marker of each worktree
    stranded,   \* markers left under a retirement name by a process that died
    lock,
    work,       \* where each process is
    last,       \* the run last marked in a worktree and active there ever since
    faults

vars == <<res, generation, mapping, ino, marker, stranded, lock, work, last, faults>>

Free == [stage |-> "free", run |-> None, worktree |-> None, presented |-> FALSE]
Idle == [op |-> "none", at |-> "idle", tree |-> None, res |-> None, kind |-> "none",
         run |-> None, held |-> None, seen |-> 0, ino |-> None, verdict |-> FALSE,
         removes |-> FALSE, next |-> None, tries |-> 0, left |-> {}, aside |-> None]

Init ==
    /\ res = [r \in Reservations |-> Free] /\ generation = 0
    /\ mapping = [s \in Sessions |-> None] /\ ino \in Inodes /\ \A i \in Inodes : ino <= i
    /\ marker \in [Worktrees -> {None, Malformed, Unreadable}]
    /\ \A w \in Worktrees : marker[w] \in Found[w]
    /\ stranded = {}
    /\ lock = None /\ work = [p \in Processes |-> Idle]
    /\ last = [w \in Worktrees |-> None] /\ faults = 0

----------------------------------------------------------------------------
Active(reservations, u, w) ==
    \E r \in Reservations :
        /\ reservations[r].stage = "active"
        /\ reservations[r].run = u /\ reservations[r].worktree = w
ActiveHere(u, w) == Active(res, u, w)
\* Another run holds active work in w, and a caller presented that run.
Incumbent(u, w) ==
    \E r \in Reservations :
        /\ res[r].stage = "active" /\ res[r].worktree = w
        /\ res[r].presented /\ res[r].run # u
OtherActive(r) ==
    \E q \in Reservations \ {r} : res[q].stage = "active" /\ res[q].run = res[r].run

Become(p, c) == work' = [work EXCEPT ![p] = c]
Goto(p, at) == Become(p, [work[p] EXCEPT !.at = at])
\* All that a command past its publication still goes by.
Onward(p, at) ==
    Become(p, [Idle EXCEPT !.op = work[p].op, !.at = at, !.tree = work[p].tree,
                           !.res = work[p].res, !.run = work[p].run])
\* The command ends, and with it its hold of the lock.
Finish(p) ==
    Become(p, Idle) /\ lock' = IF lock = p THEN None ELSE lock

----------------------------------------------------------------------------
(* Resolving the caller.  The mapping is asked first, then the environment,   *)
(* and the marker, by a later read, only when neither identifies the caller.  *)
(* --run overrides all three.                                                 *)

Begin(p, op, r, given) ==
    LET entry == IF SessionOf[p] = None THEN None ELSE mapping[SessionOf[p]]
        As(kind, u, held) == [kind |-> kind, run |-> u, held |-> held]
        caller ==
            CASE given # None -> As("presented", given, None)
              [] given = None /\ entry # None -> As("session", entry.run, entry.res)
              [] given = None /\ entry = None /\ EnvironmentOf[p] # None ->
                     As("presented", EnvironmentOf[p], None)
              [] OTHER -> As("none", None, None) IN
    /\ op \in Commands[p] /\ work[p].at = "idle"
    /\ \E w \in WorktreesOf[p] :
          Become(p, [Idle EXCEPT !.op = op, !.res = r, !.tree = w,
                                 !.at = IF caller.kind = "none" THEN "resolve" ELSE "read",
                                 !.kind = caller.kind, !.run = caller.run,
                                 !.held = caller.held])
    /\ UNCHANGED <<res, generation, mapping, ino, marker, stranded, lock, last, faults>>

BeginClaim(p, r, given) ==
    /\ res[r].stage = "free" /\ \A q \in Processes : work[q].res # r
    /\ Begin(p, "claim", r, given)
BeginSelect(p, r) == res[r].stage # "free" /\ Begin(p, "select", r, None)

ReadMarker(p) ==
    LET found == marker[work[p].tree] IN
    /\ work[p].at = "resolve"
    /\ Become(p, [work[p] EXCEPT
                    !.at = "read",
                    !.kind = IF found \in AllRuns THEN "marker" ELSE "unidentified",
                    !.run = IF found \in AllRuns THEN found ELSE work[p].res])
    /\ UNCHANGED <<res, generation, mapping, ino, marker, stranded, lock, last, faults>>

\* These act for nobody.  A board and a release reconcile, which sweeps every
\* worktree; a drift hook sweeps its own.
BeginOther(p, op, r) ==
    /\ op \in Commands[p] /\ work[p].at = "idle"
    /\ \E w \in WorktreesOf[p] :
          Become(p, [Idle EXCEPT !.op = op, !.res = r, !.tree = w, !.at = "read",
                                 !.left = IF op = "clear" THEN {}
                                          ELSE IF op = "drift" THEN {w} ELSE Worktrees])
    /\ UNCHANGED <<res, generation, mapping, ino, marker, stranded, lock, last, faults>>
BeginRelease(p, r) == res[r].stage # "free" /\ BeginOther(p, "release", r)
BeginBoard(p) == BeginOther(p, "board", None)
BeginDrift(p) == BeginOther(p, "drift", None)
BeginClear(p) == BeginOther(p, "clear", None)
Sweeping(p) == work[p].left # {}

----------------------------------------------------------------------------
(* Preparing: the journal and the version of the mapping are read, the        *)
(* command is judged, and the mapping as it would leave it is drawn up from a *)
(* later read.                                                                *)

Valid(p) ==
    LET c == work[p] IN
    CASE c.kind = "session" ->
           /\ res[c.held].stage = "active" /\ res[c.held].run = c.run
           /\ res[c.held].worktree = c.tree
      [] c.kind = "marker" -> ActiveHere(c.run, c.tree)
      [] c.kind = "presented" -> ~ Incumbent(c.run, c.tree)
      [] OTHER -> TRUE
Admitted(p) ==
    LET c == work[p] IN
    CASE c.op = "claim" -> Valid(p)
      [] c.op = "select" ->
           /\ Valid(p) /\ res[c.res].stage = "active"
           /\ res[c.res].run = c.run /\ res[c.res].worktree = c.tree
      [] c.op = "release" /\ ~ Sweeping(p) -> res[c.res].stage = "active"
      [] OTHER -> TRUE
\* The released run has nothing active left, and the marker is this worktree's.
Removes(p) ==
    /\ work[p].op = "release" /\ res[work[p].res].worktree = work[p].tree
    /\ ~ OtherActive(work[p].res)

Read(p) ==
    /\ work[p].at = "read"
    /\ Become(p, [work[p] EXCEPT !.at = "draw", !.seen = generation, !.ino = ino,
                                  !.verdict = Admitted(p), !.removes = Removes(p)])
    /\ UNCHANGED <<res, generation, mapping, ino, marker, stranded, lock, last, faults>>

\* Mutant: a release forgets its own session only.
DrawnOwn(p) ==
    LET c == work[p]
        s == SessionOf[p] IN
    CASE c.verdict /\ c.op \in {"claim", "select"} /\ s # None ->
           [mapping EXCEPT ![s] = [res |-> c.res, run |-> c.run]]
      [] c.op \in {"clear", "release"} /\ s # None /\ ~ Sweeping(p) ->
           [mapping EXCEPT ![s] = None]
      [] OTHER -> None
\* The mapping as this command would leave it, or None if it leaves it alone.
Drawn(p) ==
    LET c == work[p]
        s == SessionOf[p] IN
    CASE c.verdict /\ c.op \in {"claim", "select"} /\ s # None ->
           [mapping EXCEPT ![s] = [res |-> c.res, run |-> c.run]]
      [] c.verdict /\ c.op = "release" /\ ~ Sweeping(p) ->
           [t \in Sessions |->
               IF mapping[t] # None /\ mapping[t].res = c.res THEN None ELSE mapping[t]]
      [] c.op = "clear" /\ s # None /\ mapping[s] # None -> [mapping EXCEPT ![s] = None]
      [] OTHER -> None
\* What was read has served once the command is about to commit under the lock.
Settled(c) ==
    [c EXCEPT !.at = "commit", !.seen = 0, !.ino = None, !.tries = 0]
Draw(p) ==
    LET c == [work[p] EXCEPT !.next = Drawn(p), !.at = "acquire"] IN
    /\ work[p].at = "draw"
    /\ Become(p, IF lock = p THEN Settled(c) ELSE c)
    /\ UNCHANGED <<res, generation, mapping, ino, marker, stranded, lock, last, faults>>

\* Mutants: one version is compared and not the other.
StillCurrentRecords(p) == work[p].op = "clear" \/ work[p].seen = generation
StillCurrentMapping(p) == work[p].ino = ino
\* Clearing a session depends on no record.
StillCurrent(p) ==
    work[p].ino = ino /\ (work[p].op = "clear" \/ work[p].seen = generation)
\* After the last lost attempt the command prepares again under the lock.
Acquire(p) ==
    LET again == [work[p] EXCEPT !.at = "read", !.seen = 0, !.ino = None, !.verdict = FALSE,
                                 !.removes = FALSE, !.next = None, !.tries = @ + 1] IN
    /\ work[p].at = "acquire" /\ lock = None
    /\ IF StillCurrent(p)
       THEN Become(p, Settled(work[p])) /\ lock' = p
       ELSE /\ Become(p, again)
            /\ lock' = IF again.tries < MaxAttempts THEN None ELSE p
    /\ UNCHANGED <<res, generation, mapping, ino, marker, stranded, last, faults>>

----------------------------------------------------------------------------
(* Committing: the record, then the mapping, and the marker of a claim only   *)
(* after the lock is given back.                                              *)

Refuse(p) ==
    /\ work[p].at = "commit" /\ ~ work[p].verdict /\ Finish(p)
    /\ UNCHANGED <<res, generation, mapping, ino, marker, stranded, last, faults>>

Append(p) ==
    LET c == work[p] IN
    /\ c.at = "commit" /\ c.verdict /\ c.op \in {"claim", "release"} /\ ~ Sweeping(p)
    /\ res' = [res EXCEPT ![c.res] =
          IF c.op = "claim"
          THEN [stage |-> "active", run |-> c.run, worktree |-> c.tree,
                presented |-> c.kind # "unidentified"]
          ELSE [@ EXCEPT !.stage = "ended"]]
    /\ last' = [w \in Worktrees |-> IF Active(res', last[w], w) THEN last[w] ELSE None]
    /\ generation' = generation + 1 /\ Goto(p, "publish")
    /\ UNCHANGED <<mapping, ino, marker, stranded, lock, faults>>

\* The lowest inode that is free when the temporary file is created.
Allocated(i) ==
    LET taken == {ino} \cup IF ReusesInodes THEN {} ELSE {work[q].ino : q \in Processes} IN
    /\ i \in Inodes \ taken
    /\ \A j \in Inodes \ taken : i <= j
AfterPublication(p) ==
    LET c == work[p] IN
    CASE c.op = "claim" -> Onward(p, "mark") /\ lock' = None
      [] c.op = "select" -> Onward(p, "mark") /\ lock' = lock
      [] c.op = "release" /\ c.removes -> Onward(p, "detach") /\ lock' = lock
      [] OTHER -> Finish(p)
Publishing(p) ==
    \/ work[p].at = "publish"
    \/ work[p].at = "commit" /\ work[p].verdict /\ work[p].op \in {"select", "clear"}
Publish(p) ==
    /\ Publishing(p) /\ AfterPublication(p)
    /\ IF work[p].next = None
       THEN UNCHANGED <<mapping, ino>>
       ELSE mapping' = work[p].next /\ \E i \in Inodes : Allocated(i) /\ ino' = i
    /\ UNCHANGED <<res, generation, marker, stranded, last, faults>>
\* The mapping is disposable: the command goes on without it.
PublishFails(p) ==
    /\ faults < MaxFaults /\ faults' = faults + 1
    /\ Publishing(p) /\ work[p].next # None /\ AfterPublication(p)
    /\ UNCHANGED <<res, generation, mapping, ino, marker, stranded, last>>

Mark(p) ==
    LET c == work[p] IN
    /\ c.at = "mark" /\ Finish(p)
    /\ marker' = [marker EXCEPT ![c.tree] = c.run]
    /\ last' = [last EXCEPT ![c.tree] = IF ActiveHere(c.run, c.tree) THEN c.run ELSE None]
    /\ UNCHANGED <<res, generation, mapping, ino, stranded, faults>>
MarkFails(p) ==
    /\ faults < MaxFaults /\ faults' = faults + 1
    /\ work[p].at = "mark" /\ Finish(p)
    /\ UNCHANGED <<res, generation, mapping, ino, marker, stranded, last>>

----------------------------------------------------------------------------
(* Retiring markers, under the lock, while claims that gave it back publish.  *)

\* The worktree whose marker is being retired.
Tree(p) == IF Sweeping(p) THEN CHOOSE w \in work[p].left : TRUE ELSE work[p].tree
\* On to the next worktree of a sweep, to the release it precedes, or done.
Leave(p) ==
    LET c == work[p]
        rest == c.left \ {Tree(p)} IN
    IF rest # {}
    THEN /\ Become(p, [c EXCEPT !.at = "commit", !.left = rest, !.aside = None])
         /\ lock' = lock
    ELSE IF c.op = "release" /\ Sweeping(p)
    THEN Onward(p, "read") /\ lock' = None
    ELSE Finish(p)

LookAtMarker(p) ==
    LET w == Tree(p) IN
    /\ work[p].at = "commit" /\ Sweeping(p)
    /\ IF marker[w] \in AllRuns /\ ActiveHere(marker[w], w)
       THEN Leave(p)
       ELSE Goto(p, "detach") /\ lock' = lock
    /\ UNCHANGED <<res, generation, mapping, ino, marker, stranded, last, faults>>
\* A rename: whatever is the marker now, which a claim may just have published.
Detach(p) ==
    LET w == Tree(p) IN
    /\ work[p].at = "detach"
    /\ IF marker[w] = None
       THEN Leave(p) /\ UNCHANGED marker
       ELSE /\ Become(p, [work[p] EXCEPT !.at = "judge", !.aside = marker[w]])
            /\ marker' = [marker EXCEPT ![w] = None] /\ lock' = lock
    /\ UNCHANGED <<res, generation, mapping, ino, stranded, last, faults>>
\* Mutants: what was looked at is retired; a sweep spares what names no run.
RetiredUnread(p) ==
    IF Sweeping(p) THEN work[p].aside # Unreadable
                   ELSE work[p].aside = res[work[p].res].run
RetiredReadable(p) ==
    LET a == work[p].aside IN
    IF Sweeping(p)
    THEN a \in AllRuns /\ ~ ActiveHere(a, Tree(p))
    ELSE a = res[work[p].res].run
\* What was detached is judged, not what was looked at.  What cannot be read is
\* never retired.
Retired(p) ==
    LET a == work[p].aside IN
    IF Sweeping(p)
    THEN a # Unreadable /\ ~ (a \in AllRuns /\ ActiveHere(a, Tree(p)))
    ELSE a = res[work[p].res].run
\* A hard link puts it back, unless a newer marker has taken the name.  A sweep that
\* cannot read what it detached is an error that ends the command.
Judge(p) ==
    LET w == Tree(p) IN
    /\ work[p].at = "judge"
    /\ IF Sweeping(p) /\ work[p].aside = Unreadable THEN Finish(p) ELSE Leave(p)
    /\ marker' = IF Retired(p) \/ marker[w] # None
                 THEN marker ELSE [marker EXCEPT ![w] = work[p].aside]
    /\ UNCHANGED <<res, generation, mapping, ino, stranded, last, faults>>

----------------------------------------------------------------------------
\* A process dies; the kernel releases its lock, nobody restores its detached marker.
Kill(p) ==
    /\ work[p].at # "idle" /\ faults < MaxFaults /\ faults' = faults + 1
    /\ Finish(p)
    /\ stranded' = IF work[p].at = "judge"
                   THEN stranded \cup {<<Tree(p), work[p].aside>>} ELSE stranded
    /\ UNCHANGED <<res, generation, mapping, ino, marker, last>>

Step(p) ==
    \/ ReadMarker(p) \/ Read(p) \/ Draw(p) \/ Refuse(p) \/ Append(p) \/ Publish(p)
    \/ Mark(p) \/ LookAtMarker(p) \/ Detach(p) \/ Judge(p)
Start(p) ==
    \/ \E r \in Reservations :
          \/ BeginRelease(p, r) \/ BeginSelect(p, r)
          \/ \E given \in ArgumentsOf[p] \cup {None} : BeginClaim(p, r, given)
    \/ BeginClear(p) \/ BeginBoard(p) \/ BeginDrift(p)

Next ==
    \E p \in Processes :
        \/ Start(p) \/ Step(p) \/ Acquire(p)
        \/ PublishFails(p) \/ MarkFails(p) \/ Kill(p)

Spec == Init /\ [][Next]_vars

\* Commands are straight-line code, callers of the lock queue, and who looks at the
\* board between other commands looks at it again.
FairSpec ==
    /\ Spec
    /\ \A p \in Processes : WF_vars(Step(p)) /\ SF_vars(Acquire(p))
    /\ \A p \in {q \in Processes : "board" \in Commands[q]} : SF_vars(BeginBoard(p))

----------------------------------------------------------------------------
WorkTypes ==
    [op : Verbs \cup {"none"},
     at : {"idle", "resolve", "read", "draw", "acquire", "commit", "publish", "mark",
           "detach", "judge"},
     tree : Worktrees \cup {None}, res : Reservations \cup {None},
     kind : {"none", "session", "presented", "marker", "unidentified"},
     run : AllRuns \cup {None}, held : Reservations \cup {None},
     seen : Nat, ino : Inodes \cup {None}, verdict : BOOLEAN, removes : BOOLEAN,
     next : [Sessions -> Entries] \cup {None}, tries : Nat,
     left : SUBSET Worktrees, aside : AllRuns \cup {None, Malformed, Unreadable}]
(* The state stays within its types. *)
TypeOK ==
    /\ res \in [Reservations ->
          [stage : {"free", "active", "ended"}, run : AllRuns \cup {None},
           worktree : Worktrees \cup {None}, presented : BOOLEAN]]
    /\ generation \in Nat /\ faults \in Nat
    /\ mapping \in [Sessions -> Entries] /\ ino \in Inodes
    /\ marker \in [Worktrees -> AllRuns \cup {None, Malformed, Unreadable}]
    /\ stranded \subseteq Worktrees \X (AllRuns \cup {Malformed, Unreadable})
    /\ lock \in Processes \cup {None}
    /\ last \in [Worktrees -> AllRuns \cup {None}]
    /\ work \in [Processes -> WorkTypes]

(* Without a fault, whenever nobody holds the lock, a mapped session has an   *)
(* active reservation of the run it is mapped to: no publication prepared on  *)
(* an older mapping brings back an entry that a release retired.              *)
SessionsActive ==
    faults = 0 /\ lock = None =>
        \A s \in Sessions : mapping[s] # None =>
            /\ res[mapping[s].res].stage = "active"
            /\ res[mapping[s].res].run = mapping[s].run

(* The run last marked in a worktree, as long as it is active there, is its   *)
(* marker, or held aside by a process that is about to judge it, or by one    *)
(* that died: no sweep or release that raced the claim retires its marker.    *)
MarkerKept ==
    \A w \in Worktrees : last[w] # None =>
        \/ marker[w] = last[w] \/ <<w, last[w]>> \in stranded
        \/ \E p \in Processes :
              work[p].at = "judge" /\ Tree(p) = w /\ work[p].aside = last[w]

(* In a worktree where every claim presented its run, all active work is one  *)
(* run's, however claims and releases interleave (record.rs:258).             *)
PresentedAlone ==
    \A w \in Worktrees :
        \/ \E r \in Reservations :
              res[r].stage # "free" /\ res[r].worktree = w /\ ~ res[r].presented
        \/ \A q, r \in Reservations :
              /\ res[q].stage = "active" /\ res[q].worktree = w
              /\ res[r].stage = "active" /\ res[r].worktree = w
              => res[q].run = res[r].run

(* A session's entry is changed by its own commands, or removed because its   *)
(* reservation ended: nobody's publication takes back another session's.      *)
OthersKept ==
    [][\A s \in Sessions : mapping'[s] # mapping[s] =>
          \/ \E p \in Processes : SessionOf[p] = s /\ Publishing(p) /\ work'[p] # work[p]
          \/ mapping'[s] = None /\ res[mapping[s].res].stage = "ended"]_vars

(* Where somebody keeps looking at the board, no worktree is left for good    *)
(* with a marker that names no run, or none active in it, by which every      *)
(* later caller that nothing else identifies would be refused; unless a       *)
(* marker stays whose bytes cannot be read, which is put back and ends every  *)
(* sweep that meets it.                                                       *)
InPlaceOrAside(w) ==
    {marker[w]} \cup {work[p].aside : p \in {q \in Processes : work[q].at = "judge" /\ Tree(q) = w}}
Stale(w) ==
    \E m \in InPlaceOrAside(w) \ {None} : ~ (m \in AllRuns /\ ActiveHere(m, w))
SweepsFail == \E w \in Worktrees : Unreadable \in InPlaceOrAside(w)
StaleMarkersSwept ==
    <>[] SweepsFail \/ \A w \in Worktrees : []<> ~ Stale(w)
=============================================================================
