--------------------- MODULE CoordinationIdentityProofs ---------------------
(***************************************************************************)
(* Proofs about CoordinationIdentity, for any number of processes, sessions, *)
(* reservations, worktrees and faults.  That no publication takes back       *)
(* another session's entry, and what follows from it, rests on inodes that   *)
(* are not given out again while a process remembers them.                   *)
(***************************************************************************)
EXTENDS CoordinationIdentity, TLAPS

\* What a process may do to the files it does under the lock.
LockHeld ==
    \A p \in Processes :
        work[p].at \in {"commit", "publish", "detach", "judge"} => lock = p

\* Where each field is set, and the phases each command goes through.
WellFormed(c) ==
    /\ c.at = "idle" => c.op = "none"
    /\ c.at # "idle" => c.op # "none" /\ c.tree \in Worktrees
    /\ c.op \in {"claim", "select", "release"} => c.res \in Reservations
    /\ c.op \in {"claim", "select", "clear"} => c.left = {}
    /\ c.at \in {"resolve", "mark"} => c.op \in {"claim", "select"}
    /\ c.op \in {"claim", "select"} /\ c.at \notin {"idle", "resolve"} =>
          /\ c.run \in AllRuns
          /\ c.at # "mark" => c.kind # "none"
          /\ c.kind = "session" => c.held \in Reservations
    /\ c.at = "judge" => c.aside # None
    /\ c.at = "publish" => c.op \in {"claim", "release"} /\ c.left = {}
    /\ c.at \in {"detach", "judge"} /\ c.left = {} => c.op = "release"
    /\ c.op \in {"board", "drift"} => c.left # {}
Fields == \A p \in Processes : WellFormed(work[p])
\* The command and what it was given stay the same, and whom it acts for.
SameCommand(c, d) == d.op = c.op /\ d.tree = c.tree /\ d.res = c.res /\ d.left = c.left
SameCaller(c, d) == d.kind = c.kind /\ d.run = c.run /\ d.held = c.held

\* A reservation being claimed is nobody else's, and the others exist.
Claiming ==
    \A p \in Processes :
        /\ work[p].op = "claim" /\ work[p].at \notin {"publish", "mark"} =>
              /\ res[work[p].res].stage = "free"
              /\ \A q \in Processes \ {p} : work[q].res # work[p].res
        /\ work[p].op \in {"select", "release"} => res[work[p].res].stage # "free"

\* A judgement holds as long as the generation it was made on.
JudgedOf(p) ==
    LET c == work[p] IN
    /\ c.at \in {"draw", "acquire"} =>
          /\ c.seen <= generation
          /\ c.seen = generation =>
                (c.verdict => Admitted(p)) /\ (c.removes => Removes(p))
    /\ c.at = "draw" /\ lock = p => c.seen = generation
    /\ c.at = "commit" /\ c.op # "clear" =>
          (c.verdict => Admitted(p)) /\ (c.removes /\ c.left = {} => Removes(p))
Judged == \A p \in Processes : JudgedOf(p)

NoneActive(u) == \A r \in Reservations : res[r].stage = "active" => res[r].run # u

\* What is in the journal once a record is appended.
AppendedBy(p) ==
    LET c == work[p] IN
    /\ c.at = "publish" => c.verdict
    /\ c.at = "publish" /\ c.op = "claim" =>
          res[c.res].stage = "active" /\ res[c.res].run = c.run
    /\ c.at = "publish" /\ c.op = "release" =>
          /\ res[c.res].stage = "ended"
          /\ c.removes => NoneActive(res[c.res].run)
    /\ c.at \in {"detach", "judge"} /\ c.left = {} => NoneActive(res[c.res].run)
Appended == \A p \in Processes : AppendedBy(p)

\* The mapping a process drew up differs from the one it read in what is its own.
DrawnFrom(p) ==
    LET c == work[p] IN
    /\ c.op = "release" /\ ~ Sweeping(p) /\ c.verdict => c.next # None
    /\ c.next # None =>
          \A s \in Sessions :
              CASE c.op = "release" ->
                     /\ ~ Sweeping(p)
                     /\ IF mapping[s] # None /\ mapping[s].res = c.res
                        THEN c.next[s] = None ELSE c.next[s] = mapping[s]
                [] c.op # "release" /\ SessionOf[p] = s ->
                     \/ c.op = "clear" /\ c.next[s] = None
                     \/ /\ c.op \in {"claim", "select"}
                        /\ c.next[s] = [res |-> c.res, run |-> c.run]
                [] OTHER -> c.next[s] = mapping[s]
MappingDrawn ==
    \A p \in Processes :
        \/ work[p].at = "acquire" /\ work[p].ino = ino
        \/ work[p].at \in {"commit", "publish", "detach", "judge"}
        => DrawnFrom(p)

\* Only a release on its way to the mapping leaves an entry behind.
EntriesFollow ==
    faults = 0 =>
        \A s \in Sessions : mapping[s] # None =>
            \/ /\ res[mapping[s].res].stage = "active"
               /\ res[mapping[s].res].run = mapping[s].run
            \/ \E p \in Processes :
                  /\ work[p].at = "publish" /\ work[p].op = "release"
                  /\ work[p].res = mapping[s].res

\* What is known of the run that was marked last.
LastActive ==
    \A w \in Worktrees : last[w] # None =>
        /\ ActiveHere(last[w], w)
        /\ marker[w] # None => marker[w] = last[w]
        /\ \A p \in Processes :
              work[p].at = "judge" /\ Tree(p) = w /\ marker[w] = None =>
                  work[p].aside = last[w]

-----------------------------------------------------------------------------
(* Types. *)

LEMMA IdleTyped == Idle \in WorkTypes
  BY DEF Idle, WorkTypes

LEMMA IdleFields ==
  /\ Idle.at = "idle" /\ Idle.op = "none" /\ Idle.res = None /\ Idle.left = {}
  /\ Idle.verdict = FALSE
  BY DEF Idle

\* What is left of a command once it has published.
OnwardFrom(c, at) ==
    [Idle EXCEPT !.op = c.op, !.at = at, !.tree = c.tree, !.res = c.res, !.run = c.run]
LEMMA OnwardFields ==
  ASSUME NEW c \in WorkTypes, NEW at \in {"read", "mark", "detach"}
  PROVE  /\ OnwardFrom(c, at).op = c.op /\ OnwardFrom(c, at).at = at
         /\ OnwardFrom(c, at).tree = c.tree /\ OnwardFrom(c, at).res = c.res
         /\ OnwardFrom(c, at).run = c.run /\ OnwardFrom(c, at).left = {}
         /\ OnwardFrom(c, at).kind = "none" /\ OnwardFrom(c, at).verdict = FALSE
         /\ OnwardFrom(c, at).next = None
  BY DEF Idle, OnwardFrom

LEMMA Becomes ==
  ASSUME TypeOK, NEW p \in Processes, NEW c \in WorkTypes, Become(p, c)
  PROVE  /\ work' \in [Processes -> WorkTypes] /\ work'[p] = c
         /\ \A q \in Processes \ {p} : work'[q] = work[q]
  BY DEF Become, TypeOK

LEMMA Finishes ==
  ASSUME TypeOK, NEW p \in Processes, Finish(p)
  PROVE  /\ work' \in [Processes -> WorkTypes] /\ work'[p] = Idle
         /\ lock' \in Processes \cup {None}
         /\ \A q \in Processes \ {p} : work'[q] = work[q]
  BY Becomes, IdleTyped DEF Finish, TypeOK

LEMMA GoesOnward ==
  ASSUME TypeOK, NEW p \in Processes, NEW at \in {"mark", "detach", "read"}, Onward(p, at)
  PROVE  /\ work' \in [Processes -> WorkTypes]
         /\ work'[p] = OnwardFrom(work[p], at)
         /\ \A q \in Processes \ {p} : work'[q] = work[q]
<1> DEFINE c == [Idle EXCEPT !.op = work[p].op, !.at = at, !.tree = work[p].tree,
                             !.res = work[p].res, !.run = work[p].run]
<1>1. work[p] \in WorkTypes
  BY DEF TypeOK
<1>2. /\ work[p].op \in Verbs \cup {"none"} /\ work[p].tree \in Worktrees \cup {None}
      /\ work[p].res \in Reservations \cup {None} /\ work[p].run \in AllRuns \cup {None}
  BY <1>1 DEF WorkTypes
<1>3. c \in WorkTypes
  BY <1>2 DEF Idle, WorkTypes
<1> QED
  BY <1>3, Becomes DEF Onward, OnwardFrom

LEMMA Leaves ==
  ASSUME TypeOK, NEW p \in Processes, Leave(p) \/ Finish(p)
  PROVE  /\ work' \in [Processes -> WorkTypes] /\ lock' \in {lock, None}
         /\ \A q \in Processes \ {p} : work'[q] = work[q]
         /\ \/ /\ work[p].left \ {Tree(p)} # {} /\ lock' = lock
               /\ work'[p] = [work[p] EXCEPT !.at = "commit", !.left = @ \ {Tree(p)},
                                             !.aside = None]
            \/ /\ work[p].op = "release" /\ Sweeping(p) /\ lock' = None
               /\ work'[p] = OnwardFrom(work[p], "read")
            \/ work'[p] = Idle /\ lock' = IF lock = p THEN None ELSE lock
<1> DEFINE c == [work[p] EXCEPT !.at = "commit", !.left = @ \ {Tree(p)}, !.aside = None]
<1>1. work[p] \in WorkTypes
  BY DEF TypeOK
<1>2. c \in WorkTypes
  BY <1>1 DEF WorkTypes
<1>3. CASE Leave(p) /\ work[p].left \ {Tree(p)} # {}
  <2>1. Become(p, c) /\ lock' = lock
    BY <1>1, <1>3 DEF Leave, WorkTypes
  <2> HIDE DEF c
  <2>2. work' \in [Processes -> WorkTypes] /\ work'[p] = c
        /\ \A q \in Processes \ {p} : work'[q] = work[q]
    BY <1>2, <2>1, Becomes
  <2> QED
    BY <1>3, <2>1, <2>2 DEF c
<1>4. CASE Leave(p) /\ work[p].left \ {Tree(p)} = {} /\ work[p].op = "release" /\ Sweeping(p)
  <2>1. Onward(p, "read") /\ lock' = None
    BY <1>4 DEF Leave
  <2> QED
    BY <1>4, <2>1, GoesOnward
<1>5. CASE \/ Finish(p)
           \/ /\ Leave(p) /\ work[p].left \ {Tree(p)} = {}
              /\ ~ (work[p].op = "release" /\ Sweeping(p))
  <2>1. Finish(p)
    BY <1>5 DEF Leave
  <2> QED
    BY <2>1, Finishes DEF Finish
<1> QED
  BY <1>3, <1>4, <1>5

\* What a started command is.
LEMMA Begins ==
  ASSUME TypeOK, NEW p \in Processes, NEW op \in Verbs, NEW r \in Reservations,
         NEW given \in Runs \cup {None}, Begin(p, op, r, given)
  PROVE  /\ work[p].at = "idle" /\ work' \in [Processes -> WorkTypes]
         /\ \A q \in Processes \ {p} : work'[q] = work[q]
         /\ work'[p].op = op /\ work'[p].res = r /\ work'[p].tree \in Worktrees
         /\ work'[p].at \in {"resolve", "read"} /\ work'[p].left = {}
         /\ work'[p].at = "read" => work'[p].kind # "none" /\ work'[p].run \in AllRuns
         /\ work'[p].kind = "session" => work'[p].held \in Reservations
         /\ work'[p].kind \in {"none", "session", "presented"}
<1> DEFINE entry == IF SessionOf[p] = None THEN None ELSE mapping[SessionOf[p]]
           As(kind, u, held) == [kind |-> kind, run |-> u, held |-> held]
           caller ==
             CASE given # None -> As("presented", given, None)
               [] given = None /\ entry # None -> As("session", entry.run, entry.res)
               [] given = None /\ entry = None /\ EnvironmentOf[p] # None ->
                      As("presented", EnvironmentOf[p], None)
               [] OTHER -> As("none", None, None)
           at == IF caller.kind = "none" THEN "resolve" ELSE "read"
           c(w) == [Idle EXCEPT !.op = op, !.res = r, !.tree = w, !.at = at,
                                !.kind = caller.kind, !.run = caller.run,
                                !.held = caller.held]
<1>1. entry \in Entries
  BY IdentityAssumption DEF TypeOK, Entries
<1>2. /\ caller.kind \in {"none", "session", "presented"}
      /\ caller.run \in AllRuns \cup {None} /\ caller.held \in Reservations \cup {None}
      /\ caller.kind # "none" => caller.run \in AllRuns
      /\ caller.kind = "session" => caller.held \in Reservations
  BY <1>1, IdentityAssumption DEF Entries, AllRuns
<1>3. PICK w \in WorktreesOf[p] : Become(p, c(w))
  BY DEF Begin
<1>4. w \in Worktrees /\ at \in {"resolve", "read"} /\ (at = "read" => caller.kind # "none")
  BY IdentityAssumption
<1> HIDE DEF caller, at
<1>5. c(w) \in WorkTypes
  BY <1>2, <1>4 DEF Idle, WorkTypes
<1>6. /\ c(w).op = op /\ c(w).res = r /\ c(w).tree = w /\ c(w).at = at /\ c(w).left = {}
      /\ c(w).kind = caller.kind /\ c(w).run = caller.run /\ c(w).held = caller.held
  BY DEF Idle
<1>7. /\ work' \in [Processes -> WorkTypes] /\ work'[p] = c(w)
      /\ \A q \in Processes \ {p} : work'[q] = work[q]
  <2> HIDE DEF c
  <2> QED
    BY <1>3, <1>5, Becomes
<1>8. work[p].at = "idle"
  BY DEF Begin
<1> HIDE DEF c
<1> QED
  BY <1>2, <1>4, <1>6, <1>7, <1>8

LEMMA BeginsOther ==
  ASSUME TypeOK, NEW p \in Processes, NEW op \in Verbs, NEW r \in Reservations \cup {None},
         BeginOther(p, op, r)
  PROVE  /\ work[p].at = "idle" /\ work' \in [Processes -> WorkTypes]
         /\ \A q \in Processes \ {p} : work'[q] = work[q]
         /\ work'[p].op = op /\ work'[p].res = r /\ work'[p].tree \in Worktrees
         /\ work'[p].at = "read" /\ (op = "clear" => work'[p].left = {})
         /\ op \in {"board", "drift", "release"} => work'[p].left # {}
<1> DEFINE left(w) == IF op = "clear" THEN {} ELSE IF op = "drift" THEN {w} ELSE Worktrees
           c(w) == [Idle EXCEPT !.op = op, !.res = r, !.tree = w, !.at = "read",
                                !.left = left(w)]
<1>1. PICK w \in WorktreesOf[p] : Become(p, c(w))
  BY DEF BeginOther
<1>2. /\ w \in Worktrees /\ left(w) \in SUBSET Worktrees /\ (op = "clear" => left(w) = {})
      /\ op \in {"board", "drift", "release"} => left(w) # {}
  BY IdentityAssumption
<1> HIDE DEF left
<1>3. c(w) \in WorkTypes
  BY <1>2 DEF Idle, WorkTypes
<1>4. c(w).op = op /\ c(w).res = r /\ c(w).tree = w /\ c(w).at = "read" /\ c(w).left = left(w)
  BY DEF Idle
<1>5. /\ work' \in [Processes -> WorkTypes] /\ work'[p] = c(w)
      /\ \A q \in Processes \ {p} : work'[q] = work[q]
  <2> HIDE DEF c
  <2> QED
    BY <1>1, <1>3, Becomes
<1>6. work[p].at = "idle"
  BY DEF BeginOther
<1> HIDE DEF c
<1> QED
  BY <1>2, <1>4, <1>5, <1>6

LEMMA DrawnTyped ==
  ASSUME TypeOK, Fields, NEW p \in Processes, work[p].at = "draw"
  PROVE  Drawn(p) \in [Sessions -> Entries] \cup {None}
<1>1. mapping \in [Sessions -> Entries] /\ work[p] \in WorkTypes
  BY DEF TypeOK
<1>2. None \in Entries
  BY DEF Entries
<1>3. ASSUME NEW s \in Sessions, NEW e \in Entries
      PROVE  [mapping EXCEPT ![s] = e] \in [Sessions -> Entries]
  BY <1>1
<1>4. [t \in Sessions |-> IF mapping[t] # None /\ mapping[t].res = work[p].res
                          THEN None ELSE mapping[t]] \in [Sessions -> Entries]
  BY <1>1, <1>2
<1>5. work[p].op \in {"claim", "select"}
        => [res |-> work[p].res, run |-> work[p].run] \in Entries
  BY DEF Entries, Fields, WellFormed
<1> QED
  BY <1>2, <1>3, <1>4, <1>5, IdentityAssumption DEF Drawn

LEMMA Settles ==
  ASSUME NEW c \in WorkTypes
  PROVE  Settled(c) \in WorkTypes
  BY DEF Settled, WorkTypes

\* Where the steps of a command lead.
LEMMA ReadsMarker ==
  ASSUME TypeOK, Fields, NEW p \in Processes, ReadMarker(p)
  PROVE  /\ work' \in [Processes -> WorkTypes]
         /\ \A q \in Processes \ {p} : work'[q] = work[q]
         /\ SameCommand(work[p], work'[p]) /\ work'[p].at = "read"
         /\ work'[p].kind \in {"marker", "unidentified"} /\ work'[p].run \in AllRuns
         /\ \E kind \in {"marker", "unidentified"}, u \in AllRuns :
               work'[p] = [work[p] EXCEPT !.at = "read", !.kind = kind, !.run = u]
<1> DEFINE found == marker[work[p].tree]
           kind == IF found \in AllRuns THEN "marker" ELSE "unidentified"
           u == IF found \in AllRuns THEN found ELSE work[p].res
           c == [work[p] EXCEPT !.at = "read", !.kind = kind, !.run = u]
<1>1. work[p] \in WorkTypes /\ work[p].at = "resolve" /\ work[p].res \in Reservations
  BY DEF TypeOK, ReadMarker, Fields, WellFormed
<1>2. kind \in {"marker", "unidentified"} /\ u \in AllRuns
  BY <1>1 DEF AllRuns
<1>3. Become(p, c)
  BY DEF ReadMarker
<1> HIDE DEF kind, u
<1>4. c \in WorkTypes
  BY <1>1, <1>2 DEF WorkTypes
<1>5. work' \in [Processes -> WorkTypes] /\ work'[p] = c
      /\ \A q \in Processes \ {p} : work'[q] = work[q]
  <2> HIDE DEF c
  <2> QED
    BY <1>3, <1>4, Becomes
<1>6. /\ SameCommand(work[p], c) /\ c.at = "read" /\ c.kind = kind /\ c.run = u
  BY <1>1 DEF SameCommand, WorkTypes
<1> QED
  BY <1>2, <1>5, <1>6

LEMMA Reads ==
  ASSUME TypeOK, NEW p \in Processes, Read(p)
  PROVE  /\ work' \in [Processes -> WorkTypes]
         /\ \A q \in Processes \ {p} : work'[q] = work[q]
         /\ SameCommand(work[p], work'[p]) /\ SameCaller(work[p], work'[p])
         /\ work'[p].at = "draw"
         /\ work'[p] = [work[p] EXCEPT !.at = "draw", !.seen = generation, !.ino = ino,
                                       !.verdict = Admitted(p), !.removes = Removes(p)]
<1> DEFINE c == [work[p] EXCEPT !.at = "draw", !.seen = generation, !.ino = ino,
                                !.verdict = Admitted(p), !.removes = Removes(p)]
<1>1. work[p] \in WorkTypes /\ generation \in Nat /\ ino \in Inodes
  BY DEF TypeOK
<1>2. Admitted(p) \in BOOLEAN /\ Removes(p) \in BOOLEAN
  BY DEF Admitted, Valid, ActiveHere, Active, Incumbent, Removes
<1>3. c \in WorkTypes
  <2>1. [work[p] EXCEPT !.at = "draw", !.seen = generation, !.ino = ino] \in WorkTypes
    BY <1>1 DEF WorkTypes
  <2>2. ASSUME NEW w \in WorkTypes, NEW a \in BOOLEAN, NEW b \in BOOLEAN
        PROVE  [w EXCEPT !.verdict = a, !.removes = b] \in WorkTypes
    <3>1. \A v \in WorkTypes : [v EXCEPT !.verdict = a] \in WorkTypes
      BY DEF WorkTypes
    <3>2. \A v \in WorkTypes : [v EXCEPT !.removes = b] \in WorkTypes
      BY DEF WorkTypes
    <3>3. [w EXCEPT !.verdict = a, !.removes = b]
             = [[w EXCEPT !.verdict = a] EXCEPT !.removes = b]
      OBVIOUS
    <3> QED
      BY <3>1, <3>2, <3>3
  <2> QED
    BY <1>2, <2>1, <2>2
<1>4. Become(p, c)
  BY DEF Read
<1>6. SameCommand(work[p], c) /\ SameCaller(work[p], c) /\ c.at = "draw"
  BY <1>1 DEF SameCommand, SameCaller, WorkTypes
<1> HIDE DEF c
<1>5. work' \in [Processes -> WorkTypes] /\ work'[p] = c
      /\ \A q \in Processes \ {p} : work'[q] = work[q]
  BY <1>3, <1>4, Becomes
<1> QED
  BY <1>5, <1>6 DEF c

LEMMA Draws ==
  ASSUME TypeOK, Fields, NEW p \in Processes, Draw(p)
  PROVE  /\ work' \in [Processes -> WorkTypes]
         /\ \A q \in Processes \ {p} : work'[q] = work[q]
         /\ SameCommand(work[p], work'[p]) /\ SameCaller(work[p], work'[p])
         /\ work'[p].at = IF lock = p THEN "commit" ELSE "acquire"
         /\ work'[p] = IF lock = p
                       THEN [work[p] EXCEPT !.next = Drawn(p), !.at = "commit", !.seen = 0,
                                            !.ino = None, !.tries = 0]
                       ELSE [work[p] EXCEPT !.next = Drawn(p), !.at = "acquire"]
<1> DEFINE c == [work[p] EXCEPT !.next = Drawn(p), !.at = "acquire"]
           d == [work[p] EXCEPT !.next = Drawn(p), !.at = "commit", !.seen = 0,
                                !.ino = None, !.tries = 0]
<1>1. work[p] \in WorkTypes /\ Drawn(p) \in [Sessions -> Entries] \cup {None}
  BY DrawnTyped DEF TypeOK, Draw
<1>2. c \in WorkTypes
  BY <1>1 DEF WorkTypes
<1>3. d = Settled(c)
  BY <1>1 DEF Settled, WorkTypes
<1>4. d \in WorkTypes
  BY <1>2, <1>3, Settles
<1>5. Become(p, IF lock = p THEN d ELSE c)
  BY <1>3 DEF Draw
<1>7. /\ SameCommand(work[p], c) /\ SameCaller(work[p], c) /\ c.at = "acquire"
      /\ SameCommand(work[p], d) /\ SameCaller(work[p], d) /\ d.at = "commit"
  BY <1>1 DEF SameCommand, SameCaller, WorkTypes
<1> HIDE DEF c, d
<1>6. work' \in [Processes -> WorkTypes] /\ work'[p] = (IF lock = p THEN d ELSE c)
      /\ \A q \in Processes \ {p} : work'[q] = work[q]
  BY <1>2, <1>4, <1>5, Becomes
<1> QED
  BY <1>6, <1>7 DEF c, d

LEMMA Acquires ==
  ASSUME TypeOK, NEW p \in Processes, Acquire(p)
  PROVE  /\ work' \in [Processes -> WorkTypes] /\ lock' \in {p, None} /\ lock = None
         /\ \A q \in Processes \ {p} : work'[q] = work[q]
         /\ SameCommand(work[p], work'[p]) /\ SameCaller(work[p], work'[p])
         /\ work'[p].at \in {"commit", "read"}
         /\ \/ /\ StillCurrent(p) /\ lock' = p
               /\ work'[p] = [work[p] EXCEPT !.at = "commit", !.seen = 0, !.ino = None,
                                             !.tries = 0]
            \/ work'[p] = [work[p] EXCEPT !.at = "read", !.seen = 0, !.ino = None,
                                          !.verdict = FALSE, !.removes = FALSE,
                                          !.next = None, !.tries = @ + 1]
<1> DEFINE c == Settled(work[p])
           d == [work[p] EXCEPT !.at = "read", !.seen = 0, !.ino = None, !.verdict = FALSE,
                                !.removes = FALSE, !.next = None, !.tries = @ + 1]
<1>1. work[p] \in WorkTypes
  BY DEF TypeOK
<1>2. c \in WorkTypes /\ d \in WorkTypes
  <2>1. work[p].tries + 1 \in Nat
    BY <1>1 DEF WorkTypes
  <2>2. d \in WorkTypes
    BY <1>1, <2>1 DEF WorkTypes
  <2> QED
    BY <1>1, <2>2, Settles
<1>3. /\ lock = None /\ lock' \in {p, None}
      /\ \/ StillCurrent(p) /\ lock' = p /\ Become(p, c)
         \/ Become(p, d)
  BY DEF Acquire
<1>5. /\ SameCommand(work[p], c) /\ SameCaller(work[p], c) /\ c.at = "commit"
      /\ SameCommand(work[p], d) /\ SameCaller(work[p], d) /\ d.at = "read"
  BY <1>1 DEF Settled, SameCommand, SameCaller, WorkTypes
<1> HIDE DEF c, d
<1>4. work' \in [Processes -> WorkTypes] /\ (\A q \in Processes \ {p} : work'[q] = work[q])
      /\ ((StillCurrent(p) /\ lock' = p /\ work'[p] = c) \/ work'[p] = d)
  BY <1>2, <1>3, Becomes
<1> QED
  BY <1>3, <1>4, <1>5 DEF c, d, Settled

LEMMA Goes ==
  ASSUME TypeOK, NEW p \in Processes, NEW at \in {"publish", "detach"}, Goto(p, at)
  PROVE  /\ work' \in [Processes -> WorkTypes]
         /\ \A q \in Processes \ {p} : work'[q] = work[q]
         /\ SameCommand(work[p], work'[p]) /\ SameCaller(work[p], work'[p])
         /\ work'[p].at = at
         /\ work'[p] = [work[p] EXCEPT !.at = at]
<1> DEFINE c == [work[p] EXCEPT !.at = at]
<1>1. work[p] \in WorkTypes
  BY DEF TypeOK
<1>2. c \in WorkTypes
  BY <1>1 DEF WorkTypes
<1>3. Become(p, c)
  BY DEF Goto
<1>5. SameCommand(work[p], c) /\ SameCaller(work[p], c) /\ c.at = at
  BY <1>1 DEF SameCommand, SameCaller, WorkTypes
<1> HIDE DEF c
<1>4. work' \in [Processes -> WorkTypes] /\ work'[p] = c
      /\ \A q \in Processes \ {p} : work'[q] = work[q]
  BY <1>2, <1>3, Becomes
<1> QED
  BY <1>4, <1>5 DEF c

LEMMA Publishes ==
  ASSUME TypeOK, NEW p \in Processes, AfterPublication(p)
  PROVE  /\ work' \in [Processes -> WorkTypes] /\ lock' \in {lock, None}
         /\ \A q \in Processes \ {p} : work'[q] = work[q]
         /\ \/ /\ work[p].op \in {"claim", "select"}
               /\ work'[p] = OnwardFrom(work[p], "mark")
            \/ /\ work[p].op = "release" /\ work[p].removes /\ lock' = lock
               /\ work'[p] = OnwardFrom(work[p], "detach")
            \/ work'[p] = Idle /\ lock' = IF lock = p THEN None ELSE lock
<1>1. CASE work[p].op \in {"claim", "select"}
  <2>1. Onward(p, "mark") /\ lock' \in {lock, None}
    BY <1>1 DEF AfterPublication
  <2> QED
    BY <1>1, <2>1, GoesOnward
<1>2. CASE work[p].op = "release" /\ work[p].removes
  <2>1. Onward(p, "detach") /\ lock' = lock
    BY <1>2 DEF AfterPublication
  <2> QED
    BY <1>2, <2>1, GoesOnward
<1>3. CASE work[p].op \notin {"claim", "select"} /\ ~ (work[p].op = "release" /\ work[p].removes)
  <2>1. Finish(p)
    BY <1>3 DEF AfterPublication
  <2> QED
    BY <2>1, Finishes DEF Finish
<1> QED
  BY <1>1, <1>2, <1>3

LEMMA Detaches ==
  ASSUME TypeOK, Fields, NEW p \in Processes, Detach(p)
  PROVE  /\ work' \in [Processes -> WorkTypes] /\ lock' \in {lock, None}
         /\ \A q \in Processes \ {p} : work'[q] = work[q]
         /\ Tree(p) \in Worktrees
         /\ \/ /\ marker[Tree(p)] # None /\ lock' = lock
               /\ work'[p] = [work[p] EXCEPT !.at = "judge", !.aside = marker[Tree(p)]]
               /\ marker' = [marker EXCEPT ![Tree(p)] = None]
            \/ marker[Tree(p)] = None /\ Leave(p) /\ marker' = marker
<1> DEFINE c == [work[p] EXCEPT !.at = "judge", !.aside = marker[Tree(p)]]
<1>1. work[p] \in WorkTypes /\ work[p].tree \in Worktrees /\ work[p].left \subseteq Worktrees
  BY DEF TypeOK, Detach, Fields, WellFormed, WorkTypes
<1>2. Tree(p) \in Worktrees
  BY <1>1 DEF Tree, Sweeping
<1>3. marker[Tree(p)] \in AllRuns \cup {None, Malformed, Unreadable}
  BY <1>2 DEF TypeOK
<1>4. c \in WorkTypes
  BY <1>1, <1>3 DEF WorkTypes
<1>5. CASE marker[Tree(p)] # None
  <2>1. Become(p, c) /\ lock' = lock /\ marker' = [marker EXCEPT ![Tree(p)] = None]
    BY <1>5 DEF Detach
  <2> HIDE DEF c
  <2>2. work' \in [Processes -> WorkTypes] /\ work'[p] = c
        /\ \A q \in Processes \ {p} : work'[q] = work[q]
    BY <1>4, <2>1, Becomes
  <2> QED
    BY <1>2, <1>5, <2>1, <2>2 DEF c
<1>6. CASE marker[Tree(p)] = None
  <2>1. Leave(p) /\ marker' = marker
    BY <1>6 DEF Detach
  <2> QED
    BY <1>2, <1>6, <2>1, Leaves
<1> QED
  BY <1>5, <1>6

-----------------------------------------------------------------------------
LEMMA TypesKept ==
  ASSUME TypeOK, Fields, [Next]_vars
  PROVE  TypeOK'
<1>1. CASE UNCHANGED vars
  BY <1>1 DEF TypeOK, vars
<1>2. SUFFICES ASSUME NEW p \in Processes,
                      \/ Start(p) \/ Step(p) \/ Acquire(p)
                      \/ PublishFails(p) \/ MarkFails(p) \/ Kill(p)
               PROVE  TypeOK'
  BY <1>1 DEF Next
<1>3. ASSUME NEW r \in Reservations, NEW given \in ArgumentsOf[p] \cup {None},
             BeginClaim(p, r, given) PROVE TypeOK'
  <2>1. given \in Runs \cup {None} /\ "claim" \in Verbs /\ Begin(p, "claim", r, given)
    BY <1>3, IdentityAssumption DEF BeginClaim, Verbs
  <2>2. UNCHANGED <<res, generation, mapping, ino, marker, stranded, lock, last, faults>>
    BY <2>1 DEF Begin
  <2> QED
    BY <2>1, <2>2, Begins DEF TypeOK
<1>4. ASSUME NEW r \in Reservations, BeginSelect(p, r) PROVE TypeOK'
  <2>1. None \in Runs \cup {None} /\ "select" \in Verbs /\ Begin(p, "select", r, None)
    BY <1>4 DEF BeginSelect, Verbs
  <2>2. UNCHANGED <<res, generation, mapping, ino, marker, stranded, lock, last, faults>>
    BY <2>1 DEF Begin
  <2> QED
    BY <2>1, <2>2, Begins DEF TypeOK
<1>5. ASSUME NEW r \in Reservations \cup {None}, NEW op \in Verbs, BeginOther(p, op, r)
      PROVE  TypeOK'
  BY <1>5, BeginsOther DEF TypeOK, BeginOther
<1>6. CASE ReadMarker(p)
  BY <1>6, ReadsMarker DEF TypeOK, ReadMarker
<1>7. CASE Read(p)
  BY <1>7, Reads DEF TypeOK, Read
<1>8. CASE Draw(p)
  BY <1>8, Draws DEF TypeOK, Draw
<1>9. CASE Acquire(p)
  BY <1>9, Acquires DEF TypeOK, Acquire
<1>10. CASE Refuse(p)
  BY <1>10, Finishes DEF TypeOK, Refuse
<1>11. CASE Append(p)
  <2> DEFINE c == work[p]
             stored == IF c.op = "claim"
                       THEN [stage |-> "active", run |-> c.run, worktree |-> c.tree,
                             presented |-> c.kind # "unidentified"]
                       ELSE [res[c.res] EXCEPT !.stage = "ended"]
  <2>1. c \in WorkTypes /\ c.res \in Reservations /\ c.tree \in Worktrees \cup {None}
        /\ c.run \in AllRuns \cup {None}
    BY <1>11 DEF Append, Fields, WellFormed, TypeOK, WorkTypes
  <2>2. stored \in [stage : {"free", "active", "ended"}, run : AllRuns \cup {None},
                    worktree : Worktrees \cup {None}, presented : BOOLEAN]
    BY <2>1 DEF TypeOK
  <2>3. res' = [res EXCEPT ![c.res] = stored]
    BY <1>11 DEF Append
  <2> HIDE DEF stored
  <2>4. res' \in [Reservations -> [stage : {"free", "active", "ended"},
                                   run : AllRuns \cup {None},
                                   worktree : Worktrees \cup {None}, presented : BOOLEAN]]
    BY <2>1, <2>2, <2>3 DEF TypeOK
  <2>5. last' \in [Worktrees -> AllRuns \cup {None}] /\ generation' \in Nat
    BY <1>11 DEF Append, TypeOK
  <2>6. work' \in [Processes -> WorkTypes]
    BY <1>11, Goes DEF Append
  <2> QED
    BY <1>11, <2>4, <2>5, <2>6 DEF TypeOK, Append
<1>12. CASE Publish(p)
  <2>1. work' \in [Processes -> WorkTypes] /\ lock' \in {lock, None}
    BY <1>12, Publishes DEF Publish
  <2>2. mapping' \in [Sessions -> Entries] /\ ino' \in Inodes
    BY <1>12 DEF Publish, Allocated, TypeOK, WorkTypes
  <2> QED
    BY <1>12, <2>1, <2>2 DEF Publish, TypeOK
<1>13. CASE PublishFails(p)
  <2>1. work' \in [Processes -> WorkTypes] /\ lock' \in {lock, None}
    BY <1>13, Publishes DEF PublishFails
  <2>2. faults' \in Nat
    BY <1>13 DEF PublishFails, TypeOK
  <2> QED
    BY <1>13, <2>1, <2>2 DEF TypeOK, PublishFails
<1>14. CASE Mark(p)
  <2>1. work[p].run \in AllRuns /\ work[p].tree \in Worktrees
    BY <1>14 DEF Mark, Fields, WellFormed
  <2>2. marker' \in [Worktrees -> AllRuns \cup {None, Malformed, Unreadable}]
        /\ last' \in [Worktrees -> AllRuns \cup {None}]
    BY <1>14, <2>1 DEF Mark, TypeOK
  <2> QED
    BY <1>14, <2>2, Finishes DEF Mark, TypeOK
<1>15. CASE MarkFails(p)
  BY <1>15, Finishes DEF TypeOK, MarkFails
<1>16. CASE LookAtMarker(p)
  BY <1>16, Leaves, Goes DEF TypeOK, LookAtMarker
<1>17. CASE Detach(p)
  <2>1. marker' \in [Worktrees -> AllRuns \cup {None, Malformed, Unreadable}]
    BY <1>17, Detaches DEF TypeOK
  <2> QED
    BY <1>17, <2>1, Detaches DEF TypeOK, Detach
<1>18. CASE Judge(p)
  <2>1. work[p].aside \in AllRuns \cup {None, Malformed, Unreadable}
    BY DEF TypeOK, WorkTypes
  <2>2. marker' \in [Worktrees -> AllRuns \cup {None, Malformed, Unreadable}]
    BY <1>18, <2>1 DEF TypeOK, Judge
  <2> QED
    BY <1>18, <2>2, Leaves DEF TypeOK, Judge
<1>19. CASE Kill(p)
  <2>1. stranded' \subseteq Worktrees \X (AllRuns \cup {Malformed, Unreadable})
    <3>1. CASE work[p].at = "judge"
      <4>1. /\ work[p].aside \in AllRuns \cup {Malformed, Unreadable} /\ work[p].tree \in Worktrees
            /\ work[p].left \subseteq Worktrees
        BY <3>1 DEF Fields, WellFormed, TypeOK, WorkTypes
      <4>2. Tree(p) \in Worktrees
        BY <4>1 DEF Tree, Sweeping
      <4> QED
        BY <1>19, <3>1, <4>1, <4>2 DEF Kill, TypeOK
    <3> QED
      BY <1>19, <3>1 DEF Kill, TypeOK
  <2> QED
    BY <1>19, <2>1, Finishes DEF TypeOK, Kill
<1> QED
  BY <1>2, <1>3, <1>4, <1>5, <1>6, <1>7, <1>8, <1>9, <1>10, <1>11, <1>12, <1>13, <1>14,
     <1>15, <1>16, <1>17, <1>18, <1>19
     DEF Start, Step, BeginRelease, BeginBoard, BeginDrift, BeginClear, Verbs

LEMMA FieldsKept ==
  ASSUME TypeOK, Fields, [Next]_vars
  PROVE  Fields'
<1>1. CASE UNCHANGED vars
  BY <1>1 DEF Fields, vars
<1>2. SUFFICES ASSUME NEW p \in Processes,
                      \/ Start(p) \/ Step(p) \/ Acquire(p)
                      \/ PublishFails(p) \/ MarkFails(p) \/ Kill(p)
               PROVE  Fields'
  BY <1>1 DEF Next
<1> DEFINE Others == \A q \in Processes \ {p} : work'[q] = work[q]
<1>3. work[p] \in WorkTypes /\ WellFormed(work[p])
  BY DEF TypeOK, Fields
<1>4. ASSUME Others, WellFormed(work'[p]) PROVE Fields'
  BY <1>4 DEF Fields
<1>5. WellFormed(Idle)
  BY DEF WellFormed, Idle
<1>6. ASSUME Finish(p) PROVE Fields'
  BY <1>4, <1>5, <1>6, Finishes
<1>7. ASSUME Leave(p) \/ Finish(p), work[p].at \in {"commit", "detach", "judge"} PROVE Fields'
  <2>1. WellFormed(work'[p])
    <3>1. CASE /\ work[p].left \ {Tree(p)} # {}
               /\ work'[p] = [work[p] EXCEPT !.at = "commit", !.left = @ \ {Tree(p)},
                                             !.aside = None]
      <4>1. /\ work'[p].op = work[p].op /\ work'[p].tree = work[p].tree
            /\ work'[p].res = work[p].res /\ work'[p].left # {} /\ work[p].left # {}
            /\ SameCaller(work[p], work'[p]) /\ work'[p].at = "commit"
        BY <1>3, <3>1 DEF WorkTypes, SameCaller
      <4> QED
        BY <1>3, <1>7, <4>1 DEF WellFormed, SameCaller
    <3>2. CASE /\ work[p].op = "release"
               /\ work'[p] = OnwardFrom(work[p], "read")
      <4>1. /\ work'[p].op = "release" /\ work'[p].tree = work[p].tree
            /\ work'[p].res = work[p].res /\ work'[p].at = "read"
        BY <1>3, <3>2, OnwardFields
      <4> QED
        BY <1>3, <1>7, <3>2, <4>1 DEF WellFormed
    <3> QED
      BY <1>5, <1>7, <3>1, <3>2, Leaves
  <2> QED
    BY <1>4, <1>7, <2>1, Leaves
<1>8. ASSUME AfterPublication(p), Publishing(p) PROVE Fields'
  <2>1. WellFormed(work'[p])
    <3>1. CASE /\ work[p].op \in {"claim", "select"}
               /\ work'[p] = OnwardFrom(work[p], "mark")
      <4>1. /\ work'[p].op = work[p].op /\ work'[p].tree = work[p].tree
            /\ work'[p].res = work[p].res /\ work'[p].left = {} /\ work'[p].at = "mark"
            /\ work'[p].run = work[p].run /\ work'[p].kind = "none"
        <5> DEFINE d == OnwardFrom(work[p], "mark")
        <5>1. /\ d.op = work[p].op /\ d.tree = work[p].tree /\ d.res = work[p].res
              /\ d.left = {} /\ d.at = "mark" /\ d.run = work[p].run /\ d.kind = "none"
          BY <1>3, OnwardFields
        <5> HIDE DEF d
        <5>2. work'[p] = d
          BY <3>1 DEF d
        <5> QED
          BY <5>1, <5>2
      <4> QED
        BY <1>3, <1>8, <3>1, <4>1 DEF WellFormed, Publishing
    <3>2. CASE /\ work[p].op = "release"
               /\ work'[p] = OnwardFrom(work[p], "detach")
      <4>1. /\ work'[p].op = "release" /\ work'[p].tree = work[p].tree
            /\ work'[p].res = work[p].res /\ work'[p].at = "detach"
        BY <1>3, <3>2, OnwardFields
      <4> QED
        BY <1>3, <1>8, <3>2, <4>1 DEF WellFormed, Publishing
    <3> QED
      BY <1>5, <1>8, <3>1, <3>2, Publishes
  <2> QED
    BY <1>4, <1>8, <2>1, Publishes
<1>9. ASSUME NEW r \in Reservations, NEW given \in ArgumentsOf[p] \cup {None},
             BeginClaim(p, r, given) PROVE Fields'
  <2>1. given \in Runs \cup {None} /\ "claim" \in Verbs /\ Begin(p, "claim", r, given)
    BY <1>9, IdentityAssumption DEF BeginClaim, Verbs
  <2>2. WellFormed(work'[p])
    BY <2>1, Begins DEF WellFormed
  <2> QED
    BY <1>4, <2>1, <2>2, Begins
<1>10. ASSUME NEW r \in Reservations, BeginSelect(p, r) PROVE Fields'
  <2>1. None \in Runs \cup {None} /\ "select" \in Verbs /\ Begin(p, "select", r, None)
    BY <1>10 DEF BeginSelect, Verbs
  <2>2. WellFormed(work'[p])
    BY <2>1, Begins DEF WellFormed
  <2> QED
    BY <1>4, <2>1, <2>2, Begins
<1>11. ASSUME NEW r \in Reservations \cup {None}, NEW op \in Verbs \ {"claim", "select"},
              BeginOther(p, op, r), op = "release" => r \in Reservations
       PROVE  Fields'
  <2>1. WellFormed(work'[p])
    BY <1>11, BeginsOther DEF WellFormed, Verbs
  <2> QED
    BY <1>4, <1>11, <2>1, BeginsOther
<1>12. CASE ReadMarker(p)
  <2>1. WellFormed(work'[p])
    <3>1. /\ SameCommand(work[p], work'[p]) /\ work'[p].at = "read"
          /\ work'[p].kind \in {"marker", "unidentified"} /\ work'[p].run \in AllRuns
      BY <1>12, ReadsMarker
    <3> QED
      BY <1>3, <1>12, <3>1 DEF WellFormed, SameCommand, ReadMarker
  <2> QED
    BY <1>4, <1>12, <2>1, ReadsMarker
<1>13. CASE Read(p)
  <2>1. WellFormed(work'[p])
    <3>1. /\ SameCommand(work[p], work'[p]) /\ SameCaller(work[p], work'[p])
          /\ work'[p].at = "draw"
      BY <1>13, Reads
    <3> QED
      BY <1>3, <1>13, <3>1 DEF WellFormed, SameCommand, SameCaller, Read
  <2> QED
    BY <1>4, <1>13, <2>1, Reads
<1>14. CASE Draw(p)
  <2>1. WellFormed(work'[p])
    <3>1. /\ SameCommand(work[p], work'[p]) /\ SameCaller(work[p], work'[p])
          /\ work'[p].at \in {"commit", "acquire"}
      BY <1>14, Draws
    <3> QED
      BY <1>3, <1>14, <3>1 DEF WellFormed, SameCommand, SameCaller, Draw
  <2> QED
    BY <1>4, <1>14, <2>1, Draws
<1>15. CASE Acquire(p)
  <2>1. WellFormed(work'[p])
    <3>1. /\ SameCommand(work[p], work'[p]) /\ SameCaller(work[p], work'[p])
          /\ work'[p].at \in {"commit", "read"}
      BY <1>15, Acquires
    <3> QED
      BY <1>3, <1>15, <3>1 DEF WellFormed, SameCommand, SameCaller, Acquire
  <2> QED
    BY <1>4, <1>15, <2>1, Acquires
<1>16. CASE Append(p)
  <2>1. WellFormed(work'[p])
    <3>1. /\ SameCommand(work[p], work'[p]) /\ SameCaller(work[p], work'[p])
          /\ work'[p].at = "publish"
      BY <1>16, Goes DEF Append
    <3> QED
      BY <1>3, <1>16, <3>1 DEF WellFormed, SameCommand, SameCaller, Append, Sweeping
  <2> QED
    BY <1>4, <1>16, <2>1, Goes DEF Append
<1>17. CASE LookAtMarker(p)
  <2>1. CASE Leave(p)
    BY <1>7, <1>17, <2>1 DEF LookAtMarker
  <2>2. CASE Goto(p, "detach")
    <3>1. WellFormed(work'[p])
      <4>1. /\ SameCommand(work[p], work'[p]) /\ SameCaller(work[p], work'[p])
            /\ work'[p].at = "detach"
        BY <2>2, Goes
      <4> QED
        BY <1>3, <1>17, <4>1 DEF WellFormed, SameCommand, SameCaller, LookAtMarker, Sweeping
    <3> QED
      BY <1>4, <2>2, <3>1, Goes
  <2> QED
    BY <1>17, <2>1, <2>2 DEF LookAtMarker
<1>18. CASE Detach(p)
  <2>1. CASE Leave(p)
    BY <1>7, <1>18, <2>1 DEF Detach
  <2>2. CASE marker[Tree(p)] # None
    <3>1. work'[p] = [work[p] EXCEPT !.at = "judge", !.aside = marker[Tree(p)]] /\ Others
      BY <1>18, <2>2, Detaches
    <3>2. WellFormed(work'[p])
      BY <1>3, <1>18, <2>2, <3>1 DEF WellFormed, WorkTypes, Detach
    <3> QED
      BY <1>4, <3>1, <3>2
  <2> QED
    BY <1>18, <2>1, <2>2, Detaches
<1>19. CASE Judge(p)
  BY <1>7, <1>19 DEF Judge
<1>20. CASE Publish(p) \/ PublishFails(p)
  BY <1>8, <1>20 DEF Publish, PublishFails
<1>21. CASE Refuse(p) \/ Mark(p) \/ MarkFails(p) \/ Kill(p)
  BY <1>6, <1>21 DEF Refuse, Mark, MarkFails, Kill
<1>22. CASE Start(p)
  <2>1. ASSUME NEW r \in Reservations, BeginRelease(p, r) PROVE Fields'
    BY <1>11, <2>1 DEF BeginRelease, Verbs
  <2>2. ASSUME BeginClear(p) \/ BeginBoard(p) \/ BeginDrift(p) PROVE Fields'
    <3>1. PICK op \in {"clear", "board", "drift"} : BeginOther(p, op, None)
      BY <2>2 DEF BeginClear, BeginBoard, BeginDrift
    <3>2. op \in Verbs \ {"claim", "select"} /\ None \in Reservations \cup {None}
      BY DEF Verbs
    <3> QED
      BY <1>11, <3>1, <3>2
  <2> QED
    BY <1>9, <1>10, <1>22, <2>1, <2>2 DEF Start
<1> QED
  BY <1>2, <1>12, <1>13, <1>14, <1>15, <1>16, <1>17, <1>18, <1>19, <1>20, <1>21, <1>22
     DEF Step

(* Every variable keeps its type, and a command in a phase that its operation  *)
(* goes through (the commands of src/crates/cargo-berth/src/verb).             *)
THEOREM TypeCorrect == Spec => []TypeOK
<1>1. ASSUME Init PROVE TypeOK /\ Fields
  <2>1. TypeOK
    BY <1>1, IdleTyped, IdentityAssumption DEF Init, TypeOK, Free, Entries, AllRuns
  <2>2. Fields
    BY <1>1 DEF Init, Fields, WellFormed, Idle
  <2> QED
    BY <2>1, <2>2
<1>2. ASSUME TypeOK, Fields, [Next]_vars PROVE TypeOK' /\ Fields'
  BY <1>2, TypesKept, FieldsKept
<1> QED
  BY <1>1, <1>2, PTL DEF Spec

-----------------------------------------------------------------------------
(* The lock, and what is judged before it is held. *)

LEMMA LockHeldKept ==
  ASSUME TypeOK, Fields, LockHeld, [Next]_vars
  PROVE  LockHeld'
<1>1. CASE UNCHANGED vars
  BY <1>1 DEF LockHeld, vars
<1>2. SUFFICES ASSUME NEW p \in Processes,
                      \/ Start(p) \/ Step(p) \/ Acquire(p)
                      \/ PublishFails(p) \/ MarkFails(p) \/ Kill(p)
               PROVE  LockHeld'
  BY <1>1 DEF Next
<1> DEFINE Others == \A q \in Processes \ {p} : work'[q] = work[q]
           Under == {"commit", "publish", "detach", "judge"}
<1>3. None \notin Processes /\ work[p] \in WorkTypes
  BY IdentityAssumption DEF TypeOK
<1>4. ASSUME Finish(p) PROVE LockHeld'
  <2>1. work'[p].at = "idle" /\ Others /\ lock' = IF lock = p THEN None ELSE lock
    BY <1>4, Finishes, IdleFields DEF Finish
  <2> QED
    BY <2>1 DEF LockHeld
<1>5. ASSUME Others, work'[p].at \notin Under, lock' = lock PROVE LockHeld'
  BY <1>5 DEF LockHeld
<1>6. ASSUME Others, lock = p, lock' = p PROVE LockHeld'
  BY <1>6 DEF LockHeld
<1>7. ASSUME Others, work'[p].at \notin Under, lock = p PROVE LockHeld'
  BY <1>7 DEF LockHeld
<1>8. ASSUME Leave(p) \/ Finish(p), lock = p PROVE LockHeld'
  <2>1. /\ Others
        /\ lock' = p \/ work'[p].at = "read" \/ work'[p].at = "idle"
    BY <1>3, <1>8, Leaves, IdleFields, OnwardFields
  <2> QED
    BY <1>6, <1>7, <1>8, <2>1
<1>9. ASSUME AfterPublication(p), lock = p PROVE LockHeld'
  <2>1. /\ Others
        /\ lock' = p \/ work'[p].at = "mark" \/ work'[p].at = "idle"
    BY <1>3, <1>9, Publishes, IdleFields, OnwardFields
  <2> QED
    BY <1>6, <1>7, <1>9, <2>1
<1>10. CASE Start(p)
  <2>1. ASSUME NEW r \in Reservations, NEW given \in ArgumentsOf[p] \cup {None},
               BeginClaim(p, r, given) \/ BeginSelect(p, r)
        PROVE  Others /\ work'[p].at \notin Under /\ lock' = lock
    <3>1. PICK op \in Verbs, u \in Runs \cup {None} : Begin(p, op, r, u)
      BY <2>1, IdentityAssumption DEF BeginClaim, BeginSelect, Verbs
    <3>2. lock' = lock
      BY <3>1 DEF Begin
    <3> QED
      BY <3>1, <3>2, Begins
  <2>2. ASSUME NEW r \in Reservations \cup {None}, NEW op \in Verbs, BeginOther(p, op, r)
        PROVE  Others /\ work'[p].at \notin Under /\ lock' = lock
    BY <2>2, BeginsOther DEF BeginOther
  <2>3. ASSUME BeginClear(p) \/ BeginBoard(p) \/ BeginDrift(p)
        PROVE  Others /\ work'[p].at \notin Under /\ lock' = lock
    <3>1. PICK op \in Verbs : BeginOther(p, op, None)
      BY <2>3 DEF BeginClear, BeginBoard, BeginDrift, Verbs
    <3> QED
      BY <2>2, <3>1
  <2>4. ASSUME NEW r \in Reservations, BeginRelease(p, r)
        PROVE  Others /\ work'[p].at \notin Under /\ lock' = lock
    BY <2>2, <2>4 DEF BeginRelease, Verbs
  <2> QED
    BY <1>5, <1>10, <2>1, <2>3, <2>4 DEF Start
<1>11. CASE ReadMarker(p)
  BY <1>5, <1>11, ReadsMarker DEF ReadMarker
<1>12. CASE Read(p)
  BY <1>5, <1>12, Reads DEF Read
<1>13. CASE Draw(p)
  BY <1>5, <1>6, <1>13, Draws DEF Draw
<1>14. CASE Acquire(p)
  <2>1. /\ Others /\ lock = None
        /\ (work'[p].at = "commit" /\ lock' = p) \/ work'[p].at = "read"
    <3>1. /\ Others /\ lock = None
          /\ \/ /\ lock' = p
                /\ work'[p] = [work[p] EXCEPT !.at = "commit", !.seen = 0, !.ino = None,
                                              !.tries = 0]
             \/ work'[p] = [work[p] EXCEPT !.at = "read", !.seen = 0, !.ino = None,
                                           !.verdict = FALSE, !.removes = FALSE,
                                           !.next = None, !.tries = @ + 1]
      BY <1>14, Acquires
    <3> QED
      BY <1>3, <3>1 DEF WorkTypes
  <2> QED
    BY <1>3, <2>1 DEF LockHeld
<1>15. CASE Append(p)
  BY <1>6, <1>15, Goes DEF Append, LockHeld
<1>16. CASE Publish(p) \/ PublishFails(p)
  BY <1>9, <1>16 DEF Publish, PublishFails, Publishing, LockHeld
<1>17. CASE LookAtMarker(p)
  <2>1. lock = p
    BY <1>17 DEF LookAtMarker, LockHeld
  <2> QED
    BY <1>6, <1>8, <1>17, <2>1, Goes DEF LookAtMarker
<1>18. CASE Detach(p)
  <2>1. lock = p
    BY <1>18 DEF Detach, LockHeld
  <2> QED
    BY <1>6, <1>8, <1>18, <2>1, Detaches
<1>19. CASE Judge(p)
  BY <1>8, <1>19 DEF Judge, LockHeld
<1>20. CASE Refuse(p) \/ Mark(p) \/ MarkFails(p) \/ Kill(p)
  BY <1>4, <1>20 DEF Refuse, Mark, MarkFails, Kill
<1> QED
  BY <1>2, <1>10, <1>11, <1>12, <1>13, <1>14, <1>15, <1>16, <1>17, <1>18, <1>19, <1>20
     DEF Step

\* Only an append changes what the journal says.
LEMMA RecordsKept ==
  ASSUME [Next]_vars, ~ \E p \in Processes : Append(p)
  PROVE  res' = res /\ generation' = generation
<1>1. CASE UNCHANGED vars
  BY <1>1 DEF vars
<1>2. ASSUME NEW p \in Processes, Start(p) PROVE res' = res /\ generation' = generation
  BY <1>2 DEF Start, BeginClaim, BeginSelect, Begin, BeginRelease, BeginBoard, BeginDrift,
              BeginClear, BeginOther
<1>3. ASSUME NEW p \in Processes, Step(p), ~ Append(p)
      PROVE  res' = res /\ generation' = generation
  BY <1>3 DEF Step, ReadMarker, Read, Draw, Refuse, Publish, Mark, LookAtMarker, Detach, Judge
<1>4. ASSUME NEW p \in Processes,
             Acquire(p) \/ PublishFails(p) \/ MarkFails(p) \/ Kill(p)
      PROVE  res' = res /\ generation' = generation
  BY <1>4 DEF Acquire, PublishFails, MarkFails, Kill
<1> QED
  BY <1>1, <1>2, <1>3, <1>4 DEF Next

\* A command goes on with what it was given, or ends.
LEMMA Proceeds ==
  ASSUME TypeOK, Fields, NEW p \in Processes,
         Step(p) \/ Acquire(p) \/ PublishFails(p) \/ MarkFails(p) \/ Kill(p)
  PROVE  /\ \A q \in Processes \ {p} : work'[q] = work[q]
         /\ \/ work'[p] = Idle
            \/ /\ work'[p].op = work[p].op /\ work'[p].res = work[p].res
               /\ work'[p].op = "claim" /\ work[p].at \in {"publish", "mark"} =>
                     work'[p].at \in {"publish", "mark"}
<1> DEFINE Others == \A q \in Processes \ {p} : work'[q] = work[q]
           On == /\ work'[p].op = work[p].op /\ work'[p].res = work[p].res
                 /\ work'[p].op = "claim" /\ work[p].at \in {"publish", "mark"} =>
                       work'[p].at \in {"publish", "mark"}
<1>1. work[p] \in WorkTypes /\ WellFormed(work[p])
  BY DEF TypeOK, Fields
<1>2. ASSUME SameCommand(work[p], work'[p]), work[p].at \notin {"publish", "mark"} PROVE On
  BY <1>2 DEF SameCommand
<1>3. ASSUME Leave(p) \/ Finish(p), work[p].at \in {"commit", "detach", "judge"}
      PROVE  Others /\ (work'[p] = Idle \/ On)
  <2>1. OnwardFrom(work[p], "read").op = work[p].op
        /\ OnwardFrom(work[p], "read").res = work[p].res
        /\ OnwardFrom(work[p], "read").at = "read"
    BY <1>1, OnwardFields
  <2> DEFINE c == [work[p] EXCEPT !.at = "commit", !.left = @ \ {Tree(p)}, !.aside = None]
  <2>2. c.op = work[p].op /\ c.res = work[p].res
    BY <1>1 DEF WorkTypes
  <2> HIDE DEF c
  <2>3. Others /\ work'[p] \in {c, OnwardFrom(work[p], "read"), Idle}
    BY <1>3, Leaves DEF c
  <2> QED
    BY <1>3, <2>1, <2>2, <2>3
<1>4. ASSUME AfterPublication(p), Publishing(p) PROVE Others /\ (work'[p] = Idle \/ On)
  <2>1. /\ OnwardFrom(work[p], "mark").op = work[p].op
        /\ OnwardFrom(work[p], "mark").res = work[p].res
        /\ OnwardFrom(work[p], "mark").at = "mark"
        /\ OnwardFrom(work[p], "detach").op = work[p].op
        /\ OnwardFrom(work[p], "detach").res = work[p].res
    BY <1>1, OnwardFields
  <2>2. /\ Others
        /\ \/ work'[p] = OnwardFrom(work[p], "mark")
           \/ work'[p] = OnwardFrom(work[p], "detach") /\ work[p].op = "release"
           \/ work'[p] = Idle
    BY <1>4, Publishes
  <2> QED
    BY <2>1, <2>2
<1>5. CASE ReadMarker(p)
  BY <1>2, <1>5, ReadsMarker DEF ReadMarker
<1>6. CASE Read(p)
  BY <1>2, <1>6, Reads DEF Read
<1>7. CASE Draw(p)
  BY <1>2, <1>7, Draws DEF Draw
<1>8. CASE Acquire(p)
  BY <1>2, <1>8, Acquires DEF Acquire
<1>9. CASE Append(p)
  BY <1>2, <1>9, Goes DEF Append
<1>10. CASE Publish(p) \/ PublishFails(p)
  BY <1>4, <1>10 DEF Publish, PublishFails
<1>11. CASE LookAtMarker(p)
  BY <1>2, <1>3, <1>11, Goes DEF LookAtMarker
<1>12. CASE Detach(p)
  <2>1. CASE Leave(p)
    BY <1>3, <1>12, <2>1 DEF Detach
  <2>2. CASE marker[Tree(p)] # None
    <3>1. /\ \A q \in Processes \ {p} : work'[q] = work[q]
          /\ work'[p] = [work[p] EXCEPT !.at = "judge", !.aside = marker[Tree(p)]]
      BY <1>12, <2>2, Detaches
    <3>2. work[p].at = "detach"
      BY <1>12 DEF Detach
    <3>3. work'[p].at = "judge" /\ work'[p].op = work[p].op /\ work'[p].res = work[p].res
      BY <1>1, <3>1 DEF WorkTypes
    <3> QED
      BY <3>1, <3>2, <3>3
  <2> QED
    BY <1>12, <2>1, <2>2, Detaches
<1>13. CASE Judge(p)
  BY <1>3, <1>13 DEF Judge
<1>14. CASE Refuse(p) \/ Mark(p) \/ MarkFails(p) \/ Kill(p)
  BY <1>14, Finishes DEF Refuse, Mark, MarkFails, Kill
<1> QED
  BY <1>5, <1>6, <1>7, <1>8, <1>9, <1>10, <1>11, <1>12, <1>13, <1>14 DEF Step

\* A command starts on a reservation that nobody is claiming, or on none.
LEMMA Starts ==
  ASSUME TypeOK, NEW p \in Processes, Start(p)
  PROVE  /\ \A q \in Processes \ {p} : work'[q] = work[q]
         /\ res' = res /\ generation' = generation /\ lock' = lock
         /\ work[p].at = "idle" /\ work'[p].at \in {"resolve", "read"}
         /\ \/ /\ work'[p].op = "claim" /\ work'[p].res \in Reservations
               /\ res[work'[p].res].stage = "free"
               /\ \A q \in Processes : work[q].res # work'[p].res
            \/ /\ work'[p].op \in {"select", "release"} /\ work'[p].res \in Reservations
               /\ res[work'[p].res].stage # "free"
            \/ work'[p].op \in {"clear", "board", "drift"} /\ work'[p].res = None
<1>1. ASSUME NEW r \in Reservations, NEW given \in ArgumentsOf[p] \cup {None},
             BeginClaim(p, r, given)
      PROVE  /\ Begin(p, "claim", r, given) /\ given \in Runs \cup {None}
             /\ res[r].stage = "free" /\ \A q \in Processes : work[q].res # r
  BY <1>1, IdentityAssumption DEF BeginClaim
<1>2. ASSUME NEW op \in Verbs, NEW r \in Reservations, NEW given \in Runs \cup {None},
             Begin(p, op, r, given)
      PROVE  res' = res /\ generation' = generation /\ lock' = lock
  BY <1>2 DEF Begin
<1>3. ASSUME NEW op \in Verbs, NEW r \in Reservations \cup {None}, BeginOther(p, op, r)
      PROVE  res' = res /\ generation' = generation /\ lock' = lock
  BY <1>3 DEF BeginOther
<1>4. ASSUME NEW r \in Reservations, BeginSelect(p, r)
      PROVE  Begin(p, "select", r, None) /\ res[r].stage # "free"
  BY <1>4 DEF BeginSelect
<1>5. ASSUME NEW r \in Reservations, BeginRelease(p, r)
      PROVE  BeginOther(p, "release", r) /\ res[r].stage # "free"
  BY <1>5 DEF BeginRelease
<1>6. CASE \E r \in Reservations, given \in ArgumentsOf[p] \cup {None} : BeginClaim(p, r, given)
  BY <1>1, <1>2, <1>6, Begins DEF Verbs
<1>7. CASE \E r \in Reservations : BeginSelect(p, r)
  BY <1>2, <1>4, <1>7, Begins DEF Verbs
<1>8. CASE \E r \in Reservations : BeginRelease(p, r)
  BY <1>3, <1>5, <1>8, BeginsOther DEF Verbs
<1>9. CASE BeginClear(p) \/ BeginBoard(p) \/ BeginDrift(p)
  <2>1. PICK op \in {"clear", "board", "drift"} : BeginOther(p, op, None)
    BY <1>9 DEF BeginClear, BeginBoard, BeginDrift
  <2> QED
    BY <1>3, <2>1, BeginsOther DEF Verbs
<1> QED
  BY <1>6, <1>7, <1>8, <1>9 DEF Start

\* What an append changes.
LEMMA Appends ==
  ASSUME TypeOK, Fields, LockHeld, NEW p \in Processes, Append(p)
  PROVE  /\ lock = p /\ work[p].at = "commit" /\ work'[p].at = "publish"
         /\ work[p].verdict /\ work[p].op \in {"claim", "release"} /\ work[p].left = {}
         /\ work[p].res \in Reservations /\ work[p].tree \in Worktrees
         /\ generation' = generation + 1
         /\ \A r \in Reservations \ {work[p].res} : res'[r] = res[r]
         /\ work[p].op = "claim" =>
               /\ res'[work[p].res].stage = "active"
               /\ res'[work[p].res].run = work[p].run
               /\ res'[work[p].res].worktree = work[p].tree
               /\ res'[work[p].res].presented = (work[p].kind # "unidentified")
         /\ work[p].op = "release" =>
               /\ res'[work[p].res].stage = "ended"
               /\ res'[work[p].res].run = res[work[p].res].run
               /\ res'[work[p].res].worktree = res[work[p].res].worktree
               /\ res'[work[p].res].presented = res[work[p].res].presented
<1>1. /\ lock = p /\ work[p].at = "commit" /\ work[p].verdict
      /\ work[p].op \in {"claim", "release"} /\ work[p].left = {}
      /\ generation' = generation + 1
  BY DEF Append, LockHeld, Sweeping
<1>2. work[p].res \in Reservations /\ work[p].tree \in Worktrees
  BY <1>1 DEF Fields, WellFormed
<1>3. work'[p].at = "publish"
  BY Goes DEF Append
<1>4. res \in [Reservations -> [stage : {"free", "active", "ended"}, run : AllRuns \cup {None},
                                worktree : Worktrees \cup {None}, presented : BOOLEAN]]
  BY DEF TypeOK
<1>5. CASE work[p].op = "claim"
  <2> DEFINE new == [stage |-> "active", run |-> work[p].run, worktree |-> work[p].tree,
                     presented |-> work[p].kind # "unidentified"]
  <2>1. res' = [res EXCEPT ![work[p].res] = new]
    BY <1>5 DEF Append
  <2>2. /\ new.stage = "active" /\ new.run = work[p].run /\ new.worktree = work[p].tree
        /\ new.presented = (work[p].kind # "unidentified")
    OBVIOUS
  <2> HIDE DEF new
  <2> QED
    BY <1>1, <1>2, <1>3, <1>4, <1>5, <2>1, <2>2
<1>6. CASE work[p].op = "release"
  <2>1. res' = [res EXCEPT ![work[p].res] = [@ EXCEPT !.stage = "ended"]]
    BY <1>6 DEF Append
  <2> QED
    BY <1>1, <1>2, <1>3, <1>4, <1>6, <2>1
<1> QED
  BY <1>1, <1>5, <1>6

LEMMA ClaimingKept ==
  ASSUME TypeOK, Fields, LockHeld, Claiming, [Next]_vars
  PROVE  Claiming'
<1>1. CASE UNCHANGED vars
  BY <1>1 DEF Claiming, vars
<1>2. None \notin Reservations
  BY IdentityAssumption
<1>3. CASE \E p \in Processes : Start(p)
  <2>1. PICK p \in Processes : Start(p)
    BY <1>3
  <2> QED
    <3>1. \A q \in Processes : work[q].op = "claim" => work[q].res \in Reservations
      BY DEF Fields, WellFormed
    <3>2. \A q \in Processes \ {p} : work'[q] = work[q] /\ res' = res
      BY <2>1, Starts
    <3>3. ASSUME NEW q \in Processes \ {p}, work[q].op = "claim", work[q].at \notin {"publish", "mark"}
          PROVE  work[q].res # work'[p].res
      BY <1>2, <2>1, <3>1, <3>3, Starts DEF Claiming
    <3>4. /\ work'[p].op = "claim" =>
              /\ res'[work'[p].res].stage = "free"
              /\ \A q \in Processes \ {p} : work'[q].res # work'[p].res
          /\ work'[p].op \in {"select", "release"} => res'[work'[p].res].stage # "free"
      BY <2>1, <3>2, Starts
    <3> QED
      BY <3>2, <3>3, <3>4, <2>1, Starts DEF Claiming
<1>4. CASE \E p \in Processes : Append(p)
  <2>1. PICK p \in Processes : Append(p)
    BY <1>4
  <2>2. /\ work'[p].op = work[p].op /\ work'[p].res = work[p].res
        /\ \A q \in Processes \ {p} : work'[q] = work[q]
    BY <2>1, Goes DEF Append, SameCommand
  <2>3. /\ work'[p].at = "publish" /\ work[p].at = "commit" /\ work[p].res \in Reservations
        /\ \A r \in Reservations \ {work[p].res} : res'[r] = res[r]
        /\ res'[work[p].res].stage # "free"
    BY <2>1, Appends
  <2>4. \A q \in Processes : work[q].op \in {"claim", "select", "release"} =>
            work[q].res \in Reservations
    BY DEF Fields, WellFormed
  <2>5. work[p].op \in {"claim", "release"}
    BY <2>1, Appends
  <2> QED
    BY <2>2, <2>3, <2>4, <2>5 DEF Claiming
<1>5. ASSUME NEW p \in Processes,
             Step(p) \/ Acquire(p) \/ PublishFails(p) \/ MarkFails(p) \/ Kill(p),
             ~ \E q \in Processes : Append(q)
      PROVE  Claiming'
  <2>1. res' = res
    BY <1>5, RecordsKept
  <2>2. CASE work'[p] = Idle /\ \A q \in Processes \ {p} : work'[q] = work[q]
    <3>1. work'[p].op = "none" /\ work'[p].res = None
      BY <2>2, IdleFields
    <3>2. \A q \in Processes : work[q].op = "claim" => work[q].res \in Reservations
      BY DEF Fields, WellFormed
    <3> QED
      BY <1>2, <2>1, <2>2, <3>1, <3>2 DEF Claiming
  <2>3. CASE /\ work'[p].op = work[p].op /\ work'[p].res = work[p].res
             /\ work'[p].op = "claim" /\ work[p].at \in {"publish", "mark"} =>
                   work'[p].at \in {"publish", "mark"}
             /\ \A q \in Processes \ {p} : work'[q] = work[q]
    BY <2>1, <2>3 DEF Claiming
  <2> QED
    BY <1>5, <2>2, <2>3, Proceeds
<1> QED
  BY <1>1, <1>3, <1>4, <1>5 DEF Next

\* What a judgement says depends on the journal and on the command alone.
LEMMA JudgementKept ==
  ASSUME NEW q \in Processes, res' = res,
         SameCommand(work[q], work'[q]), SameCaller(work[q], work'[q])
  PROVE  Admitted(q)' = Admitted(q) /\ Removes(q)' = Removes(q)
<1>1. Valid(q)' = Valid(q)
  BY DEF Valid, ActiveHere, Active, Incumbent, SameCommand, SameCaller
<1>2. Removes(q)' = Removes(q)
  BY DEF Removes, OtherActive, SameCommand
<1>3. Admitted(q)' = Admitted(q)
  BY <1>1 DEF Admitted, Sweeping, SameCommand, SameCaller
<1> QED
  BY <1>2, <1>3

LEMMA LockMoves ==
  ASSUME TypeOK, NEW p \in Processes,
         Start(p) \/ Step(p) \/ Acquire(p) \/ PublishFails(p) \/ MarkFails(p) \/ Kill(p)
  PROVE  lock' \in {lock, None, p}
<1>1. ASSUME Finish(p) PROVE lock' \in {lock, None}
  BY <1>1 DEF Finish
<1>2. ASSUME Leave(p) \/ Finish(p) PROVE lock' \in {lock, None}
  BY <1>2, Leaves
<1>3. ASSUME AfterPublication(p) PROVE lock' \in {lock, None}
  BY <1>3, Publishes
<1>4. CASE ReadMarker(p) \/ Read(p) \/ Draw(p) \/ Append(p)
  BY <1>4 DEF ReadMarker, Read, Draw, Append
<1>5. CASE Publish(p) \/ PublishFails(p)
  BY <1>3, <1>5 DEF Publish, PublishFails
<1>6. CASE LookAtMarker(p) \/ Detach(p) \/ Judge(p)
  BY <1>2, <1>6 DEF LookAtMarker, Detach, Judge
<1>7. CASE Refuse(p) \/ Mark(p) \/ MarkFails(p) \/ Kill(p)
  BY <1>1, <1>7 DEF Refuse, Mark, MarkFails, Kill
<1>8. CASE Start(p)
  BY <1>8, Starts
<1>9. CASE Acquire(p)
  BY <1>9, Acquires
<1> QED
  BY <1>4, <1>5, <1>6, <1>7, <1>8, <1>9 DEF Step

LEMMA JudgedKept ==
  ASSUME TypeOK, Fields, LockHeld, Judged, [Next]_vars
  PROVE  Judged'
<1>1. CASE UNCHANGED vars
  BY <1>1 DEF Judged, JudgedOf, Admitted, Valid, Incumbent, ActiveHere, Active, Removes,
              OtherActive, Sweeping, vars
<1>2. SUFFICES ASSUME NEW p \in Processes,
                      \/ Start(p) \/ Step(p) \/ Acquire(p)
                      \/ PublishFails(p) \/ MarkFails(p) \/ Kill(p)
               PROVE  Judged'
  BY <1>1 DEF Next
<1>3. /\ \A q \in Processes \ {p} : work'[q] = work[q]
      /\ lock' \in {lock, None, p} /\ None \notin Processes
  BY <1>2, Proceeds, Starts, LockMoves, IdentityAssumption
<1>4. CASE Append(p)
  <2>1. /\ lock = p /\ generation' = generation + 1 /\ work'[p].at = "publish"
    BY <1>4, Appends
  <2>2. generation \in Nat /\ \A q \in Processes : work[q].seen \in Nat
    BY DEF TypeOK, WorkTypes
  <2>3. JudgedOf(p)'
    BY <2>1 DEF JudgedOf
  <2>4. ASSUME NEW q \in Processes \ {p} PROVE JudgedOf(q)'
    <3>1. work'[q] = work[q] /\ lock' # q /\ JudgedOf(q) /\ work[q].at # "commit"
      BY <1>3, <2>1 DEF Judged, LockHeld
    <3>2. work[q].at \in {"draw", "acquire"} =>
             work[q].seen <= generation' /\ work[q].seen # generation'
      BY <2>1, <2>2, <3>1 DEF JudgedOf
    <3> QED
      BY <3>1, <3>2 DEF JudgedOf
  <2> QED
    BY <2>3, <2>4 DEF Judged
<1>5. ASSUME ~ Append(p), res' = res, generation' = generation PROVE Judged'
  <2>1. ASSUME NEW q \in Processes \ {p} PROVE JudgedOf(q)'
    <3>1. work'[q] = work[q] /\ (lock' = q => lock = q) /\ JudgedOf(q)
      BY <1>3 DEF Judged
    <3>2. Admitted(q)' = Admitted(q) /\ Removes(q)' = Removes(q)
      BY <1>5, <3>1, JudgementKept DEF SameCommand, SameCaller
    <3> QED
      BY <1>5, <3>1, <3>2 DEF JudgedOf
  <2>2. SUFFICES JudgedOf(p)'
    BY <2>1 DEF Judged
  <2>3. ASSUME work'[p].at \notin {"draw", "acquire", "commit"} PROVE JudgedOf(p)'
    BY <2>3 DEF JudgedOf
  <2>4. ASSUME SameCommand(work[p], work'[p]), SameCaller(work[p], work'[p])
        PROVE  Admitted(p)' = Admitted(p) /\ Removes(p)' = Removes(p)
    BY <1>5, <2>4, JudgementKept
  <2>5. JudgedOf(p) /\ work[p] \in WorkTypes /\ WellFormed(work[p]) /\ generation \in Nat
    BY DEF Judged, TypeOK, Fields
  <2>6. ASSUME Leave(p) \/ Finish(p), work[p].at \in {"commit", "detach", "judge"} PROVE JudgedOf(p)'
    <3>1. CASE /\ work[p].left \ {Tree(p)} # {}
               /\ work'[p] = [work[p] EXCEPT !.at = "commit", !.left = @ \ {Tree(p)},
                                             !.aside = None]
      <4>1. /\ work'[p].op = work[p].op /\ work'[p].at = "commit" /\ work'[p].left # {}
        BY <2>5, <3>1 DEF WorkTypes
      <4>2. work[p].op \notin {"claim", "select"}
        BY <2>5, <3>1 DEF WellFormed
      <4>3. Admitted(p)'
        BY <4>1, <4>2 DEF Admitted, Sweeping
      <4> QED
        BY <4>1, <4>3 DEF JudgedOf
    <3>2. CASE work'[p] = OnwardFrom(work[p], "read") \/ work'[p] = Idle
      <4>1. OnwardFrom(work[p], "read").at = "read"
        BY <2>5, OnwardFields
      <4> QED
        BY <2>3, <3>2, <4>1, IdleFields
    <3> QED
      BY <2>6, <3>1, <3>2, Leaves
  <2>7. CASE Start(p)
    BY <2>3, <2>7, Starts
  <2>8. CASE ReadMarker(p)
    BY <2>3, <2>8, ReadsMarker
  <2>9. CASE Read(p)
    <3>1. /\ work'[p].at = "draw" /\ work'[p].seen = generation
          /\ work'[p].verdict = Admitted(p) /\ work'[p].removes = Removes(p)
      <4>1. work'[p] = [work[p] EXCEPT !.at = "draw", !.seen = generation, !.ino = ino,
                                       !.verdict = Admitted(p), !.removes = Removes(p)]
        BY <2>9, Reads
      <4> QED
        BY <2>5, <4>1 DEF WorkTypes
    <3>2. Admitted(p)' = Admitted(p) /\ Removes(p)' = Removes(p)
      BY <2>4, <2>9, Reads
    <3> QED
      BY <1>5, <2>5, <3>1, <3>2 DEF JudgedOf
  <2>10. CASE Draw(p)
    <3>1. Admitted(p)' = Admitted(p) /\ Removes(p)' = Removes(p)
      BY <2>4, <2>10, Draws
    <3>2. /\ work'[p].op = work[p].op /\ work[p].at = "draw"
          /\ work'[p].verdict = work[p].verdict /\ work'[p].removes = work[p].removes
          /\ \/ lock = p /\ work'[p].at = "commit"
             \/ work'[p].at = "acquire" /\ work'[p].seen = work[p].seen
      <4>1. work[p].at = "draw"
        BY <2>10 DEF Draw
      <4>2. \/ /\ lock = p
               /\ work'[p] = [work[p] EXCEPT !.next = Drawn(p), !.at = "commit", !.seen = 0,
                                             !.ino = None, !.tries = 0]
            \/ work'[p] = [work[p] EXCEPT !.next = Drawn(p), !.at = "acquire"]
        BY <2>10, Draws
      <4> QED
        BY <2>5, <4>1, <4>2 DEF WorkTypes
    <3> QED
      BY <1>5, <2>5, <3>1, <3>2 DEF JudgedOf
  <2>11. CASE Acquire(p)
    <3>1. Admitted(p)' = Admitted(p) /\ Removes(p)' = Removes(p)
      BY <2>4, <2>11, Acquires
    <3>2. CASE /\ StillCurrent(p)
               /\ work'[p] = [work[p] EXCEPT !.at = "commit", !.seen = 0, !.ino = None,
                                             !.tries = 0]
      <4>1. /\ work'[p].op = work[p].op /\ work'[p].at = "commit"
            /\ work'[p].verdict = work[p].verdict /\ work'[p].removes = work[p].removes
        BY <2>5, <3>2 DEF WorkTypes
      <4>2. work[p].at = "acquire" /\ (work[p].op = "clear" \/ work[p].seen = generation)
        BY <2>11, <3>2 DEF Acquire, StillCurrent
      <4> QED
        BY <2>5, <3>1, <4>1, <4>2 DEF JudgedOf
    <3>3. CASE work'[p] = [work[p] EXCEPT !.at = "read", !.seen = 0, !.ino = None,
                                          !.verdict = FALSE, !.removes = FALSE,
                                          !.next = None, !.tries = @ + 1]
      BY <2>3, <2>5, <3>3 DEF WorkTypes
    <3> QED
      BY <2>11, <3>2, <3>3, Acquires
  <2>12. CASE Publish(p) \/ PublishFails(p)
    <3>1. /\ OnwardFrom(work[p], "mark").at = "mark"
          /\ OnwardFrom(work[p], "detach").at = "detach"
      BY <2>5, OnwardFields
    <3>2. AfterPublication(p)
      BY <2>12 DEF Publish, PublishFails
    <3>3. \/ work'[p] = OnwardFrom(work[p], "mark") \/ work'[p] = OnwardFrom(work[p], "detach")
          \/ work'[p] = Idle
      BY <3>2, Publishes
    <3> QED
      BY <2>3, <3>1, <3>3, IdleFields
  <2>13. CASE LookAtMarker(p)
    BY <2>3, <2>6, <2>13, Goes DEF LookAtMarker
  <2>14. CASE Detach(p)
    <3>1. CASE Leave(p)
      BY <2>6, <2>14, <3>1 DEF Detach
    <3>2. CASE work'[p] = [work[p] EXCEPT !.at = "judge", !.aside = marker[Tree(p)]]
      BY <2>3, <2>5, <3>2 DEF WorkTypes
    <3> QED
      BY <2>14, <3>1, <3>2, Detaches
  <2>15. CASE Judge(p)
    BY <2>6, <2>15 DEF Judge
  <2>16. CASE Refuse(p) \/ Mark(p) \/ MarkFails(p) \/ Kill(p)
    BY <2>3, <2>16, Finishes, IdleFields DEF Refuse, Mark, MarkFails, Kill
  <2> QED
    BY <1>2, <1>5, <2>7, <2>8, <2>9, <2>10, <2>11, <2>12, <2>13, <2>14, <2>15, <2>16
       DEF Step
<1>6. ASSUME ~ Append(p) PROVE res' = res /\ generation' = generation
  <2>1. ASSUME Start(p) PROVE res' = res /\ generation' = generation
    BY <2>1, Starts
  <2>2. ASSUME Step(p) PROVE res' = res /\ generation' = generation
    BY <1>6, <2>2 DEF Step, ReadMarker, Read, Draw, Refuse, Publish, Mark, LookAtMarker,
                      Detach, Judge
  <2>3. ASSUME Acquire(p) \/ PublishFails(p) \/ MarkFails(p) \/ Kill(p)
        PROVE  res' = res /\ generation' = generation
    BY <2>3 DEF Acquire, PublishFails, MarkFails, Kill
  <2> QED
    BY <1>2, <2>1, <2>2, <2>3
<1> QED
  BY <1>4, <1>5, <1>6

-----------------------------------------------------------------------------
LEMMA AloneKept ==
  ASSUME TypeOK, Fields, LockHeld, Claiming, Judged, PresentedAlone, [Next]_vars
  PROVE  PresentedAlone'
<1>1. ASSUME res' = res PROVE PresentedAlone'
  BY <1>1 DEF PresentedAlone
<1>2. CASE ~ \E p \in Processes : Append(p)
  BY <1>1, <1>2, RecordsKept
<1>3. ASSUME NEW p \in Processes, Append(p) PROVE PresentedAlone'
  <2> DEFINE c == work[p]
             Unpresented(w) == \E r \in Reservations : /\ res[r].stage # "free"
                                                       /\ res[r].worktree = w
                                                       /\ ~ res[r].presented
  <2>1. /\ c.res \in Reservations /\ \A r \in Reservations \ {c.res} : res'[r] = res[r]
        /\ res \in [Reservations ->
             [stage : {"free", "active", "ended"}, run : AllRuns \cup {None},
              worktree : Worktrees \cup {None}, presented : BOOLEAN]]
    BY <1>3, Appends DEF TypeOK
  <2>2. CASE c.op = "release"
    <3>1. /\ res'[c.res].stage = "ended" /\ res'[c.res].run = res[c.res].run
          /\ res'[c.res].worktree = res[c.res].worktree
          /\ res'[c.res].presented = res[c.res].presented
          /\ res[c.res].stage # "free"
      BY <1>3, <2>2, Appends DEF Claiming
    <3>2. \A r \in Reservations :
             /\ res'[r].run = res[r].run /\ res'[r].worktree = res[r].worktree
             /\ res'[r].presented = res[r].presented
             /\ res[r].stage # "free" => res'[r].stage # "free"
             /\ res'[r].stage = "active" => res[r].stage = "active"
      BY <2>1, <3>1
    <3> QED
      BY <3>2 DEF PresentedAlone
  <2>3. CASE c.op = "claim"
    <3>1. /\ res'[c.res].stage = "active" /\ res'[c.res].run = c.run
          /\ res'[c.res].worktree = c.tree /\ res[c.res].stage = "free"
          /\ res'[c.res].presented = (c.kind # "unidentified")
      BY <1>3, <2>3, Appends DEF Claiming
    <3>2. Valid(p) /\ c.kind \in {"session", "presented", "marker", "unidentified"}
      <4>1. c.at = "commit" /\ c.verdict
        BY <1>3, Appends
      <4>2. Admitted(p)
        BY <2>3, <4>1 DEF Judged, JudgedOf
      <4> QED
        BY <2>3, <4>1, <4>2 DEF Admitted, Fields, WellFormed, TypeOK, WorkTypes
    <3>3. SUFFICES ASSUME NEW w \in Worktrees, ~ Unpresented(w)'
                   PROVE  \A q, r \in Reservations :
                             /\ res'[q].stage = "active" /\ res'[q].worktree = w
                             /\ res'[r].stage = "active" /\ res'[r].worktree = w
                             => res'[q].run = res'[r].run
      BY DEF PresentedAlone
    <3>4. ~ Unpresented(w)
      BY <2>1, <3>1, <3>3
    <3>5. \A q, r \in Reservations :
             /\ res[q].stage = "active" /\ res[q].worktree = w
             /\ res[r].stage = "active" /\ res[r].worktree = w
             => res[q].run = res[r].run
      BY <3>4 DEF PresentedAlone
    <3>6. CASE w # c.tree
      BY <2>1, <3>1, <3>5, <3>6
    <3>7. CASE w = c.tree
      <4>1. c.kind # "unidentified"
        BY <2>1, <3>1, <3>3, <3>7
      <4>2. \A r \in Reservations :
               res[r].stage = "active" /\ res[r].worktree = w => res[r].run = c.run
        <5>1. CASE c.kind = "session"
          <6>1. c.held \in Reservations
            BY <1>3, <2>3, <5>1, Appends DEF Fields, WellFormed
          <6>2. res[c.held].stage = "active" /\ res[c.held].run = c.run
                /\ res[c.held].worktree = c.tree
            BY <3>2, <5>1 DEF Valid
          <6> QED
            BY <3>5, <3>7, <6>1, <6>2
        <5>2. CASE c.kind = "marker"
          BY <3>2, <3>5, <3>7, <5>2 DEF Valid, ActiveHere, Active
        <5>3. CASE c.kind = "presented"
          <6>1. ~ Incumbent(c.run, w)
            BY <3>2, <3>7, <5>3 DEF Valid
          <6>2. \A r \in Reservations :
                   res[r].stage = "active" /\ res[r].worktree = w => res[r].presented
            BY <2>1, <3>4
          <6> QED
            BY <6>1, <6>2 DEF Incumbent
        <5> QED
          BY <3>2, <4>1, <5>1, <5>2, <5>3
      <4> QED
        BY <2>1, <3>1, <4>2
    <3> QED
      BY <3>6, <3>7
  <2> QED
    BY <1>3, <2>2, <2>3, Appends
<1> QED
  BY <1>2, <1>3

(* In a worktree where every claim presented its run, all active work is one   *)
(* run's (validate_worktree_occupancy, coordination_identity.rs:725).          *)
THEOREM RunsAlone == Spec => []PresentedAlone
<1> DEFINE Inv == TypeOK /\ Fields /\ LockHeld /\ Claiming /\ Judged /\ PresentedAlone
<1>1. Init => Inv
  <2> SUFFICES ASSUME Init PROVE Inv
    OBVIOUS
  <2>1. TypeOK
    BY IdleTyped, IdentityAssumption DEF Init, TypeOK, Free, Entries, AllRuns
  <2>2. \A p \in Processes : work[p] = Idle
    BY DEF Init
  <2>3. LockHeld /\ Claiming /\ Judged
    BY <2>2, IdleFields DEF LockHeld, Claiming, Judged, JudgedOf
  <2>4. Fields
    BY <2>2 DEF Fields, WellFormed, Idle
  <2>5. \A r \in Reservations : res[r].stage = "free"
    BY DEF Init, Free
  <2>6. PresentedAlone
    BY <2>5 DEF PresentedAlone
  <2> QED
    BY <2>1, <2>3, <2>4, <2>6
<1>2. Inv /\ [Next]_vars => Inv'
  BY TypesKept, FieldsKept, LockHeldKept, ClaimingKept, JudgedKept, AloneKept
<1>3. Inv => PresentedAlone
  OBVIOUS
<1> QED
  BY <1>1, <1>2, <1>3, PTL DEF Spec

-----------------------------------------------------------------------------
(* What is appended, and what the mapping becomes. *)

LEMMA MappingUnchanged ==
  ASSUME [Next]_vars, ~ \E p \in Processes : Publish(p)
  PROVE  mapping' = mapping /\ ino' = ino
<1>1. CASE UNCHANGED vars
  BY <1>1 DEF vars
<1>2. ASSUME NEW p \in Processes, Start(p) PROVE mapping' = mapping /\ ino' = ino
  BY <1>2 DEF Start, BeginClaim, BeginSelect, Begin, BeginRelease, BeginBoard, BeginDrift,
              BeginClear, BeginOther
<1>3. ASSUME NEW p \in Processes, Step(p), ~ Publish(p)
      PROVE  mapping' = mapping /\ ino' = ino
  BY <1>3 DEF Step, ReadMarker, Read, Draw, Refuse, Append, Mark, LookAtMarker, Detach, Judge
<1>4. ASSUME NEW p \in Processes,
             Acquire(p) \/ PublishFails(p) \/ MarkFails(p) \/ Kill(p)
      PROVE  mapping' = mapping /\ ino' = ino
  BY <1>4 DEF Acquire, PublishFails, MarkFails, Kill
<1> QED
  BY <1>1, <1>2, <1>3, <1>4 DEF Next

\* What a step leaves of the command that takes it.
LEMMA Follows ==
  ASSUME TypeOK, Fields, LockHeld, NEW p \in Processes,
         Start(p) \/ Step(p) \/ Acquire(p) \/ PublishFails(p) \/ MarkFails(p) \/ Kill(p),
         ~ Draw(p)
  PROVE  \/ work'[p].at \notin {"acquire", "commit", "publish", "detach", "judge"}
         \/ /\ work[p].at \in {"commit", "publish"} /\ Publishing(p)
            /\ AfterPublication(p) /\ work'[p] = OnwardFrom(work[p], "detach")
            /\ work[p].op = "release" /\ work[p].removes
         \/ /\ SameCaller(work[p], work'[p]) /\ work'[p].op = work[p].op
            /\ work'[p].res = work[p].res /\ work'[p].next = work[p].next
            /\ work'[p].verdict = work[p].verdict /\ work'[p].removes = work[p].removes
            /\ \/ /\ Acquire(p) /\ StillCurrent(p) /\ work[p].at = "acquire"
                  /\ work'[p].at = "commit" /\ work'[p].left = work[p].left
               \/ /\ Append(p) /\ work[p].at = "commit" /\ work'[p].at = "publish"
                  /\ work'[p].left = work[p].left
               \/ /\ LookAtMarker(p) /\ work[p].at = "commit" /\ work'[p].at = "detach"
                  /\ work'[p].left = work[p].left /\ work[p].left # {}
               \/ /\ Detach(p) /\ work[p].at = "detach" /\ work'[p].at = "judge"
                  /\ work'[p].left = work[p].left
               \/ /\ work[p].at \in {"commit", "detach", "judge"} /\ work'[p].at = "commit"
                  /\ work[p].left # {} /\ work'[p].left # {}
<1> DEFINE Gone == work'[p].at \notin {"acquire", "commit", "publish", "detach", "judge"}
           Same == /\ SameCaller(work[p], work'[p]) /\ work'[p].op = work[p].op
                   /\ work'[p].res = work[p].res /\ work'[p].next = work[p].next
                   /\ work'[p].verdict = work[p].verdict
                   /\ work'[p].removes = work[p].removes
<1>1. work[p] \in WorkTypes /\ WellFormed(work[p])
  BY DEF TypeOK, Fields
<1>2. ASSUME Leave(p) \/ Finish(p), work[p].at \in {"commit", "detach", "judge"}
      PROVE  \/ Gone
             \/ /\ Same /\ work'[p].at = "commit" /\ work[p].left # {} /\ work'[p].left # {}
  <2>1. OnwardFrom(work[p], "read").at = "read"
    BY <1>1, OnwardFields
  <2>2. CASE /\ work[p].left \ {Tree(p)} # {}
             /\ work'[p] = [work[p] EXCEPT !.at = "commit", !.left = @ \ {Tree(p)},
                                           !.aside = None]
    BY <1>1, <2>2 DEF WorkTypes, SameCaller
  <2>3. CASE work'[p] \in {OnwardFrom(work[p], "read"), Idle}
    BY <2>1, <2>3, IdleFields
  <2> QED
    BY <1>2, <2>2, <2>3, Leaves
<1>3. CASE Start(p)
  BY <1>3, Starts
<1>4. CASE ReadMarker(p)
  BY <1>4, ReadsMarker
<1>5. CASE Read(p)
  BY <1>5, Reads
<1>6. CASE Acquire(p)
  <2>1. CASE /\ StillCurrent(p)
             /\ work'[p] = [work[p] EXCEPT !.at = "commit", !.seen = 0, !.ino = None,
                                           !.tries = 0]
    <3>1. Same /\ work'[p].at = "commit" /\ work'[p].left = work[p].left
      BY <1>1, <2>1 DEF WorkTypes, SameCaller
    <3>2. work[p].at = "acquire"
      BY <1>6 DEF Acquire
    <3> QED
      BY <1>6, <2>1, <3>1, <3>2
  <2>2. CASE work'[p] = [work[p] EXCEPT !.at = "read", !.seen = 0, !.ino = None,
                                        !.verdict = FALSE, !.removes = FALSE,
                                        !.next = None, !.tries = @ + 1]
    <3>1. Gone
      BY <1>1, <2>2 DEF WorkTypes
    <3> QED
      BY <3>1
  <2> QED
    BY <1>6, <2>1, <2>2, Acquires
<1>7. CASE Append(p)
  <2>1. work'[p] = [work[p] EXCEPT !.at = "publish"] /\ work[p].at = "commit"
    BY <1>7, Goes DEF Append
  <2>2. Same /\ work'[p].at = "publish" /\ work'[p].left = work[p].left
    BY <1>1, <2>1 DEF WorkTypes, SameCaller
  <2> QED
    BY <1>7, <2>1, <2>2
<1>8. CASE Publish(p) \/ PublishFails(p)
  <2>1. /\ OnwardFrom(work[p], "mark").at = "mark"
        /\ OnwardFrom(work[p], "detach").at = "detach"
    BY <1>1, OnwardFields
  <2>2. AfterPublication(p) /\ Publishing(p) /\ work[p].at \in {"commit", "publish"}
    BY <1>8 DEF Publish, PublishFails, Publishing
  <2>3. \/ work'[p] = OnwardFrom(work[p], "mark") \/ work'[p] = Idle
        \/ /\ work'[p] = OnwardFrom(work[p], "detach")
           /\ work[p].op = "release" /\ work[p].removes
    BY <2>2, Publishes
  <2> QED
    BY <2>1, <2>2, <2>3, IdleFields
<1>9. CASE LookAtMarker(p)
  <2>1. work[p].at = "commit" /\ work[p].left # {} /\ (Leave(p) \/ Goto(p, "detach"))
    BY <1>9 DEF LookAtMarker, Sweeping
  <2>2. CASE Goto(p, "detach")
    <3>1. work'[p] = [work[p] EXCEPT !.at = "detach"]
      BY <2>2, Goes
    <3>2. Same /\ work'[p].at = "detach" /\ work'[p].left = work[p].left
      BY <1>1, <3>1 DEF WorkTypes, SameCaller
    <3> QED
      BY <1>9, <2>1, <3>2
  <2> QED
    BY <1>2, <2>1, <2>2
<1>10. CASE Detach(p)
  <2>1. work[p].at = "detach"
    BY <1>10 DEF Detach
  <2>2. CASE work'[p] = [work[p] EXCEPT !.at = "judge", !.aside = marker[Tree(p)]]
    <3>1. Same /\ work'[p].at = "judge" /\ work'[p].left = work[p].left
      BY <1>1, <2>2 DEF WorkTypes, SameCaller
    <3> QED
      BY <1>10, <2>1, <3>1
  <2> QED
    BY <1>2, <1>10, <2>1, <2>2, Detaches
<1>11. CASE Judge(p)
  BY <1>2, <1>11 DEF Judge
<1>12. CASE Refuse(p) \/ Mark(p) \/ MarkFails(p) \/ Kill(p)
  BY <1>12, Finishes, IdleFields DEF Refuse, Mark, MarkFails, Kill
<1> QED
  BY <1>3, <1>4, <1>5, <1>6, <1>7, <1>8, <1>9, <1>10, <1>11, <1>12 DEF Step

LEMMA AppendedKept ==
  ASSUME TypeOK, Fields, LockHeld, Judged, Appended, [Next]_vars
  PROVE  Appended'
<1>1. CASE UNCHANGED vars
  BY <1>1 DEF Appended, AppendedBy, NoneActive, vars
<1>2. SUFFICES ASSUME NEW p \in Processes,
                      \/ Start(p) \/ Step(p) \/ Acquire(p)
                      \/ PublishFails(p) \/ MarkFails(p) \/ Kill(p)
               PROVE  Appended'
  BY <1>1 DEF Next
<1>3. \A q \in Processes \ {p} : work'[q] = work[q]
  BY <1>2, Proceeds, Starts
<1>4. work[p] \in WorkTypes /\ WellFormed(work[p]) /\ AppendedBy(p)
  BY DEF TypeOK, Fields, Appended
<1>5. CASE Append(p)
  <2>1. ASSUME NEW q \in Processes \ {p} PROVE AppendedBy(q)'
    <3>1. work'[q] = work[q] /\ work[q].at \notin {"publish", "detach", "judge"}
      BY <1>3, <1>5, Appends DEF LockHeld
    <3> QED
      BY <3>1 DEF AppendedBy
  <2>2. SUFFICES AppendedBy(p)'
    BY <2>1 DEF Appended
  <2>3. /\ work'[p].at = "publish" /\ work'[p].res = work[p].res /\ work'[p].run = work[p].run
        /\ work'[p].op = work[p].op /\ work'[p].verdict /\ work'[p].removes = work[p].removes
    <3>1. work'[p] = [work[p] EXCEPT !.at = "publish"] /\ work[p].verdict
      BY <1>5, Goes DEF Append
    <3> QED
      BY <1>4, <3>1 DEF WorkTypes
  <2>4. CASE work[p].op = "claim"
    BY <1>5, <2>3, <2>4, Appends DEF AppendedBy
  <2>5. CASE work[p].op = "release"
    <3>1. work[p].removes => Removes(p)
      BY <1>5, <2>5, Appends DEF Judged, JudgedOf
    <3>2. /\ work[p].res \in Reservations
          /\ res'[work[p].res].stage = "ended" /\ res'[work[p].res].run = res[work[p].res].run
          /\ \A r \in Reservations \ {work[p].res} : res'[r] = res[r]
      BY <1>5, <2>5, Appends
    <3>3. work[p].removes => \A r \in Reservations :
             res'[r].stage = "active" => res'[r].run # res'[work[p].res].run
      BY <3>1, <3>2 DEF Removes, OtherActive
    <3> QED
      BY <2>3, <2>5, <3>2, <3>3 DEF AppendedBy, NoneActive
  <2> QED
    BY <1>5, <2>4, <2>5, Appends
<1>6. CASE ~ Append(p)
  <2>1. res' = res
    <3>1. ASSUME NEW q \in Processes, Append(q) PROVE q = p
      BY <1>3, <3>1, Appends DEF LockHeld
    <3> QED
      BY <1>6, <3>1, RecordsKept
  <2>2. ASSUME NEW q \in Processes \ {p} PROVE AppendedBy(q)'
    BY <1>3, <2>1, <2>2 DEF Appended, AppendedBy, NoneActive
  <2>3. AppendedBy(p)'
    <3>1. CASE work'[p].at \in {"idle", "resolve", "read", "mark", "acquire", "commit", "draw"}
      BY <3>1 DEF AppendedBy
    <3>2. CASE Draw(p)
      BY <3>1, <3>2, Draws
    <3>3. CASE /\ Publishing(p) /\ work'[p] = OnwardFrom(work[p], "detach")
               /\ work[p].op = "release" /\ work[p].removes
      <4>1. work'[p].at = "detach" /\ work'[p].res = work[p].res
        <5>1. work[p] \in WorkTypes
          BY <1>4
        <5>2. /\ OnwardFrom(work[p], "detach").at = "detach"
              /\ OnwardFrom(work[p], "detach").res = work[p].res
          BY <5>1, OnwardFields
        <5> QED
          BY <3>3, <5>2
      <4>2. work[p].at = "publish"
        BY <3>3 DEF Publishing
      <4> QED
        BY <1>4, <2>1, <3>3, <4>1, <4>2 DEF AppendedBy, NoneActive
    <3>4. CASE /\ work'[p].res = work[p].res
               /\ \/ work'[p].at = "commit"
                  \/ /\ work'[p].at = "detach" /\ work'[p].left # {}
                  \/ /\ work[p].at = "detach" /\ work'[p].at = "judge"
                     /\ work'[p].left = work[p].left
      BY <1>4, <2>1, <3>4 DEF AppendedBy, NoneActive
    <3>5. CASE work'[p].at \notin {"acquire", "commit", "publish", "detach", "judge"}
      BY <3>5 DEF AppendedBy
    <3> QED
      BY <1>2, <1>6, <3>2, <3>3, <3>4, <3>5, Follows
  <2> QED
    BY <2>2, <2>3 DEF Appended
<1> QED
  BY <1>5, <1>6

LEMMA DrawnAfresh ==
  ASSUME TypeOK, NEW p \in Processes, work'[p].next = Drawn(p), mapping' = mapping,
         SameCommand(work[p], work'[p]), SameCaller(work[p], work'[p]),
         work'[p].verdict = work[p].verdict, None \notin [Sessions -> Entries]
  PROVE  DrawnFrom(p)'
<1> DEFINE c == work[p]
<1>1. mapping \in [Sessions -> Entries]
  BY DEF TypeOK
<1>2. CASE c.verdict /\ c.op \in {"claim", "select"} /\ SessionOf[p] # None
  <2>1. work'[p].next = [mapping EXCEPT ![SessionOf[p]] = [res |-> c.res, run |-> c.run]]
    BY <1>2 DEF Drawn
  <2> QED
    BY <1>1, <1>2, <2>1 DEF DrawnFrom, SameCommand, SameCaller, Sweeping
<1>3. CASE c.verdict /\ c.op = "release" /\ ~ Sweeping(p)
  <2>1. work'[p].next = [t \in Sessions |->
             IF mapping[t] # None /\ mapping[t].res = c.res THEN None ELSE mapping[t]]
    BY <1>3 DEF Drawn
  <2>2. work'[p].next \in [Sessions -> Entries]
    BY <1>1, <2>1 DEF Entries
  <2> QED
    BY <1>3, <2>1, <2>2 DEF DrawnFrom, SameCommand, Sweeping
<1>4. CASE c.op = "clear" /\ SessionOf[p] # None /\ mapping[SessionOf[p]] # None
  <2>1. work'[p].next = [mapping EXCEPT ![SessionOf[p]] = None]
    BY <1>4 DEF Drawn
  <2> QED
    BY <1>1, <1>4, <2>1 DEF DrawnFrom, SameCommand, Sweeping
<1>5. CASE /\ ~ (c.verdict /\ c.op \in {"claim", "select"} /\ SessionOf[p] # None)
           /\ ~ (c.verdict /\ c.op = "release" /\ ~ Sweeping(p))
           /\ ~ (c.op = "clear" /\ SessionOf[p] # None /\ mapping[SessionOf[p]] # None)
  <2>1. work'[p].next = None
    BY <1>5 DEF Drawn
  <2> QED
    BY <1>5, <2>1 DEF DrawnFrom, SameCommand, Sweeping
<1> QED
  BY <1>2, <1>3, <1>4, <1>5

LEMMA MappingDrawnKept ==
  ASSUME TypeOK, Fields, LockHeld, MappingDrawn, [Next]_vars, ~ ReusesInodes
  PROVE  MappingDrawn'
<1>1. CASE UNCHANGED vars
  BY <1>1 DEF MappingDrawn, DrawnFrom, Sweeping, vars
<1>2. SUFFICES ASSUME NEW p \in Processes,
                      \/ Start(p) \/ Step(p) \/ Acquire(p)
                      \/ PublishFails(p) \/ MarkFails(p) \/ Kill(p)
               PROVE  MappingDrawn'
  BY <1>1 DEF Next
<1> DEFINE Drew(q) == \/ work[q].at = "acquire" /\ work[q].ino = ino
                      \/ work[q].at \in {"commit", "publish", "detach", "judge"}
<1>3. \A q \in Processes \ {p} : work'[q] = work[q]
  BY <1>2, Proceeds, Starts
<1>4. work[p] \in WorkTypes /\ WellFormed(work[p]) /\ (Drew(p) => DrawnFrom(p))
  BY DEF TypeOK, Fields, MappingDrawn
<1>5. ASSUME NEW q \in Processes, ~ Publish(p), Publish(q) PROVE FALSE
  <2>1. q # p /\ work[q].at \in {"publish", "commit"}
    BY <1>5 DEF Publish, Publishing
  <2>2. work'[q] # work[q]
    <3>1. OnwardFrom(work[q], "mark").at = "mark" /\ OnwardFrom(work[q], "detach").at = "detach"
      BY OnwardFields DEF TypeOK
    <3>2. work'[q] \in {OnwardFrom(work[q], "mark"), OnwardFrom(work[q], "detach"), Idle}
      BY <1>5, Publishes DEF Publish
    <3> QED
      BY <2>1, <3>1, <3>2, IdleFields
  <2> QED
    BY <1>3, <2>1, <2>2
\* What the others drew up.
<1>6. ASSUME NEW q \in Processes \ {p}, Drew(q)' PROVE DrawnFrom(q)'
  <2>1. work'[q] = work[q]
    BY <1>3
  <2>2. CASE mapping' = mapping /\ ino' = ino
    <3>1. DrawnFrom(q)
      BY <1>6, <2>1, <2>2 DEF MappingDrawn
    <3> QED
      BY <2>1, <2>2, <3>1 DEF DrawnFrom, Sweeping
  <2>3. CASE ~ (mapping' = mapping /\ ino' = ino)
    <3>1. Publish(p)
      BY <1>5, <2>3, MappingUnchanged
    <3>2. lock = p
      BY <3>1 DEF Publish, Publishing, LockHeld
    <3>3. work[q].at \notin {"commit", "publish", "detach", "judge"}
      BY <3>2 DEF LockHeld
    <3>4. PICK i \in Inodes : Allocated(i) /\ ino' = i
      BY <2>3, <3>1 DEF Publish
    <3>5. i # work[q].ino
      BY <3>4 DEF Allocated
    <3> QED
      BY <1>6, <2>1, <3>3, <3>4, <3>5
  <2> QED
    BY <2>2, <2>3
\* What it drew up itself.
<1>7. ASSUME Drew(p)' PROVE DrawnFrom(p)'
  <2>1. CASE Draw(p)
    <3>1. mapping' = mapping
      BY <2>1 DEF Draw
    <3>2. work'[p].next = Drawn(p) /\ work'[p].verdict = work[p].verdict
      <4>1. \/ work'[p] = [work[p] EXCEPT !.next = Drawn(p), !.at = "commit", !.seen = 0,
                                         !.ino = None, !.tries = 0]
            \/ work'[p] = [work[p] EXCEPT !.next = Drawn(p), !.at = "acquire"]
        BY <2>1, Draws
      <4> QED
        BY <1>4, <4>1 DEF WorkTypes
    <3> QED
      BY <2>1, <3>1, <3>2, Draws, DrawnAfresh, IdentityAssumption
  <2>2. CASE /\ work'[p] = OnwardFrom(work[p], "detach")
    <3>1. work'[p].verdict = FALSE /\ work'[p].next = None
      BY <1>4, <2>2, OnwardFields
    <3> QED
      BY <3>1 DEF DrawnFrom
  <2>3. ASSUME /\ SameCaller(work[p], work'[p]) /\ work'[p].op = work[p].op
               /\ work'[p].res = work[p].res /\ work'[p].next = work[p].next
               /\ work'[p].verdict = work[p].verdict,
               mapping' = mapping, DrawnFrom(p),
               work'[p].left = work[p].left \/ (work[p].left # {} /\ work'[p].left # {})
        PROVE  DrawnFrom(p)'
    BY <2>3 DEF DrawnFrom, SameCaller, Sweeping
  <2>4. CASE ~ Draw(p) /\ work'[p] # OnwardFrom(work[p], "detach")
    <3>1. /\ SameCaller(work[p], work'[p]) /\ work'[p].op = work[p].op
          /\ work'[p].res = work[p].res /\ work'[p].next = work[p].next
          /\ work'[p].verdict = work[p].verdict
          /\ work'[p].left = work[p].left \/ (work[p].left # {} /\ work'[p].left # {})
          /\ (Acquire(p) /\ StillCurrent(p) /\ work[p].at = "acquire")
             \/ work[p].at \in {"commit", "detach", "judge"}
          /\ work'[p].at \in {"commit", "publish", "detach", "judge"}
      BY <1>2, <1>7, <2>4, Follows
    <3>2. Drew(p)
      BY <3>1 DEF StillCurrent
    <3>3. ~ Publish(p)
      <4>1. ASSUME Publish(p) PROVE work'[p].at \in {"mark", "idle"}
                                    \/ work'[p] = OnwardFrom(work[p], "detach")
        BY <1>4, <4>1, Publishes, OnwardFields, IdleFields DEF Publish
      <4> QED
        BY <2>4, <3>1, <4>1
    <3>4. mapping' = mapping
      BY <1>5, <3>3, MappingUnchanged
    <3> QED
      BY <1>4, <2>3, <3>1, <3>2, <3>4
  <2> QED
    BY <2>1, <2>2, <2>4
<1> QED
  BY <1>6, <1>7 DEF MappingDrawn

(* Where an inode is not given again while it is remembered, nobody's          *)
(* publication takes back another session's entry (SessionMappingChange and    *)
(* SessionMappingVersion, session/mod.rs:253 and :430).                         *)
THEOREM OthersStay ==
  ASSUME ~ ReusesInodes
  PROVE  Spec => OthersKept
<1> DEFINE Inv == TypeOK /\ Fields /\ LockHeld /\ Judged /\ Appended /\ MappingDrawn
<1>1. Init => Inv
  <2> SUFFICES ASSUME Init PROVE Inv
    OBVIOUS
  <2>1. TypeOK
    BY IdleTyped, IdentityAssumption DEF Init, TypeOK, Free, Entries, AllRuns
  <2>2. \A p \in Processes : work[p] = Idle
    BY DEF Init
  <2>3. LockHeld /\ Judged /\ Appended /\ MappingDrawn
    BY <2>2, IdleFields DEF LockHeld, Judged, JudgedOf, Appended, AppendedBy, MappingDrawn
  <2>4. Fields
    BY <2>2 DEF Fields, WellFormed, Idle
  <2> QED
    BY <2>1, <2>3, <2>4
<1> DEFINE Kept == \A s \in Sessions : mapping'[s] # mapping[s] =>
          \/ \E p \in Processes : SessionOf[p] = s /\ Publishing(p) /\ work'[p] # work[p]
          \/ mapping'[s] = None /\ res[mapping[s].res].stage = "ended"
<1>2. Inv /\ [Next]_vars => Inv'
  BY TypesKept, FieldsKept, LockHeldKept, JudgedKept, AppendedKept, MappingDrawnKept
<1>3. Inv /\ [Next]_vars => Kept
  <2> SUFFICES ASSUME Inv, [Next]_vars, NEW s \in Sessions, mapping'[s] # mapping[s]
               PROVE  \/ \E p \in Processes : /\ SessionOf[p] = s /\ Publishing(p)
                                              /\ work'[p] # work[p]
                      \/ mapping'[s] = None /\ res[mapping[s].res].stage = "ended"
    OBVIOUS
  <2>1. PICK p \in Processes : Publish(p)
    BY MappingUnchanged
  <2>2. Publishing(p) /\ mapping' = work[p].next /\ work[p].next # None
    BY <2>1 DEF Publish
  <2>3. DrawnFrom(p) /\ AppendedBy(p) /\ work[p] \in WorkTypes
    BY <2>2 DEF Publishing, MappingDrawn, Appended, TypeOK
  <2>4. CASE work[p].op = "release"
    <3>1. mapping[s] # None /\ mapping[s].res = work[p].res /\ mapping'[s] = None
      BY <2>2, <2>3, <2>4 DEF DrawnFrom
    <3>2. work[p].at = "publish"
      BY <2>2, <2>4 DEF Publishing
    <3> QED
      BY <2>3, <2>4, <3>1, <3>2 DEF AppendedBy
  <2>5. CASE work[p].op # "release"
    <3>1. SessionOf[p] = s
      BY <2>2, <2>3, <2>5 DEF DrawnFrom
    <3>2. work'[p].at \in {"mark", "detach", "idle"}
      <4>1. /\ OnwardFrom(work[p], "mark").at = "mark"
            /\ OnwardFrom(work[p], "detach").at = "detach"
        BY <2>3, OnwardFields
      <4> QED
        BY <2>1, <4>1, Publishes, IdleFields DEF Publish
    <3>3. work'[p] # work[p]
      BY <2>2, <3>2 DEF Publishing
    <3> QED
      BY <2>2, <3>1, <3>3
  <2> QED
    BY <2>4, <2>5
<1> QED
  BY <1>1, <1>2, <1>3, PTL DEF Spec, OthersKept

-----------------------------------------------------------------------------
LEMMA EntriesKept ==
  ASSUME TypeOK, Fields, LockHeld, Claiming, Judged, Appended, MappingDrawn, EntriesFollow,
         [Next]_vars
  PROVE  EntriesFollow'
<1> DEFINE Good(s) == /\ res[mapping[s].res].stage = "active"
                      /\ res[mapping[s].res].run = mapping[s].run
           Leaving(s) == \E p \in Processes : /\ work[p].at = "publish"
                                              /\ work[p].op = "release"
                                              /\ work[p].res = mapping[s].res
<1>1. CASE UNCHANGED vars
  BY <1>1 DEF EntriesFollow, vars
<1>2. SUFFICES ASSUME NEW p \in Processes,
                      \/ Start(p) \/ Step(p) \/ Acquire(p)
                      \/ PublishFails(p) \/ MarkFails(p) \/ Kill(p),
                      faults' = 0, NEW s \in Sessions, mapping'[s] # None
               PROVE  Good(s)' \/ Leaving(s)'
  BY <1>1 DEF Next, EntriesFollow
<1>3. /\ \A q \in Processes \ {p} : work'[q] = work[q]
      /\ work[p] \in WorkTypes /\ WellFormed(work[p]) /\ AppendedBy(p)
      /\ mapping \in [Sessions -> Entries]
  BY <1>2, Proceeds, Starts DEF TypeOK, Fields, Appended
<1>4. ~ (PublishFails(p) \/ MarkFails(p) \/ Kill(p)) /\ faults = 0
  <2>1. faults \in Nat
    BY DEF TypeOK
  <2>2. ~ (PublishFails(p) \/ MarkFails(p) \/ Kill(p))
    BY <1>2, <2>1 DEF PublishFails, MarkFails, Kill
  <2>3. ASSUME Start(p) PROVE faults' = faults
    BY <2>3 DEF Start, BeginClaim, BeginSelect, Begin, BeginRelease, BeginBoard, BeginDrift,
                BeginClear, BeginOther
  <2>4. ASSUME Step(p) \/ Acquire(p) PROVE faults' = faults
    BY <2>4 DEF Step, ReadMarker, Read, Draw, Refuse, Append, Publish, Mark, LookAtMarker,
                Detach, Judge, Acquire
  <2> QED
    BY <1>2, <2>2, <2>3, <2>4
<1>5. mapping[s] # None => Good(s) \/ Leaving(s)
  BY <1>4 DEF EntriesFollow
\* Whoever is about to publish holds the lock.
<1>6. ASSUME lock = p, mapping[s] # None
      PROVE  Good(s) \/ (work[p].at = "publish" /\ work[p].op = "release"
                         /\ work[p].res = mapping[s].res)
  BY <1>5, <1>6 DEF LockHeld
<1>7. CASE Append(p)
  <2>1. mapping' = mapping
    BY <1>7 DEF Append
  <2>2. /\ lock = p /\ work[p].at = "commit" /\ work'[p].at = "publish"
        /\ work[p].res \in Reservations
        /\ \A r \in Reservations \ {work[p].res} : res'[r] = res[r]
    BY <1>7, Appends
  <2>3. Good(s)
    BY <1>2, <1>6, <2>1, <2>2
  <2>4. mapping[s].res \in Reservations
    BY <1>2, <1>3, <2>1 DEF Entries
  <2>5. CASE mapping[s].res # work[p].res
    BY <2>1, <2>2, <2>3, <2>4, <2>5
  <2>6. CASE mapping[s].res = work[p].res
    <3>1. work[p].op = "release"
      BY <1>7, <2>2, <2>3, <2>6, Appends DEF Claiming
    <3>2. work'[p].op = "release" /\ work'[p].res = work[p].res
      BY <1>7, <3>1, Goes DEF Append, SameCommand
    <3> QED
      BY <2>1, <2>2, <2>6, <3>2
  <2> QED
    BY <2>5, <2>6
<1>8. CASE Publish(p)
  <2>1. Publishing(p) /\ res' = res /\ lock = p
    BY <1>8 DEF Publish, Publishing, LockHeld
  <2>2. CASE work[p].next = None
    <3>1. mapping' = mapping
      BY <1>8, <2>2 DEF Publish
    <3>2. DrawnFrom(p)
      BY <2>1 DEF MappingDrawn, Publishing
    <3>3. work[p].op = "release" => Sweeping(p)
      <4>1. work[p].op = "release" => work[p].at = "publish"
        BY <2>1 DEF Publishing
      <4> QED
        BY <1>3, <2>2, <3>2, <4>1 DEF DrawnFrom, AppendedBy
    <3>4. work[p].at = "publish" /\ work[p].op = "release" => ~ Sweeping(p)
      BY <1>3 DEF WellFormed, Sweeping
    <3> QED
      BY <1>2, <1>6, <2>1, <3>1, <3>3, <3>4
  <2>3. CASE work[p].next # None
    <3>1. mapping' = work[p].next /\ DrawnFrom(p)
      BY <1>8, <2>1, <2>3 DEF Publish, MappingDrawn, Publishing
    <3>2. CASE mapping'[s] = mapping[s]
      <4>1. ASSUME work[p].op = "release", work[p].res = mapping[s].res PROVE FALSE
        BY <1>2, <2>3, <3>1, <3>2, <4>1 DEF DrawnFrom
      <4> QED
        BY <1>2, <1>6, <2>1, <3>2, <4>1
    <3>3. CASE mapping'[s] # mapping[s]
      <4>1. /\ work[p].op \in {"claim", "select"}
            /\ mapping'[s] = [res |-> work[p].res, run |-> work[p].run]
        BY <1>2, <2>3, <3>1, <3>3 DEF DrawnFrom
      <4>2. CASE work[p].op = "claim"
        <5>1. work[p].at = "publish"
          BY <2>1, <4>2 DEF Publishing
        <5>2. res[work[p].res].stage = "active" /\ res[work[p].res].run = work[p].run
          BY <1>3, <4>2, <5>1 DEF AppendedBy
        <5> QED
          BY <2>1, <4>1, <5>2
      <4>3. CASE work[p].op = "select"
        <5>1. work[p].at = "commit" /\ work[p].verdict
          BY <1>3, <2>1, <4>3 DEF Publishing, WellFormed
        <5>2. Admitted(p)
          BY <4>3, <5>1 DEF Judged, JudgedOf
        <5>3. res[work[p].res].stage = "active" /\ res[work[p].res].run = work[p].run
          BY <4>3, <5>2 DEF Admitted
        <5> QED
          BY <2>1, <4>1, <5>3
      <4> QED
        BY <4>1, <4>2, <4>3
    <3> QED
      BY <3>2, <3>3
  <2> QED
    BY <2>2, <2>3
<1>9. CASE ~ Append(p) /\ ~ Publish(p)
  <2>1. mapping' = mapping /\ res' = res
    <3>1. CASE Start(p)
      BY <3>1 DEF Start, BeginClaim, BeginSelect, Begin, BeginRelease, BeginBoard,
                  BeginDrift, BeginClear, BeginOther
    <3>2. CASE Step(p) \/ Acquire(p)
      BY <1>9, <3>2 DEF Step, ReadMarker, Read, Draw, Refuse, Mark, LookAtMarker, Detach,
                        Judge, Acquire
    <3> QED
      BY <1>2, <1>4, <3>1, <3>2
  <2>2. work[p].at # "publish"
    BY <1>2, <1>4, <1>9 DEF Step, Start, BeginClaim, BeginSelect, Begin, BeginRelease,
       BeginBoard, BeginDrift, BeginClear, BeginOther, ReadMarker, Read, Draw, Refuse, Mark,
       LookAtMarker, Detach, Judge, Acquire
  <2>3. Good(s) \/ \E q \in Processes \ {p} : /\ work[q].at = "publish"
                                              /\ work[q].op = "release"
                                              /\ work[q].res = mapping[s].res
    BY <1>2, <1>5, <2>1, <2>2
  <2> QED
    BY <1>3, <2>1, <2>3
<1> QED
  BY <1>7, <1>8, <1>9

(* Without a fault, a mapped session has an active reservation of its run      *)
(* whenever nobody holds the lock (prepare_sequence, session/mod.rs:612, under  *)
(* transact_with_committed_action, ledger/handle.rs:755).                      *)
THEOREM SessionsFollow ==
  ASSUME ~ ReusesInodes
  PROVE  Spec => []SessionsActive
<1> DEFINE Inv == /\ TypeOK /\ Fields /\ LockHeld /\ Claiming /\ Judged /\ Appended
                  /\ MappingDrawn /\ EntriesFollow
<1>1. Init => Inv
  <2> SUFFICES ASSUME Init PROVE Inv
    OBVIOUS
  <2>1. TypeOK
    BY IdleTyped, IdentityAssumption DEF Init, TypeOK, Free, Entries, AllRuns
  <2>2. \A p \in Processes : work[p] = Idle
    BY DEF Init
  <2>3. LockHeld /\ Claiming /\ Judged /\ Appended /\ MappingDrawn
    BY <2>2, IdleFields
       DEF LockHeld, Claiming, Judged, JudgedOf, Appended, AppendedBy, MappingDrawn
  <2>4. Fields
    BY <2>2 DEF Fields, WellFormed, Idle
  <2>5. EntriesFollow
    BY DEF Init, EntriesFollow
  <2> QED
    BY <2>1, <2>3, <2>4, <2>5
<1>2. Inv /\ [Next]_vars => Inv'
  BY TypesKept, FieldsKept, LockHeldKept, ClaimingKept, JudgedKept, AppendedKept,
     MappingDrawnKept, EntriesKept
<1>3. Inv => SessionsActive
  BY IdentityAssumption DEF LockHeld, EntriesFollow, SessionsActive
<1> QED
  BY <1>1, <1>2, <1>3, PTL DEF Spec

-----------------------------------------------------------------------------
(* Markers. *)

LEMMA TreeKept ==
  ASSUME NEW q \in Processes, work'[q] = work[q]
  PROVE  Tree(q)' = Tree(q)
  BY DEF Tree, Sweeping

LEMMA MarkersUnchanged ==
  ASSUME NEW p \in Processes,
         \/ Start(p) \/ Step(p) \/ Acquire(p) \/ PublishFails(p) \/ MarkFails(p) \/ Kill(p)
  PROVE  /\ ~ (Mark(p) \/ Detach(p) \/ Judge(p)) => marker' = marker
         /\ ~ (Append(p) \/ Mark(p)) => last' = last
         /\ ~ Kill(p) => stranded' = stranded
         /\ Append(p) => \A w \in Worktrees : last'[w] \in {last[w], None}
<1>1. CASE Start(p)
  <2>1. marker' = marker /\ last' = last /\ stranded' = stranded
    BY <1>1 DEF Start, BeginClaim, BeginSelect, Begin, BeginRelease, BeginBoard, BeginDrift,
                BeginClear, BeginOther
  <2>2. ASSUME Append(p) PROVE FALSE
    BY <1>1, <2>2 DEF Append, Start, BeginClaim, BeginSelect, Begin, BeginRelease,
                      BeginBoard, BeginDrift, BeginClear, BeginOther
  <2> QED
    BY <2>1, <2>2
<1>2. CASE Append(p)
  <2>1. marker' = marker /\ stranded' = stranded
    BY <1>2 DEF Append
  <2>2. last' = [w \in Worktrees |-> IF Active(res', last[w], w) THEN last[w] ELSE None]
    BY <1>2 DEF Append
  <2> QED
    BY <1>2, <2>1, <2>2
<1>3. CASE \/ ReadMarker(p) \/ Read(p) \/ Draw(p) \/ Refuse(p) \/ Publish(p)
           \/ LookAtMarker(p) \/ Acquire(p) \/ PublishFails(p) \/ MarkFails(p)
  <2>1. marker' = marker /\ last' = last /\ stranded' = stranded
    BY <1>3 DEF ReadMarker, Read, Draw, Refuse, Publish, LookAtMarker, Acquire,
                PublishFails, MarkFails
  <2> QED
    BY <1>2, <2>1
<1>4. CASE Mark(p) \/ Detach(p) \/ Judge(p)
  BY <1>2, <1>4 DEF Mark, Detach, Judge
<1>5. CASE Kill(p)
  BY <1>2, <1>5 DEF Kill
<1> QED
  BY <1>1, <1>2, <1>3, <1>4, <1>5 DEF Step

\* A marker is aside only because this step detached it, or because it was aside.
LEMMA Detached ==
  ASSUME TypeOK, Fields, LockHeld, NEW p \in Processes,
         Start(p) \/ Step(p) \/ Acquire(p) \/ PublishFails(p) \/ MarkFails(p) \/ Kill(p),
         work'[p].at = "judge"
  PROVE  /\ Detach(p) /\ Tree(p)' = Tree(p) /\ Tree(p) \in Worktrees
         /\ marker[Tree(p)] # None /\ work'[p].aside = marker[Tree(p)]
         /\ marker' = [marker EXCEPT ![Tree(p)] = None]
<1>1. work[p] \in WorkTypes
  BY DEF TypeOK
<1>2. Detach(p)
  <2>1. OnwardFrom(work[p], "detach").at = "detach"
    BY <1>1, OnwardFields
  <2> QED
    BY <2>1, Follows, Draws
<1>3. ~ Leave(p)
  <2>1. OnwardFrom(work[p], "read").at = "read"
    BY <1>1, OnwardFields
  <2>2. [work[p] EXCEPT !.at = "commit", !.left = @ \ {Tree(p)}, !.aside = None].at = "commit"
    BY <1>1 DEF WorkTypes
  <2> QED
    BY <2>1, <2>2, Leaves, IdleFields
<1>4. /\ marker[Tree(p)] # None /\ Tree(p) \in Worktrees
      /\ work'[p] = [work[p] EXCEPT !.at = "judge", !.aside = marker[Tree(p)]]
      /\ marker' = [marker EXCEPT ![Tree(p)] = None]
  BY <1>2, <1>3, Detaches
<1>5. /\ work'[p].aside = marker[Tree(p)] /\ work'[p].left = work[p].left
      /\ work'[p].tree = work[p].tree
  BY <1>1, <1>4 DEF WorkTypes
<1> QED
  BY <1>2, <1>4, <1>5 DEF Tree, Sweeping

\* What is aside and still active there is put back.
LEMMA NotRetired ==
  ASSUME TypeOK, Fields, Appended, NEW p \in Processes, work[p].at = "judge",
         work[p].aside \in AllRuns, ActiveHere(work[p].aside, Tree(p))
  PROVE  ~ Retired(p)
<1>1. CASE Sweeping(p)
  BY <1>1 DEF Retired
<1>2. CASE ~ Sweeping(p)
  <2>1. NoneActive(res[work[p].res].run)
    BY <1>2 DEF Appended, AppendedBy, Sweeping
  <2>2. work[p].aside # res[work[p].res].run
    BY <2>1 DEF NoneActive, ActiveHere, Active
  <2> QED
    BY <1>2, <2>2 DEF Retired
<1> QED
  BY <1>1, <1>2

LEMMA MarkersHold ==
  ASSUME TypeOK, Fields, LockHeld, Appended, LastActive, MarkerKept, [Next]_vars
  PROVE  LastActive' /\ MarkerKept'
<1> DEFINE Aside(w) == \E q \in Processes : /\ work[q].at = "judge" /\ Tree(q) = w
                                            /\ work[q].aside = last[w]
           Kept(w) == marker[w] = last[w] \/ <<w, last[w]>> \in stranded \/ Aside(w)
           Known(w) == /\ ActiveHere(last[w], w)
                       /\ marker[w] # None => marker[w] = last[w]
                       /\ \A q \in Processes :
                             work[q].at = "judge" /\ Tree(q) = w /\ marker[w] = None =>
                                 work[q].aside = last[w]
<1>1. CASE UNCHANGED vars
  BY <1>1 DEF LastActive, MarkerKept, ActiveHere, Active, Tree, Sweeping, vars
<1>2. SUFFICES ASSUME NEW p \in Processes,
                      \/ Start(p) \/ Step(p) \/ Acquire(p)
                      \/ PublishFails(p) \/ MarkFails(p) \/ Kill(p),
                      NEW w \in Worktrees, last'[w] # None
               PROVE  Known(w)' /\ Kept(w)'
  BY <1>1 DEF Next, LastActive, MarkerKept
<1>3. /\ \A q \in Processes \ {p} : work'[q] = work[q] /\ Tree(q)' = Tree(q)
      /\ None \notin AllRuns
  BY <1>2, Proceeds, Starts, TreeKept, IdentityAssumption DEF AllRuns
<1>4. last[w] # None => Known(w) /\ Kept(w) /\ last[w] \in AllRuns
  BY DEF LastActive, MarkerKept, TypeOK
<1>5. marker \in [Worktrees -> AllRuns \cup {None, Malformed, Unreadable}]
  BY DEF TypeOK
\* Only the holder of the lock judges.
<1>6. ASSUME lock = p, NEW q \in Processes, work[q].at = "judge" PROVE q = p
  BY <1>6 DEF LockHeld
<1>7. ASSUME ~ Append(p) PROVE ActiveHere(last[w], w) => Active(res', last[w], w)
  <2>1. ASSUME NEW q \in Processes, Append(q) PROVE FALSE
    BY <1>3, <1>7, <2>1, Appends
  <2>2. res' = res
    BY <2>1, RecordsKept
  <2> QED
    BY <2>2 DEF ActiveHere
<1>8. CASE Append(p)
  <2>1. /\ lock = p /\ work[p].at = "commit" /\ work'[p].at = "publish"
        /\ marker' = marker /\ stranded' = stranded /\ last'[w] = last[w]
    BY <1>2, <1>8, Appends, MarkersUnchanged DEF Append
  <2>2. Active(res', last[w], w)
    <3>1. last' = [x \in Worktrees |-> IF Active(res', last[x], x) THEN last[x] ELSE None]
      BY <1>8 DEF Append
    <3> QED
      BY <1>2, <3>1
  <2>3. \A q \in Processes : work'[q].at # "judge" /\ work[q].at # "judge"
    BY <1>3, <1>6, <2>1
  <2>4. ActiveHere(last[w], w)'
    BY <2>1, <2>2 DEF ActiveHere
  <2> QED
    BY <1>2, <1>4, <2>1, <2>2, <2>3 DEF ActiveHere
<1>9. CASE Mark(p)
  <2>1. /\ marker' = [marker EXCEPT ![work[p].tree] = work[p].run] /\ res' = res
        /\ last' = [last EXCEPT ![work[p].tree] =
                       IF ActiveHere(work[p].run, work[p].tree) THEN work[p].run ELSE None]
        /\ stranded' = stranded /\ work[p].at = "mark"
    BY <1>9 DEF Mark
  <2>2. work[p].run \in AllRuns /\ work[p].tree \in Worktrees /\ work'[p].at = "idle"
    BY <1>9, <2>1, Finishes, IdleFields DEF Mark, Fields, WellFormed
  <2>3. CASE w = work[p].tree
    <3>1. /\ last'[w] = work[p].run /\ marker'[w] = work[p].run /\ ActiveHere(work[p].run, w)
      BY <1>2, <1>5, <2>1, <2>2, <2>3 DEF TypeOK
    <3>2. ActiveHere(last[w], w)'
      BY <2>1, <3>1 DEF ActiveHere
    <3> QED
      BY <1>3, <2>2, <3>1, <3>2
  <2>4. CASE w # work[p].tree
    <3>1. last'[w] = last[w] /\ marker'[w] = marker[w]
      BY <1>5, <2>1, <2>2, <2>4 DEF TypeOK
    <3>2. ActiveHere(last[w], w)'
      BY <1>2, <1>4, <2>1, <3>1 DEF ActiveHere
    <3> QED
      BY <1>2, <1>3, <1>4, <2>1, <2>2, <3>1, <3>2
  <2> QED
    BY <2>3, <2>4
<1>10. CASE ~ Append(p) /\ ~ Mark(p)
  <2>1. last' = last
    BY <1>2, <1>10, MarkersUnchanged
  <2>2. ActiveHere(last[w], w)'
    BY <1>2, <1>4, <1>7, <1>10, <2>1 DEF ActiveHere
  <2>3. Known(w) /\ Kept(w) /\ last[w] \in AllRuns
    BY <1>2, <1>4, <2>1
  <2>4. CASE work'[p].at = "judge"
    <3>1. /\ Detach(p) /\ Tree(p)' = Tree(p) /\ Tree(p) \in Worktrees
          /\ marker[Tree(p)] # None /\ work'[p].aside = marker[Tree(p)]
          /\ marker' = [marker EXCEPT ![Tree(p)] = None]
      BY <1>2, <2>4, Detached
    <3>2. /\ work[p].at = "detach" /\ stranded' = stranded /\ lock = p
      BY <3>1 DEF Detach, LockHeld
    <3>3. \A q \in Processes : work[q].at # "judge"
      BY <1>6, <3>2
    <3>4. CASE w = Tree(p)
      BY <1>3, <1>5, <2>1, <2>2, <2>3, <2>4, <3>1, <3>2, <3>3, <3>4
    <3>5. CASE w # Tree(p)
      BY <1>3, <1>5, <2>1, <2>2, <2>3, <2>4, <3>1, <3>2, <3>3, <3>5
    <3> QED
      BY <3>4, <3>5
  <2>5. CASE Judge(p)
    <3>1. /\ lock = p /\ work[p].at = "judge" /\ stranded' = stranded
          /\ marker' = IF Retired(p) \/ marker[Tree(p)] # None
                       THEN marker ELSE [marker EXCEPT ![Tree(p)] = work[p].aside]
      BY <2>5 DEF Judge, LockHeld
    <3>2. \A q \in Processes : work[q].at = "judge" => q = p
      BY <1>6, <3>1
    <3>3. work'[p].at # "judge"
      <4>1. ASSUME Detach(p) PROVE FALSE
        BY <3>1, <4>1 DEF Detach
      <4> QED
        BY <1>2, <4>1, Detached
    <3>4. \A q \in Processes : work'[q].at # "judge"
      BY <1>3, <3>2, <3>3
    <3>5. CASE w = Tree(p)
      <4>1. CASE marker[w] # None
        BY <2>1, <2>2, <2>3, <3>1, <3>4, <3>5, <4>1
      <4>2. CASE marker[w] = None
        <5>1. work[p].aside = last[w]
          BY <2>3, <3>1, <3>5, <4>2
        <5>2. ~ Retired(p)
          BY <2>3, <3>1, <3>5, <5>1, NotRetired
        <5>3. marker'[w] = last[w]
          BY <1>5, <3>1, <3>5, <4>2, <5>1, <5>2
        <5> QED
          BY <2>1, <2>2, <3>4, <5>3
      <4> QED
        BY <4>1, <4>2
    <3>6. CASE w # Tree(p)
      <4>1. marker'[w] = marker[w]
        BY <1>5, <3>1, <3>6
      <4> QED
        BY <2>1, <2>2, <2>3, <3>1, <3>2, <3>4, <3>6, <4>1
    <3> QED
      BY <3>5, <3>6
  <2>6. CASE work'[p].at # "judge" /\ ~ Judge(p)
    <3>1. marker'[w] = marker[w]
      <4>1. CASE Detach(p)
        <5>1. ~ (work'[p] = [work[p] EXCEPT !.at = "judge", !.aside = marker[Tree(p)]])
          BY <2>6 DEF TypeOK, WorkTypes
        <5> QED
          BY <4>1, <5>1, Detaches
      <4> QED
        BY <1>2, <1>10, <2>6, <4>1, MarkersUnchanged
    <3>2. CASE Kill(p)
      <4>1. stranded \subseteq stranded' /\
            (work[p].at = "judge" => <<Tree(p), work[p].aside>> \in stranded')
        BY <3>2 DEF Kill
      <4> QED
        BY <1>3, <2>1, <2>2, <2>3, <2>6, <3>1, <4>1
    <3>3. CASE ~ Kill(p)
      <4>1. stranded' = stranded
        BY <1>2, <3>3, MarkersUnchanged
      <4>2. work[p].at # "judge"
        <5>1. CASE Start(p)
          BY <5>1, Starts
        <5>2. CASE Acquire(p) \/ PublishFails(p) \/ MarkFails(p)
          BY <5>2 DEF Acquire, PublishFails, MarkFails, Publishing
        <5>3. CASE Step(p)
          BY <2>6, <5>3 DEF Step, ReadMarker, Read, Draw, Refuse, Append, Publish,
                            Publishing, Mark, LookAtMarker, Detach
        <5> QED
          BY <1>2, <3>3, <5>1, <5>2, <5>3
      <4> QED
        BY <1>3, <2>1, <2>2, <2>3, <2>6, <3>1, <4>1, <4>2
    <3> QED
      BY <3>2, <3>3
  <2> QED
    BY <2>4, <2>5, <2>6
<1> QED
  BY <1>8, <1>9, <1>10

(* The run marked last in a worktree keeps its marker while it is active there *)
(* (CoordinationRunMarker::retire and RetiredMarker::restore,                  *)
(* coordination_run_marker.rs:49 and :123).                                    *)
THEOREM MarkersKept == Spec => []MarkerKept
<1> DEFINE Inv == /\ TypeOK /\ Fields /\ LockHeld /\ Judged /\ Appended
                  /\ LastActive /\ MarkerKept
<1>1. Init => Inv
  <2> SUFFICES ASSUME Init PROVE Inv
    OBVIOUS
  <2>1. TypeOK
    BY IdleTyped, IdentityAssumption DEF Init, TypeOK, Free, Entries, AllRuns
  <2>2. \A p \in Processes : work[p] = Idle
    BY DEF Init
  <2>3. LockHeld /\ Judged /\ Appended
    BY <2>2, IdleFields DEF LockHeld, Judged, JudgedOf, Appended, AppendedBy
  <2>4. Fields
    BY <2>2 DEF Fields, WellFormed, Idle
  <2>5. LastActive /\ MarkerKept
    BY DEF Init, LastActive, MarkerKept
  <2> QED
    BY <2>1, <2>3, <2>4, <2>5
<1>2. Inv /\ [Next]_vars => Inv'
  BY TypesKept, FieldsKept, LockHeldKept, JudgedKept, AppendedKept, MarkersHold
<1>3. Inv => MarkerKept
  OBVIOUS
<1> QED
  BY <1>1, <1>2, <1>3, PTL DEF Spec

=============================================================================
