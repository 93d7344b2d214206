---------------------------- MODULE BypassAudit ----------------------------
(***************************************************************************)
(* The audit of environment bypasses.  An operation that CARGO_BERTH_BYPASS *)
(* lets through is appended to the journal if the lock is free, else left   *)
(* as a marker file in the common Git directory; when the engine fails, the *)
(* reference-transaction hook leaves a marker in shell.  Reconciliations    *)
(* import markers into the journal and, for a board, delete them.  The      *)
(* repository is enrolled.  A journal record is reduced to the bypass it    *)
(* records and the marker name it was imported from.                        *)
(***************************************************************************)
EXTENDS Naturals, Sequences, FiniteSets

CONSTANTS
    Bypasses,     \* the operations the override let through
    Edits,        \* those of the edit hook, which has no shell behind it
    Shell,        \* Shell[b]: the process id of the hook that runs b
    Passes,       \* the processes that reconcile
    Boards,       \* those that report: board reads
    Covering,     \* those whose first pass may create a cover
    MaxAttempts,  \* optimistic preparations before one under the lock
    MaxFaults,    \* bound: kills and failed system calls
    None          \* no lock holder, no marker name

\* A name is a v7 UUID, which the bypass it was made for stands for, or a
\* process id with a sequence number.
Names == [base : Bypasses \cup {Shell[b] : b \in Bypasses},
          seq : 0 .. Cardinality(Bypasses)]

ASSUME AuditAssumption ==
    /\ IsFiniteSet(Bypasses)
    /\ Edits \subseteq Bypasses
    /\ DOMAIN Shell = Bypasses
    /\ \A b \in Bypasses : Shell[b] \notin Bypasses
    /\ Boards \subseteq Passes /\ Covering \subseteq Passes
    /\ Bypasses \cap Passes = {}
    /\ None \notin Bypasses \cup Passes \cup Names
    /\ MaxAttempts \in Nat \ {0} /\ MaxFaults \in Nat

VARIABLES
    dir,      \* the marker files: name, whose bypass, whether written whole
    journal,  \* the Bypass records
    lock,     \* who holds the mutation lock, or None
    at,       \* at[b]: where the recording of b is
    marker,   \* marker[b]: the name of its file, a variable of b's shell
    work,     \* work[r]: where pass r is and what it has prepared
    faults

vars == <<dir, journal, lock, at, marker, work, faults>>

Marker(n, b, w) == [name |-> n, of |-> b, whole |-> w]
Record(b, n) == [of |-> b, via |-> n]

Idle == [at |-> "idle", attempt |-> 0, seen |-> 0, left |-> {},
         imports |-> {}, done |-> {}, unread |-> {}, second |-> FALSE,
         owed |-> {}]

Init ==
    /\ dir = {} /\ journal = <<>> /\ lock = None
    /\ at = [b \in Bypasses |-> "idle"] /\ marker = [b \in Bypasses |-> None]
    /\ work = [r \in Passes |-> Idle]
    /\ faults = 0

Retained == {"retained", "printed"}  \* by the engine, by the hook's shell
Ended == {"idle", "lost"} \cup Retained
InEngine == {"engine", "locked", "appended", "marking", "writing", "written"}
InShell == {"fallback", "printing"}

Fault == faults < MaxFaults /\ faults' = faults + 1
Released(p) == lock' = IF lock = p THEN None ELSE lock
Goto(b, step) == at' = [at EXCEPT ![b] = step]
\* The engine ends without having retained the fact: the hook's shell goes on.
Unrecorded(b) == Goto(b, IF b \in Edits THEN "lost" ELSE "fallback")

----------------------------------------------------------------------------
\* A process id belongs to one living process.
Invoke(b) ==
    /\ at[b] = "idle"
    /\ \A c \in Bypasses : Shell[c] = Shell[b] => at[c] \in Ended
    /\ \/ Goto(b, "engine")
       \/ b \notin Edits /\ Goto(b, "fallback")  \* the executable is missing
    /\ UNCHANGED <<dir, journal, lock, work, faults, marker>>

TakeLock(b) ==
    /\ at[b] = "engine" /\ lock = None
    /\ lock' = b
    /\ Goto(b, "locked")
    /\ UNCHANGED <<dir, journal, work, faults, marker>>

\* The direct append never waits behind a holder.
Contended(b) ==
    /\ at[b] = "engine" /\ lock # None
    /\ Goto(b, "marking")
    /\ UNCHANGED <<dir, journal, lock, work, faults, marker>>

AppendDirect(b) ==
    /\ at[b] = "locked"
    /\ journal' = Append(journal, Record(b, None))
    /\ Goto(b, "appended")
    /\ UNCHANGED <<dir, lock, work, faults, marker>>

PublishDirect(b) ==
    /\ at[b] = "appended"
    /\ lock' = None
    /\ Goto(b, "retained")
    /\ UNCHANGED <<dir, journal, work, faults, marker>>

\* Any error leads to the marker, one after the durable append too.
DirectFails(b) ==
    /\ at[b] \in {"engine", "locked", "appended"}
    /\ Fault
    /\ Released(b)
    /\ Goto(b, "marking")
    /\ UNCHANGED <<dir, journal, work, marker>>

CreateMarker(b) ==
    /\ at[b] = "marking"
    /\ dir' = dir \cup {Marker([base |-> b, seq |-> 0], b, FALSE)}
    /\ Goto(b, "writing")
    /\ UNCHANGED <<journal, lock, work, faults, marker>>

\* Writing through the open file: nothing comes of it once it is deleted.
Complete(b, base) ==
    dir' = {IF m.of = b /\ m.name.base = base THEN [m EXCEPT !.whole = TRUE]
                                              ELSE m : m \in dir}

WriteMarker(b) ==
    /\ at[b] = "writing"
    /\ Complete(b, b)
    /\ Goto(b, "written")
    /\ UNCHANGED <<journal, lock, work, faults, marker>>

SyncMarker(b) ==
    /\ at[b] = "written"
    /\ Goto(b, "retained")
    /\ UNCHANGED <<dir, journal, lock, work, faults, marker>>

MarkerFails(b) ==
    /\ at[b] \in {"marking", "writing", "written"}
    /\ Fault
    /\ Unrecorded(b)
    /\ UNCHANGED <<dir, journal, lock, work, marker>>

\* The worktree is not found, or the engine is killed.
EngineEnds(b) ==
    /\ at[b] \in InEngine
    /\ Fault
    /\ Released(b)
    /\ Unrecorded(b)
    /\ UNCHANGED <<dir, journal, work, marker>>

\* The first free name of the process id, created without clobbering.
CreateFallback(b) ==
    /\ at[b] = "fallback"
    /\ \E s \in 0 .. Cardinality(Bypasses) :
          LET Name(t) == [base |-> Shell[b], seq |-> t] IN
          /\ \A t \in 0 .. s : (\E m \in dir : m.name = Name(t)) <=> t < s
          /\ dir' = dir \cup {Marker(Name(s), b, FALSE)}
          /\ marker' = [marker EXCEPT ![b] = Name(s)]
    /\ Goto(b, "printing")
    /\ UNCHANGED <<journal, lock, work, faults>>

PrintMarker(b) ==
    /\ at[b] = "printing"
    /\ Complete(b, Shell[b])
    /\ Goto(b, "printed")
    /\ UNCHANGED <<journal, lock, work, faults, marker>>

\* The hook permits the operation whatever becomes of its marker.
FallbackFails(b) ==
    /\ at[b] \in InShell
    /\ Fault
    /\ Goto(b, "lost")
    /\ UNCHANGED <<dir, journal, lock, work, marker>>

----------------------------------------------------------------------------
Do(r, w) == work' = [work EXCEPT ![r] = w]
Step(r, step) == Do(r, [work[r] EXCEPT !.at = step])
\* Mutant: a marker counts as imported if one of its process id was.
ImportedBase(n, k) ==
    \E i \in 1 .. k : journal[i].via # None /\ journal[i].via.base = n.base
Imported(n, k) == \E i \in 1 .. k : journal[i].via = n
Recorded(b) == \E i \in DOMAIN journal : journal[i].of = b

Begin(r) ==
    /\ work[r].at = "idle"
    /\ Do(r, [Idle EXCEPT !.at = "preparing",
                          !.owed = {b \in Bypasses : at[b] \in Retained}])
    /\ UNCHANGED <<dir, journal, lock, at, faults, marker>>

\* The journal is replayed, then the directory listed; each preparation
\* starts over.
Prepare(r) ==
    /\ work[r].at = "preparing"
    /\ Do(r, [work[r] EXCEPT !.at = "reading", !.seen = Len(journal),
                             !.left = {m.name : m \in dir},
                             !.imports = {}, !.done = {}, !.unread = {}])
    /\ UNCHANGED <<dir, journal, lock, at, faults, marker>>

WholeMarkers(n) == {m \in dir : m.name = n /\ m.whole}

\* Mutant: a marker already imported is passed over.
ReadMarkerOnce(r) ==
    /\ work[r].at = "reading"
    /\ \E n \in work[r].left :
          LET w == [work[r] EXCEPT !.left = @ \ {n}] IN
          \/ /\ WholeMarkers(n) = {}
             /\ Do(r, [w EXCEPT !.unread = @ \cup {n}])
          \/ /\ Imported(n, work[r].seen) /\ Do(r, w)
          \/ \E m \in WholeMarkers(n) :
                ~Imported(n, work[r].seen) /\ Do(r, [w EXCEPT !.imports = @ \cup {m}])
    /\ UNCHANGED <<dir, journal, lock, at, faults, marker>>

\* A marker torn, or gone since it was listed, counts as unrecorded; one
\* already imported only waits for its deletion.
ReadMarker(r) ==
    /\ work[r].at = "reading"
    /\ \E n \in work[r].left :
          LET w == [work[r] EXCEPT !.left = @ \ {n}] IN
          \/ /\ WholeMarkers(n) = {}
             /\ Do(r, [w EXCEPT !.unread = @ \cup {n}])
          \/ /\ WholeMarkers(n) # {} /\ Imported(n, work[r].seen)
             /\ Do(r, [w EXCEPT !.done = @ \cup {n}])
          \/ \E m \in WholeMarkers(n) :
                ~Imported(n, work[r].seen) /\ Do(r, [w EXCEPT !.imports = @ \cup {m}])
    /\ UNCHANGED <<dir, journal, lock, at, faults, marker>>

Prepared(r) == work[r].at = "reading" /\ work[r].left = {}

\* The lock is taken to check an optimistic preparation, or to prepare.
AcquireLock(r) ==
    /\ lock = None
    /\ \/ Prepared(r) /\ Step(r, "checking")
       \/ work[r].at = "waiting" /\ Step(r, "preparing")
    /\ lock' = r
    /\ UNCHANGED <<dir, journal, at, faults, marker>>

\* Mutant: an optimistic preparation is not checked against the journal.
RecheckNothing(r) ==
    /\ work[r].at = "checking"
    /\ Step(r, "importing")
    /\ UNCHANGED <<dir, journal, lock, at, faults, marker>>

Recheck(r) ==
    /\ work[r].at = "checking"
    /\ \/ /\ work[r].seen = Len(journal)
          /\ Step(r, "importing")
          /\ UNCHANGED lock
       \/ /\ work[r].seen # Len(journal)
          /\ lock' = None
          /\ Do(r, [work[r] EXCEPT !.attempt = @ + 1,
                !.at = IF work[r].attempt + 1 < MaxAttempts THEN "preparing"
                                                            ELSE "waiting"])
    /\ UNCHANGED <<dir, journal, at, faults, marker>>

\* A preparation made under the lock needs no check.
UseLockedPreparation(r) ==
    /\ Prepared(r) /\ lock = r
    /\ Step(r, "importing")
    /\ UNCHANGED <<dir, journal, lock, at, faults, marker>>

TimeOut(r) ==
    /\ lock \notin {None, r}
    /\ Prepared(r) \/ work[r].at = "waiting"
    /\ Do(r, Idle)
    /\ UNCHANGED <<dir, journal, lock, at, faults, marker>>

Import(r) ==
    /\ work[r].at = "importing"
    /\ \E m \in work[r].imports :
          /\ journal' = Append(journal, Record(m.of, m.name))
          /\ Do(r, [work[r] EXCEPT !.imports = @ \ {m},
                                   !.done = @ \cup {m.name}])
    /\ UNCHANGED <<dir, lock, at, faults, marker>>

\* Mutant: an import that fails is left for the next pass and not reported.
ImportFailsUnreported(r) ==
    /\ work[r].at = "importing"
    /\ Fault
    /\ \E m \in work[r].imports : Do(r, [work[r] EXCEPT !.imports = @ \ {m}])
    /\ UNCHANGED <<dir, journal, lock, at, marker>>

\* Imports are appended one by one; one that fails, its record durable or
\* not, is reported and its marker kept.
ImportFails(r) ==
    /\ work[r].at = "importing"
    /\ Fault
    /\ \E m \in work[r].imports :
          /\ \/ UNCHANGED journal
             \/ journal' = Append(journal, Record(m.of, m.name))
          /\ Do(r, [work[r] EXCEPT !.imports = @ \ {m},
                                   !.unread = @ \cup {m.name}])
    /\ UNCHANGED <<dir, lock, at, marker>>

\* Only a pass that reports deletes markers, those it will announce.
CommitRepairs(r) ==
    /\ work[r].at = "importing" /\ work[r].imports = {}
    /\ Do(r, [work[r] EXCEPT !.at = "deleting",
                             !.left = IF r \in Boards THEN work[r].done ELSE {}])
    /\ UNCHANGED <<dir, journal, lock, at, faults, marker>>

DeleteMarker(r) ==
    /\ work[r].at = "deleting"
    /\ \E n \in work[r].left :
          /\ dir' = {m \in dir : m.name # n}
          /\ Do(r, [work[r] EXCEPT !.left = @ \ {n}])
    /\ UNCHANGED <<journal, lock, at, faults, marker>>

\* The projection is published and the lock released.  A pass that created
\* covers is followed by a second one, whose report is the one returned.
Conclude(r) ==
    /\ work[r].at = "deleting" /\ work[r].left = {}
    /\ lock' = None
    /\ \/ Do(r, Idle)
       \/ /\ r \in Covering /\ ~work[r].second
          /\ Do(r, [work[r] EXCEPT !.at = "preparing", !.attempt = 0,
                                   !.second = TRUE])
    /\ UNCHANGED <<dir, journal, at, faults, marker>>

\* A kill, or an error of any call but an import: the batch before it, other
\* maintenance, a deletion, the projection.
Abandon(r) ==
    /\ work[r].at # "idle"
    /\ Fault
    /\ Released(r)
    /\ Do(r, Idle)
    /\ UNCHANGED <<dir, journal, at, marker>>

----------------------------------------------------------------------------
RecordBypass(b) ==
    \/ TakeLock(b) \/ Contended(b) \/ AppendDirect(b) \/ PublishDirect(b)
    \/ CreateMarker(b) \/ WriteMarker(b) \/ SyncMarker(b)
    \/ CreateFallback(b) \/ PrintMarker(b)
BypassFails(b) ==
    DirectFails(b) \/ MarkerFails(b) \/ EngineEnds(b) \/ FallbackFails(b)
Reconcile(r) ==
    \/ Begin(r) \/ Prepare(r) \/ ReadMarker(r)
    \/ AcquireLock(r) \/ Recheck(r) \/ UseLockedPreparation(r)
    \/ Import(r) \/ CommitRepairs(r) \/ DeleteMarker(r) \/ Conclude(r)
PassFails(r) == TimeOut(r) \/ ImportFails(r) \/ Abandon(r)

Next ==
    \/ \E b \in Bypasses : Invoke(b) \/ RecordBypass(b) \/ BypassFails(b)
    \/ \E r \in Passes : Reconcile(r) \/ PassFails(r)

Spec == Init /\ [][Next]_vars
\* Hooks run on, and reconciling verbs keep being called.
FairSpec ==
    /\ Spec
    /\ \A b \in Bypasses : WF_vars(RecordBypass(b))
    /\ \A r \in Passes : WF_vars(Reconcile(r))

----------------------------------------------------------------------------
Markers == [name : Names, of : Bypasses, whole : BOOLEAN]
Records == [of : Bypasses, via : Names \cup {None}]
Preparations == [
    at : {"idle", "preparing", "reading", "checking", "waiting", "importing",
          "deleting"},
    attempt : 0 .. MaxAttempts, seen : Nat, left : SUBSET Names,
    imports : SUBSET Markers, done : SUBSET Names, unread : SUBSET Names,
    second : BOOLEAN, owed : SUBSET Bypasses]

\* Every variable has its type: BypassAudit's state as the code can hold it.
TypeOK ==
    /\ dir \subseteq Markers
    /\ journal \in Seq(Records)
    /\ lock \in Bypasses \cup Passes \cup {None}
    /\ at \in [Bypasses -> Ended \cup InEngine \cup InShell]
    /\ marker \in [Bypasses -> Names \cup {None}]
    /\ work \in [Passes -> Preparations]
    /\ faults \in 0 .. MaxFaults

\* The record of another bypass was imported from name n.
Recycled(b, n) ==
    \E i \in DOMAIN journal : journal[i].via = n /\ journal[i].of # b
\* The shell gave the marker a name that counts as imported already.
Mistaken(b) == at[b] = "printed" /\ Recycled(b, marker[b])

\* A bypass whose recording reported success is in the journal or in a marker
\* that can be imported, through every failure of an import, kill of a pass
\* and race of two passes over one marker (record_environment_bypass,
\* commit_repairs).  One that only the hook's shell could retain is given up at
\* most where its marker was given the name of one that was imported, for all
\* that its name is the "non-recycled import identity" (journal.rs:1969).
RetainedRecorded ==
    \A b \in Bypasses : at[b] \in Retained =>
        Recorded(b) \/ (\E m \in dir : m.of = b /\ m.whole) \/ Mistaken(b)

\* One marker is imported by at most one journal record, however many passes
\* prepared to import it and wherever they were killed (the already_imported
\* test of prepare_pending_bypass_recovery and the recheck under the lock).
ImportedOnce ==
    \A i, j \in DOMAIN journal :
        journal[i].via = journal[j].via /\ journal[i].via # None => i = j

\* A pass that reports nothing unrecorded has left every bypass that was
\* retained before it began in the journal, but for those whose marker it took
\* for that of an earlier hook.
CleanPassRecordsAll ==
    \A r \in Passes : work[r].at = "deleting" /\ work[r].unread = {} =>
        \A b \in work[r].owed : Recorded(b) \/ Mistaken(b)

\* Where boards keep getting the lock, a whole marker is imported and deleted,
\* by a board read although another pass imported it.
MarkersDrain ==
    []<>(\E r \in Boards : work[r].at = "deleting") =>
        \A b \in Bypasses : (\E m \in dir : m.of = b /\ m.whole)
            ~> ~ \E m \in dir : m.of = b /\ m.whole
============================================================================
