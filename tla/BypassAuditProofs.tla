------------------------- MODULE BypassAuditProofs -------------------------
(***************************************************************************)
(* Proofs about BypassAudit: its type correctness, that a marker is         *)
(* imported once, that a retained bypass stays in the journal or in a       *)
(* marker, and that a pass which reports nothing unrecorded has recorded    *)
(* what it owed, the last two but for a marker whose name an earlier hook   *)
(* of the same process id had.                                              *)
(***************************************************************************)
EXTENDS BypassAudit, FiniteSetTheorems, TLAPS

\* Whoever is inside a section that needs the lock holds it.
LockInv ==
    /\ \A b \in Bypasses : at[b] \in {"locked", "appended"} => lock = b
    /\ \A r \in Passes :
          work[r].at \in {"checking", "importing", "deleting"} => lock = r

\* An attempt is left to every optimistic preparation.
AttemptInv ==
    \A r \in Passes :
        /\ work[r].at = "checking" => work[r].attempt < MaxAttempts
        /\ work[r].at \in {"preparing", "reading"} /\ lock # r
              => work[r].attempt < MaxAttempts

\* What a pass is about to import is in no record it knows of, and once it
\* imports, in no record at all.
Fresh(r, w) ==
    /\ w.seen <= Len(journal)
    /\ w.at = "reading" /\ lock = r => w.seen = Len(journal)
    /\ w.at \in {"reading", "checking"} =>
          \A m \in w.imports : ~Imported(m.name, w.seen) /\ m.name \notin w.left
    /\ w.at = "importing" =>
          \A m \in w.imports : ~Imported(m.name, Len(journal))
    /\ \A m1, m2 \in w.imports : m1.name = m2.name => m1 = m2
FreshInv == \A r \in Passes : Fresh(r, work[r])

OnceInv == TypeOK /\ LockInv /\ AttemptInv /\ FreshInv /\ ImportedOnce

Owns(b, n) == n.base = b \/ n.base = Shell[b]

\* A name is the bypass's own, or its hook's; two files differ in their names.
OwnerInv ==
    /\ \A m \in dir : Owns(m.of, m.name)
    /\ \A m, o \in dir : m.name = o.name => m.of = o.of
    /\ \A i \in DOMAIN journal : journal[i].via # None =>
          Owns(journal[i].of, journal[i].via)
    /\ \A r \in Passes : \A m \in work[r].imports : Owns(m.of, m.name)

\* Only markers whose record is durable are given up.
DoneInv ==
    \A r \in Passes :
        /\ \A n \in work[r].done : Imported(n, Len(journal))
        /\ work[r].at = "deleting" =>
              \A n \in work[r].left : Imported(n, Len(journal))

Kept(b, n) == Recorded(b) \/ \E m \in dir : m.of = b /\ m.name = n
KeptWhole(b, n) ==
    Recorded(b) \/ \E m \in dir : m.of = b /\ m.name = n /\ m.whole
\* The name the engine gives its marker.
OwnName(b) == [base |-> b, seq |-> 0]

\* How far each recording has come.  What the engine writes is never given up,
\* what the shell writes only for another bypass's record of its name.
ProgressInv ==
    \A b \in Bypasses :
        /\ at[b] = "appended" => Recorded(b)
        /\ at[b] = "writing" => Kept(b, OwnName(b))
        /\ at[b] \in {"written", "retained"} => KeptWhole(b, OwnName(b))
        /\ at[b] = "printing" => /\ marker[b].base = Shell[b]
                                 /\ Kept(b, marker[b]) \/ Recycled(b, marker[b])
        /\ at[b] = "printed" => KeptWhole(b, marker[b]) \/ Recycled(b, marker[b])

KeepInv == OwnerInv /\ DoneInv /\ ProgressInv

----------------------------------------------------------------------------
LEMMA BaseNames ==
    \A b \in Bypasses : [base |-> b, seq |-> 0] \in Names
<1>1. Cardinality(Bypasses) \in Nat
  BY AuditAssumption, FS_CardinalityType
<1>. QED  BY <1>1 DEF Names

LEMMA MarkerType ==
    ASSUME NEW n \in Names, NEW b \in Bypasses, NEW w \in BOOLEAN
    PROVE  Marker(n, b, w) \in Markers
  BY DEF Marker, Markers

\* What completing a marker's file leaves of the directory.
LEMMA CompleteDir ==
    ASSUME NEW b, NEW base, dir \subseteq Markers, Complete(b, base)
    PROVE  /\ dir' \subseteq Markers
           /\ \A m \in dir' : \E o \in dir : o.name = m.name /\ o.of = m.of
           /\ \A o \in dir : \E m \in dir' :
                 /\ m.name = o.name /\ m.of = o.of
                 /\ o.whole \/ (o.of = b /\ o.name.base = base) => m.whole
<1>. DEFINE Done(m) == IF m.of = b /\ m.name.base = base
                       THEN [m EXCEPT !.whole = TRUE] ELSE m
<1>1. dir' = {Done(m) : m \in dir}
  BY DEF Complete
<1>2. ASSUME NEW m \in Markers
      PROVE  /\ Done(m) \in Markers
             /\ Done(m).name = m.name /\ Done(m).of = m.of
             /\ m.whole \/ (m.of = b /\ m.name.base = base) => Done(m).whole
  BY DEF Markers
<1>. QED  BY <1>1, <1>2

\* A pass changes its own entry only.
LEMMA DoWork ==
    ASSUME NEW r \in Passes, work \in [Passes -> Preparations],
           NEW w \in Preparations, Do(r, w)
    PROVE  /\ work' \in [Passes -> Preparations]
           /\ work'[r] = w
           /\ \A q \in Passes : q # r => work'[q] = work[q]
  BY DEF Do

LEMMA Shape ==
    ASSUME NEW w \in Preparations
    PROVE  w = [at |-> w.at, attempt |-> w.attempt, seen |-> w.seen,
                left |-> w.left, imports |-> w.imports, done |-> w.done,
                unread |-> w.unread, second |-> w.second, owed |-> w.owed]
  BY DEF Preparations

LEMMA DoEntry ==
    ASSUME NEW r \in Passes, work \in [Passes -> Preparations], NEW w, Do(r, w)
    PROVE  work'[r] = w /\ \A q \in Passes \ {r} : work'[q] = work[q]
  BY DEF Do

LEMMA IdleType == Idle \in Preparations
  BY AuditAssumption DEF Idle, Preparations

LEMMA InitTypes == Init => TypeOK
  BY IdleType, AuditAssumption DEF Init, TypeOK, Ended, Retained, InEngine, InShell

LEMMA BypassTypes ==
    ASSUME NEW b \in Bypasses, TypeOK,
           Invoke(b) \/ RecordBypass(b) \/ BypassFails(b)
    PROVE  TypeOK'
<1>. USE AuditAssumption DEF TypeOK, Goto, Ended, Retained, InEngine, InShell
<1>1. CASE Invoke(b)  BY <1>1 DEF Invoke
<1>2. CASE TakeLock(b)  BY <1>2 DEF TakeLock
<1>3. CASE Contended(b)  BY <1>3 DEF Contended
<1>4. CASE AppendDirect(b)
  <2>1. Record(b, None) \in Records  BY DEF Record, Records
  <2>. QED  BY <1>4, <2>1 DEF AppendDirect
<1>5. CASE PublishDirect(b)  BY <1>5 DEF PublishDirect
<1>6. CASE CreateMarker(b)
  <2>1. Marker([base |-> b, seq |-> 0], b, FALSE) \in Markers
    BY BaseNames, MarkerType
  <2>. QED  BY <1>6, <2>1 DEF CreateMarker
<1>7. CASE WriteMarker(b)
  BY <1>7, CompleteDir DEF WriteMarker
<1>8. CASE SyncMarker(b)  BY <1>8 DEF SyncMarker
<1>9. CASE CreateFallback(b)
  <2>1. PICK s \in 0 .. Cardinality(Bypasses) :
           /\ dir' = dir \cup {Marker([base |-> Shell[b], seq |-> s], b, FALSE)}
           /\ marker' = [marker EXCEPT ![b] = [base |-> Shell[b], seq |-> s]]
    BY <1>9 DEF CreateFallback
  <2>2. [base |-> Shell[b], seq |-> s] \in Names
    BY DEF Names
  <2>3. Marker([base |-> Shell[b], seq |-> s], b, FALSE) \in Markers
    BY <2>2, MarkerType
  <2>4. marker' \in [Bypasses -> Names \cup {None}]
    BY <2>1, <2>2
  <2>. QED  BY <1>9, <2>1, <2>3, <2>4 DEF CreateFallback
<1>10. CASE PrintMarker(b)
  BY <1>10, CompleteDir DEF PrintMarker
<1>11. CASE DirectFails(b)  BY <1>11 DEF DirectFails, Fault, Released
<1>12. CASE MarkerFails(b)  BY <1>12 DEF MarkerFails, Fault, Unrecorded
<1>13. CASE EngineEnds(b)  BY <1>13 DEF EngineEnds, Fault, Released, Unrecorded
<1>14. CASE FallbackFails(b)  BY <1>14 DEF FallbackFails, Fault
<1>. QED
  BY <1>1, <1>2, <1>3, <1>4, <1>5, <1>6, <1>7, <1>8, <1>9, <1>10, <1>11, <1>12,
     <1>13, <1>14 DEF RecordBypass, BypassFails

LEMMA PassTypes ==
    ASSUME NEW r \in Passes, TypeOK, AttemptInv, Reconcile(r) \/ PassFails(r)
    PROVE  TypeOK'
<1>. USE AuditAssumption DEF TypeOK
<1>w. work[r] \in Preparations  OBVIOUS
<1>1. CASE Begin(r)
  <2>1. [Idle EXCEPT !.at = "preparing",
                     !.owed = {b \in Bypasses : at[b] \in Retained}] \in Preparations
    BY IdleType DEF Preparations
  <2>. QED  BY <1>1, <2>1, DoWork DEF Begin
<1>2. CASE Prepare(r)
  <2>1. {m.name : m \in dir} \subseteq Names
    BY DEF Markers
  <2>2. [work[r] EXCEPT !.at = "reading", !.seen = Len(journal),
                        !.left = {m.name : m \in dir}, !.imports = {},
                        !.done = {}, !.unread = {}] \in Preparations
    <3>1. Len(journal) \in Nat /\ {} \subseteq Markers /\ {} \subseteq Names
      OBVIOUS
    <3>. HIDE DEF TypeOK
    <3>. QED  BY <1>w, <2>1, <3>1 DEF Preparations
  <2>. QED  BY <1>2, <2>2, DoWork DEF Prepare
<1>3. CASE ReadMarker(r)
  <2>1. PICK n \in work[r].left :
          LET w == [work[r] EXCEPT !.left = @ \ {n}] IN
          \/ Do(r, [w EXCEPT !.unread = @ \cup {n}])
          \/ Do(r, [w EXCEPT !.done = @ \cup {n}])
          \/ \E m \in WholeMarkers(n) : Do(r, [w EXCEPT !.imports = @ \cup {m}])
    BY <1>3 DEF ReadMarker
  <2>. DEFINE w == [work[r] EXCEPT !.left = @ \ {n}]
  <2>2. n \in Names /\ w \in Preparations
    BY <1>w DEF Preparations
  <2>3. /\ [w EXCEPT !.unread = @ \cup {n}] \in Preparations
        /\ [w EXCEPT !.done = @ \cup {n}] \in Preparations
    BY <2>2 DEF Preparations
  <2>4. \A m \in WholeMarkers(n) : m \in Markers
    BY DEF WholeMarkers
  <2>5. \A m \in WholeMarkers(n) : [w EXCEPT !.imports = @ \cup {m}] \in Preparations
    <3>. HIDE DEF w, TypeOK
    <3>1. \A m \in Markers : [w EXCEPT !.imports = @ \cup {m}] \in Preparations
      BY <2>2 DEF Preparations
    <3>. QED  BY <2>4, <3>1
  <2>6. work' \in [Passes -> Preparations]
    BY <2>1, <2>3, <2>5, DoWork
  <2>. QED  BY <1>3, <2>6 DEF ReadMarker
<1>4. CASE AcquireLock(r)
  <2>1. \A s \in {"checking", "preparing"} : [work[r] EXCEPT !.at = s] \in Preparations
    BY <1>w DEF Preparations
  <2>2. work' \in [Passes -> Preparations]
    BY <1>4, <2>1, DoWork DEF AcquireLock, Step
  <2>. QED  BY <1>4, <2>2 DEF AcquireLock
<1>5. CASE Recheck(r)
  <2>1. [work[r] EXCEPT !.at = "importing"] \in Preparations
    BY <1>w DEF Preparations
  <2>2. work[r].attempt + 1 \in 0 .. MaxAttempts
    BY <1>5, <1>w DEF Recheck, AttemptInv, Preparations
  <2>3. [work[r] EXCEPT !.attempt = @ + 1,
           !.at = IF work[r].attempt + 1 < MaxAttempts THEN "preparing"
                                                       ELSE "waiting"] \in Preparations
    BY <1>w, <2>2 DEF Preparations
  <2>4. work' \in [Passes -> Preparations]
    BY <1>5, <2>1, <2>3, DoWork DEF Recheck, Step
  <2>. QED  BY <1>5, <2>4 DEF Recheck
<1>6. CASE UseLockedPreparation(r)
  <2>1. [work[r] EXCEPT !.at = "importing"] \in Preparations
    BY <1>w DEF Preparations
  <2>. QED  BY <1>6, <2>1, DoWork DEF UseLockedPreparation, Step
<1>7. CASE Import(r) \/ ImportFails(r)
  <2>1. PICK m \in work[r].imports :
          /\ UNCHANGED journal \/ journal' = Append(journal, Record(m.of, m.name))
          /\ \/ Do(r, [work[r] EXCEPT !.imports = @ \ {m}, !.done = @ \cup {m.name}])
             \/ Do(r, [work[r] EXCEPT !.imports = @ \ {m}, !.unread = @ \cup {m.name}])
    BY <1>7 DEF Import, ImportFails
  <2>2. m \in Markers
    BY <1>w DEF Preparations
  <2>3. m.name \in Names /\ Record(m.of, m.name) \in Records
    BY <2>2 DEF Markers, Record, Records
  <2>4. /\ [work[r] EXCEPT !.imports = @ \ {m}, !.done = @ \cup {m.name}]
              \in Preparations
        /\ [work[r] EXCEPT !.imports = @ \ {m}, !.unread = @ \cup {m.name}]
              \in Preparations
    BY <1>w, <2>3 DEF Preparations
  <2>5. work' \in [Passes -> Preparations]
    BY <2>1, <2>4, DoWork
  <2>6. journal' \in Seq(Records)
    BY <2>1, <2>3
  <2>7. CASE Import(r)
    BY <2>7, <2>5, <2>6 DEF Import
  <2>8. CASE ImportFails(r)
    BY <2>8, <2>5, <2>6 DEF ImportFails, Fault
  <2>. QED  BY <1>7, <2>7, <2>8
<1>8. CASE CommitRepairs(r)
  <2>1. [work[r] EXCEPT !.at = "deleting",
           !.left = IF r \in Boards THEN work[r].done ELSE {}] \in Preparations
    BY <1>w DEF Preparations
  <2>. QED  BY <1>8, <2>1, DoWork DEF CommitRepairs
<1>9. CASE DeleteMarker(r)
  <2>1. \A n : [work[r] EXCEPT !.left = @ \ {n}] \in Preparations
    BY <1>w DEF Preparations
  <2>2. work' \in [Passes -> Preparations]
    BY <1>9, <2>1, DoWork DEF DeleteMarker
  <2>. QED  BY <1>9, <2>2 DEF DeleteMarker
<1>10. CASE Conclude(r)
  <2>1. [work[r] EXCEPT !.at = "preparing", !.attempt = 0, !.second = TRUE]
          \in Preparations
    <3>1. 0 \in 0 .. MaxAttempts
      OBVIOUS
    <3>. HIDE DEF TypeOK
    <3>. QED  BY <1>w, <3>1 DEF Preparations
  <2>2. work' \in [Passes -> Preparations]
    BY <1>10, <2>1, IdleType, DoWork DEF Conclude
  <2>. QED  BY <1>10, <2>2 DEF Conclude
<1>11. CASE TimeOut(r)
  BY <1>11, IdleType, DoWork DEF TimeOut
<1>12. CASE Abandon(r)
  BY <1>12, IdleType, DoWork DEF Abandon, Fault, Released
<1>. QED
  BY <1>1, <1>2, <1>3, <1>4, <1>5, <1>6, <1>7, <1>8, <1>9, <1>10, <1>11, <1>12
     DEF Reconcile, PassFails

----------------------------------------------------------------------------
LEMMA InitOnce == Init => OnceInv
<1>. SUFFICES ASSUME Init PROVE LockInv /\ AttemptInv /\ FreshInv /\ ImportedOnce
  BY InitTypes DEF OnceInv
<1>. USE AuditAssumption DEF Init, Idle
<1>1. LockInv  BY DEF LockInv
<1>2. AttemptInv  BY DEF AttemptInv
<1>3. FreshInv  BY DEF FreshInv, Fresh
<1>4. ImportedOnce  BY DEF ImportedOnce
<1>. QED  BY <1>1, <1>2, <1>3, <1>4

\* One more record.
LEMMA OneMore ==
    ASSUME NEW e \in Records, journal \in Seq(Records), journal' = Append(journal, e)
    PROVE  /\ journal' \in Seq(Records)
           /\ Len(journal') = Len(journal) + 1
           /\ \A i \in 1 .. Len(journal) : journal'[i] = journal[i]
           /\ journal'[Len(journal) + 1] = e
  OBVIOUS

\* A direct record carries no name: it imports nothing.
LEMMA DirectRecord ==
    ASSUME NEW b \in Bypasses
    PROVE  Record(b, None) \in Records /\ Record(b, None).via = None
  BY DEF Record, Records

\* A bypass moves the lock between itself and nobody.
LEMMA BypassLock ==
    ASSUME NEW b \in Bypasses, OnceInv,
           Invoke(b) \/ RecordBypass(b) \/ BypassFails(b)
    PROVE  /\ work' = work
           /\ LockInv'
           /\ \A r \in Passes : lock' = r <=> lock = r
<1>. USE AuditAssumption DEF OnceInv, TypeOK, LockInv, Goto, Released, Unrecorded
<1>1. CASE Invoke(b)  BY <1>1 DEF Invoke
<1>2. CASE TakeLock(b)  BY <1>2 DEF TakeLock
<1>3. CASE Contended(b)  BY <1>3 DEF Contended
<1>4. CASE AppendDirect(b)  BY <1>4 DEF AppendDirect
<1>5. CASE PublishDirect(b)  BY <1>5 DEF PublishDirect
<1>6. CASE CreateMarker(b)  BY <1>6 DEF CreateMarker
<1>7. CASE WriteMarker(b)  BY <1>7 DEF WriteMarker
<1>8. CASE SyncMarker(b)  BY <1>8 DEF SyncMarker
<1>9. CASE CreateFallback(b)  BY <1>9 DEF CreateFallback
<1>10. CASE PrintMarker(b)  BY <1>10 DEF PrintMarker
<1>11. CASE DirectFails(b)  BY <1>11 DEF DirectFails
<1>12. CASE MarkerFails(b)  BY <1>12 DEF MarkerFails
<1>13. CASE EngineEnds(b)  BY <1>13 DEF EngineEnds
<1>14. CASE FallbackFails(b)  BY <1>14 DEF FallbackFails
<1>. QED
  BY <1>1, <1>2, <1>3, <1>4, <1>5, <1>6, <1>7, <1>8, <1>9, <1>10, <1>11, <1>12,
     <1>13, <1>14 DEF RecordBypass, BypassFails

\* Only the direct append of a bypass changes the journal.
LEMMA BypassJournal ==
    ASSUME NEW b \in Bypasses, Invoke(b) \/ RecordBypass(b) \/ BypassFails(b)
    PROVE  UNCHANGED journal \/ AppendDirect(b)
  BY DEF Invoke, RecordBypass, BypassFails, TakeLock, Contended, PublishDirect,
         CreateMarker, WriteMarker, SyncMarker, CreateFallback, PrintMarker,
         DirectFails, MarkerFails, EngineEnds, FallbackFails

\* A record appended by the holder of the lock leaves every other pass's
\* preparation fresh.
LEMMA JournalGrows ==
    ASSUME NEW r \in Passes, NEW e \in Records, OnceInv, lock # r,
           journal' = Append(journal, e), work'[r] = work[r], lock' # r
    PROVE  Fresh(r, work[r])'
<1>1. journal \in Seq(Records) /\ work[r] \in Preparations
  BY DEF OnceInv, TypeOK
<1>2. /\ Len(journal') = Len(journal) + 1 /\ Len(journal) \in Nat
      /\ \A i \in 1 .. Len(journal) : journal'[i] = journal[i]
  BY <1>1, OneMore
<1>3. work[r].seen \in Nat /\ work[r].seen <= Len(journal)
  BY <1>1 DEF Preparations, OnceInv, FreshInv, Fresh
<1>4. \A n : Imported(n, work[r].seen)' <=> Imported(n, work[r].seen)
  BY <1>2, <1>3 DEF Imported
<1>5. work[r].at # "importing"
  BY DEF OnceInv, LockInv
<1>. QED  BY <1>2, <1>3, <1>4, <1>5 DEF OnceInv, FreshInv, Fresh

LEMMA BypassOnce ==
    ASSUME NEW b \in Bypasses, OnceInv,
           Invoke(b) \/ RecordBypass(b) \/ BypassFails(b)
    PROVE  OnceInv'
<1>1. TypeOK'  BY BypassTypes DEF OnceInv
<1>2. /\ work' = work /\ LockInv'
      /\ \A r \in Passes : lock' = r <=> lock = r
  BY BypassLock
<1>3. AttemptInv'  BY <1>2 DEF OnceInv, AttemptInv
<1>4. CASE UNCHANGED journal
  <2>1. FreshInv'  BY <1>2, <1>4 DEF OnceInv, FreshInv, Fresh, Imported
  <2>2. ImportedOnce'  BY <1>4 DEF OnceInv, ImportedOnce
  <2>. QED  BY <1>1, <1>2, <1>3, <2>1, <2>2 DEF OnceInv
<1>5. CASE AppendDirect(b)
  <2>1. journal \in Seq(Records) /\ journal' = Append(journal, Record(b, None))
    BY <1>5 DEF AppendDirect, OnceInv, TypeOK
  <2>2. /\ Len(journal') = Len(journal) + 1 /\ Len(journal) \in Nat
        /\ \A i \in 1 .. Len(journal) : journal'[i] = journal[i]
        /\ journal'[Len(journal) + 1].via = None
    BY <2>1, OneMore, DirectRecord
  <2>3. \A r \in Passes : lock # r
    BY <1>5, AuditAssumption DEF AppendDirect, OnceInv, LockInv
  <2>4. FreshInv'
    BY <1>2, <2>1, <2>3, JournalGrows, DirectRecord DEF OnceInv, FreshInv
  <2>5. ImportedOnce'
    BY <2>1, <2>2 DEF OnceInv, ImportedOnce
  <2>. QED  BY <1>1, <1>2, <1>3, <2>4, <2>5 DEF OnceInv
<1>. QED  BY <1>4, <1>5, BypassJournal

\* What reading one marker adds to the preparation.
LEMMA ReadEntry ==
    ASSUME NEW r \in Passes, TypeOK, ReadMarker(r)
    PROVE  \E n \in work[r].left :
              /\ work'[r].at = "reading"
              /\ work'[r].attempt = work[r].attempt
              /\ work'[r].seen = work[r].seen
              /\ work'[r].left = work[r].left \ {n}
              /\ \/ /\ work'[r].imports = work[r].imports
                    /\ \/ work'[r].done = work[r].done
                       \/ /\ work'[r].done = work[r].done \cup {n}
                          /\ Imported(n, work[r].seen)
                 \/ /\ work'[r].done = work[r].done
                    /\ ~Imported(n, work[r].seen)
                    /\ \E m \in dir : m.name = n /\ m.whole
                          /\ work'[r].imports = work[r].imports \cup {m}
<1>1. work[r] \in Preparations /\ work \in [Passes -> Preparations]
  BY DEF TypeOK
<1>2. PICK n \in work[r].left :
          LET w == [work[r] EXCEPT !.left = @ \ {n}] IN
          \/ Do(r, [w EXCEPT !.unread = @ \cup {n}])
          \/ /\ Imported(n, work[r].seen)
             /\ Do(r, [w EXCEPT !.done = @ \cup {n}])
          \/ \E m \in WholeMarkers(n) :
                ~Imported(n, work[r].seen) /\ Do(r, [w EXCEPT !.imports = @ \cup {m}])
  BY DEF ReadMarker
<1>3. work[r].at = "reading"  BY DEF ReadMarker
<1>. DEFINE w == [work[r] EXCEPT !.left = @ \ {n}]
<1>4. /\ w.at = "reading" /\ w.attempt = work[r].attempt /\ w.seen = work[r].seen
      /\ w.left = work[r].left \ {n} /\ w.imports = work[r].imports
      /\ w.done = work[r].done /\ w.unread = work[r].unread
      /\ w = [at |-> w.at, attempt |-> w.attempt, seen |-> w.seen,
              left |-> w.left, imports |-> w.imports, done |-> w.done,
              unread |-> w.unread, second |-> w.second, owed |-> w.owed]
  BY <1>1, <1>3, Shape
<1>. HIDE DEF w
<1>5. CASE Do(r, [w EXCEPT !.unread = @ \cup {n}])
  BY <1>1, <1>4, <1>5 DEF Do
<1>6. CASE Imported(n, work[r].seen) /\ Do(r, [w EXCEPT !.done = @ \cup {n}])
  BY <1>1, <1>4, <1>6 DEF Do
<1>7. CASE \E m \in WholeMarkers(n) :
              ~Imported(n, work[r].seen) /\ Do(r, [w EXCEPT !.imports = @ \cup {m}])
  BY <1>1, <1>4, <1>7 DEF Do, WholeMarkers
<1>. QED  BY <1>2, <1>5, <1>6, <1>7 DEF w

\* What a step makes of the entry of pass r.
Becomes(r, step, attempt, seen, imports, done) ==
    /\ work'[r].at = step /\ work'[r].attempt = attempt /\ work'[r].seen = seen
    /\ work'[r].imports = imports /\ work'[r].done = done

LEMMA Entries ==
    ASSUME NEW r \in Passes, TypeOK
    PROVE  LET w == work[r] IN
           /\ Begin(r) => Becomes(r, "preparing", 0, 0, {}, {})
           /\ Prepare(r) => Becomes(r, "reading", w.attempt, Len(journal), {}, {})
           /\ Recheck(r) => \/ /\ w.seen = Len(journal)
                               /\ Becomes(r, "importing", w.attempt, w.seen,
                                          w.imports, w.done)
                            \/ \E s \in {"preparing", "waiting"} :
                                  /\ Becomes(r, s, w.attempt + 1, w.seen,
                                             w.imports, w.done)
                                  /\ s = "preparing" => w.attempt + 1 < MaxAttempts
           /\ CommitRepairs(r) =>
                 /\ Becomes(r, "deleting", w.attempt, w.seen, w.imports, w.done)
                 /\ work'[r].left \subseteq w.done
           /\ DeleteMarker(r) =>
                 /\ Becomes(r, "deleting", w.attempt, w.seen, w.imports, w.done)
                 /\ work'[r].left \subseteq w.left
           /\ Conclude(r) => \/ Becomes(r, "idle", 0, 0, {}, {})
                             \/ Becomes(r, "preparing", 0, w.seen, w.imports, w.done)
           /\ TimeOut(r) \/ Abandon(r) => Becomes(r, "idle", 0, 0, {}, {})
<1>. DEFINE w == work[r]
<1>1. work \in [Passes -> Preparations] /\ w \in Preparations
  BY DEF TypeOK
<1>2. ASSUME NEW v, work' = [work EXCEPT ![r] = v]
      PROVE  work'[r] = v
  BY <1>1, <1>2
<1>3. w = [at |-> w.at, attempt |-> w.attempt, seen |-> w.seen,
           left |-> w.left, imports |-> w.imports, done |-> w.done,
           unread |-> w.unread, second |-> w.second, owed |-> w.owed]
  BY <1>1, Shape
<1>4. ASSUME Begin(r) PROVE Becomes(r, "preparing", 0, 0, {}, {})
  BY <1>1, <1>4 DEF Begin, Do, Idle, Becomes
<1>5. ASSUME Prepare(r)
      PROVE  Becomes(r, "reading", w.attempt, Len(journal), {}, {})
  <2>1. work'[r] = [w EXCEPT !.at = "reading", !.seen = Len(journal),
                     !.left = {m.name : m \in dir},
                     !.imports = {}, !.done = {}, !.unread = {}]
    BY <1>1, <1>5 DEF Prepare, Do
  <2>. HIDE DEF w
  <2>. QED  BY <1>3, <2>1 DEF Becomes
<1>6. ASSUME Recheck(r), w.seen = Len(journal)
      PROVE  Becomes(r, "importing", w.attempt, w.seen, w.imports, w.done)
  <2>1. work'[r] = [w EXCEPT !.at = "importing"]
    BY <1>1, <1>6 DEF Recheck, Step, Do
  <2>. HIDE DEF w
  <2>. QED  BY <1>3, <2>1 DEF Becomes
<1>7. ASSUME Recheck(r), w.seen # Len(journal)
      PROVE  \E s \in {"preparing", "waiting"} :
                /\ Becomes(r, s, w.attempt + 1, w.seen, w.imports, w.done)
                /\ s = "preparing" => w.attempt + 1 < MaxAttempts
  <2>. DEFINE s == IF w.attempt + 1 < MaxAttempts THEN "preparing" ELSE "waiting"
  <2>1. work'[r] = [w EXCEPT !.attempt = @ + 1, !.at = s]
    BY <1>1, <1>7 DEF Recheck, Do
  <2>2. s \in {"preparing", "waiting"} /\ (s = "preparing" => w.attempt + 1 < MaxAttempts)
    OBVIOUS
  <2>. HIDE DEF w, s
  <2>3. Becomes(r, s, w.attempt + 1, w.seen, w.imports, w.done)
    BY <1>3, <2>1 DEF Becomes
  <2>. QED  BY <2>2, <2>3
<1>8. ASSUME CommitRepairs(r)
      PROVE  /\ Becomes(r, "deleting", w.attempt, w.seen, w.imports, w.done)
             /\ work'[r].left \subseteq w.done
  <2>. DEFINE l == IF r \in Boards THEN w.done ELSE {}
  <2>1. work'[r] = [w EXCEPT !.at = "deleting", !.left = l]
    BY <1>1, <1>8 DEF CommitRepairs, Do
  <2>2. l \subseteq w.done
    OBVIOUS
  <2>. HIDE DEF w, l
  <2>. QED  BY <1>3, <2>1, <2>2 DEF Becomes
<1>9. ASSUME DeleteMarker(r)
      PROVE  /\ Becomes(r, "deleting", w.attempt, w.seen, w.imports, w.done)
             /\ work'[r].left \subseteq w.left
  <2>1. PICK n : work'[r] = [w EXCEPT !.left = @ \ {n}]
    BY <1>1, <1>9 DEF DeleteMarker, Do
  <2>2. w.at = "deleting"
    BY <1>9 DEF DeleteMarker
  <2>. HIDE DEF w
  <2>. QED  BY <1>3, <2>1, <2>2 DEF Becomes
<1>10. ASSUME Conclude(r)
       PROVE  \/ Becomes(r, "idle", 0, 0, {}, {})
              \/ Becomes(r, "preparing", 0, w.seen, w.imports, w.done)
  <2>1. \/ work'[r] = Idle
        \/ work'[r] = [w EXCEPT !.at = "preparing", !.attempt = 0, !.second = TRUE]
    BY <1>1, <1>10 DEF Conclude, Do
  <2>. HIDE DEF w
  <2>2. CASE work'[r] = Idle
    BY <2>2 DEF Idle, Becomes
  <2>3. CASE work'[r] = [w EXCEPT !.at = "preparing", !.attempt = 0, !.second = TRUE]
    BY <1>3, <2>3 DEF Becomes
  <2>. QED  BY <2>1, <2>2, <2>3
<1>11. ASSUME TimeOut(r) \/ Abandon(r) PROVE Becomes(r, "idle", 0, 0, {}, {})
  BY <1>1, <1>11 DEF TimeOut, Abandon, Do, Idle, Becomes
<1>. QED  BY <1>4, <1>5, <1>6, <1>7, <1>8, <1>9, <1>10, <1>11

\* What acquiring the lock, or using what it was held for, makes of the entry.
LEMMA StepEntry ==
    ASSUME NEW r \in Passes, TypeOK
    PROVE  LET w == work[r] IN
           /\ AcquireLock(r) =>
                 /\ work'[r].left = w.left
                 /\ \/ /\ w.at = "reading" /\ w.left = {}
                       /\ Becomes(r, "checking", w.attempt, w.seen, w.imports, w.done)
                    \/ Becomes(r, "preparing", w.attempt, w.seen, w.imports, w.done)
           /\ UseLockedPreparation(r) =>
                 Becomes(r, "importing", w.attempt, w.seen, w.imports, w.done)
<1>. DEFINE w == work[r]
<1>1. work \in [Passes -> Preparations] /\ w \in Preparations
  BY DEF TypeOK
<1>2. w = [at |-> w.at, attempt |-> w.attempt, seen |-> w.seen,
           left |-> w.left, imports |-> w.imports, done |-> w.done,
           unread |-> w.unread, second |-> w.second, owed |-> w.owed]
  BY <1>1, Shape
<1>3. ASSUME NEW s, Step(r, s)
      PROVE  /\ Becomes(r, s, w.attempt, w.seen, w.imports, w.done)
             /\ work'[r].left = w.left
  <2>1. work'[r] = [w EXCEPT !.at = s]
    BY <1>1, <1>3 DEF Step, Do
  <2>. HIDE DEF w
  <2>. QED  BY <1>2, <2>1 DEF Becomes
<1>. QED  BY <1>3 DEF AcquireLock, UseLockedPreparation, Prepared

\* What an import, failed or not, makes of the entry.
LEMMA ImportEntry ==
    ASSUME NEW r \in Passes, TypeOK, Import(r) \/ ImportFails(r)
    PROVE  LET w == work[r] IN
           \E m \in w.imports :
              \/ /\ journal' = Append(journal, Record(m.of, m.name))
                 /\ \E d \in {w.done, w.done \cup {m.name}} :
                       Becomes(r, "importing", w.attempt, w.seen, w.imports \ {m}, d)
              \/ /\ UNCHANGED journal
                 /\ Becomes(r, "importing", w.attempt, w.seen, w.imports \ {m}, w.done)
<1>. DEFINE w == work[r]
<1>1. work \in [Passes -> Preparations] /\ w \in Preparations
  BY DEF TypeOK
<1>2. w = [at |-> w.at, attempt |-> w.attempt, seen |-> w.seen,
           left |-> w.left, imports |-> w.imports, done |-> w.done,
           unread |-> w.unread, second |-> w.second, owed |-> w.owed]
  BY <1>1, Shape
<1>3. w.at = "importing"
  BY DEF Import, ImportFails
<1>4. CASE Import(r)
  <2>1. PICK m \in w.imports :
           /\ journal' = Append(journal, Record(m.of, m.name))
           /\ work'[r] = [w EXCEPT !.imports = @ \ {m}, !.done = @ \cup {m.name}]
    BY <1>1, <1>4 DEF Import, Do
  <2>2. Becomes(r, "importing", w.attempt, w.seen, w.imports \ {m}, w.done \cup {m.name})
    <3>. HIDE DEF w
    <3>. QED  BY <1>2, <1>3, <2>1 DEF Becomes
  <2>. QED  BY <2>1, <2>2
<1>5. CASE ImportFails(r)
  <2>1. PICK m \in w.imports :
           /\ UNCHANGED journal \/ journal' = Append(journal, Record(m.of, m.name))
           /\ work'[r] = [w EXCEPT !.imports = @ \ {m}, !.unread = @ \cup {m.name}]
    BY <1>1, <1>5 DEF ImportFails, Do
  <2>2. Becomes(r, "importing", w.attempt, w.seen, w.imports \ {m}, w.done)
    <3>. HIDE DEF w
    <3>. QED  BY <1>2, <1>3, <2>1 DEF Becomes
  <2>. QED  BY <2>1, <2>2
<1>. QED  BY <1>4, <1>5

\* A pass moves the lock between itself and nobody, and its own entry only.
LEMMA PassLock ==
    ASSUME NEW r \in Passes, OnceInv, Reconcile(r) \/ PassFails(r)
    PROVE  /\ LockInv' /\ at' = at
           /\ \A q \in Passes \ {r} :
                 (lock' = q <=> lock = q) /\ work'[q] = work[q]
<1>. USE AuditAssumption
<1>1. /\ work \in [Passes -> Preparations] /\ work[r] \in Preparations
      /\ lock \in Bypasses \cup Passes \cup {None} /\ TypeOK /\ LockInv
  BY DEF OnceInv, TypeOK
<1>2. at' = at /\ \A q \in Passes \ {r} : work'[q] = work[q]
  BY <1>1, DoEntry
     DEF Reconcile, PassFails, Begin, Prepare, ReadMarker, AcquireLock, Recheck,
         UseLockedPreparation, Import, CommitRepairs, DeleteMarker, Conclude,
         TimeOut, ImportFails, Abandon, Step
<1>3. /\ lock' = lock \/ (lock = None /\ lock' = r) \/ (lock = r /\ lock' = None)
      /\ work'[r].at \in {"checking", "importing", "deleting"} => lock' = r
  <2>1. CASE Begin(r) \/ Prepare(r) \/ TimeOut(r) \/ Abandon(r)
    BY <1>1, <2>1, Entries DEF Becomes, Begin, Prepare, TimeOut, Abandon, Released
  <2>2. CASE ReadMarker(r)
    BY <1>1, <2>2, ReadEntry DEF ReadMarker
  <2>3. CASE AcquireLock(r)
    BY <2>3 DEF AcquireLock
  <2>4. CASE Recheck(r)
    BY <1>1, <2>4, Entries DEF Becomes, Recheck, LockInv
  <2>5. CASE UseLockedPreparation(r)
    BY <2>5 DEF UseLockedPreparation
  <2>6. CASE Import(r) \/ ImportFails(r)
    BY <1>1, <2>6 DEF Import, ImportFails, LockInv
  <2>7. CASE CommitRepairs(r) \/ DeleteMarker(r)
    BY <1>1, <2>7 DEF CommitRepairs, DeleteMarker, LockInv
  <2>8. CASE Conclude(r)
    BY <1>1, <2>8, Entries DEF Becomes, Conclude, LockInv
  <2>. QED
    BY <2>1, <2>2, <2>3, <2>4, <2>5, <2>6, <2>7, <2>8 DEF Reconcile, PassFails
<1>. QED  BY <1>1, <1>2, <1>3 DEF LockInv

LEMMA PassAttempt ==
    ASSUME NEW r \in Passes, OnceInv, Reconcile(r) \/ PassFails(r)
    PROVE  AttemptInv'
<1>. USE AuditAssumption
<1>1. /\ TypeOK /\ AttemptInv /\ r # None /\ work[r] \in Preparations
      /\ \A q \in Passes \ {r} : (lock' = q <=> lock = q) /\ work'[q] = work[q]
  BY PassLock DEF OnceInv, TypeOK
<1>2. /\ work'[r].at = "checking" => work'[r].attempt < MaxAttempts
      /\ work'[r].at \in {"preparing", "reading"} /\ lock' # r
            => work'[r].attempt < MaxAttempts
  <2>1. CASE Begin(r) \/ TimeOut(r) \/ Abandon(r) \/ Conclude(r)
    <3>1. work'[r].at # "checking" /\ work'[r].attempt = 0
      BY <1>1, <2>1, Entries DEF Becomes
    <3>. QED  BY <3>1
  <2>8. CASE Prepare(r)
    BY <1>1, <2>8, Entries DEF Becomes, Prepare, AttemptInv
  <2>2. CASE ReadMarker(r)
    BY <1>1, <2>2, ReadEntry DEF ReadMarker, AttemptInv
  <2>3. CASE AcquireLock(r)
    BY <1>1, <2>3, StepEntry DEF AcquireLock, Becomes, AttemptInv
  <2>4. CASE Recheck(r)
    BY <1>1, <2>4, Entries DEF Becomes
  <2>5. CASE UseLockedPreparation(r)
    BY <1>1, <2>5, StepEntry DEF Becomes
  <2>6. CASE Import(r) \/ ImportFails(r)
    BY <1>1, <2>6, ImportEntry DEF Becomes
  <2>7. CASE CommitRepairs(r) \/ DeleteMarker(r)
    BY <1>1, <2>7, Entries DEF Becomes
  <2>. QED
    BY <2>1, <2>2, <2>3, <2>4, <2>5, <2>6, <2>7, <2>8 DEF Reconcile, PassFails
<1>. QED  BY <1>1, <1>2 DEF AttemptInv

\* Only an import changes the journal.
LEMMA PassJournal ==
    ASSUME NEW r \in Passes, Reconcile(r) \/ PassFails(r),
           ~(Import(r) \/ ImportFails(r))
    PROVE  UNCHANGED journal
  BY DEF Reconcile, PassFails, Begin, Prepare, ReadMarker, AcquireLock, Recheck,
         UseLockedPreparation, CommitRepairs, DeleteMarker, Conclude, TimeOut,
         Abandon

\* The entry of the pass that steps stays fresh.
LEMMA PassFreshHere ==
    ASSUME NEW r \in Passes, OnceInv, Reconcile(r) \/ PassFails(r),
           UNCHANGED journal
    PROVE  Fresh(r, work[r])'
<1>. USE AuditAssumption
<1>1. /\ TypeOK /\ work[r] \in Preparations /\ Len(journal) \in Nat
      /\ Fresh(r, work[r]) /\ LockInv
  BY DEF OnceInv, TypeOK, FreshInv
<1>2. \A n, k : Imported(n, k)' <=> Imported(n, k')
  BY DEF Imported
<1>3. CASE Begin(r) \/ Prepare(r) \/ TimeOut(r) \/ Abandon(r)
  BY <1>1, <1>3, Entries DEF Becomes, Fresh
<1>4. CASE ReadMarker(r)
  <2>. DEFINE w == work[r]
              v == work'[r]
  <2>1. PICK n \in w.left :
          /\ v.at = "reading" /\ v.seen = w.seen /\ v.left = w.left \ {n}
          /\ \/ v.imports = w.imports
             \/ /\ ~Imported(n, w.seen)
                /\ \E m : m.name = n /\ v.imports = w.imports \cup {m}
    BY <1>1, <1>4, ReadEntry
  <2>2. lock' = lock /\ w.at = "reading"
    BY <1>4 DEF ReadMarker
  <2>. HIDE DEF w, v
  <2>3. \A m \in w.imports : ~Imported(m.name, w.seen) /\ m.name \notin w.left
    BY <1>1, <2>2 DEF Fresh, w
  <2>4. \A m \in v.imports : ~Imported(m.name, v.seen) /\ m.name \notin v.left
    BY <2>1, <2>3
  <2>5. \A m1, m2 \in v.imports : m1.name = m2.name => m1 = m2
    BY <1>1, <2>1, <2>3 DEF Fresh, w
  <2>6. v.seen <= Len(journal) /\ (lock = r => v.seen = Len(journal))
    BY <1>1, <2>1, <2>2 DEF Fresh, w
  <2>. QED  BY <2>1, <2>2, <2>4, <2>5, <2>6 DEF Fresh, Imported, v
<1>5. CASE AcquireLock(r)
  BY <1>1, <1>5, StepEntry DEF AcquireLock, Becomes, Fresh, Imported
<1>6. CASE Recheck(r)
  <2>1. /\ work[r].at = "checking"
        /\ \/ /\ work[r].seen = Len(journal)
              /\ Becomes(r, "importing", work[r].attempt, work[r].seen,
                         work[r].imports, work[r].done)
           \/ \E s \in {"preparing", "waiting"} :
                 Becomes(r, s, work[r].attempt + 1, work[r].seen,
                         work[r].imports, work[r].done)
    BY <1>1, <1>6, Entries DEF Recheck
  <2>. QED  BY <1>1, <2>1 DEF Becomes, Fresh, Imported
<1>7. CASE UseLockedPreparation(r)
  BY <1>1, <1>7, StepEntry DEF UseLockedPreparation, Prepared, Becomes, Fresh, Imported
<1>8. CASE CommitRepairs(r) \/ DeleteMarker(r) \/ Conclude(r)
  BY <1>1, <1>8, Entries DEF Becomes, Fresh
<1>9. CASE Import(r) \/ ImportFails(r)
  BY <1>1, <1>9, ImportEntry DEF Import, ImportFails, Becomes, Fresh, Imported
<1>. QED
  BY <1>3, <1>4, <1>5, <1>6, <1>7, <1>8, <1>9 DEF Reconcile, PassFails

LEMMA PassOnce ==
    ASSUME NEW r \in Passes, OnceInv, Reconcile(r) \/ PassFails(r)
    PROVE  OnceInv'
<1>1. TypeOK'  BY PassTypes DEF OnceInv
<1>2. /\ LockInv'
      /\ \A q \in Passes \ {r} : (lock' = q <=> lock = q) /\ work'[q] = work[q]
  BY PassLock
<1>3. AttemptInv'  BY PassAttempt
<1>4. CASE UNCHANGED journal
  <2>1. \A q \in Passes \ {r} : Fresh(q, work[q])'
    BY <1>2, <1>4 DEF OnceInv, FreshInv, Fresh, Imported
  <2>2. FreshInv'  BY <2>1, <1>4, PassFreshHere DEF FreshInv
  <2>3. ImportedOnce'  BY <1>4 DEF OnceInv, ImportedOnce
  <2>. QED  BY <1>1, <1>2, <1>3, <2>2, <2>3 DEF OnceInv
<1>5. CASE ~ UNCHANGED journal
  <2>1. Import(r) \/ ImportFails(r)
    BY <1>5, PassJournal
  <2>2. /\ TypeOK /\ work[r] \in Preparations /\ journal \in Seq(Records)
        /\ Fresh(r, work[r]) /\ LockInv
    BY DEF OnceInv, TypeOK, FreshInv
  <2>3. work[r].at = "importing" /\ lock = r /\ lock' = r
    BY <2>1, <2>2 DEF Import, ImportFails, LockInv
  <2>4. PICK m \in work[r].imports :
           /\ journal' = Append(journal, Record(m.of, m.name))
           /\ \E d : Becomes(r, "importing", work[r].attempt, work[r].seen,
                             work[r].imports \ {m}, d)
    BY <1>5, <2>1, <2>2, ImportEntry
  <2>5. Record(m.of, m.name) \in Records /\ Record(m.of, m.name).via = m.name
    BY <2>2 DEF Preparations, Markers, Record, Records
  <2>6. /\ Len(journal') = Len(journal) + 1 /\ Len(journal) \in Nat
        /\ \A i \in 1 .. Len(journal) : journal'[i] = journal[i]
        /\ journal'[Len(journal) + 1].via = m.name
    BY <2>2, <2>4, <2>5, OneMore
  <2>7. \A q \in Passes \ {r} : Fresh(q, work[q])'
    BY <1>2, <2>3, <2>4, <2>5, JournalGrows
  <2>8. Fresh(r, work[r])'
    <3>1. work[r].seen \in Nat
      BY <2>2 DEF Preparations
    <3>2. \A n : Imported(n, Len(journal))' <=> Imported(n, Len(journal)) \/ n = m.name
      BY <2>6 DEF Imported
    <3>. QED  BY <2>2, <2>3, <2>4, <2>6, <3>1, <3>2 DEF Becomes, Fresh
  <2>9. ImportedOnce'
    <3>1. ~Imported(m.name, Len(journal))
      BY <2>2, <2>3 DEF Fresh
    <3>2. DOMAIN journal = 1 .. Len(journal) /\ DOMAIN journal' = 1 .. Len(journal')
      BY <1>1, <2>2 DEF TypeOK
    <3>. QED  BY <2>6, <3>1, <3>2 DEF OnceInv, ImportedOnce, Imported
  <2>10. FreshInv'  BY <2>7, <2>8 DEF FreshInv
  <2>. QED  BY <1>1, <1>2, <1>3, <2>9, <2>10 DEF OnceInv
<1>. QED  BY <1>4, <1>5

LEMMA OnceInvariant == Spec => []OnceInv
<1>1. Init => OnceInv  BY InitOnce
<1>2. OnceInv /\ [Next]_vars => OnceInv'
  <2>. SUFFICES ASSUME OnceInv, [Next]_vars PROVE OnceInv'
    OBVIOUS
  <2>1. CASE Next
    BY <2>1, BypassOnce, PassOnce DEF Next
  <2>2. CASE UNCHANGED vars
    BY <2>2 DEF vars, OnceInv, TypeOK, LockInv, AttemptInv, FreshInv, Fresh,
                Imported, ImportedOnce
  <2>. QED  BY <2>1, <2>2
<1>. QED  BY <1>1, <1>2, PTL DEF Spec

\* Every state has the types of the code's state.
THEOREM TypeCorrect == Spec => []TypeOK
  BY OnceInvariant, PTL DEF OnceInv

\* However passes race and wherever they are killed, a marker is imported by at
\* most one record of the journal.
THEOREM MarkersImportedOnce == Spec => []ImportedOnce
  BY OnceInvariant, PTL DEF OnceInv

----------------------------------------------------------------------------
\* Only hooks of one process id share a name.
LEMMA OneOwner ==
    ASSUME NEW b \in Bypasses, NEW c \in Bypasses, NEW n, Owns(b, n), Owns(c, n)
    PROVE  b = c \/ (n.base = Shell[b] /\ n.base = Shell[c])
  BY AuditAssumption DEF Owns

\* A file's name and owner stay, and whole files stay whole.
LEMMA BypassDir ==
    ASSUME NEW b \in Bypasses, TypeOK,
           Invoke(b) \/ RecordBypass(b) \/ BypassFails(b)
    PROVE  /\ \A o \in dir : \E m \in dir' :
                 m.name = o.name /\ m.of = o.of /\ (o.whole => m.whole)
           /\ \A m \in dir' : \/ \E o \in dir : o.name = m.name /\ o.of = m.of
                              \/ Owns(m.of, m.name)
<1>. USE DEF TypeOK
<1>1. CASE UNCHANGED dir
  BY <1>1
<1>2. CASE CreateMarker(b)
  BY <1>2 DEF CreateMarker, Marker, Owns
<1>3. CASE WriteMarker(b)
  BY <1>3, CompleteDir DEF WriteMarker
<1>4. CASE CreateFallback(b)
  <2>1. PICK s : dir' = dir \cup {Marker([base |-> Shell[b], seq |-> s], b, FALSE)}
    BY <1>4 DEF CreateFallback
  <2>. QED  BY <2>1 DEF Marker, Owns
<1>5. CASE PrintMarker(b)
  BY <1>5, CompleteDir DEF PrintMarker
<1>. QED
  BY <1>1, <1>2, <1>3, <1>4, <1>5
     DEF Invoke, RecordBypass, BypassFails, TakeLock, Contended, AppendDirect,
         PublishDirect, SyncMarker, DirectFails, MarkerFails, EngineEnds,
         FallbackFails

\* A new file takes no name of another bypass's file.
LEMMA BypassNames ==
    ASSUME NEW b \in Bypasses, TypeOK, OwnerInv,
           Invoke(b) \/ RecordBypass(b) \/ BypassFails(b)
    PROVE  \A m, o \in dir' : m.name = o.name => m.of = o.of
<1>. USE DEF TypeOK, OwnerInv
<1>1. CASE UNCHANGED dir
  BY <1>1
<1>2. CASE CreateMarker(b)
  <2>1. \A o \in dir : o.name.base = b => o.of = b
    BY AuditAssumption DEF Owns, Markers
  <2>. QED  BY <1>2, <2>1 DEF CreateMarker, Marker
<1>3. CASE WriteMarker(b) \/ PrintMarker(b)
  <2>1. \A m \in dir' : \E o \in dir : o.name = m.name /\ o.of = m.of
    BY <1>3, CompleteDir DEF WriteMarker, PrintMarker
  <2>. QED  BY <2>1
<1>4. CASE CreateFallback(b)
  <2>1. PICK s \in 0 .. Cardinality(Bypasses) :
           /\ ~ \E m \in dir : m.name = [base |-> Shell[b], seq |-> s]
           /\ dir' = dir \cup {Marker([base |-> Shell[b], seq |-> s], b, FALSE)}
    <3>1. PICK s \in 0 .. Cardinality(Bypasses) :
             /\ \A t \in 0 .. s :
                   (\E m \in dir : m.name = [base |-> Shell[b], seq |-> t]) <=> t < s
             /\ dir' = dir \cup {Marker([base |-> Shell[b], seq |-> s], b, FALSE)}
      BY <1>4 DEF CreateFallback
    <3>2. s \in 0 .. s /\ ~(s < s)
      OBVIOUS
    <3>3. (\E m \in dir : m.name = [base |-> Shell[b], seq |-> s]) <=> s < s
      BY <3>1, <3>2
    <3>. QED  BY <3>1, <3>2, <3>3
  <2>. QED  BY <2>1 DEF Marker
<1>. QED
  BY <1>1, <1>2, <1>3, <1>4
     DEF Invoke, RecordBypass, BypassFails, TakeLock, Contended, AppendDirect,
         PublishDirect, SyncMarker, DirectFails, MarkerFails, EngineEnds,
         FallbackFails

\* Nothing is taken from the journal.
LEMMA JournalKept ==
    ASSUME OnceInv, NEW e \in Records,
           UNCHANGED journal \/ journal' = Append(journal, e)
    PROVE  /\ \A c : Recorded(c) => Recorded(c)'
           /\ \A c, n : Recycled(c, n) => Recycled(c, n)'
           /\ \A n : Imported(n, Len(journal)) => Imported(n, Len(journal))'
<1>1. journal \in Seq(Records)
  BY DEF OnceInv, TypeOK
<1>2. CASE UNCHANGED journal
  BY <1>2 DEF Recorded, Recycled, Imported
<1>3. CASE journal' = Append(journal, e)
  <2>1. /\ Len(journal') = Len(journal) + 1 /\ Len(journal) \in Nat
        /\ \A i \in 1 .. Len(journal) : journal'[i] = journal[i]
        /\ DOMAIN journal = 1 .. Len(journal) /\ DOMAIN journal' = 1 .. Len(journal')
    BY <1>1, <1>3, OneMore
  <2>. QED  BY <2>1 DEF Recorded, Recycled, Imported
<1>. QED  BY <1>2, <1>3

LEMMA InitKeep == Init => KeepInv
  BY DEF Init, Idle, KeepInv, OwnerInv, DoneInv, ProgressInv

LEMMA BypassKeep ==
    ASSUME NEW b \in Bypasses, OnceInv, KeepInv,
           Invoke(b) \/ RecordBypass(b) \/ BypassFails(b)
    PROVE  KeepInv'
<1>1. /\ TypeOK /\ journal \in Seq(Records) /\ work' = work
      /\ at \in [Bypasses -> Ended \cup InEngine \cup InShell]
      /\ marker \in [Bypasses -> Names \cup {None}]
  BY BypassLock DEF OnceInv, TypeOK
<1>2. UNCHANGED journal \/ journal' = Append(journal, Record(b, None))
  BY BypassJournal DEF AppendDirect
<1>3. /\ \A c : Recorded(c) => Recorded(c)'
      /\ \A c, n : Recycled(c, n) => Recycled(c, n)'
      /\ \A n : Imported(n, Len(journal)) => Imported(n, Len(journal))'
  BY <1>2, DirectRecord, JournalKept
<1>4. OwnerInv'
  <2>1. \A m \in dir' : Owns(m.of, m.name)
    BY <1>1, BypassDir DEF KeepInv, OwnerInv, Owns
  <2>2. \A i \in DOMAIN journal' : journal'[i].via # None =>
            Owns(journal'[i].of, journal'[i].via)
    <3>1. CASE UNCHANGED journal
      BY <3>1 DEF KeepInv, OwnerInv, Owns
    <3>2. CASE journal' = Append(journal, Record(b, None))
      <4>1. /\ Len(journal') = Len(journal) + 1 /\ Len(journal) \in Nat
            /\ \A i \in 1 .. Len(journal) : journal'[i] = journal[i]
            /\ journal'[Len(journal) + 1].via = None
            /\ DOMAIN journal = 1 .. Len(journal)
            /\ DOMAIN journal' = 1 .. Len(journal')
        BY <1>1, <3>2, OneMore, DirectRecord
      <4>. QED  BY <4>1 DEF KeepInv, OwnerInv, Owns
    <3>. QED  BY <1>2, <3>1, <3>2
  <2>3. \A m, o \in dir' : m.name = o.name => m.of = o.of
    BY <1>1, BypassNames DEF KeepInv
  <2>. QED  BY <1>1, <2>1, <2>2, <2>3 DEF KeepInv, OwnerInv, Owns
<1>5. DoneInv'
  BY <1>1, <1>3 DEF KeepInv, DoneInv
<1>6. \A c, n : Kept(c, n) => Kept(c, n)'
  BY <1>1, <1>3, BypassDir DEF Kept
<1>7. \A c, n : KeptWhole(c, n) => KeptWhole(c, n)'
  BY <1>1, <1>3, BypassDir DEF KeptWhole
<1>8. \A c \in Bypasses \ {b} : at'[c] = at[c] /\ marker'[c] = marker[c]
  BY <1>1 DEF Invoke, RecordBypass, BypassFails, TakeLock, Contended,
         AppendDirect, PublishDirect, CreateMarker, WriteMarker, SyncMarker,
         CreateFallback, PrintMarker, DirectFails, MarkerFails, EngineEnds,
         FallbackFails, Goto, Unrecorded
<1>9. /\ at'[b] = "appended" => Recorded(b)'
      /\ at'[b] = "writing" => Kept(b, OwnName(b))'
      /\ at'[b] \in {"written", "retained"} => KeptWhole(b, OwnName(b))'
      /\ at'[b] = "printing" => marker'[b].base = Shell[b] /\ Kept(b, marker[b])'
      /\ at'[b] = "printed" =>
            KeptWhole(b, marker[b])' \/ Recycled(b, marker[b])'
  <2>1. CASE AppendDirect(b)
    <3>1. Len(journal) + 1 \in DOMAIN journal' /\ journal'[Len(journal) + 1].of = b
      BY <1>1, <2>1, OneMore, DirectRecord DEF AppendDirect, Record
    <3>2. at'[b] = "appended"
      BY <1>1, <2>1 DEF AppendDirect, Goto
    <3>. QED  BY <3>1, <3>2 DEF Recorded
  <2>2. CASE PublishDirect(b)
    <3>1. at'[b] = "retained" /\ at[b] = "appended"
      BY <1>1, <2>2 DEF PublishDirect, Goto
    <3>. QED  BY <1>3, <3>1 DEF KeepInv, ProgressInv, KeptWhole
  <2>3. CASE CreateMarker(b)
    <3>1. at'[b] = "writing"
      BY <1>1, <2>3 DEF CreateMarker, Goto
    <3>2. Marker([base |-> b, seq |-> 0], b, FALSE) \in dir'
      BY <2>3 DEF CreateMarker
    <3>. QED  BY <3>1, <3>2 DEF Marker, Kept, OwnName
  <2>4. CASE WriteMarker(b)
    <3>1. at'[b] = "written" /\ at[b] = "writing"
      BY <1>1, <2>4 DEF WriteMarker, Goto
    <3>2. CASE Recorded(b)
      BY <1>3, <3>1, <3>2 DEF KeptWhole
    <3>3. CASE \E o \in dir : o.of = b /\ o.name = OwnName(b)
      <4>1. \E m \in dir' : m.of = b /\ m.name = OwnName(b) /\ m.whole
        BY <1>1, <2>4, <3>3, CompleteDir DEF WriteMarker, TypeOK, OwnName
      <4>. QED  BY <3>1, <4>1 DEF KeptWhole, OwnName
    <3>. QED  BY <3>1, <3>2, <3>3 DEF KeepInv, ProgressInv, Kept
  <2>5. CASE SyncMarker(b)
    <3>1. at'[b] = "retained" /\ at[b] = "written"
      BY <1>1, <2>5 DEF SyncMarker, Goto
    <3>. QED  BY <1>7, <3>1 DEF KeepInv, ProgressInv
  <2>6. CASE CreateFallback(b)
    <3>1. at'[b] = "printing"
      BY <1>1, <2>6 DEF CreateFallback, Goto
    <3>2. PICK s \in 0 .. Cardinality(Bypasses) :
             /\ Marker([base |-> Shell[b], seq |-> s], b, FALSE) \in dir'
             /\ marker'[b] = [base |-> Shell[b], seq |-> s]
      BY <1>1, <2>6 DEF CreateFallback, TypeOK
    <3>. QED  BY <3>1, <3>2 DEF Marker, Kept
  <2>7. CASE PrintMarker(b)
    <3>1. at'[b] = "printed" /\ at[b] = "printing" /\ marker' = marker
      BY <1>1, <2>7 DEF PrintMarker, Goto
    <3>2. CASE Recorded(b)
      BY <1>3, <3>1, <3>2 DEF KeptWhole
    <3>3. CASE \E o \in dir : o.of = b /\ o.name = marker[b]
      <4>1. \E m \in dir' : m.of = b /\ m.name = marker[b] /\ m.whole
        BY <1>1, <2>7, <3>1, <3>3, CompleteDir
           DEF PrintMarker, TypeOK, KeepInv, ProgressInv
      <4>. QED  BY <3>1, <4>1 DEF KeptWhole
    <3>. QED  BY <1>3, <3>1, <3>2, <3>3 DEF KeepInv, ProgressInv, Kept
  <2>8. CASE Invoke(b) \/ TakeLock(b) \/ Contended(b) \/ BypassFails(b)
    <3>1. at'[b] \in {"engine", "fallback", "locked", "marking", "lost"}
      BY <1>1, <2>8 DEF Invoke, TakeLock, Contended, BypassFails, DirectFails,
             MarkerFails, EngineEnds, FallbackFails, Goto, Unrecorded
    <3>. QED  BY <3>1
  <2>. QED
    BY <2>1, <2>2, <2>3, <2>4, <2>5, <2>6, <2>7, <2>8 DEF RecordBypass
<1>10. ProgressInv'
  <2>1. OwnName(b)' = OwnName(b) /\ \A c : OwnName(c)' = OwnName(c)
    BY DEF OwnName
  <2>. QED  BY <1>3, <1>6, <1>7, <1>8, <1>9, <2>1 DEF KeepInv, ProgressInv
<1>. QED  BY <1>4, <1>5, <1>10 DEF KeepInv

\* A name some record was imported from is that of a bypass in the journal, or
\* of a hook whose process id an earlier one had.
LEMMA ImportAccounts ==
    ASSUME TypeOK, KeepInv, NEW b \in Bypasses, NEW n, n # None, Owns(b, n),
           Imported(n, Len(journal))
    PROVE  Recorded(b) \/ (n.base = Shell[b] /\ Recycled(b, n))
<1>1. PICK i \in 1 .. Len(journal) : journal[i].via = n
  BY DEF Imported
<1>2. i \in DOMAIN journal /\ journal[i].of \in Bypasses
  <2>1. journal \in Seq(Records)  BY DEF TypeOK
  <2>2. i \in DOMAIN journal /\ journal[i] \in Records  BY <1>1, <2>1
  <2>. QED  BY <2>2 DEF Records
<1>3. Owns(journal[i].of, n)
  BY <1>1, <1>2 DEF KeepInv, OwnerInv
<1>4. CASE journal[i].of = b
  BY <1>2, <1>4 DEF Recorded
<1>5. CASE journal[i].of # b
  <2>1. n.base = Shell[b]
    BY <1>2, <1>3, <1>5, OneOwner
  <2>. QED  BY <1>1, <1>2, <1>5, <2>1 DEF Recycled
<1>. QED  BY <1>4, <1>5

\* Deleting a marker whose name a record carries gives up no bypass, unless the
\* record is that of another hook of the same process id.
LEMMA DeleteKeeps ==
    ASSUME NEW r \in Passes, OnceInv, KeepInv, DeleteMarker(r),
           NEW o \in dir, o \notin dir'
    PROVE  \/ Recorded(o.of)
           \/ o.name.base = Shell[o.of] /\ Recycled(o.of, o.name)
<1>1. PICK n \in work[r].left : dir' = {m \in dir : m.name # n}
  BY DEF DeleteMarker
<1>2. o.name = n /\ o.of \in Bypasses /\ Owns(o.of, n)
  BY <1>1 DEF OnceInv, TypeOK, Markers, KeepInv, OwnerInv
<1>3. Imported(n, Len(journal))
  BY DEF DeleteMarker, KeepInv, DoneInv
<1>4. n \in Names /\ n # None
  BY AuditAssumption DEF OnceInv, TypeOK, Preparations
<1>. QED  BY <1>2, <1>3, <1>4, ImportAccounts DEF OnceInv, TypeOK

LEMMA PassDir ==
    ASSUME NEW r \in Passes, Reconcile(r) \/ PassFails(r)
    PROVE  UNCHANGED dir \/ DeleteMarker(r)
  BY DEF Reconcile, PassFails, Begin, Prepare, ReadMarker, AcquireLock, Recheck,
         UseLockedPreparation, Import, CommitRepairs, Conclude, TimeOut,
         ImportFails, Abandon

\* Only an import, failed or not, changes what the journal holds.
LEMMA PassRecords ==
    ASSUME NEW r \in Passes, OnceInv, KeepInv, Reconcile(r) \/ PassFails(r)
    PROVE  \/ UNCHANGED journal
           \/ \E b \in Bypasses, n \in Names :
                 Owns(b, n) /\ journal' = Append(journal, Record(b, n))
<1>1. TypeOK /\ work[r] \in Preparations
  BY DEF OnceInv, TypeOK
<1>2. CASE Import(r) \/ ImportFails(r)
  <2>1. PICK m \in work[r].imports :
           UNCHANGED journal \/ journal' = Append(journal, Record(m.of, m.name))
    BY <1>1, <1>2, ImportEntry
  <2>2. m.of \in Bypasses /\ m.name \in Names
    BY <1>1 DEF Preparations, Markers
  <2>. QED  BY <2>1, <2>2 DEF KeepInv, OwnerInv
<1>. QED  BY <1>2, PassJournal

LEMMA PassOwner ==
    ASSUME NEW r \in Passes, OnceInv, KeepInv, Reconcile(r) \/ PassFails(r)
    PROVE  OwnerInv'
<1>1. /\ TypeOK /\ work[r] \in Preparations /\ journal \in Seq(Records)
      /\ \A q \in Passes \ {r} : work'[q] = work[q]
  BY PassLock DEF OnceInv, TypeOK
<1>2. dir' \subseteq dir
  BY PassDir DEF DeleteMarker
<1>3. \A i \in DOMAIN journal' : journal'[i].via # None =>
          Owns(journal'[i].of, journal'[i].via)
  <2>1. CASE UNCHANGED journal
    BY <2>1 DEF KeepInv, OwnerInv, Owns
  <2>2. CASE ~ UNCHANGED journal
    <3>1. PICK b \in Bypasses, n \in Names :
             Owns(b, n) /\ journal' = Append(journal, Record(b, n))
      BY <2>2, PassRecords
    <3>2. /\ Record(b, n) \in Records
          /\ Record(b, n).of = b /\ Record(b, n).via = n
      BY DEF Record, Records
    <3>3. /\ DOMAIN journal = 1 .. Len(journal)
          /\ DOMAIN journal' = 1 .. (Len(journal) + 1) /\ Len(journal) \in Nat
          /\ \A i \in 1 .. Len(journal) : journal'[i] = journal[i]
          /\ journal'[Len(journal) + 1] = Record(b, n)
      BY <1>1, <3>1, <3>2, OneMore
    <3>. QED  BY <3>1, <3>2, <3>3 DEF KeepInv, OwnerInv, Owns
  <2>. QED  BY <2>1, <2>2
<1>4. \A m \in work'[r].imports : Owns(m.of, m.name)
  <2>1. \A m \in work[r].imports \cup dir : Owns(m.of, m.name)
    BY DEF KeepInv, OwnerInv
  <2>2. work'[r].imports \subseteq work[r].imports \cup dir
    <3>1. CASE Begin(r) \/ Prepare(r) \/ TimeOut(r) \/ Abandon(r) \/ Conclude(r)
      BY <1>1, <3>1, Entries DEF Becomes
    <3>2. CASE Recheck(r) \/ CommitRepairs(r) \/ DeleteMarker(r)
      BY <1>1, <3>2, Entries DEF Becomes
    <3>3. CASE AcquireLock(r) \/ UseLockedPreparation(r)
      BY <1>1, <3>3, StepEntry DEF Becomes
    <3>4. CASE Import(r) \/ ImportFails(r)
      BY <1>1, <3>4, ImportEntry DEF Becomes
    <3>5. CASE ReadMarker(r)
      BY <1>1, <3>5, ReadEntry
    <3>. QED  BY <3>1, <3>2, <3>3, <3>4, <3>5 DEF Reconcile, PassFails
  <2>. QED  BY <2>1, <2>2
<1>5. \A m, o \in dir' : m.name = o.name => m.of = o.of
  BY <1>2 DEF KeepInv, OwnerInv
<1>. QED  BY <1>1, <1>2, <1>3, <1>4, <1>5 DEF KeepInv, OwnerInv, Owns

LEMMA PassDone ==
    ASSUME NEW r \in Passes, OnceInv, KeepInv, Reconcile(r) \/ PassFails(r),
           \A n : Imported(n, Len(journal)) => Imported(n, Len(journal))'
    PROVE  DoneInv'
<1>1. /\ TypeOK /\ work[r] \in Preparations /\ journal \in Seq(Records)
      /\ \A q \in Passes \ {r} : work'[q] = work[q]
      /\ Fresh(r, work[r])
  BY PassLock DEF OnceInv, TypeOK, FreshInv
<1>2. \A n : Imported(n, work[r].seen) => Imported(n, Len(journal))
  <2>1. /\ work[r].seen <= Len(journal) /\ work[r].seen \in Nat
        /\ Len(journal) \in Nat
    BY <1>1 DEF Fresh, Preparations
  <2>. QED  BY <2>1 DEF Imported
<1>3. \A n \in work[r].done : Imported(n, Len(journal))
  BY DEF KeepInv, DoneInv
<1>4. /\ \A n \in work'[r].done : Imported(n, Len(journal))'
      /\ work'[r].at = "deleting" =>
            \A n \in work'[r].left : Imported(n, Len(journal))'
  <2>1. CASE Begin(r) \/ Prepare(r) \/ TimeOut(r) \/ Abandon(r) \/ Conclude(r)
    BY <1>1, <1>3, <2>1, Entries DEF Becomes
  <2>2. CASE Recheck(r)
    BY <1>1, <1>3, <2>2, Entries DEF Becomes
  <2>3. CASE CommitRepairs(r)
    BY <1>1, <1>3, <2>3, Entries DEF Becomes
  <2>4. CASE DeleteMarker(r)
    <3>1. \A n \in work[r].left : Imported(n, Len(journal))
      BY <2>4 DEF DeleteMarker, KeepInv, DoneInv
    <3>. QED  BY <1>1, <1>3, <2>4, <3>1, Entries DEF Becomes
  <2>5. CASE AcquireLock(r) \/ UseLockedPreparation(r)
    BY <1>1, <1>3, <2>5, StepEntry DEF Becomes
  <2>6. CASE ReadMarker(r)
    BY <1>1, <1>2, <1>3, <2>6, ReadEntry
  <2>7. CASE Import(r) \/ ImportFails(r)
    <3>1. PICK m \in work[r].imports :
             \/ /\ journal' = Append(journal, Record(m.of, m.name))
                /\ \E d \in {work[r].done, work[r].done \cup {m.name}} :
                      Becomes(r, "importing", work[r].attempt, work[r].seen,
                              work[r].imports \ {m}, d)
             \/ Becomes(r, "importing", work[r].attempt, work[r].seen,
                        work[r].imports \ {m}, work[r].done)
      BY <1>1, <2>7, ImportEntry
    <3>2. CASE journal' = Append(journal, Record(m.of, m.name))
      <4>1. Record(m.of, m.name) \in Records /\ Record(m.of, m.name).via = m.name
        BY <1>1 DEF Preparations, Markers, Record, Records
      <4>2. /\ Len(journal') = Len(journal) + 1 /\ Len(journal) \in Nat
            /\ journal'[Len(journal) + 1].via = m.name
        BY <1>1, <3>2, <4>1, OneMore
      <4>3. Imported(m.name, Len(journal))'
        BY <4>2 DEF Imported
      <4>. QED  BY <1>3, <3>1, <4>3 DEF Becomes
    <3>. QED  BY <1>3, <3>1, <3>2 DEF Becomes
  <2>. QED
    BY <2>1, <2>2, <2>3, <2>4, <2>5, <2>6, <2>7 DEF Reconcile, PassFails
<1>. QED
  BY <1>1, <1>4 DEF KeepInv, DoneInv

LEMMA PassJournalKept ==
    ASSUME NEW r \in Passes, OnceInv, KeepInv, Reconcile(r) \/ PassFails(r)
    PROVE  /\ \A c : Recorded(c) => Recorded(c)'
           /\ \A c, n : Recycled(c, n) => Recycled(c, n)'
           /\ \A n : Imported(n, Len(journal)) => Imported(n, Len(journal))'
<1>1. CASE UNCHANGED journal
  BY <1>1 DEF Recorded, Recycled, Imported
<1>2. CASE ~ UNCHANGED journal
  <2>1. PICK b \in Bypasses, n \in Names : journal' = Append(journal, Record(b, n))
    BY <1>2, PassRecords
  <2>2. Record(b, n) \in Records
    BY DEF Record, Records
  <2>. QED  BY <2>1, <2>2, JournalKept
<1>. QED  BY <1>1, <1>2

LEMMA PassMarker ==
    ASSUME NEW r \in Passes, Reconcile(r) \/ PassFails(r)
    PROVE  marker' = marker
  BY DEF Reconcile, PassFails, Begin, Prepare, ReadMarker, AcquireLock, Recheck,
         UseLockedPreparation, Import, CommitRepairs, DeleteMarker, Conclude,
         TimeOut, ImportFails, Abandon

LEMMA PassKeep ==
    ASSUME NEW r \in Passes, OnceInv, KeepInv,
           Reconcile(r) \/ PassFails(r)
    PROVE  KeepInv'
<1>1. at' = at /\ marker' = marker  BY PassLock, PassMarker
<1>2. /\ \A c : Recorded(c) => Recorded(c)'
      /\ \A c, n : Recycled(c, n) => Recycled(c, n)'
      /\ \A n : Imported(n, Len(journal)) => Imported(n, Len(journal))'
  BY PassJournalKept
<1>3. OwnerInv'  BY PassOwner
<1>4. DoneInv'  BY <1>2, PassDone
<1>5. \A o \in dir :
         \/ o \in dir'
         \/ Recorded(o.of)'
         \/ o.name.base = Shell[o.of] /\ Recycled(o.of, o.name)'
  <2>1. CASE UNCHANGED dir
    BY <2>1
  <2>2. CASE DeleteMarker(r)
    BY <1>2, <2>2, DeleteKeeps
  <2>. QED  BY <2>1, <2>2, PassDir
<1>6. \A c \in Bypasses :
         /\ Kept(c, OwnName(c)) => Kept(c, OwnName(c))'
         /\ KeptWhole(c, OwnName(c)) => KeptWhole(c, OwnName(c))'
  <2>1. \A o \in dir : o.name = OwnName(o.of) => o \in dir' \/ Recorded(o.of)'
    BY <1>5, AuditAssumption DEF OnceInv, TypeOK, Markers, OwnName
  <2>. QED  BY <1>2, <2>1 DEF Kept, KeptWhole, OwnName
<1>7. \A c, n :
         /\ Kept(c, n) => Kept(c, n)' \/ Recycled(c, n)'
         /\ KeptWhole(c, n) => KeptWhole(c, n)' \/ Recycled(c, n)'
  BY <1>2, <1>5 DEF Kept, KeptWhole
<1>8. ProgressInv'
  BY <1>1, <1>2, <1>6, <1>7 DEF KeepInv, ProgressInv
<1>. QED  BY <1>3, <1>4, <1>8 DEF KeepInv

LEMMA StutterKeeps ==
    ASSUME KeepInv, UNCHANGED vars
    PROVE  KeepInv'
<1>. USE DEF vars
<1>1. OwnerInv'  BY DEF KeepInv, OwnerInv, Owns
<1>2. DoneInv'  BY DEF KeepInv, DoneInv, Imported
<1>3. ProgressInv'  BY DEF KeepInv, ProgressInv, Kept, KeptWhole, OwnName,
                             Recorded, Recycled
<1>. QED  BY <1>1, <1>2, <1>3 DEF KeepInv

LEMMA KeepInvariant == Spec => []KeepInv
<1>1. Init => KeepInv  BY InitKeep
<1>2. OnceInv /\ KeepInv /\ [Next]_vars => KeepInv'
  <2>. SUFFICES ASSUME OnceInv, KeepInv, [Next]_vars PROVE KeepInv'
    OBVIOUS
  <2>1. CASE Next
    BY <2>1, BypassKeep, PassKeep DEF Next
  <2>2. CASE UNCHANGED vars
    BY <2>2, StutterKeeps
  <2>. QED  BY <2>1, <2>2
<1>. QED  BY <1>1, <1>2, OnceInvariant, PTL DEF Spec

\* A bypass whose recording reported success stays in the journal or in a
\* marker that can be imported, whatever the number of passes, kills and failed
\* calls, and whichever hooks share a process id: only a marker the shell left
\* is given up, and only where another's was imported under its name.
THEOREM RetainedStaysRecorded == Spec => []RetainedRecorded
<1>1. KeepInv => RetainedRecorded
  BY DEF KeepInv, ProgressInv, KeptWhole, Retained, Mistaken, RetainedRecorded
<1>. QED  BY <1>1, KeepInvariant, PTL
----------------------------------------------------------------------------
Accounted(b) == Recorded(b) \/ Mistaken(b)
\* The marker m is the one b's recording ended with.
Awaits(b, m) ==
    /\ m.of = b
    /\ m.name.base = b \/ (at[b] = "printed" /\ m.name = marker[b])

\* What is already known of b by pass r, or still before it.
Pending(b, w) ==
    \/ Accounted(b) \/ w.unread # {} \/ \E m \in w.imports : m.of = b
    \/ w.at = "reading" /\ \E m \in dir : m.name \in w.left /\ Awaits(b, m)

\* A bypass retained before a pass began is accounted for once the pass has
\* listed the directory.
Owed(r, w) ==
    /\ \A b \in w.owed : at[b] \in Retained
    /\ w.at \in {"reading", "checking", "importing", "deleting"} =>
          \A b \in w.owed : Pending(b, w)
    /\ w.at = "deleting" => w.imports = {}
OwedInv == \A r \in Passes : Owed(r, work[r])

\* What a step makes of the rest of the entry of pass r.
Leaves(r, step, left, imports, unread, owed) ==
    /\ work'[r].at = step /\ work'[r].left = left /\ work'[r].imports = imports
    /\ work'[r].unread = unread /\ work'[r].owed = owed

LEMMA OwedEntries ==
    ASSUME NEW r \in Passes, TypeOK
    PROVE  LET w == work[r] IN
           /\ Begin(r) => Leaves(r, "preparing", {}, {}, {},
                                 {b \in Bypasses : at[b] \in Retained})
           /\ Prepare(r) =>
                 Leaves(r, "reading", {m.name : m \in dir}, {}, {}, w.owed)
           /\ AcquireLock(r) =>
                 \/ /\ Prepared(r)
                    /\ Leaves(r, "checking", w.left, w.imports, w.unread, w.owed)
                 \/ Leaves(r, "preparing", w.left, w.imports, w.unread, w.owed)
           /\ Recheck(r) =>
                 \E s \in {"importing", "preparing", "waiting"} :
                    Leaves(r, s, w.left, w.imports, w.unread, w.owed)
           /\ UseLockedPreparation(r) =>
                 Leaves(r, "importing", w.left, w.imports, w.unread, w.owed)
           /\ CommitRepairs(r) =>
                 \E l : Leaves(r, "deleting", l, {}, w.unread, w.owed)
           /\ DeleteMarker(r) =>
                 \E l : Leaves(r, "deleting", l, w.imports, w.unread, w.owed)
           /\ Conclude(r) =>
                 \/ Leaves(r, "idle", {}, {}, {}, {})
                 \/ Leaves(r, "preparing", w.left, w.imports, w.unread, w.owed)
           /\ TimeOut(r) \/ Abandon(r) => Leaves(r, "idle", {}, {}, {}, {})
<1>. DEFINE w == work[r]
<1>1. work \in [Passes -> Preparations] /\ w \in Preparations
  BY DEF TypeOK
<1>2. w = [at |-> w.at, attempt |-> w.attempt, seen |-> w.seen,
           left |-> w.left, imports |-> w.imports, done |-> w.done,
           unread |-> w.unread, second |-> w.second, owed |-> w.owed]
  BY <1>1, Shape
<1>3. ASSUME NEW s, Step(r, s)
      PROVE  Leaves(r, s, w.left, w.imports, w.unread, w.owed)
  <2>1. work'[r] = [w EXCEPT !.at = s]
    BY <1>1, <1>3 DEF Step, Do
  <2>. HIDE DEF w
  <2>. QED  BY <1>2, <2>1 DEF Leaves
<1>4. ASSUME Begin(r)
      PROVE  Leaves(r, "preparing", {}, {}, {}, {b \in Bypasses : at[b] \in Retained})
  <2>1. work'[r] = [Idle EXCEPT !.at = "preparing",
                                !.owed = {b \in Bypasses : at[b] \in Retained}]
    BY <1>1, <1>4 DEF Begin, Do
  <2>. QED  BY <2>1 DEF Idle, Leaves
<1>5. ASSUME Prepare(r)
      PROVE  Leaves(r, "reading", {m.name : m \in dir}, {}, {}, w.owed)
  <2>1. work'[r] = [w EXCEPT !.at = "reading", !.seen = Len(journal),
                     !.left = {m.name : m \in dir},
                     !.imports = {}, !.done = {}, !.unread = {}]
    BY <1>1, <1>5 DEF Prepare, Do
  <2>. HIDE DEF w
  <2>. QED  BY <1>2, <2>1 DEF Leaves
<1>6. ASSUME Recheck(r)
      PROVE  \E s \in {"importing", "preparing", "waiting"} :
                Leaves(r, s, w.left, w.imports, w.unread, w.owed)
  <2>. DEFINE s == IF w.attempt + 1 < MaxAttempts THEN "preparing" ELSE "waiting"
  <2>1. \/ Step(r, "importing")
        \/ work'[r] = [w EXCEPT !.attempt = @ + 1, !.at = s]
    BY <1>1, <1>6 DEF Recheck, Do
  <2>2. s \in {"preparing", "waiting"}
    OBVIOUS
  <2>3. CASE work'[r] = [w EXCEPT !.attempt = @ + 1, !.at = s]
    <3>. HIDE DEF w, s
    <3>1. Leaves(r, s, w.left, w.imports, w.unread, w.owed)
      BY <1>2, <2>3 DEF Leaves
    <3>. QED  BY <2>2, <3>1
  <2>. QED  BY <1>3, <2>1, <2>3
<1>7. ASSUME CommitRepairs(r)
      PROVE  \E l : Leaves(r, "deleting", l, {}, w.unread, w.owed)
  <2>1. PICK l : work'[r] = [w EXCEPT !.at = "deleting", !.left = l]
    BY <1>1, <1>7 DEF CommitRepairs, Do
  <2>2. w.imports = {}
    BY <1>7 DEF CommitRepairs
  <2>. HIDE DEF w
  <2>3. Leaves(r, "deleting", l, {}, w.unread, w.owed)
    BY <1>2, <2>1, <2>2 DEF Leaves
  <2>. QED  BY <2>3
<1>8. ASSUME DeleteMarker(r)
      PROVE  \E l : Leaves(r, "deleting", l, w.imports, w.unread, w.owed)
  <2>1. PICK n : work'[r] = [w EXCEPT !.left = @ \ {n}]
    BY <1>1, <1>8 DEF DeleteMarker, Do
  <2>2. w.at = "deleting"
    BY <1>8 DEF DeleteMarker
  <2>. HIDE DEF w
  <2>3. Leaves(r, "deleting", w.left \ {n}, w.imports, w.unread, w.owed)
    BY <1>2, <2>1, <2>2 DEF Leaves
  <2>. QED  BY <2>3
<1>9. ASSUME Conclude(r)
      PROVE  \/ Leaves(r, "idle", {}, {}, {}, {})
             \/ Leaves(r, "preparing", w.left, w.imports, w.unread, w.owed)
  <2>1. \/ work'[r] = Idle
        \/ work'[r] = [w EXCEPT !.at = "preparing", !.attempt = 0, !.second = TRUE]
    BY <1>1, <1>9 DEF Conclude, Do
  <2>. HIDE DEF w
  <2>2. CASE work'[r] = Idle
    BY <2>2 DEF Idle, Leaves
  <2>3. CASE work'[r] = [w EXCEPT !.at = "preparing", !.attempt = 0, !.second = TRUE]
    BY <1>2, <2>3 DEF Leaves
  <2>. QED  BY <2>1, <2>2, <2>3
<1>10. ASSUME TimeOut(r) \/ Abandon(r) PROVE Leaves(r, "idle", {}, {}, {}, {})
  BY <1>1, <1>10 DEF TimeOut, Abandon, Do, Idle, Leaves
<1>11. AcquireLock(r) =>
          \/ /\ Prepared(r)
             /\ Leaves(r, "checking", w.left, w.imports, w.unread, w.owed)
          \/ Leaves(r, "preparing", w.left, w.imports, w.unread, w.owed)
  BY <1>3 DEF AcquireLock
<1>12. UseLockedPreparation(r) =>
          Leaves(r, "importing", w.left, w.imports, w.unread, w.owed)
  BY <1>3 DEF UseLockedPreparation
<1>. QED
  BY <1>4, <1>5, <1>6, <1>7, <1>8, <1>9, <1>10, <1>11, <1>12

\* A marker read is counted as unrecorded, known from the journal, or prepared.
LEMMA OwedRead ==
    ASSUME NEW r \in Passes, TypeOK, ReadMarker(r)
    PROVE  LET w == work[r] IN
           \E n \in w.left :
              \/ Leaves(r, "reading", w.left \ {n}, w.imports,
                        w.unread \cup {n}, w.owed)
              \/ /\ Imported(n, w.seen)
                 /\ Leaves(r, "reading", w.left \ {n}, w.imports, w.unread, w.owed)
              \/ \E m \in dir :
                    /\ m.name = n
                    /\ Leaves(r, "reading", w.left \ {n}, w.imports \cup {m},
                              w.unread, w.owed)
<1>1. work[r] \in Preparations /\ work \in [Passes -> Preparations]
  BY DEF TypeOK
<1>2. PICK n \in work[r].left :
          LET w == [work[r] EXCEPT !.left = @ \ {n}] IN
          \/ Do(r, [w EXCEPT !.unread = @ \cup {n}])
          \/ /\ Imported(n, work[r].seen)
             /\ Do(r, [w EXCEPT !.done = @ \cup {n}])
          \/ \E m \in WholeMarkers(n) : Do(r, [w EXCEPT !.imports = @ \cup {m}])
  BY DEF ReadMarker
<1>3. work[r].at = "reading"  BY DEF ReadMarker
<1>. DEFINE w == [work[r] EXCEPT !.left = @ \ {n}]
<1>4. /\ w.at = "reading" /\ w.left = work[r].left \ {n}
      /\ w.imports = work[r].imports /\ w.unread = work[r].unread
      /\ w.owed = work[r].owed
      /\ w = [at |-> w.at, attempt |-> w.attempt, seen |-> w.seen,
              left |-> w.left, imports |-> w.imports, done |-> w.done,
              unread |-> w.unread, second |-> w.second, owed |-> w.owed]
  BY <1>1, <1>3, Shape
<1>. HIDE DEF w
<1>5. CASE Do(r, [w EXCEPT !.unread = @ \cup {n}])
  BY <1>1, <1>4, <1>5 DEF Do, Leaves
<1>6. CASE Imported(n, work[r].seen) /\ Do(r, [w EXCEPT !.done = @ \cup {n}])
  BY <1>1, <1>4, <1>6 DEF Do, Leaves
<1>7. CASE \E m \in WholeMarkers(n) : Do(r, [w EXCEPT !.imports = @ \cup {m}])
  <2>1. PICK m \in WholeMarkers(n) : Do(r, [w EXCEPT !.imports = @ \cup {m}])
    BY <1>7
  <2>2. m \in dir /\ m.name = n
    BY DEF WholeMarkers
  <2>3. Leaves(r, "reading", work[r].left \ {n}, work[r].imports \cup {m},
               work[r].unread, work[r].owed)
    BY <1>1, <1>4, <2>1 DEF Do, Leaves
  <2>. QED  BY <2>2, <2>3
<1>. QED  BY <1>2, <1>5, <1>6, <1>7 DEF w

\* An import that fails leaves its marker counted as unrecorded.
LEMMA OwedImport ==
    ASSUME NEW r \in Passes, TypeOK, Import(r) \/ ImportFails(r)
    PROVE  LET w == work[r] IN
           \E m \in w.imports :
              \/ /\ journal' = Append(journal, Record(m.of, m.name))
                 /\ Leaves(r, "importing", w.left, w.imports \ {m}, w.unread, w.owed)
              \/ Leaves(r, "importing", w.left, w.imports \ {m},
                        w.unread \cup {m.name}, w.owed)
<1>. DEFINE w == work[r]
<1>1. work \in [Passes -> Preparations] /\ w \in Preparations
  BY DEF TypeOK
<1>2. w = [at |-> w.at, attempt |-> w.attempt, seen |-> w.seen,
           left |-> w.left, imports |-> w.imports, done |-> w.done,
           unread |-> w.unread, second |-> w.second, owed |-> w.owed]
  BY <1>1, Shape
<1>3. w.at = "importing"
  BY DEF Import, ImportFails
<1>4. CASE Import(r)
  <2>1. PICK m \in w.imports :
           /\ journal' = Append(journal, Record(m.of, m.name))
           /\ work'[r] = [w EXCEPT !.imports = @ \ {m}, !.done = @ \cup {m.name}]
    BY <1>1, <1>4 DEF Import, Do
  <2>2. Leaves(r, "importing", w.left, w.imports \ {m}, w.unread, w.owed)
    <3>. HIDE DEF w
    <3>. QED  BY <1>2, <1>3, <2>1 DEF Leaves
  <2>. QED  BY <2>1, <2>2
<1>5. CASE ImportFails(r)
  <2>1. PICK m \in w.imports :
           work'[r] = [w EXCEPT !.imports = @ \ {m}, !.unread = @ \cup {m.name}]
    BY <1>1, <1>5 DEF ImportFails, Do
  <2>2. Leaves(r, "importing", w.left, w.imports \ {m}, w.unread \cup {m.name}, w.owed)
    <3>. HIDE DEF w
    <3>. QED  BY <1>2, <1>3, <2>1 DEF Leaves
  <2>. QED  BY <2>1, <2>2
<1>. QED  BY <1>4, <1>5

\* A bypass some pass owes stays retained as it is.
LEMMA RetainedStays ==
    ASSUME NEW b \in Bypasses, OnceInv, NEW c \in Bypasses, at[c] \in Retained,
           Invoke(b) \/ RecordBypass(b) \/ BypassFails(b)
    PROVE  at'[c] = at[c] /\ marker'[c] = marker[c]
<1>1. /\ at \in [Bypasses -> Ended \cup InEngine \cup InShell]
      /\ marker \in [Bypasses -> Names \cup {None}]
  BY DEF OnceInv, TypeOK
<1>2. CASE c # b
  BY <1>1, <1>2 DEF Invoke, RecordBypass, BypassFails, TakeLock, Contended,
         AppendDirect, PublishDirect, CreateMarker, WriteMarker, SyncMarker,
         CreateFallback, PrintMarker, DirectFails, MarkerFails, EngineEnds,
         FallbackFails, Goto, Unrecorded
<1>3. CASE c = b
  BY <1>1, <1>3 DEF Invoke, RecordBypass, BypassFails, TakeLock, Contended,
         AppendDirect, PublishDirect, CreateMarker, WriteMarker, SyncMarker,
         CreateFallback, PrintMarker, DirectFails, MarkerFails, EngineEnds,
         FallbackFails, InEngine, InShell, Retained
<1>. QED  BY <1>2, <1>3

\* What a pass does not touch stays accounted for, where the journal only grows
\* and a marker goes only if its bypass is accounted for.
LEMMA OwedStays ==
    ASSUME OnceInv, NEW r \in Passes, Owed(r, work[r]), work'[r] = work[r],
           \A c \in Bypasses :
              at[c] \in Retained => at'[c] = at[c] /\ marker'[c] = marker[c],
           \A c : Recorded(c) => Recorded(c)',
           \A c, n : Recycled(c, n) => Recycled(c, n)',
           \A c \in Bypasses : \A m \in dir : Awaits(c, m) =>
              Accounted(c)' \/ \E o \in dir' : o.name = m.name /\ o.of = m.of
    PROVE  Owed(r, work[r])'
<1>1. work[r].owed \subseteq Bypasses
  BY DEF OnceInv, TypeOK, Preparations
<1>2. ASSUME NEW c \in work[r].owed, Pending(c, work[r])
      PROVE  Pending(c, work[r])'
  <2>1. c \in Bypasses /\ at'[c] = at[c] /\ marker'[c] = marker[c]
    BY <1>1, <1>2 DEF Owed
  <2>2. Accounted(c) => Accounted(c)'
    BY <2>1 DEF Accounted, Mistaken
  <2>3. CASE Accounted(c) \/ work[r].unread # {} \/ \E m \in work[r].imports : m.of = c
    BY <2>2, <2>3 DEF Pending
  <2>4. CASE /\ work[r].at = "reading"
             /\ \E m \in dir : m.name \in work[r].left /\ Awaits(c, m)
    <3>1. PICK m \in dir : m.name \in work[r].left /\ Awaits(c, m)
      BY <2>4
    <3>2. CASE Accounted(c)'
      BY <3>2 DEF Pending
    <3>3. CASE \E o \in dir' : o.name = m.name /\ o.of = m.of
      BY <2>1, <2>4, <3>1, <3>3 DEF Pending, Awaits
    <3>. QED  BY <2>1, <3>1, <3>2, <3>3
  <2>. QED  BY <1>2, <2>3, <2>4 DEF Pending
<1>3. \A c \in work[r].owed : at'[c] \in Retained
  BY <1>1 DEF Owed
<1>. QED  BY <1>2, <1>3 DEF Owed

LEMMA BypassOwed ==
    ASSUME NEW b \in Bypasses, OnceInv, OwedInv,
           Invoke(b) \/ RecordBypass(b) \/ BypassFails(b)
    PROVE  OwedInv'
<1>1. UNCHANGED journal \/ journal' = Append(journal, Record(b, None))
  BY BypassJournal DEF AppendDirect
<1>2. /\ \A c : Recorded(c) => Recorded(c)'
      /\ \A c, n : Recycled(c, n) => Recycled(c, n)'
  BY <1>1, DirectRecord, JournalKept
<1>3. \A c \in Bypasses :
         at[c] \in Retained => at'[c] = at[c] /\ marker'[c] = marker[c]
  BY RetainedStays
<1>4. work' = work
  BY BypassLock
<1>5. \A m \in dir : \E o \in dir' : o.name = m.name /\ o.of = m.of
  BY BypassDir DEF OnceInv
<1>. QED  BY <1>2, <1>3, <1>4, <1>5, OwedStays DEF OwedInv

\* A marker that is read accounts for its bypass: it is unreadable, imported
\* already, or prepared.
LEMMA ReadAccounts ==
    ASSUME NEW r \in Passes, OnceInv, KeepInv, NEW b \in Bypasses,
           NEW m \in dir, Awaits(b, m), m.name \in work[r].left
    PROVE  /\ Imported(m.name, work[r].seen) => Accounted(b)
           /\ \A o \in dir : o.name = m.name => o.of = b
<1>1. /\ work[r] \in Preparations /\ TypeOK
      /\ work[r].seen <= Len(journal) /\ Len(journal) \in Nat
  BY DEF OnceInv, TypeOK, FreshInv, Fresh
<1>2. m.name # None /\ Owns(b, m.name) /\ m.of = b
  BY <1>1, AuditAssumption DEF Preparations, KeepInv, OwnerInv, Awaits
<1>3. ASSUME Imported(m.name, work[r].seen) PROVE Accounted(b)
  <2>1. Imported(m.name, Len(journal))
    <3>1. work[r].seen \in Nat
      BY <1>1 DEF Preparations
    <3>. QED  BY <1>1, <1>3, <3>1 DEF Imported
  <2>2. Recorded(b) \/ (m.name.base = Shell[b] /\ Recycled(b, m.name))
    BY <1>1, <1>2, <2>1, ImportAccounts
  <2>3. m.name.base = Shell[b] => at[b] = "printed" /\ m.name = marker[b]
    BY AuditAssumption DEF Awaits
  <2>. QED  BY <2>2, <2>3 DEF Accounted, Mistaken
<1>4. \A o \in dir : o.name = m.name => o.of = b
  BY <1>2 DEF KeepInv, OwnerInv
<1>. QED  BY <1>3, <1>4

LEMMA ReadOwed ==
    ASSUME NEW r \in Passes, OnceInv, KeepInv, Owed(r, work[r]), ReadMarker(r)
    PROVE  Owed(r, work[r])'
<1>. DEFINE w == work[r]
            v == work'[r]
<1>1. PICK n \in w.left :
         \/ Leaves(r, "reading", w.left \ {n}, w.imports, w.unread \cup {n}, w.owed)
         \/ /\ Imported(n, w.seen)
            /\ Leaves(r, "reading", w.left \ {n}, w.imports, w.unread, w.owed)
         \/ \E m \in dir :
               /\ m.name = n
               /\ Leaves(r, "reading", w.left \ {n}, w.imports \cup {m},
                         w.unread, w.owed)
  BY OwedRead DEF OnceInv
<1>2. /\ v.at = "reading" /\ v.owed = w.owed /\ v.left = w.left \ {n}
      /\ w.imports \subseteq v.imports /\ w.unread \subseteq v.unread
      /\ \/ v.unread # {}
         \/ Imported(n, w.seen)
         \/ \E m \in dir : m.name = n /\ m \in v.imports
  BY <1>1 DEF Leaves
<1>3. /\ w.owed \subseteq Bypasses /\ w.at = "reading"
      /\ at' = at /\ marker' = marker /\ journal' = journal /\ dir' = dir
  BY DEF ReadMarker, OnceInv, TypeOK, Preparations
<1>4. ASSUME NEW b \in w.owed PROVE Pending(b, work[r])'
  <2>1. b \in Bypasses /\ Pending(b, w) /\ (Accounted(b) => Accounted(b)')
    BY <1>3, <1>4 DEF Owed, Accounted, Mistaken, Recorded, Recycled
  <2>2. CASE Accounted(b) \/ w.unread # {} \/ \E m \in w.imports : m.of = b
    BY <1>2, <2>1, <2>2 DEF Pending
  <2>3. CASE \E m \in dir : m.name \in w.left /\ Awaits(b, m)
    <3>1. PICK m \in dir : m.name \in w.left /\ Awaits(b, m)
      BY <2>3
    <3>2. CASE m.name = n
      <4>1. /\ Imported(n, w.seen) => Accounted(b)
            /\ \A o \in dir : o.name = n => o.of = b
        BY <2>1, <3>1, <3>2, ReadAccounts
      <4>. QED  BY <1>2, <2>1, <4>1 DEF Pending
    <3>3. CASE m.name # n
      BY <1>2, <1>3, <3>1, <3>3 DEF Pending, Awaits
    <3>. QED  BY <3>2, <3>3
  <2>. QED  BY <2>1, <2>2, <2>3 DEF Pending
<1>. QED  BY <1>2, <1>3, <1>4 DEF Owed

LEMMA ImportOwed ==
    ASSUME NEW r \in Passes, OnceInv, Owed(r, work[r]),
           \A c : Recorded(c) => Recorded(c)',
           \A c, n : Recycled(c, n) => Recycled(c, n)', Import(r) \/ ImportFails(r)
    PROVE  Owed(r, work[r])'
<1>. DEFINE w == work[r]
            v == work'[r]
<1>1. PICK m \in w.imports :
         \/ /\ journal' = Append(journal, Record(m.of, m.name))
            /\ Leaves(r, "importing", w.left, w.imports \ {m}, w.unread, w.owed)
         \/ Leaves(r, "importing", w.left, w.imports \ {m},
                   w.unread \cup {m.name}, w.owed)
  BY OwedImport DEF OnceInv
<1>2. /\ v.at = "importing" /\ v.owed = w.owed /\ v.imports = w.imports \ {m}
      /\ w.unread \subseteq v.unread
      /\ v.unread # {} \/ journal' = Append(journal, Record(m.of, m.name))
  BY <1>1 DEF Leaves
<1>3. at' = at /\ marker' = marker /\ w.at = "importing"
  BY DEF Import, ImportFails
<1>4. journal' = Append(journal, Record(m.of, m.name)) => Recorded(m.of)'
  <2>1. journal \in Seq(Records) /\ Record(m.of, m.name) \in Records
    BY DEF OnceInv, TypeOK, Preparations, Markers, Record, Records
  <2>2. ASSUME journal' = Append(journal, Record(m.of, m.name))
        PROVE  /\ Len(journal) + 1 \in DOMAIN journal'
               /\ journal'[Len(journal) + 1].of = m.of
    BY <2>1, <2>2, OneMore DEF Record
  <2>. QED  BY <2>2 DEF Recorded
<1>5. ASSUME NEW b \in w.owed PROVE Pending(b, work[r])'
  <2>1. Pending(b, w)
    BY <1>3, <1>5 DEF Owed
  <2>2. CASE Accounted(b) \/ w.unread # {}
    BY <1>2, <1>3, <2>2 DEF Pending, Accounted, Mistaken
  <2>3. CASE \E k \in w.imports : k.of = b
    BY <1>2, <1>4, <2>3 DEF Pending, Accounted
  <2>. QED  BY <1>3, <2>1, <2>2, <2>3 DEF Pending
<1>. QED  BY <1>2, <1>3, <1>5 DEF Owed

\* A pass that has listed the directory has every bypass it owes in the
\* journal or among the names it is about to read.
LEMMA PrepareOwed ==
    ASSUME NEW r \in Passes, OnceInv, KeepInv, Owed(r, work[r]), Prepare(r)
    PROVE  Owed(r, work[r])'
<1>. DEFINE w == work[r]
<1>1. Leaves(r, "reading", {m.name : m \in dir}, {}, {}, w.owed)
  BY OwedEntries DEF OnceInv
<1>2. /\ w.owed \subseteq Bypasses
      /\ at' = at /\ marker' = marker /\ journal' = journal /\ dir' = dir
  BY DEF Prepare, OnceInv, TypeOK, Preparations
<1>3. ASSUME NEW b \in w.owed PROVE Pending(b, work[r])'
  <2>1. \/ Accounted(b)
        \/ \E m \in dir : Awaits(b, m)
    <3>1. b \in Bypasses /\ at[b] \in Retained
      BY <1>2, <1>3 DEF Owed
    <3>2. CASE at[b] = "retained"
      <4>1. OwnName(b).base = b
        BY DEF OwnName
      <4>2. Recorded(b) \/ \E m \in dir : m.of = b /\ m.name = OwnName(b)
        BY <3>1, <3>2 DEF KeepInv, ProgressInv, KeptWhole
      <4>. QED  BY <4>1, <4>2 DEF Accounted, Awaits
    <3>3. CASE at[b] = "printed"
      BY <3>1, <3>3 DEF KeepInv, ProgressInv, KeptWhole, Accounted, Mistaken, Awaits
    <3>. QED  BY <3>1, <3>2, <3>3 DEF Retained
  <2>2. CASE Accounted(b)
    BY <1>2, <2>2 DEF Accounted, Mistaken, Recorded, Recycled, Pending
  <2>3. CASE \E m \in dir : Awaits(b, m)
    BY <1>1, <1>2, <2>3 DEF Pending, Leaves, Awaits
  <2>. QED  BY <2>1, <2>2, <2>3
<1>. QED  BY <1>1, <1>2, <1>3 DEF Owed, Leaves

\* The other steps of a pass take over what it accounts for.
LEMMA CarryOwed ==
    ASSUME NEW r \in Passes, OnceInv, Owed(r, work[r]), at' = at,
           marker' = marker, journal' = journal,
           NEW step, NEW left,
           Leaves(r, step, left, work[r].imports, work[r].unread, work[r].owed),
           \/ step \in {"preparing", "waiting"}
           \/ work[r].at = "reading" /\ work[r].left = {}
           \/ work[r].at \in {"checking", "importing", "deleting"},
           step # "reading",
           step = "deleting" => work[r].imports = {}
    PROVE  Owed(r, work[r])'
<1>1. \A b : Accounted(b) => Accounted(b)'
  BY DEF Accounted, Mistaken, Recorded, Recycled
<1>2. ASSUME NEW b \in work[r].owed, step \notin {"preparing", "waiting"}
      PROVE  Pending(b, work[r])'
  <2>1. Accounted(b) \/ work[r].unread # {} \/ \E m \in work[r].imports : m.of = b
    BY <1>2 DEF Owed, Pending
  <2>. QED  BY <1>1, <2>1 DEF Pending, Leaves
<1>. QED  BY <1>2 DEF Owed, Leaves

LEMMA PassOwed ==
    ASSUME NEW r \in Passes, OnceInv, KeepInv, OwedInv,
           Reconcile(r) \/ PassFails(r)
    PROVE  OwedInv'
<1>1. /\ at' = at /\ marker' = marker /\ Owed(r, work[r]) /\ TypeOK
      /\ \A q \in Passes \ {r} : work'[q] = work[q]
  BY PassLock, PassMarker DEF OwedInv, OnceInv
<1>2. /\ \A c : Recorded(c) => Recorded(c)'
      /\ \A c, n : Recycled(c, n) => Recycled(c, n)'
  BY PassJournalKept
<1>3. Owed(r, work[r])'
  <2>1. CASE Begin(r)
    BY <1>1, <2>1, OwedEntries DEF Leaves, Owed
  <2>2. CASE TimeOut(r) \/ Abandon(r)
    BY <1>1, <2>2, OwedEntries DEF Leaves, Owed
  <2>3. CASE Prepare(r)
    BY <1>1, <2>3, PrepareOwed
  <2>4. CASE ReadMarker(r)
    BY <1>1, <2>4, ReadOwed
  <2>5. CASE Import(r) \/ ImportFails(r)
    BY <1>1, <1>2, <2>5, ImportOwed
  <2>6. CASE AcquireLock(r)
    <3>1. journal' = journal
      BY <2>6 DEF AcquireLock
    <3>2. \E s \in {"checking", "preparing"} :
             /\ Leaves(r, s, work[r].left, work[r].imports, work[r].unread,
                       work[r].owed)
             /\ s = "preparing" \/ Prepared(r)
      BY <1>1, <2>6, OwedEntries
    <3>. QED  BY <1>1, <3>1, <3>2, CarryOwed DEF Prepared
  <2>7. CASE Recheck(r)
    <3>1. journal' = journal /\ work[r].at = "checking"
      BY <2>7 DEF Recheck
    <3>2. PICK s \in {"importing", "preparing", "waiting"} :
             Leaves(r, s, work[r].left, work[r].imports, work[r].unread, work[r].owed)
      BY <1>1, <2>7, OwedEntries
    <3>. QED  BY <1>1, <3>1, <3>2, CarryOwed
  <2>8. CASE UseLockedPreparation(r)
    <3>1. journal' = journal /\ Prepared(r)
      BY <2>8 DEF UseLockedPreparation
    <3>2. Leaves(r, "importing", work[r].left, work[r].imports, work[r].unread,
                 work[r].owed)
      BY <1>1, <2>8, OwedEntries
    <3>. QED  BY <1>1, <3>1, <3>2, CarryOwed DEF Prepared
  <2>9. CASE CommitRepairs(r)
    <3>1. journal' = journal /\ work[r].at = "importing" /\ work[r].imports = {}
      BY <2>9 DEF CommitRepairs
    <3>2. PICK l : Leaves(r, "deleting", l, work[r].imports, work[r].unread, work[r].owed)
      BY <1>1, <2>9, <3>1, OwedEntries
    <3>. QED  BY <1>1, <3>1, <3>2, CarryOwed
  <2>10. CASE DeleteMarker(r)
    <3>1. journal' = journal /\ work[r].at = "deleting" /\ work[r].imports = {}
      BY <1>1, <2>10 DEF DeleteMarker, Owed
    <3>2. PICK l : Leaves(r, "deleting", l, work[r].imports, work[r].unread, work[r].owed)
      BY <1>1, <2>10, OwedEntries
    <3>. QED  BY <1>1, <3>1, <3>2, CarryOwed
  <2>11. CASE Conclude(r)
    <3>1. journal' = journal
      BY <2>11 DEF Conclude
    <3>2. CASE Leaves(r, "idle", {}, {}, {}, {})
      BY <3>2 DEF Leaves, Owed
    <3>3. CASE Leaves(r, "preparing", work[r].left, work[r].imports,
                      work[r].unread, work[r].owed)
      BY <1>1, <3>1, <3>3, CarryOwed
    <3>. QED  BY <1>1, <2>11, <3>2, <3>3, OwedEntries
  <2>. QED
    BY <2>1, <2>2, <2>3, <2>4, <2>5, <2>6, <2>7, <2>8, <2>9, <2>10, <2>11
       DEF Reconcile, PassFails
<1>4. ASSUME NEW c \in Bypasses, NEW m \in dir, Awaits(c, m)
      PROVE  Accounted(c)' \/ \E o \in dir' : o.name = m.name /\ o.of = m.of
  <2>1. CASE m \in dir'
    BY <2>1
  <2>2. CASE m \notin dir'
    <3>1. Recorded(c) \/ (m.name.base = Shell[c] /\ Recycled(c, m.name))
      BY <1>4, <2>2, PassDir, DeleteKeeps DEF Awaits
    <3>2. m.name.base = Shell[c] => at'[c] = "printed" /\ m.name = marker'[c]
      BY <1>1, <1>4, AuditAssumption DEF Awaits
    <3>. QED  BY <1>2, <3>1, <3>2 DEF Accounted, Mistaken
  <2>. QED  BY <2>1, <2>2
<1>5. \A q \in Passes \ {r} : Owed(q, work[q])'
  BY <1>1, <1>2, <1>4, OwedStays DEF OwedInv
<1>. QED  BY <1>3, <1>5 DEF OwedInv

LEMMA OwedInvariant == Spec => []OwedInv
<1>1. Init => OwedInv
  BY DEF Init, Idle, OwedInv, Owed
<1>2. OnceInv /\ KeepInv /\ OwedInv /\ [Next]_vars => OwedInv'
  <2>. SUFFICES ASSUME OnceInv, KeepInv, OwedInv, [Next]_vars PROVE OwedInv'
    OBVIOUS
  <2>1. CASE Next
    BY <2>1, BypassOwed, PassOwed DEF Next
  <2>2. CASE UNCHANGED vars
    BY <2>2, OwedStays DEF vars, OwedInv, Recorded, Recycled
  <2>. QED  BY <2>1, <2>2
<1>. QED  BY <1>1, <1>2, OnceInvariant, KeepInvariant, PTL DEF Spec

\* A pass that is about to report nothing unrecorded has every bypass that was
\* retained before it began in the journal: a marker it read torn, or whose
\* import failed, it counts, and one it found imported was imported as that
\* bypass, but for one the shell gave the name of another that was imported.
THEOREM CleanPassesRecordAll == Spec => []CleanPassRecordsAll
<1>1. OwedInv => CleanPassRecordsAll
  BY DEF OwedInv, Owed, Pending, Accounted, CleanPassRecordsAll
<1>. QED  BY <1>1, OwedInvariant, PTL
=============================================================================
