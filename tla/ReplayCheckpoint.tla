-------------------------- MODULE ReplayCheckpoint --------------------------
(***************************************************************************)
(* The files of a ledger on a disk that may lose power: the journal, the   *)
(* rewrite a compaction renames over it, and the checkpoint from which a   *)
(* replay resumes instead of folding the journal from its first byte.      *)
(* Replays take no lock, and any of them may write the checkpoint.  What a  *)
(* replay holds is the sequence of the records it folded; a record is its   *)
(* event identifier.  Offsets in a file are counted in records, so that      *)
(* those of two files coincide as often as they can.                         *)
(***************************************************************************)
EXTENDS Naturals, Sequences, SequencesExt, FiniteSets

CONSTANTS
    Readers,       \* processes that replay
    Inodes,        \* the files the disk can hold
    ReusesInodes,  \* whether the number of a deleted file is given out again
    Interval,      \* REPLAY_CHECKPOINT_INTERVAL_RECORDS
    MaxRecords,    \* bound: records ever appended
    MaxKills,      \* bound: processes killed
    MaxLosses,     \* bound: power losses
    None           \* no file, no checkpoint

ASSUME CheckpointAssumption ==
    /\ Inodes # {} /\ IsFiniteSet(Inodes) /\ None \notin Inodes
    /\ ReusesInodes \in BOOLEAN
    /\ Interval \in Nat \ {0} /\ MaxRecords \in Nat
    /\ MaxKills \in Nat /\ MaxLosses \in Nat

VARIABLES
    disk,        \* disk[i]: the complete records of file i, how many of them
                 \* are synced, whether bytes follow the last newline
    journal,     \* the file at the path of the journal
    entries,     \* the files that path may name after a power loss
    checkpoint,  \* None, or [ino, replay]
    older,       \* the checkpoints a power loss may bring back
    lock,        \* who holds the mutation lock, or "free"
    writer,      \* where the mutation in the lock is
    compaction,  \* a prepared rewrite: its file, its source, how far it is
    reader,      \* reader[r]: a replay from the checkpoint
    used,        \* the numbers given out so far
    next,        \* the next event identifier
    acked,       \* the records whose append was reported to succeed
    kills, losses

vars == <<disk, journal, entries, checkpoint, older, lock, writer, compaction,
          reader, used, next, acked, kills, losses>>

File(recs, synced, torn) == [recs |-> recs, synced |-> synced, torn |-> torn]
Empty == File(<<>>, 0, FALSE)
NoRewrite == [pc |-> "idle", ino |-> None, src |-> None, upto |-> 0, kept |-> <<>>]
NotReading == [pc |-> "idle", ino |-> None, length |-> 0, start |-> <<>>,
               replay |-> <<>>]

Init ==
    /\ journal \in Inodes
    /\ disk = [i \in Inodes |-> Empty]
    /\ entries = {journal} /\ used = {journal}
    /\ checkpoint = None /\ older = {}
    /\ lock = "free" /\ writer = "idle"
    /\ compaction = NoRewrite
    /\ reader = [r \in Readers |-> NotReading]
    /\ next = 1 /\ acked = {} /\ kills = 0 /\ losses = 0

-----------------------------------------------------------------------------
FileLength(f) == Len(f.recs) + IF f.torn THEN 1 ELSE 0

\* A file is deleted once nothing names it and nobody has it open.
Named == entries \cup {journal}
             \cup (IF compaction.pc = "idle" THEN {} ELSE {compaction.ino})
             \cup {reader[r].ino : r \in {q \in Readers : reader[q].pc # "idle"}}

Creatable(i) == i \in Inodes \ (IF ReusesInodes THEN Named ELSE used)

\* The ledger directory is synced: what its names are now they stay.
SyncDirectory(ino, cp) == entries' = {ino} /\ older' = {cp}

StoreCheckpoint(cp) == checkpoint' = cp /\ older' = older \cup {checkpoint}

-----------------------------------------------------------------------------
(* A replay from the checkpoint. *)

Reading(r, record) == reader' = [reader EXCEPT ![r] = record]

Open(r) ==
    /\ reader[r].pc = "idle"
    /\ Reading(r, [NotReading EXCEPT !.pc = "open", !.ino = journal,
                                     !.length = FileLength(disk[journal])])
    /\ UNCHANGED <<disk, journal, entries, checkpoint, older, lock, writer,
                   compaction, used, next, acked, kills, losses>>

\* The last checkpointed record is where it was in the file.
SameLastRecord(replay, recs) ==
    Len(replay) \in DOMAIN recs /\ recs[Len(replay)] = Last(replay)

\* Mutant: the last record is not compared.
DescribesFile(cp, ino, length) ==
    /\ cp # None
    /\ cp.ino = ino
    /\ Len(cp.replay) <= Len(disk[ino].recs)

\* Mutant: the file behind the journal is not compared.
DescribesContent(cp, ino, length) ==
    /\ cp # None
    /\ Len(cp.replay) <= length
    /\ SameLastRecord(cp.replay, disk[ino].recs)

\* The header still describes the file that was opened.
Describes(cp, ino, length) ==
    /\ cp # None
    /\ cp.ino = ino
    /\ Len(cp.replay) <= length
    /\ SameLastRecord(cp.replay, disk[ino].recs)

Load(r) ==
    /\ reader[r].pc = "open"
    /\ Reading(r, [reader[r] EXCEPT !.pc = "loaded",
                     !.start = IF Describes(checkpoint, reader[r].ino,
                                            reader[r].length)
                               THEN checkpoint.replay ELSE <<>>])
    /\ UNCHANGED <<disk, journal, entries, checkpoint, older, lock, writer,
                   compaction, used, next, acked, kills, losses>>

\* What follows the checkpointed bytes in the file is folded.
Resumed(start, recs) == start \o SubSeq(recs, Len(start) + 1, Len(recs))

Fold(r) ==
    /\ reader[r].pc = "loaded"
    /\ Reading(r, [reader[r] EXCEPT !.pc = "folded",
                     !.replay = Resumed(reader[r].start,
                                        disk[reader[r].ino].recs)])
    /\ UNCHANGED <<disk, journal, entries, checkpoint, older, lock, writer,
                   compaction, used, next, acked, kills, losses>>

\* A replay that folded a whole interval writes the checkpoint, of the file it
\* read, whatever the journal has become.
Conclude(r) ==
    /\ reader[r].pc = "folded"
    /\ Reading(r, NotReading)
    /\ \/ /\ Len(reader[r].replay) - Len(reader[r].start) >= Interval
          /\ StoreCheckpoint([ino |-> reader[r].ino, replay |-> reader[r].replay])
       \/ UNCHANGED <<checkpoint, older>>  \* too little folded, or not written
    /\ UNCHANGED <<disk, journal, entries, lock, writer, compaction, used, next,
                   acked, kills, losses>>

-----------------------------------------------------------------------------
(* Mutations, under the lock. *)

\* The lock is taken and the torn tail of a dead writer cut off.
BeginAppend ==
    /\ lock = "free" /\ next <= MaxRecords
    /\ lock' = "writer" /\ writer' = "append"
    /\ disk' = IF disk[journal].torn
               THEN [disk EXCEPT ![journal] = File(@.recs, Len(@.recs), FALSE)]
               ELSE disk
    /\ UNCHANGED <<journal, entries, checkpoint, older, compaction, reader, used,
                   next, acked, kills, losses>>

WritePart ==
    /\ writer = "append"
    /\ disk' = [disk EXCEPT ![journal] = File(@.recs, @.synced, TRUE)]
    /\ writer' = "write"
    /\ UNCHANGED <<journal, entries, checkpoint, older, lock, compaction, reader,
                   used, next, acked, kills, losses>>

WriteRest ==
    /\ writer = "write"
    /\ disk' = [disk EXCEPT ![journal] = File(Append(@.recs, next), @.synced, FALSE)]
    /\ next' = next + 1
    /\ writer' = "sync"
    /\ UNCHANGED <<journal, entries, checkpoint, older, lock, compaction, reader,
                   used, acked, kills, losses>>

\* Mutant: success is reported before the journal is synced.
SyncAppendLater ==
    /\ writer = "sync"
    /\ acked' = acked \cup {next - 1}
    /\ lock' = "free" /\ writer' = "idle"
    /\ UNCHANGED <<disk, journal, entries, checkpoint, older, compaction, reader,
                   used, next, kills, losses>>

SyncAppend ==
    /\ writer = "sync"
    /\ disk' = [disk EXCEPT ![journal] = File(@.recs, Len(@.recs), @.torn)]
    /\ acked' = acked \cup {next - 1}
    /\ lock' = "free" /\ writer' = "idle"
    /\ UNCHANGED <<journal, entries, checkpoint, older, compaction, reader, used,
                   next, kills, losses>>

\* A repair of the projection or of a cyclic order, or a validated retirement.
RemoveCheckpoint ==
    /\ lock = "free" /\ checkpoint # None
    /\ StoreCheckpoint(None)
    /\ UNCHANGED <<disk, journal, entries, lock, writer, compaction, reader, used,
                   next, acked, kills, losses>>

\* A reinitialization: the checkpoint is removed, an empty journal renamed
\* into place, the directory synced.
BeginDiscard ==
    /\ lock = "free"
    /\ lock' = "writer" /\ writer' = "discard"
    /\ StoreCheckpoint(None)
    /\ UNCHANGED <<disk, journal, entries, compaction, reader, used, next, acked,
                   kills, losses>>

RenameEmpty ==
    /\ writer = "discard"
    /\ \E i \in Inodes :
          /\ Creatable(i)
          /\ disk' = [disk EXCEPT ![i] = Empty]
          /\ journal' = i /\ entries' = entries \cup {i} /\ used' = used \cup {i}
    /\ acked' = {}
    /\ writer' = "clear"
    /\ UNCHANGED <<checkpoint, older, lock, compaction, reader, next, kills, losses>>

EndDiscard ==
    /\ writer = "clear"
    /\ SyncDirectory(journal, checkpoint)
    /\ lock' = "free" /\ writer' = "idle"
    /\ UNCHANGED <<disk, journal, checkpoint, compaction, reader, used, next,
                   acked, kills, losses>>

-----------------------------------------------------------------------------
(* Compaction. *)

\* What is left of a sequence of records when at least one is dropped.
Survivors(recs) ==
    {g \in UNION {[1 .. m -> DOMAIN recs] : m \in {n - 1 : n \in DOMAIN recs}} :
        \A k, n \in DOMAIN g : k < n => g[k] < g[n]}

\* The rewrite is written, synced and verified without the lock.  A torn
\* journal refuses it.  Which records may go is JournalCompaction's matter.
Prepare ==
    /\ compaction.pc = "idle" /\ ~ disk[journal].torn
    /\ \E i \in Inodes, g \in Survivors(disk[journal].recs) :
          LET recs == disk[journal].recs
              kept == [k \in DOMAIN g |-> recs[g[k]]] IN
          /\ Creatable(i)
          /\ disk' = [disk EXCEPT ![i] = File(kept, Len(kept), FALSE)]
          /\ compaction' = [pc |-> "ready", ino |-> i, src |-> journal,
                            upto |-> Len(recs), kept |-> kept]
          /\ used' = used \cup {i}
    /\ UNCHANGED <<journal, entries, checkpoint, older, lock, writer, reader,
                   next, acked, kills, losses>>

\* The rewrite is of the file the journal still is.
TailIncludable == journal = compaction.src /\ ~ disk[journal].torn

CommittedTail == SubSeq(disk[journal].recs, compaction.upto + 1, Len(disk[journal].recs))

\* Under the lock the rewrite is given what the journal gained.
IncludeTail ==
    /\ compaction.pc = "ready" /\ lock = "free"
    /\ TailIncludable
    /\ LET recs == compaction.kept \o CommittedTail IN
       disk' = [disk EXCEPT ![compaction.ino] = File(recs, Len(recs), FALSE)]
    /\ compaction' = [compaction EXCEPT !.pc = "locked"]
    /\ lock' = "compaction"
    /\ UNCHANGED <<journal, entries, checkpoint, older, writer, reader, used,
                   next, acked, kills, losses>>

\* A rewrite that pruned history does not follow what the journal gained.
Abandon ==
    /\ compaction.pc = "ready" /\ lock = "free"
    /\ ~ TailIncludable \/ CommittedTail # <<>>
    /\ compaction' = NoRewrite
    /\ UNCHANGED <<disk, journal, entries, checkpoint, older, lock, writer, reader,
                   used, next, acked, kills, losses>>

\* The checkpoint of the rewrite, without its tail, if it could be stored.
PublishCheckpoint ==
    /\ compaction.pc = "locked"
    /\ compaction' = [compaction EXCEPT !.pc = "checkpointed"]
    /\ \/ /\ compaction.kept # <<>>
          /\ StoreCheckpoint([ino |-> compaction.ino, replay |-> compaction.kept])
       \/ UNCHANGED <<checkpoint, older>>
    /\ UNCHANGED <<disk, journal, entries, lock, writer, reader, used, next,
                   acked, kills, losses>>

\* The projection is published and the directory synced.
SyncProjection ==
    /\ compaction.pc = "checkpointed"
    /\ SyncDirectory(journal, checkpoint)
    /\ compaction' = [compaction EXCEPT !.pc = "synced"]
    /\ UNCHANGED <<disk, journal, checkpoint, lock, writer, reader, used, next,
                   acked, kills, losses>>

RenameRewrite ==
    /\ compaction.pc = "synced"
    /\ journal' = compaction.ino /\ entries' = entries \cup {compaction.ino}
    /\ compaction' = [compaction EXCEPT !.pc = "renamed"]
    /\ UNCHANGED <<disk, checkpoint, older, lock, writer, reader, used, next,
                   acked, kills, losses>>

EndCompaction ==
    /\ compaction.pc = "renamed"
    /\ SyncDirectory(journal, checkpoint)
    /\ compaction' = NoRewrite /\ lock' = "free"
    /\ UNCHANGED <<disk, journal, checkpoint, writer, reader, used, next, acked,
                   kills, losses>>

-----------------------------------------------------------------------------
(* Faults. *)

\* A process dies, or a call of it fails: the files stay as they are.  The
\* file of a rewrite is deleted, by its owner or by a later compaction.
KillWriter ==
    /\ writer # "idle" /\ kills < MaxKills
    /\ writer' = "idle" /\ lock' = "free"
    /\ kills' = kills + 1
    /\ UNCHANGED <<disk, journal, entries, checkpoint, older, compaction, reader,
                   used, next, acked, losses>>

KillCompaction ==
    /\ compaction.pc # "idle" /\ kills < MaxKills
    /\ compaction' = NoRewrite
    /\ lock' = IF lock = "compaction" THEN "free" ELSE lock
    /\ kills' = kills + 1
    /\ UNCHANGED <<disk, journal, entries, checkpoint, older, writer, reader,
                   used, next, acked, losses>>

\* Nothing runs on; the journal is one its path was durably given or a rename
\* had got so far, without some of what was not synced; the checkpoint, which
\* is never synced, is one of those since the last sync, or torn.
PowerLoss ==
    /\ losses < MaxLosses
    /\ losses' = losses + 1
    /\ journal' \in entries /\ entries' = {journal'}
    /\ \E n \in disk[journal'].synced .. Len(disk[journal'].recs),
          torn \in BOOLEAN :
          /\ torn => disk[journal'].torn \/ n < Len(disk[journal'].recs)
          /\ disk' = [disk EXCEPT ![journal'] = File(SubSeq(@.recs, 1, n), n, torn)]
    /\ checkpoint' \in older \cup {checkpoint, None} /\ older' = {checkpoint'}
    /\ lock' = "free" /\ writer' = "idle" /\ compaction' = NoRewrite
    /\ reader' = [r \in Readers |-> NotReading]
    /\ UNCHANGED <<used, next, acked, kills>>

-----------------------------------------------------------------------------
Next ==
    \/ \E r \in Readers : Open(r) \/ Load(r) \/ Fold(r) \/ Conclude(r)
    \/ BeginAppend \/ WritePart \/ WriteRest \/ SyncAppend
    \/ RemoveCheckpoint \/ BeginDiscard \/ RenameEmpty \/ EndDiscard
    \/ Prepare \/ IncludeTail \/ Abandon \/ PublishCheckpoint \/ SyncProjection
    \/ RenameRewrite \/ EndCompaction
    \/ KillWriter \/ KillCompaction \/ PowerLoss

Spec == Init /\ [][Next]_vars

-----------------------------------------------------------------------------
(* Properties. *)

Files == [recs : Seq(Nat), synced : Nat, torn : BOOLEAN]
Checkpoints == [ino : Inodes, replay : Seq(Nat) \ {<<>>}]
Rewrites == [pc : {"idle", "ready", "locked", "checkpointed", "synced", "renamed"},
             ino : Inodes \cup {None}, src : Inodes \cup {None},
             upto : Nat, kept : Seq(Nat)]
Replays == [pc : {"idle", "open", "loaded", "folded"}, ino : Inodes \cup {None},
            length : Nat, start : Seq(Nat), replay : Seq(Nat)]

\* Who holds the lock is at work; the journal's file is one its path may name.
TypeOK ==
    /\ disk \in [Inodes -> Files]
    /\ \A i \in Inodes : disk[i].synced <= Len(disk[i].recs)
    /\ entries \subseteq Inodes /\ journal \in entries
    /\ {checkpoint} \cup older \subseteq Checkpoints \cup {None}
    /\ lock \in {"writer", "compaction", "free"}
    /\ writer \in {"idle", "append", "write", "sync", "discard", "clear"}
    /\ lock = "writer" <=> writer # "idle"
    /\ compaction \in Rewrites
    /\ compaction.pc # "idle" => compaction.ino \in Inodes /\ compaction.src \in Inodes
    /\ lock = "compaction" <=> compaction.pc \notin {"idle", "ready"}
    /\ reader \in [Readers -> Replays]
    /\ \A r \in Readers : reader[r].pc # "idle" => reader[r].ino \in Inodes
    /\ used \subseteq Inodes /\ next \in Nat \ {0} /\ acked \subseteq 1 .. next - 1
    /\ kills \in 0 .. MaxKills /\ losses \in 0 .. MaxLosses

\* Deleting the checkpoint changes no result: a replay that resumes from one
\* holds what a replay of the whole file would, whoever wrote the checkpoint
\* of which file, and whatever compactions, kills and power losses came
\* between.
ReplaysWhole ==
    [][\A r \in Readers : Fold(r) =>
          reader'[r].replay = disk[reader[r].ino].recs]_vars

\* A process died between a rename of the journal and the sync after it.
Unsettled ==
    entries # {journal} /\ writer # "clear" /\ compaction.pc # "renamed"

\* A power loss takes no record whose append was reported to succeed, unless
\* the journal the record went to was put in place by a process that died.
AcknowledgedSurvive ==
    [][PowerLoss /\ ~ Unsettled =>
          acked \cap ToSet(disk[journal].recs) \subseteq ToSet(disk'[journal'].recs)]_vars
=============================================================================
