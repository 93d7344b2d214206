----------------------- MODULE ReplayCheckpointProofs -----------------------
(***************************************************************************)
(* Proofs about ReplayCheckpoint, for any number of readers, files, kills   *)
(* and power losses.  TypeOK needs no assumption; that a replay is whole and *)
(* that what was acknowledged survives rest on a disk that gives no file     *)
(* number out twice.                                                        *)
(***************************************************************************)
EXTENDS ReplayCheckpoint, SequenceTheorems, TLAPS

Stored == {checkpoint} \cup older

\* Where two sequences hold the same record, they agree up to it.
Agree(a, b) ==
    \A m \in DOMAIN a, n \in DOMAIN b :
        a[m] = b[n] => m = n /\ \A k \in 1 .. m : a[k] = b[k]

\* a is how b begins.
Prefix(a, b) == Len(a) <= Len(b) /\ \A k \in 1 .. Len(a) : a[k] = b[k]

Distinct(s) == \A m, n \in DOMAIN s : s[m] = s[n] => m = n

\* No file that names anything, or is named, is handed out again.
NamesUsed ==
    /\ entries \subseteq used /\ journal \in used
    /\ \A cp \in Stored : cp # None => cp.ino \in used
    /\ \A r \in Readers : reader[r].pc # "idle" => reader[r].ino \in used
    /\ compaction.pc # "idle" => {compaction.ino, compaction.src} \subseteq used

\* Event identifiers are not handed out twice, and a file holds none twice.
RecordsOld ==
    /\ \A i \in Inodes : \A n \in DOMAIN disk[i].recs : disk[i].recs[n] < next
    /\ \A cp \in Stored : cp # None =>
          \A n \in DOMAIN cp.replay : cp.replay[n] < next
    /\ \A r \in Readers : reader[r].pc = "folded" =>
          \A n \in DOMAIN reader[r].replay : reader[r].replay[n] < next
RecordsDistinct == \A i \in Inodes : Distinct(disk[i].recs)

\* A checkpoint agrees with the file it names, and so does a replay.
CheckpointsAgree ==
    \A cp \in Stored : cp # None => Agree(cp.replay, disk[cp.ino].recs)
ReadersAgree ==
    \A r \in Readers :
        /\ reader[r].pc = "loaded" => Prefix(reader[r].start, disk[reader[r].ino].recs)
        /\ reader[r].pc = "folded" => Agree(reader[r].replay, disk[reader[r].ino].recs)

\* A rewrite in the making is nobody else's file, and holds records of its
\* source.
RewriteHidden ==
    compaction.pc \in {"ready", "locked", "checkpointed", "synced"} =>
        /\ compaction.ino \notin entries
        /\ compaction.pc \in {"ready", "locked"} =>
              /\ \A cp \in Stored : cp # None => cp.ino # compaction.ino
              /\ \A r \in Readers : reader[r].pc # "idle" => reader[r].ino # compaction.ino
RewriteDrawn ==
    compaction.pc # "idle" =>
        LET recs == disk[compaction.src].recs IN
        /\ compaction.ino # compaction.src
        /\ compaction.upto <= Len(recs)
        /\ Distinct(compaction.kept)
        /\ \A n \in DOMAIN compaction.kept : \E k \in 1 .. compaction.upto :
              compaction.kept[n] = recs[k]
RewriteFollows ==
    compaction.pc \notin {"idle", "ready"} =>
        LET recs == disk[compaction.ino].recs IN
        /\ Prefix(compaction.kept, recs)
        /\ ToSet(recs) \subseteq ToSet(disk[compaction.src].recs)
        /\ compaction.pc # "renamed" => journal = compaction.src
        /\ compaction.pc = "synced" => entries = {journal}
        /\ compaction.pc = "renamed" =>
              /\ journal = compaction.ino
              /\ entries = {compaction.src, compaction.ino}

\* What was acknowledged is synced wherever it is, and so will be what is.
AckedSynced ==
    /\ \A i \in Inodes : \A n \in DOMAIN disk[i].recs :
          disk[i].recs[n] \in acked => n <= disk[i].synced
    /\ writer = "sync" =>
          \A i \in Inodes \ {journal} : \A n \in DOMAIN disk[i].recs :
              disk[i].recs[n] = next - 1 => n <= disk[i].synced
    /\ writer = "clear" => acked = {}

FileInv ==
    /\ NamesUsed /\ RecordsOld /\ RecordsDistinct /\ CheckpointsAgree
    /\ ReadersAgree /\ RewriteHidden /\ RewriteDrawn /\ RewriteFollows
    /\ AckedSynced

-----------------------------------------------------------------------------
(* Sequences. *)

LEMMA CutSeq ==
    ASSUME NEW s \in Seq(Nat), NEW n \in 0 .. Len(s)
    PROVE  /\ SubSeq(s, 1, n) \in Seq(Nat)
           /\ Len(SubSeq(s, 1, n)) = n
           /\ DOMAIN SubSeq(s, 1, n) = 1 .. n
           /\ \A k \in 1 .. n : SubSeq(s, 1, n)[k] = s[k]
  OBVIOUS

LEMMA TailSeq ==
    ASSUME NEW s \in Seq(Nat), NEW n \in Nat, n <= Len(s)
    PROVE  /\ SubSeq(s, n + 1, Len(s)) \in Seq(Nat)
           /\ Len(SubSeq(s, n + 1, Len(s))) = Len(s) - n
           /\ \A k \in 1 .. Len(s) - n : SubSeq(s, n + 1, Len(s))[k] = s[n + k]
  OBVIOUS

LEMMA Joined ==
    ASSUME NEW a \in Seq(Nat), NEW b \in Seq(Nat)
    PROVE  /\ a \o b \in Seq(Nat)
           /\ Len(a \o b) = Len(a) + Len(b)
           /\ \A k \in 1 .. Len(a) : (a \o b)[k] = a[k]
           /\ \A k \in 1 .. Len(b) : (a \o b)[Len(a) + k] = b[k]
  OBVIOUS

\* Folding what follows a prefix gives the whole.
LEMMA PrefixResumed ==
    ASSUME NEW a \in Seq(Nat), NEW b \in Seq(Nat), Prefix(a, b)
    PROVE  Resumed(a, b) = b
<1> DEFINE t == SubSeq(b, Len(a) + 1, Len(b))
<1>1. /\ t \in Seq(Nat) /\ Len(t) = Len(b) - Len(a)
      /\ \A k \in 1 .. Len(b) - Len(a) : t[k] = b[Len(a) + k]
  BY TailSeq DEF Prefix
<1>2. /\ a \o t \in Seq(Nat) /\ Len(a \o t) = Len(b)
      /\ \A k \in 1 .. Len(a) : (a \o t)[k] = a[k]
      /\ \A k \in 1 .. Len(t) : (a \o t)[Len(a) + k] = t[k]
  BY <1>1, Joined DEF Prefix
<1> HIDE DEF t
<1>3. ASSUME NEW k \in 1 .. Len(b) PROVE (a \o t)[k] = b[k]
  <2>1. CASE k <= Len(a)
    BY <1>2, <2>1 DEF Prefix
  <2>2. CASE k > Len(a)
    <3>1. k - Len(a) \in 1 .. Len(t) /\ Len(a) + (k - Len(a)) = k
      BY <1>1, <2>2
    <3> QED BY <1>1, <1>2, <3>1
  <2>3. k <= Len(a) \/ k > Len(a)
    OBVIOUS
  <2> QED BY <2>1, <2>2, <2>3
<1>4. a \o t = b
  <2> \A k \in 1 .. Len(a \o t) : (a \o t)[k] = b[k]
    BY <1>2, <1>3
  <2> QED BY <1>2, SeqEqual
<1> QED BY <1>4 DEF Resumed, t

\* The last record in its place shows the whole of an agreeing replay there.
LEMMA LastShowsPrefix ==
    ASSUME NEW a \in Seq(Nat) \ {<<>>}, NEW b \in Seq(Nat),
           Agree(a, b), SameLastRecord(a, b)
    PROVE  Prefix(a, b)
<1>1. Len(a) \in DOMAIN a /\ Last(a) = a[Len(a)]
  BY DEF Last
<1>2. Len(a) \in DOMAIN b /\ a[Len(a)] = b[Len(a)]
  BY <1>1 DEF SameLastRecord
<1>3. \A k \in 1 .. Len(a) : a[k] = b[k]
  BY <1>1, <1>2 DEF Agree
<1> QED BY <1>2, <1>3 DEF Prefix

LEMMA AgreeAppended ==
    ASSUME NEW a \in Seq(Nat), NEW b \in Seq(Nat), NEW x \in Nat, Agree(a, b),
           \A n \in DOMAIN a : a[n] # x
    PROVE  Agree(a, Append(b, x))
<1> SUFFICES ASSUME NEW m \in DOMAIN a, NEW n \in DOMAIN Append(b, x),
                    a[m] = Append(b, x)[n]
             PROVE  m = n /\ \A k \in 1 .. m : a[k] = Append(b, x)[k]
  BY DEF Agree
<1>1. n \in DOMAIN b /\ Append(b, x)[n] = b[n]
  OBVIOUS
<1>2. m = n /\ \A k \in 1 .. m : a[k] = b[k]
  BY <1>1 DEF Agree
<1> QED BY <1>1, <1>2

LEMMA AgreeCut ==
    ASSUME NEW a \in Seq(Nat), NEW b \in Seq(Nat), NEW n \in 0 .. Len(b),
           Agree(a, b)
    PROVE  Agree(a, SubSeq(b, 1, n))
<1> SUFFICES ASSUME NEW m \in DOMAIN a, NEW p \in DOMAIN SubSeq(b, 1, n),
                    a[m] = SubSeq(b, 1, n)[p]
             PROVE  m = p /\ \A k \in 1 .. m : a[k] = SubSeq(b, 1, n)[k]
  BY DEF Agree
<1>1. p \in 1 .. n /\ p \in DOMAIN b /\ SubSeq(b, 1, n)[p] = b[p]
  BY CutSeq
<1>2. m = p /\ \A k \in 1 .. m : a[k] = b[k]
  BY <1>1 DEF Agree
<1> QED BY <1>1, <1>2, CutSeq

\* Two sequences one of which begins the other agree, if no record is twice.
LEMMA AgreePrefix ==
    ASSUME NEW a \in Seq(Nat), NEW b \in Seq(Nat), Prefix(a, b), Distinct(b)
    PROVE  Agree(a, b)
<1> SUFFICES ASSUME NEW m \in DOMAIN a, NEW n \in DOMAIN b, a[m] = b[n]
             PROVE  m = n /\ \A k \in 1 .. m : a[k] = b[k]
  BY DEF Agree
<1>1. m \in 1 .. Len(a) /\ Len(a) \in Nat /\ Len(b) \in Nat
      /\ DOMAIN b = 1 .. Len(b)
  OBVIOUS
<1>2. m \in DOMAIN b /\ a[m] = b[m]
  BY <1>1 DEF Prefix
<1>3. m = n
  BY <1>2 DEF Distinct
<1> QED BY <1>1, <1>3 DEF Prefix

-----------------------------------------------------------------------------
(* What the steps do to the files. *)

\* One file becomes f.
Becomes(i, f) ==
    /\ i \in Inodes
    /\ f \in Files /\ f.synced <= Len(f.recs)
    /\ disk' = [disk EXCEPT ![i] = f]

DiskTyped ==
    /\ disk \in [Inodes -> Files]
    /\ \A i \in Inodes : disk[i].synced <= Len(disk[i].recs)

LEMMA BecomesTyped ==
    ASSUME DiskTyped, NEW i, NEW f, Becomes(i, f)
    PROVE  /\ DiskTyped'
           /\ disk'[i] = f
           /\ \A j \in Inodes \ {i} : disk'[j] = disk[j]
<1>1. /\ disk' \in [Inodes -> Files] /\ disk'[i] = f
      /\ \A j \in Inodes \ {i} : disk'[j] = disk[j]
  BY DEF DiskTyped, Becomes
<1> QED BY <1>1 DEF DiskTyped, Becomes

LEMMA FileParts ==
    ASSUME NEW recs \in Seq(Nat), NEW n \in Nat, NEW torn \in BOOLEAN
    PROVE  /\ File(recs, n, torn) \in Files
           /\ File(recs, n, torn).recs = recs
           /\ File(recs, n, torn).synced = n
           /\ File(recs, n, torn).torn = torn
  BY DEF File, Files

LEMMA Rewritten ==
    ASSUME NEW i \in Inodes, NEW recs \in Seq(Nat), NEW n \in Nat,
           NEW torn \in BOOLEAN, n <= Len(recs),
           disk' = [disk EXCEPT ![i] = File(recs, n, torn)]
    PROVE  Becomes(i, File(recs, n, torn))
  BY FileParts DEF Becomes

LEMMA RewrittenWhole ==
    ASSUME NEW i \in Inodes, NEW recs \in Seq(Nat), NEW torn \in BOOLEAN,
           disk' = [disk EXCEPT ![i] = File(recs, Len(recs), torn)]
    PROVE  Becomes(i, File(recs, Len(recs), torn))
<1>1. Len(recs) \in Nat /\ Len(recs) <= Len(recs)
  OBVIOUS
<1> QED BY <1>1, FileParts DEF Becomes

LEMMA FileTyped ==
    ASSUME DiskTyped, NEW i \in Inodes
    PROVE  /\ disk[i].recs \in Seq(Nat) /\ disk[i].synced \in Nat
           /\ disk[i].torn \in BOOLEAN /\ disk[i].synced <= Len(disk[i].recs)
           /\ disk[i] = File(disk[i].recs, disk[i].synced, disk[i].torn)
  BY DEF DiskTyped, Files, File

LEMMA EffectBeginAppend ==
    ASSUME DiskTyped, journal \in Inodes, BeginAppend
    PROVE  \E n \in Nat : n >= disk[journal].synced /\
              Becomes(journal, File(disk[journal].recs, n, FALSE))
<1> DEFINE f == disk[journal]
<1>1. f.recs \in Seq(Nat) /\ f.synced \in Nat /\ f.torn \in BOOLEAN
      /\ f.synced <= Len(f.recs) /\ Len(f.recs) \in Nat
      /\ f = File(f.recs, f.synced, f.torn)
      /\ disk \in [Inodes -> Files]
  BY FileTyped DEF DiskTyped
<1>2. CASE f.torn
  <2>1. disk' = [disk EXCEPT ![journal] = File(f.recs, Len(f.recs), FALSE)]
    BY <1>1, <1>2 DEF BeginAppend
  <2>2. Becomes(journal, File(f.recs, Len(f.recs), FALSE))
    BY <1>1, <2>1, RewrittenWhole
  <2> QED BY <1>1, <2>2
<1>3. CASE ~ f.torn
  <2>1. f = File(f.recs, f.synced, FALSE)
    BY <1>1, <1>3
  <2>2. disk' = [disk EXCEPT ![journal] = f]
    BY <1>1, <1>3 DEF BeginAppend
  <2>3. disk' = [disk EXCEPT ![journal] = File(f.recs, f.synced, FALSE)]
    BY <2>1, <2>2
  <2>4. Becomes(journal, File(f.recs, f.synced, FALSE))
    BY <1>1, <2>3, Rewritten
  <2> QED BY <1>1, <2>4, f.synced >= f.synced
<1> QED BY <1>2, <1>3

LEMMA EffectWritePart ==
    ASSUME DiskTyped, journal \in Inodes, WritePart
    PROVE  Becomes(journal, File(disk[journal].recs, disk[journal].synced, TRUE))
<1> DEFINE f == disk[journal]
<1>1. f.recs \in Seq(Nat) /\ f.synced \in Nat /\ f.torn \in BOOLEAN
      /\ f.synced <= Len(f.recs) /\ Len(f.recs) \in Nat
      /\ f = File(f.recs, f.synced, f.torn)
      /\ disk \in [Inodes -> Files]
  BY FileTyped DEF DiskTyped
<1>2. disk' = [disk EXCEPT ![journal] = File(f.recs, f.synced, TRUE)]
  BY <1>1 DEF WritePart
<1> QED BY <1>1, <1>2, Rewritten

LEMMA EffectWriteRest ==
    ASSUME DiskTyped, journal \in Inodes, next \in Nat, WriteRest
    PROVE  Becomes(journal, File(Append(disk[journal].recs, next), disk[journal].synced, FALSE))
<1> DEFINE f == disk[journal]
<1>1. f.recs \in Seq(Nat) /\ f.synced \in Nat /\ f.synced <= Len(f.recs)
      /\ f = File(f.recs, f.synced, f.torn)
      /\ disk \in [Inodes -> Files]
  BY FileTyped DEF DiskTyped
<1>2. Append(f.recs, next) \in Seq(Nat) /\ f.synced <= Len(Append(f.recs, next))
  BY <1>1
<1>3. disk' = [disk EXCEPT ![journal] = File(Append(f.recs, next), f.synced, FALSE)]
  BY <1>1 DEF WriteRest
<1> QED BY <1>1, <1>2, <1>3, Rewritten

LEMMA EffectSyncAppend ==
    ASSUME DiskTyped, journal \in Inodes, SyncAppend
    PROVE  Becomes(journal, File(disk[journal].recs, Len(disk[journal].recs), disk[journal].torn))
<1> DEFINE f == disk[journal]
<1>1. f.recs \in Seq(Nat) /\ f.synced \in Nat /\ f.torn \in BOOLEAN
      /\ f.synced <= Len(f.recs) /\ Len(f.recs) \in Nat
      /\ f = File(f.recs, f.synced, f.torn)
      /\ disk \in [Inodes -> Files]
  BY FileTyped DEF DiskTyped
<1>2. disk' = [disk EXCEPT ![journal] = File(f.recs, Len(f.recs), f.torn)]
  BY <1>1 DEF SyncAppend
<1> QED BY <1>1, <1>2, RewrittenWhole

LEMMA EffectRenameEmpty ==
    ASSUME DiskTyped, RenameEmpty
    PROVE  \E i \in Inodes : Becomes(i, Empty) /\ Creatable(i) /\ journal' = i
              /\ entries' = entries \cup {i} /\ used' = used \cup {i}
<1>1. Empty \in Files /\ Empty.synced <= Len(Empty.recs)
  <2>1. <<>> \in Seq(Nat) /\ 0 <= Len(<<>>) /\ 0 \in Nat
    OBVIOUS
  <2> QED BY <2>1, FileParts DEF Empty
<1> QED BY <1>1 DEF RenameEmpty, Becomes

\* The records kept are some of the journal's, in its order.
LEMMA SurvivorsDrawn ==
    ASSUME NEW s \in Seq(Nat), NEW g \in Survivors(s)
    PROVE  LET kept == [k \in DOMAIN g |-> s[g[k]]] IN
           /\ kept \in Seq(Nat)
           /\ \A k \in DOMAIN kept : k \in DOMAIN g /\ g[k] \in 1 .. Len(s) /\ kept[k] = s[g[k]]
           /\ \A k, n \in DOMAIN kept : g[k] = g[n] => k = n
<1> DEFINE kept == [k \in DOMAIN g |-> s[g[k]]]
<1>1. PICK m \in Nat : g \in [1 .. m -> DOMAIN s]
  <2>1. PICK m \in {n - 1 : n \in DOMAIN s} : g \in [1 .. m -> DOMAIN s]
    BY DEF Survivors
  <2>2. DOMAIN s = 1 .. Len(s) /\ Len(s) \in Nat
    OBVIOUS
  <2>3. m \in Nat
    BY <2>1, <2>2
  <2> QED BY <2>1, <2>3
<1>2. \A k, n \in 1 .. m : k < n => g[k] < g[n]
  BY <1>1 DEF Survivors
<1>3. kept \in [1 .. m -> Nat] /\ kept \in Seq(Nat)
  BY <1>1
<1>4. \A k \in 1 .. m : g[k] \in 1 .. Len(s) /\ kept[k] = s[g[k]] /\ g[k] \in Int
  BY <1>1
<1>5. ASSUME NEW k \in 1 .. m, NEW n \in 1 .. m, g[k] = g[n] PROVE k = n
  <2>1. g[k] \in Int /\ ~ (g[k] < g[n]) /\ ~ (g[n] < g[k])
    <3>1. g[k] \in Int
      BY <1>4
    <3>2. ~ (g[k] < g[k])
      BY <3>1
    <3> QED BY <1>5, <3>1, <3>2
  <2>2. ~ (k < n) /\ ~ (n < k)
    BY <1>2, <2>1
  <2> QED BY <2>2
<1> QED BY <1>1, <1>3, <1>4, <1>5

LEMMA EffectPrepare ==
    ASSUME DiskTyped, journal \in Inodes, Prepare
    PROVE  \E i \in Inodes, kept \in Seq(Nat) :
              /\ Becomes(i, File(kept, Len(kept), FALSE))
              /\ Creatable(i) /\ used' = used \cup {i}
              /\ compaction' = [pc |-> "ready", ino |-> i, src |-> journal,
                                upto |-> Len(disk[journal].recs), kept |-> kept]
              /\ \A n \in DOMAIN kept : \E k \in 1 .. Len(disk[journal].recs) :
                    kept[n] = disk[journal].recs[k]
              /\ Distinct(disk[journal].recs) => Distinct(kept)
<1> DEFINE s == disk[journal].recs
<1>1. s \in Seq(Nat)
  BY FileTyped
<1>2. PICK i \in Inodes, g \in Survivors(s) :
          LET kept == [k \in DOMAIN g |-> s[g[k]]] IN
          /\ Creatable(i)
          /\ disk' = [disk EXCEPT ![i] = File(kept, Len(kept), FALSE)]
          /\ compaction' = [pc |-> "ready", ino |-> i, src |-> journal,
                            upto |-> Len(s), kept |-> kept]
          /\ used' = used \cup {i}
  BY DEF Prepare
<1> DEFINE kept == [k \in DOMAIN g |-> s[g[k]]]
<1>3. /\ kept \in Seq(Nat)
      /\ \A k \in DOMAIN kept : k \in DOMAIN g /\ g[k] \in 1 .. Len(s) /\ kept[k] = s[g[k]]
      /\ \A k, n \in DOMAIN kept : g[k] = g[n] => k = n
  BY <1>1, SurvivorsDrawn
<1>4. /\ Creatable(i)
      /\ disk' = [disk EXCEPT ![i] = File(kept, Len(kept), FALSE)]
      /\ compaction' = [pc |-> "ready", ino |-> i, src |-> journal,
                        upto |-> Len(s), kept |-> kept]
      /\ used' = used \cup {i}
  BY <1>2
<1> HIDE DEF kept, s
<1>5. Becomes(i, File(kept, Len(kept), FALSE))
  BY <1>3, <1>4, RewrittenWhole
<1>6. Distinct(s) => Distinct(kept)
  <2> SUFFICES ASSUME Distinct(s), NEW k \in DOMAIN kept, NEW n \in DOMAIN kept,
                      kept[k] = kept[n]
               PROVE  k = n
    BY DEF Distinct
  <2>1. g[k] \in DOMAIN s /\ g[n] \in DOMAIN s /\ s[g[k]] = s[g[n]]
    BY <1>1, <1>3
  <2>2. g[k] = g[n]
    BY <2>1 DEF Distinct
  <2> QED BY <1>3, <2>2
<1>7. \A n \in DOMAIN kept : \E k \in 1 .. Len(s) : kept[n] = s[k]
  BY <1>3
<1> QED BY <1>3, <1>4, <1>5, <1>6, <1>7 DEF s

LEMMA EffectIncludeTail ==
    ASSUME DiskTyped, journal \in Inodes, compaction \in Rewrites,
           compaction.ino \in Inodes, compaction.upto <= Len(disk[journal].recs),
           IncludeTail
    PROVE  LET recs == compaction.kept \o CommittedTail IN
           /\ CommittedTail \in Seq(Nat) /\ recs \in Seq(Nat)
           /\ Becomes(compaction.ino, File(recs, Len(recs), FALSE))
<1> DEFINE recs == compaction.kept \o CommittedTail
<1>1. compaction.kept \in Seq(Nat) /\ compaction.upto \in Nat
  BY DEF Rewrites
<1>2. CommittedTail \in Seq(Nat)
  BY <1>1, FileTyped, TailSeq DEF CommittedTail
<1>3. recs \in Seq(Nat) /\ Len(recs) \in Nat
  BY <1>1, <1>2
<1>4. disk' = [disk EXCEPT ![compaction.ino] = File(recs, Len(recs), FALSE)]
  BY DEF IncludeTail
<1> HIDE DEF recs
<1>5. Becomes(compaction.ino, File(recs, Len(recs), FALSE))
  BY <1>3, <1>4, RewrittenWhole
<1> QED BY <1>2, <1>3, <1>5 DEF recs

LEMMA EffectPowerLoss ==
    ASSUME DiskTyped, entries \subseteq Inodes, PowerLoss
    PROVE  /\ journal' \in entries /\ entries' = {journal'}
           /\ \E n \in Nat, torn \in BOOLEAN :
                 /\ disk[journal'].synced <= n /\ n <= Len(disk[journal'].recs)
                 /\ Becomes(journal', File(SubSeq(disk[journal'].recs, 1, n), n, torn))
<1> DEFINE f == disk[journal']
<1>1. journal' \in entries /\ entries' = {journal'} /\ journal' \in Inodes
  BY DEF PowerLoss
<1>2. f.recs \in Seq(Nat) /\ f.synced \in Nat /\ Len(f.recs) \in Nat
  BY <1>1, FileTyped
<1>3. PICK n \in f.synced .. Len(f.recs), torn \in BOOLEAN :
          disk' = [disk EXCEPT ![journal'] = File(SubSeq(f.recs, 1, n), n, torn)]
  BY DEF PowerLoss
<1>4. n \in 0 .. Len(f.recs) /\ n \in Nat /\ f.synced <= n /\ n <= Len(f.recs)
  BY <1>2
<1>5. SubSeq(f.recs, 1, n) \in Seq(Nat) /\ Len(SubSeq(f.recs, 1, n)) = n
  BY <1>2, <1>4, CutSeq
<1> DEFINE cut == SubSeq(f.recs, 1, n)
<1>6. cut \in Seq(Nat) /\ n <= Len(cut) /\ n \in Nat
      /\ torn \in BOOLEAN /\ journal' \in Inodes
      /\ disk' = [disk EXCEPT ![journal'] = File(cut, n, torn)]
  BY <1>1, <1>3, <1>4, <1>5
<1> HIDE DEF cut, f
<1>7. Becomes(journal', File(cut, n, torn))
  BY <1>6, Rewritten
<1> QED BY <1>1, <1>4, <1>7 DEF cut, f

-----------------------------------------------------------------------------
(* Types. *)

StoredTyped == Stored \subseteq Checkpoints \cup {None}
ReadersTyped ==
    /\ reader \in [Readers -> Replays]
    /\ \A r \in Readers : reader[r].pc # "idle" => reader[r].ino \in Inodes
RewriteTyped ==
    /\ compaction \in Rewrites
    /\ compaction.pc # "idle" => compaction.ino \in Inodes /\ compaction.src \in Inodes
WorkTyped ==
    /\ lock \in {"writer", "compaction", "free"}
    /\ writer \in {"idle", "append", "write", "sync", "discard", "clear"}
    /\ lock = "writer" <=> writer # "idle"
    /\ lock = "compaction" <=> compaction.pc \notin {"idle", "ready"}
NamesTyped == entries \subseteq Inodes /\ journal \in entries /\ used \subseteq Inodes
CountsTyped ==
    /\ next \in Nat \ {0} /\ acked \subseteq 1 .. next - 1
    /\ writer = "sync" => next > 1
    /\ kills \in 0 .. MaxKills /\ losses \in 0 .. MaxLosses

Typed ==
    /\ DiskTyped /\ StoredTyped /\ ReadersTyped /\ RewriteTyped /\ WorkTyped
    /\ NamesTyped /\ CountsTyped

LEMMA TypedIsTypeOK == Typed => TypeOK
  BY DEF TypeOK, Typed, DiskTyped, StoredTyped, ReadersTyped, RewriteTyped,
         WorkTyped, NamesTyped, CountsTyped, Stored

LEMMA ResumedTyped ==
    ASSUME NEW a \in Seq(Nat), NEW b \in Seq(Nat), NEW n \in Nat
    PROVE  /\ SubSeq(b, n + 1, Len(b)) \in Seq(Nat)
           /\ a \o SubSeq(b, n + 1, Len(b)) \in Seq(Nat)
           /\ Resumed(a, b) \in Seq(Nat)
<1>1. SubSeq(b, n + 1, Len(b)) \in Seq(Nat)
  OBVIOUS
<1>2. SubSeq(b, Len(a) + 1, Len(b)) \in Seq(Nat)
  OBVIOUS
<1> QED BY <1>1, <1>2 DEF Resumed

LEMMA InitTyped == Init => Typed
<1> SUFFICES ASSUME Init PROVE Typed
  OBVIOUS
<1>1. <<>> \in Seq(Nat) /\ Len(<<>>) = 0 /\ 0 \in Nat
  OBVIOUS
<1>2. Empty \in Files /\ Empty.recs = <<>> /\ Empty.synced = 0
  BY <1>1, FileParts DEF Empty
<1>3. DiskTyped
  BY <1>1, <1>2 DEF Init, DiskTyped
<1>4. StoredTyped /\ NamesTyped /\ WorkTyped
  BY DEF Init, StoredTyped, Stored, NamesTyped, WorkTyped, NoRewrite
<1>5. ReadersTyped
  BY <1>1 DEF Init, ReadersTyped, NotReading, Replays
<1>6. RewriteTyped
  BY <1>1 DEF Init, RewriteTyped, NoRewrite, Rewrites
<1>7. CountsTyped
  BY CheckpointAssumption DEF Init, CountsTyped
<1> QED BY <1>3, <1>4, <1>5, <1>6, <1>7 DEF Typed

LEMMA TypedOpen == ASSUME NEW r \in Readers, Typed, Open(r) PROVE Typed'
<1>1. DiskTyped' /\ StoredTyped' /\ RewriteTyped' /\ WorkTyped' /\ NamesTyped' /\ CountsTyped'
  BY DEF Typed, Open, DiskTyped, StoredTyped, RewriteTyped, WorkTyped,
     NamesTyped, CountsTyped, Stored
<1>2. ReadersTyped'
  <2>1. journal \in Inodes /\ FileLength(disk[journal]) \in Nat
    <3>1. journal \in Inodes /\ Len(disk[journal].recs) \in Nat
      BY FileTyped DEF Typed, NamesTyped
    <3>2. CASE disk[journal].torn
      BY <3>1, <3>2 DEF FileLength
    <3>3. CASE ~ disk[journal].torn
      BY <3>1, <3>3 DEF FileLength
    <3> QED BY <3>2, <3>3
  <2> DEFINE length == FileLength(disk[journal])
  <2> HIDE DEF length
  <2>2. [NotReading EXCEPT !.pc = "open", !.ino = journal,
                           !.length = length] \in Replays
    <3>1. <<>> \in Seq(Nat) /\ 0 \in Nat /\ length \in Nat
      BY <2>1 DEF length
    <3> QED BY <2>1, <3>1 DEF NotReading, Replays
  <2> QED BY <2>1, <2>2 DEF length, Open, Reading, Typed, ReadersTyped, NotReading
<1> QED BY <1>1, <1>2 DEF Typed

LEMMA TypedLoad == ASSUME NEW r \in Readers, Typed, Load(r) PROVE Typed'
<1>1. DiskTyped' /\ StoredTyped' /\ RewriteTyped' /\ WorkTyped' /\ NamesTyped' /\ CountsTyped'
  BY DEF Typed, Load, DiskTyped, StoredTyped, RewriteTyped, WorkTyped,
     NamesTyped, CountsTyped, Stored
<1>2. ReadersTyped'
  <2> DEFINE start == IF Describes(checkpoint, reader[r].ino, reader[r].length)
                      THEN checkpoint.replay ELSE <<>>
  <2>1. start \in Seq(Nat)
    BY DEF Typed, StoredTyped, Stored, Checkpoints, Describes
  <2>2. reader[r] \in Replays /\ reader[r].ino \in Inodes
    BY DEF Load, Typed, ReadersTyped
  <2>3. reader' = [reader EXCEPT ![r] = [reader[r] EXCEPT !.pc = "loaded", !.start = start]]
    BY DEF Load, Reading
  <2> HIDE DEF start
  <2>4. [reader[r] EXCEPT !.pc = "loaded", !.start = start] \in Replays
    BY <2>1, <2>2 DEF Replays
  <2> QED BY <2>2, <2>3, <2>4 DEF Typed, ReadersTyped, Replays
<1> QED BY <1>1, <1>2 DEF Typed

LEMMA TypedFold == ASSUME NEW r \in Readers, Typed, Fold(r) PROVE Typed'
<1>1. DiskTyped' /\ StoredTyped' /\ RewriteTyped' /\ WorkTyped' /\ NamesTyped' /\ CountsTyped'
  BY DEF Typed, Fold, DiskTyped, StoredTyped, RewriteTyped, WorkTyped,
     NamesTyped, CountsTyped, Stored
<1>2. ReadersTyped'
  <2> DEFINE replay == Resumed(reader[r].start, disk[reader[r].ino].recs)
  <2>1. reader[r] \in Replays /\ reader[r].ino \in Inodes /\ reader[r].start \in Seq(Nat)
    BY DEF Fold, Typed, ReadersTyped, Replays
  <2>2. replay \in Seq(Nat)
    BY <2>1, FileTyped, ResumedTyped DEF Typed
  <2>3. reader' = [reader EXCEPT ![r] = [reader[r] EXCEPT !.pc = "folded", !.replay = replay]]
    BY DEF Fold, Reading
  <2> HIDE DEF replay
  <2>4. [reader[r] EXCEPT !.pc = "folded", !.replay = replay] \in Replays
    BY <2>1, <2>2 DEF Replays
  <2> QED BY <2>1, <2>3, <2>4 DEF Typed, ReadersTyped, Replays
<1> QED BY <1>1, <1>2 DEF Typed

LEMMA TypedConclude == ASSUME NEW r \in Readers, Typed, Conclude(r) PROVE Typed'
<1>1. DiskTyped' /\ RewriteTyped' /\ WorkTyped' /\ NamesTyped' /\ CountsTyped'
  BY DEF Typed, Conclude, DiskTyped, RewriteTyped, WorkTyped, NamesTyped,
     CountsTyped
<1>2. StoredTyped'
  <2>1. reader[r] \in Replays /\ reader[r].ino \in Inodes
    BY DEF Conclude, Typed, ReadersTyped
  <2>2. reader[r].replay \in Seq(Nat) /\ reader[r].start \in Seq(Nat)
    BY <2>1 DEF Replays
  <2>3. CASE /\ Len(reader[r].replay) - Len(reader[r].start) >= Interval
             /\ StoreCheckpoint([ino |-> reader[r].ino, replay |-> reader[r].replay])
    <3>1. reader[r].replay # <<>>
      BY <2>2, <2>3, CheckpointAssumption
    <3>2. [ino |-> reader[r].ino, replay |-> reader[r].replay] \in Checkpoints
      BY <2>1, <2>2, <3>1 DEF Checkpoints
    <3> QED BY <2>3, <3>2 DEF StoreCheckpoint, Typed, StoredTyped, Stored
  <2>4. CASE UNCHANGED <<checkpoint, older>>
    BY <2>4 DEF Typed, StoredTyped, Stored
  <2> QED BY <2>3, <2>4 DEF Conclude
<1>3. ReadersTyped'
  BY CheckpointAssumption DEF Typed, ReadersTyped, Conclude, Reading,
     NotReading, Replays
<1> QED BY <1>1, <1>2, <1>3 DEF Typed

LEMMA TypedBeginAppend == ASSUME Typed, BeginAppend PROVE Typed'
<1>1. StoredTyped' /\ ReadersTyped' /\ RewriteTyped' /\ NamesTyped'
  BY DEF Typed, BeginAppend, StoredTyped, ReadersTyped, RewriteTyped,
     NamesTyped, Stored
<1>2. DiskTyped'
  BY EffectBeginAppend, BecomesTyped DEF Typed, NamesTyped, CountsTyped
<1>3. WorkTyped'
  BY CheckpointAssumption DEF Typed, WorkTyped, BeginAppend, NoRewrite
<1>4. CountsTyped'
  BY CheckpointAssumption DEF Typed, CountsTyped, BeginAppend
<1> QED BY <1>1, <1>2, <1>3, <1>4 DEF Typed

LEMMA TypedWritePart == ASSUME Typed, WritePart PROVE Typed'
<1>1. StoredTyped' /\ ReadersTyped' /\ RewriteTyped' /\ NamesTyped'
  BY DEF Typed, WritePart, StoredTyped, ReadersTyped, RewriteTyped, NamesTyped,
     Stored
<1>2. DiskTyped'
  BY EffectWritePart, BecomesTyped DEF Typed, NamesTyped, CountsTyped
<1>3. WorkTyped'
  BY CheckpointAssumption DEF Typed, WorkTyped, WritePart, NoRewrite
<1>4. CountsTyped'
  BY CheckpointAssumption DEF Typed, CountsTyped, WritePart
<1> QED BY <1>1, <1>2, <1>3, <1>4 DEF Typed

LEMMA TypedWriteRest == ASSUME Typed, WriteRest PROVE Typed'
<1>1. StoredTyped' /\ ReadersTyped' /\ RewriteTyped' /\ NamesTyped'
  BY DEF Typed, WriteRest, StoredTyped, ReadersTyped, RewriteTyped, NamesTyped,
     Stored
<1>2. DiskTyped'
  BY EffectWriteRest, BecomesTyped DEF Typed, NamesTyped, CountsTyped
<1>3. WorkTyped'
  BY CheckpointAssumption DEF Typed, WorkTyped, WriteRest, NoRewrite
<1>4. CountsTyped'
  BY CheckpointAssumption DEF Typed, CountsTyped, WriteRest
<1> QED BY <1>1, <1>2, <1>3, <1>4 DEF Typed

LEMMA TypedSyncAppend == ASSUME Typed, SyncAppend PROVE Typed'
<1>1. StoredTyped' /\ ReadersTyped' /\ RewriteTyped' /\ NamesTyped'
  BY DEF Typed, SyncAppend, StoredTyped, ReadersTyped, RewriteTyped, NamesTyped,
     Stored
<1>2. DiskTyped'
  BY EffectSyncAppend, BecomesTyped DEF Typed, NamesTyped, CountsTyped
<1>3. WorkTyped'
  BY CheckpointAssumption DEF Typed, WorkTyped, SyncAppend, NoRewrite
<1>4. CountsTyped'
  <2>1. next \in Nat \ {0} /\ acked' = acked \cup {next - 1} /\ next' = next
        /\ UNCHANGED <<kills, losses>>
    BY DEF SyncAppend, Typed, CountsTyped
  <2>2. next - 1 \in 1 .. next - 1
    BY <2>1 DEF Typed, CountsTyped, SyncAppend
  <2> QED BY <2>1, <2>2 DEF Typed, CountsTyped, SyncAppend
<1> QED BY <1>1, <1>2, <1>3, <1>4 DEF Typed

LEMMA TypedRemoveCheckpoint == ASSUME Typed, RemoveCheckpoint PROVE Typed'
<1>1. DiskTyped' /\ ReadersTyped' /\ RewriteTyped' /\ WorkTyped' /\ NamesTyped' /\ CountsTyped'
  BY DEF Typed, RemoveCheckpoint, DiskTyped, ReadersTyped, RewriteTyped,
     WorkTyped, NamesTyped, CountsTyped
<1>2. StoredTyped'
  BY CheckpointAssumption DEF Typed, StoredTyped, RemoveCheckpoint, Stored,
     StoreCheckpoint, SyncDirectory
<1> QED BY <1>1, <1>2 DEF Typed

LEMMA TypedBeginDiscard == ASSUME Typed, BeginDiscard PROVE Typed'
<1>1. DiskTyped' /\ ReadersTyped' /\ RewriteTyped' /\ NamesTyped'
  BY DEF Typed, BeginDiscard, DiskTyped, ReadersTyped, RewriteTyped, NamesTyped
<1>2. StoredTyped'
  BY CheckpointAssumption DEF Typed, StoredTyped, BeginDiscard, Stored,
     StoreCheckpoint, SyncDirectory
<1>3. WorkTyped'
  BY CheckpointAssumption DEF Typed, WorkTyped, BeginDiscard, NoRewrite
<1>4. CountsTyped'
  BY CheckpointAssumption DEF Typed, CountsTyped, BeginDiscard
<1> QED BY <1>1, <1>2, <1>3, <1>4 DEF Typed

LEMMA TypedRenameEmpty == ASSUME Typed, RenameEmpty PROVE Typed'
<1>1. StoredTyped' /\ ReadersTyped' /\ RewriteTyped'
  BY DEF Typed, RenameEmpty, StoredTyped, ReadersTyped, RewriteTyped, Stored
<1>2. DiskTyped'
  BY EffectRenameEmpty, BecomesTyped DEF Typed, NamesTyped, CountsTyped
<1>3. WorkTyped'
  BY CheckpointAssumption DEF Typed, WorkTyped, RenameEmpty, NoRewrite
<1>4. NamesTyped'
  BY CheckpointAssumption DEF Typed, NamesTyped, RenameEmpty, SyncDirectory
<1>5. CountsTyped'
  BY CheckpointAssumption DEF Typed, CountsTyped, RenameEmpty
<1> QED BY <1>1, <1>2, <1>3, <1>4, <1>5 DEF Typed

LEMMA TypedEndDiscard == ASSUME Typed, EndDiscard PROVE Typed'
<1>1. DiskTyped' /\ ReadersTyped' /\ RewriteTyped'
  BY DEF Typed, EndDiscard, DiskTyped, ReadersTyped, RewriteTyped
<1>2. StoredTyped'
  BY CheckpointAssumption DEF Typed, StoredTyped, EndDiscard, Stored,
     StoreCheckpoint, SyncDirectory
<1>3. WorkTyped'
  BY CheckpointAssumption DEF Typed, WorkTyped, EndDiscard, NoRewrite
<1>4. NamesTyped'
  BY CheckpointAssumption DEF Typed, NamesTyped, EndDiscard, SyncDirectory
<1>5. CountsTyped'
  BY CheckpointAssumption DEF Typed, CountsTyped, EndDiscard
<1> QED BY <1>1, <1>2, <1>3, <1>4, <1>5 DEF Typed

LEMMA TypedPrepare == ASSUME Typed, Prepare PROVE Typed'
<1>1. StoredTyped' /\ ReadersTyped' /\ CountsTyped'
  BY DEF Typed, Prepare, StoredTyped, ReadersTyped, CountsTyped, Stored
<1>2. DiskTyped'
  BY EffectPrepare, BecomesTyped DEF Typed, NamesTyped, CountsTyped
<1>3. RewriteTyped'
  <2>1. journal \in Inodes /\ Len(disk[journal].recs) \in Nat
    BY FileTyped DEF Typed, NamesTyped
  <2>2. PICK i \in Inodes, kept \in Seq(Nat) :
            compaction' = [pc |-> "ready", ino |-> i, src |-> journal,
                           upto |-> Len(disk[journal].recs), kept |-> kept]
    BY <2>1, EffectPrepare DEF Typed
  <2> QED BY <2>1, <2>2 DEF RewriteTyped, Rewrites
<1>4. WorkTyped'
  BY CheckpointAssumption DEF Typed, WorkTyped, Prepare, NoRewrite
<1>5. NamesTyped'
  BY CheckpointAssumption DEF Typed, NamesTyped, Prepare, SyncDirectory
<1> QED BY <1>1, <1>2, <1>3, <1>4, <1>5 DEF Typed

LEMMA TypedIncludeTail == ASSUME Typed, IncludeTail PROVE Typed'
<1>1. StoredTyped' /\ ReadersTyped' /\ NamesTyped' /\ CountsTyped'
  BY DEF Typed, IncludeTail, StoredTyped, ReadersTyped, NamesTyped, CountsTyped,
     Stored
<1>2. DiskTyped'
  <2> DEFINE recs == compaction.kept \o CommittedTail
  <2>1. /\ compaction.kept \in Seq(Nat) /\ compaction.upto \in Nat
        /\ compaction.ino \in Inodes /\ journal \in Inodes
    BY DEF IncludeTail, Typed, RewriteTyped, Rewrites, NamesTyped
  <2>2. recs \in Seq(Nat)
    BY <2>1, FileTyped, ResumedTyped DEF Typed, CommittedTail
  <2>3. disk' = [disk EXCEPT ![compaction.ino] = File(recs, Len(recs), FALSE)]
    BY DEF IncludeTail
  <2> HIDE DEF recs
  <2>4. Becomes(compaction.ino, File(recs, Len(recs), FALSE))
    BY <2>1, <2>2, <2>3, RewrittenWhole
  <2> QED BY <2>4, BecomesTyped DEF Typed
<1>3. RewriteTyped'
  BY CheckpointAssumption DEF Typed, RewriteTyped, IncludeTail, Rewrites,
     NoRewrite
<1>4. WorkTyped'
  BY CheckpointAssumption DEF Typed, WorkTyped, IncludeTail, NoRewrite
<1> QED BY <1>1, <1>2, <1>3, <1>4 DEF Typed

LEMMA TypedAbandon == ASSUME Typed, Abandon PROVE Typed'
<1>1. DiskTyped' /\ StoredTyped' /\ ReadersTyped' /\ NamesTyped' /\ CountsTyped'
  BY DEF Typed, Abandon, DiskTyped, StoredTyped, ReadersTyped, NamesTyped,
     CountsTyped, Stored
<1>2. RewriteTyped'
  BY CheckpointAssumption DEF Typed, RewriteTyped, Abandon, Rewrites, NoRewrite
<1>3. WorkTyped'
  BY CheckpointAssumption DEF Typed, WorkTyped, Abandon, NoRewrite
<1> QED BY <1>1, <1>2, <1>3 DEF Typed

LEMMA TypedPublishCheckpoint == ASSUME Typed, PublishCheckpoint PROVE Typed'
<1>1. DiskTyped' /\ ReadersTyped' /\ NamesTyped' /\ CountsTyped'
  BY DEF Typed, PublishCheckpoint, DiskTyped, ReadersTyped, NamesTyped,
     CountsTyped
<1>2. StoredTyped'
  <2>1. compaction.ino \in Inodes /\ compaction.kept \in Seq(Nat)
    BY DEF PublishCheckpoint, Typed, RewriteTyped, Rewrites
  <2>2. CASE /\ compaction.kept # <<>>
             /\ StoreCheckpoint([ino |-> compaction.ino, replay |-> compaction.kept])
    <3>1. [ino |-> compaction.ino, replay |-> compaction.kept] \in Checkpoints
      BY <2>1, <2>2 DEF Checkpoints
    <3> QED BY <2>2, <3>1 DEF StoreCheckpoint, Typed, StoredTyped, Stored
  <2>3. CASE UNCHANGED <<checkpoint, older>>
    BY <2>3 DEF Typed, StoredTyped, Stored
  <2> QED BY <2>2, <2>3 DEF PublishCheckpoint
<1>3. RewriteTyped'
  BY CheckpointAssumption DEF Typed, RewriteTyped, PublishCheckpoint, Rewrites,
     NoRewrite
<1>4. WorkTyped'
  BY CheckpointAssumption DEF Typed, WorkTyped, PublishCheckpoint, NoRewrite
<1> QED BY <1>1, <1>2, <1>3, <1>4 DEF Typed

LEMMA TypedSyncProjection == ASSUME Typed, SyncProjection PROVE Typed'
<1>1. DiskTyped' /\ ReadersTyped' /\ CountsTyped'
  BY DEF Typed, SyncProjection, DiskTyped, ReadersTyped, CountsTyped
<1>2. StoredTyped'
  BY CheckpointAssumption DEF Typed, StoredTyped, SyncProjection, Stored,
     StoreCheckpoint, SyncDirectory
<1>3. RewriteTyped'
  BY CheckpointAssumption DEF Typed, RewriteTyped, SyncProjection, Rewrites,
     NoRewrite
<1>4. WorkTyped'
  BY CheckpointAssumption DEF Typed, WorkTyped, SyncProjection, NoRewrite
<1>5. NamesTyped'
  BY CheckpointAssumption DEF Typed, NamesTyped, SyncProjection, SyncDirectory
<1> QED BY <1>1, <1>2, <1>3, <1>4, <1>5 DEF Typed

LEMMA TypedRenameRewrite == ASSUME Typed, RenameRewrite PROVE Typed'
<1>1. DiskTyped' /\ StoredTyped' /\ ReadersTyped' /\ CountsTyped'
  BY DEF Typed, RenameRewrite, DiskTyped, StoredTyped, ReadersTyped,
     CountsTyped, Stored
<1>2. RewriteTyped'
  BY CheckpointAssumption DEF Typed, RewriteTyped, RenameRewrite, Rewrites,
     NoRewrite
<1>3. WorkTyped'
  BY CheckpointAssumption DEF Typed, WorkTyped, RenameRewrite, NoRewrite
<1>4. NamesTyped'
  BY DEF Typed, NamesTyped, RewriteTyped, RenameRewrite
<1> QED BY <1>1, <1>2, <1>3, <1>4 DEF Typed

LEMMA TypedEndCompaction == ASSUME Typed, EndCompaction PROVE Typed'
<1>1. DiskTyped' /\ ReadersTyped' /\ CountsTyped'
  BY DEF Typed, EndCompaction, DiskTyped, ReadersTyped, CountsTyped
<1>2. StoredTyped'
  BY CheckpointAssumption DEF Typed, StoredTyped, EndCompaction, Stored,
     StoreCheckpoint, SyncDirectory
<1>3. RewriteTyped'
  BY CheckpointAssumption DEF Typed, RewriteTyped, EndCompaction, Rewrites,
     NoRewrite
<1>4. WorkTyped'
  BY CheckpointAssumption DEF Typed, WorkTyped, EndCompaction, NoRewrite
<1>5. NamesTyped'
  BY CheckpointAssumption DEF Typed, NamesTyped, EndCompaction, SyncDirectory
<1> QED BY <1>1, <1>2, <1>3, <1>4, <1>5 DEF Typed

LEMMA TypedKillWriter == ASSUME Typed, KillWriter PROVE Typed'
<1>1. DiskTyped' /\ StoredTyped' /\ ReadersTyped' /\ RewriteTyped' /\ NamesTyped'
  BY DEF Typed, KillWriter, DiskTyped, StoredTyped, ReadersTyped, RewriteTyped,
     NamesTyped, Stored
<1>2. WorkTyped'
  BY CheckpointAssumption DEF Typed, WorkTyped, KillWriter, NoRewrite
<1>3. CountsTyped'
  BY CheckpointAssumption DEF Typed, CountsTyped, KillWriter
<1> QED BY <1>1, <1>2, <1>3 DEF Typed

LEMMA TypedKillCompaction == ASSUME Typed, KillCompaction PROVE Typed'
<1>1. DiskTyped' /\ StoredTyped' /\ ReadersTyped' /\ NamesTyped'
  BY DEF Typed, KillCompaction, DiskTyped, StoredTyped, ReadersTyped,
     NamesTyped, Stored
<1>2. RewriteTyped'
  BY CheckpointAssumption DEF Typed, RewriteTyped, KillCompaction, Rewrites,
     NoRewrite
<1>3. WorkTyped'
  BY CheckpointAssumption DEF Typed, WorkTyped, KillCompaction, NoRewrite
<1>4. CountsTyped'
  BY CheckpointAssumption DEF Typed, CountsTyped, KillCompaction
<1> QED BY <1>1, <1>2, <1>3, <1>4 DEF Typed

LEMMA TypedPowerLoss == ASSUME Typed, PowerLoss PROVE Typed'
<1>1. DiskTyped'
  BY EffectPowerLoss, BecomesTyped DEF Typed, NamesTyped, CountsTyped
<1>2. StoredTyped'
  BY CheckpointAssumption DEF Typed, StoredTyped, PowerLoss, Stored,
     StoreCheckpoint, SyncDirectory
<1>3. ReadersTyped'
  BY CheckpointAssumption DEF Typed, ReadersTyped, PowerLoss, Reading,
     NotReading, Replays
<1>4. RewriteTyped'
  BY CheckpointAssumption DEF Typed, RewriteTyped, PowerLoss, Rewrites,
     NoRewrite
<1>5. WorkTyped'
  BY CheckpointAssumption DEF Typed, WorkTyped, PowerLoss, NoRewrite
<1>6. NamesTyped'
  BY CheckpointAssumption DEF Typed, NamesTyped, PowerLoss, SyncDirectory
<1>7. CountsTyped'
  BY CheckpointAssumption DEF Typed, CountsTyped, PowerLoss
<1> QED BY <1>1, <1>2, <1>3, <1>4, <1>5, <1>6, <1>7 DEF Typed

LEMMA NextTyped == Typed /\ [Next]_vars => Typed'
<1> SUFFICES ASSUME Typed, Next PROVE Typed'
  BY DEF Typed, DiskTyped, StoredTyped, ReadersTyped, RewriteTyped, WorkTyped,
         NamesTyped, CountsTyped, Stored, vars
<1> QED
  BY TypedOpen, TypedLoad, TypedFold, TypedConclude,
     TypedBeginAppend, TypedWritePart, TypedWriteRest, TypedSyncAppend,
     TypedRemoveCheckpoint, TypedBeginDiscard, TypedRenameEmpty, TypedEndDiscard,
     TypedPrepare, TypedIncludeTail, TypedAbandon, TypedPublishCheckpoint,
     TypedSyncProjection, TypedRenameRewrite, TypedEndCompaction, TypedKillWriter,
     TypedKillCompaction, TypedPowerLoss
  DEF Next

\* Every state is well formed: who holds the lock is at work on it, the journal
\* is a file its path may name after a power loss, and a file has synced no more
\* than it holds.
THEOREM TypeCorrect == Spec => []TypeOK
<1>1. Init => Typed
  BY InitTyped
<1>2. Typed /\ [Next]_vars => Typed'
  BY NextTyped
<1>3. Typed => TypeOK
  BY TypedIsTypeOK
<1> QED BY <1>1, <1>2, <1>3, PTL DEF Spec

-----------------------------------------------------------------------------
(* The files. *)

\* No step but the writing of a record, of a new file, of a rewrite's tail or a
\* power loss changes the records of a file.
SameRecords == \A i \in Inodes : disk'[i].recs = disk[i].recs

LEMMA EntriesSame ==
    ASSUME NEW i \in Inodes, NEW n \in Nat, NEW torn \in BOOLEAN, DiskTyped,
           Becomes(i, File(disk[i].recs, n, torn)), disk[i].synced <= n
    PROVE  /\ SameRecords
           /\ \A j \in Inodes : disk[j].synced <= disk'[j].synced
           /\ disk'[i].synced = n
<1> DEFINE f == File(disk[i].recs, n, torn)
<1>1. disk[i].recs \in Seq(Nat) /\ f.recs = disk[i].recs /\ f.synced = n
  BY FileTyped, FileParts
<1>2. disk'[i] = f /\ \A j \in Inodes \ {i} : disk'[j] = disk[j]
  BY BecomesTyped
<1>3. \A j \in Inodes : disk[j].synced \in Nat
  BY FileTyped
<1> HIDE DEF f
<1>4. disk'[i].recs = disk[i].recs /\ disk'[i].synced = n
  BY <1>1, <1>2
<1>5. ASSUME NEW j \in Inodes
      PROVE  disk'[j].recs = disk[j].recs /\ disk[j].synced <= disk'[j].synced
  <2>1. CASE j = i
    BY <1>4, <2>1
  <2>2. CASE j # i
    <3>1. disk'[j] = disk[j]
      BY <1>2, <2>2
    <3>2. disk[j].synced \in Nat
      BY <1>3
    <3> QED BY <3>1, <3>2
  <2> QED BY <2>1, <2>2
<1> QED BY <1>4, <1>5 DEF SameRecords

LEMMA Appended ==
    ASSUME NEW s \in Seq(Nat), NEW x \in Nat, NEW n \in DOMAIN Append(s, x)
    PROVE  \/ n \in DOMAIN s /\ Append(s, x)[n] = s[n]
           \/ n = Len(s) + 1 /\ Append(s, x)[n] = x
  OBVIOUS

LEMMA DistinctAppended ==
    ASSUME NEW s \in Seq(Nat), NEW x \in Nat, Distinct(s),
           \A n \in DOMAIN s : s[n] # x
    PROVE  Distinct(Append(s, x))
<1> SUFFICES ASSUME NEW m \in DOMAIN Append(s, x), NEW n \in DOMAIN Append(s, x),
                    Append(s, x)[m] = Append(s, x)[n]
             PROVE  m = n
  BY DEF Distinct
<1>1. \/ m \in DOMAIN s /\ Append(s, x)[m] = s[m]
      \/ m = Len(s) + 1 /\ Append(s, x)[m] = x
  BY Appended
<1>2. \/ n \in DOMAIN s /\ Append(s, x)[n] = s[n]
      \/ n = Len(s) + 1 /\ Append(s, x)[n] = x
  BY Appended
<1> QED BY <1>1, <1>2, Zenon DEF Distinct

LEMMA PrefixAppended ==
    ASSUME NEW a \in Seq(Nat), NEW s \in Seq(Nat), NEW x \in Nat, Prefix(a, s)
    PROVE  Prefix(a, Append(s, x))
<1>1. Len(Append(s, x)) = Len(s) + 1 /\ Len(s) \in Nat /\ Len(a) \in Nat
      /\ \A k \in 1 .. Len(s) : Append(s, x)[k] = s[k]
  OBVIOUS
<1> QED BY <1>1 DEF Prefix

\* What was kept of the beginning of a sequence, joined with the rest of it.
LEMMA TailJoined ==
    ASSUME NEW s \in Seq(Nat), NEW kept \in Seq(Nat), NEW upto \in Nat,
           upto <= Len(s), Distinct(s), Distinct(kept),
           \A n \in DOMAIN kept : \E k \in 1 .. upto : kept[n] = s[k]
    PROVE  LET recs == kept \o SubSeq(s, upto + 1, Len(s)) IN
           /\ \A n \in DOMAIN recs : \E k \in DOMAIN s : recs[n] = s[k]
           /\ Distinct(recs) /\ Prefix(kept, recs)
<1> DEFINE tail == SubSeq(s, upto + 1, Len(s))
           recs == kept \o tail
<1>1. /\ tail \in Seq(Nat) /\ Len(tail) = Len(s) - upto
      /\ \A k \in 1 .. Len(s) - upto : tail[k] = s[upto + k]
  BY TailSeq
<1>2. /\ recs \in Seq(Nat) /\ Len(recs) = Len(kept) + Len(tail)
      /\ \A k \in 1 .. Len(kept) : recs[k] = kept[k]
      /\ \A k \in 1 .. Len(tail) : recs[Len(kept) + k] = tail[k]
  BY <1>1, Joined
<1>3. /\ Len(kept) \in Nat /\ Len(s) \in Nat /\ DOMAIN s = 1 .. Len(s)
      /\ DOMAIN kept = 1 .. Len(kept) /\ DOMAIN recs = 1 .. Len(recs)
  BY <1>2
<1> HIDE DEF tail, recs
<1>4. ASSUME NEW n \in DOMAIN recs
      PROVE  \/ n \in DOMAIN kept /\ recs[n] = kept[n]
             \/ n > Len(kept) /\ upto + (n - Len(kept)) \in DOMAIN s
                /\ upto + (n - Len(kept)) > upto
                /\ recs[n] = s[upto + (n - Len(kept))]
  <2>1. CASE n <= Len(kept)
    <3>1. n \in 1 .. Len(recs)
      BY <1>3
    <3>2. n \in 1 .. Len(kept)
      BY <2>1, <3>1
    <3>3. recs[n] = kept[n] /\ n \in DOMAIN kept
      BY <1>2, <1>3, <3>2
    <3> QED BY <3>3
  <2>2. CASE n > Len(kept)
    <3>1. n - Len(kept) \in 1 .. Len(tail) /\ Len(kept) + (n - Len(kept)) = n
      <4>1. n \in 1 .. Len(recs) /\ Len(tail) \in Nat /\ Len(kept) \in Nat
        BY <1>1, <1>3
      <4>2. Len(recs) = Len(kept) + Len(tail)
        BY <1>2
      <4> QED BY <2>2, <4>1, <4>2
    <3>2. recs[n] = tail[n - Len(kept)]
      BY <1>2, <3>1
    <3>3. /\ n - Len(kept) \in 1 .. Len(s) - upto
          /\ upto + (n - Len(kept)) \in 1 .. Len(s) /\ upto + (n - Len(kept)) > upto
      <4>1. \A j \in 1 .. Len(s) - upto : upto + j \in 1 .. Len(s) /\ upto + j > upto
        BY <1>3
      <4>2. n - Len(kept) \in 1 .. Len(s) - upto
        BY <1>1, <3>1
      <4> QED BY <4>1, <4>2
    <3>4. tail[n - Len(kept)] = s[upto + (n - Len(kept))]
      BY <1>1, <3>3
    <3> QED BY <1>3, <2>2, <3>2, <3>3, <3>4
  <2>3. n \in Int
    BY <1>3
  <2> QED BY <1>3, <2>1, <2>2, <2>3
<1>5. ASSUME NEW n \in DOMAIN recs PROVE \E k \in DOMAIN s : recs[n] = s[k]
  <2>1. CASE n \in DOMAIN kept /\ recs[n] = kept[n]
    <3>1. PICK k \in 1 .. upto : kept[n] = s[k]
      BY <2>1
    <3>2. k \in DOMAIN s
      BY <1>3
    <3> QED BY <2>1, <3>1, <3>2
  <2>2. CASE /\ upto + (n - Len(kept)) \in DOMAIN s
             /\ recs[n] = s[upto + (n - Len(kept))]
    BY <2>2
  <2> QED BY <1>4, <2>1, <2>2
<1>6. ASSUME NEW m \in DOMAIN recs, NEW n \in DOMAIN recs, recs[m] = recs[n]
      PROVE  m = n
  <2>1. ASSUME NEW p \in DOMAIN recs, NEW q \in DOMAIN recs, recs[p] = recs[q],
               p \in DOMAIN kept, recs[p] = kept[p], q > Len(kept),
               upto + (q - Len(kept)) \in DOMAIN s, upto + (q - Len(kept)) > upto,
               recs[q] = s[upto + (q - Len(kept))]
        PROVE  FALSE
    <3>1. PICK k \in 1 .. upto : kept[p] = s[k]
      BY <2>1
    <3>2. k \in DOMAIN s
      BY <1>3
    <3>3. k = upto + (q - Len(kept))
      BY <2>1, <3>1, <3>2 DEF Distinct
    <3> QED BY <2>1, <3>3
  <2>2. CASE m \in DOMAIN kept /\ recs[m] = kept[m]
    <3>1. n \in DOMAIN kept /\ recs[n] = kept[n]
      BY <1>4, <1>6, <2>1, <2>2
    <3> QED BY <1>6, <2>2, <3>1 DEF Distinct
  <2>3. CASE ~ (m \in DOMAIN kept /\ recs[m] = kept[m])
    <3>1. ~ (n \in DOMAIN kept /\ recs[n] = kept[n])
      BY <1>4, <1>6, <2>1, <2>3
    <3>2. /\ upto + (m - Len(kept)) \in DOMAIN s /\ recs[m] = s[upto + (m - Len(kept))]
          /\ upto + (n - Len(kept)) \in DOMAIN s /\ recs[n] = s[upto + (n - Len(kept))]
      BY <1>4, <2>3, <3>1
    <3>3. upto + (m - Len(kept)) = upto + (n - Len(kept))
      BY <1>6, <3>2 DEF Distinct
    <3> QED BY <1>3, <3>3
  <2> QED BY <2>2, <2>3
<1>7. Prefix(kept, recs)
  BY <1>1, <1>2, <1>3 DEF Prefix
<1> QED BY <1>5, <1>6, <1>7 DEF Distinct, recs, tail

LEMMA StoredFile ==
    ASSUME Typed, NEW cp \in Stored, cp # None
    PROVE  cp.ino \in Inodes /\ cp.replay \in Seq(Nat) \ {<<>>}
  BY DEF Typed, StoredTyped, Checkpoints

LEMMA ReaderFile ==
    ASSUME Typed, NEW r \in Readers
    PROVE  /\ reader[r].pc # "idle" => reader[r].ino \in Inodes
           /\ reader[r].start \in Seq(Nat) /\ reader[r].replay \in Seq(Nat)
  BY DEF Typed, ReadersTyped, Replays

LEMMA RecordsTyped ==
    ASSUME Typed, NEW i \in Inodes
    PROVE  disk[i].recs \in Seq(Nat) /\ Len(disk[i].recs) \in Nat
           /\ DOMAIN disk[i].recs = 1 .. Len(disk[i].recs)
           /\ \A n \in DOMAIN disk[i].recs : disk[i].recs[n] \in Nat
  BY FileTyped DEF Typed

\* What is said of the records holds on when they stay.
LEMMA RecordsStay ==
    ASSUME Typed, FileInv, SameRecords, next' = next,
           UNCHANGED <<checkpoint, older, reader, compaction>>
    PROVE  RecordsOld' /\ RecordsDistinct' /\ CheckpointsAgree' /\ ReadersAgree'
           /\ RewriteDrawn'
<1>1. Stored' = Stored /\ reader' = reader /\ compaction' = compaction
  BY DEF Stored
<1>2. \A i \in Inodes : disk'[i].recs = disk[i].recs
  BY DEF SameRecords
<1>3. RecordsOld'
  BY <1>1, <1>2 DEF FileInv, RecordsOld
<1>4. RecordsDistinct'
  BY <1>2 DEF FileInv, RecordsDistinct
<1>5. CheckpointsAgree'
  <2> SUFFICES ASSUME NEW cp \in Stored, cp # None
               PROVE  Agree(cp.replay, disk'[cp.ino].recs)
    BY <1>1 DEF CheckpointsAgree
  <2> QED BY <1>2, StoredFile DEF FileInv, CheckpointsAgree
<1>6. ReadersAgree'
  <2> SUFFICES ASSUME NEW r \in Readers, reader[r].pc # "idle"
               PROVE  /\ reader[r].pc = "loaded" => Prefix(reader[r].start, disk'[reader[r].ino].recs)
                      /\ reader[r].pc = "folded" => Agree(reader[r].replay, disk'[reader[r].ino].recs)
    BY <1>1 DEF ReadersAgree
  <2> QED BY <1>2, ReaderFile DEF FileInv, ReadersAgree
<1>7. RewriteDrawn'
  BY <1>1, <1>2 DEF FileInv, RewriteDrawn, Typed, RewriteTyped
<1> QED BY <1>3, <1>4, <1>5, <1>6, <1>7

\* What is said of the records and the replays holds on when a file no one names
\* is written.
LEMMA HiddenWritten ==
    ASSUME Typed, FileInv, next' = next, UNCHANGED <<checkpoint, older, reader>>,
           NEW i \in Inodes, NEW recs \in Seq(Nat), Distinct(recs),
           \A n \in DOMAIN recs : recs[n] < next,
           disk'[i].recs = recs,
           \A j \in Inodes \ {i} : disk'[j] = disk[j],
           \A cp \in Stored : cp # None => cp.ino # i,
           \A r \in Readers : reader[r].pc # "idle" => reader[r].ino # i
    PROVE  RecordsOld' /\ RecordsDistinct' /\ CheckpointsAgree' /\ ReadersAgree'
<1>1. Stored' = Stored /\ reader' = reader
  BY DEF Stored
<1>2. RecordsOld'
  BY <1>1 DEF FileInv, RecordsOld
<1>3. RecordsDistinct'
  BY DEF FileInv, RecordsDistinct
<1>4. CheckpointsAgree'
  <2> SUFFICES ASSUME NEW cp \in Stored, cp # None
               PROVE  Agree(cp.replay, disk'[cp.ino].recs)
    BY <1>1 DEF CheckpointsAgree
  <2>1. cp.ino \in Inodes \ {i}
    BY StoredFile
  <2> QED BY <2>1 DEF FileInv, CheckpointsAgree
<1>5. ReadersAgree'
  <2> SUFFICES ASSUME NEW r \in Readers, reader[r].pc # "idle"
               PROVE  /\ reader[r].pc = "loaded" => Prefix(reader[r].start, disk'[reader[r].ino].recs)
                      /\ reader[r].pc = "folded" => Agree(reader[r].replay, disk'[reader[r].ino].recs)
    BY <1>1 DEF ReadersAgree
  <2>1. reader[r].ino \in Inodes \ {i}
    BY ReaderFile
  <2> QED BY <2>1 DEF FileInv, ReadersAgree
<1> QED BY <1>2, <1>3, <1>4, <1>5

\* What is said of the records and the replays holds on when a new file
\* is written.
LEMMA FileAdded ==
    ASSUME Typed, FileInv, next' = next, UNCHANGED <<checkpoint, older, reader>>,
           NEW i \in Inodes \ used, NEW recs \in Seq(Nat), Distinct(recs),
           \A n \in DOMAIN recs : recs[n] < next,
           disk'[i].recs = recs,
           \A j \in Inodes \ {i} : disk'[j] = disk[j]
    PROVE  RecordsOld' /\ RecordsDistinct' /\ CheckpointsAgree' /\ ReadersAgree'
<1>1. \A cp \in Stored : cp # None => cp.ino # i
  BY DEF FileInv, NamesUsed
<1>2. \A r \in Readers : reader[r].pc # "idle" => reader[r].ino # i
  BY DEF FileInv, NamesUsed
<1> QED BY <1>1, <1>2, HiddenWritten

\* A replay from the checkpoint holds the records of the file, all of them.
LEMMA FoldsWhole ==
    ASSUME NEW r \in Readers, Typed, FileInv, Fold(r)
    PROVE  /\ reader[r].pc = "loaded" /\ reader[r].ino \in Inodes
           /\ reader'[r].pc = "folded" /\ reader'[r].ino = reader[r].ino
           /\ reader'[r].replay = disk[reader[r].ino].recs
           /\ \A q \in Readers \ {r} : reader'[q] = reader[q]
<1>1. /\ reader[r].pc = "loaded" /\ reader[r].ino \in Inodes
      /\ reader[r].start \in Seq(Nat) /\ disk[reader[r].ino].recs \in Seq(Nat)
  BY ReaderFile, RecordsTyped DEF Fold
<1>2. Prefix(reader[r].start, disk[reader[r].ino].recs)
  BY <1>1 DEF FileInv, ReadersAgree
<1>3. Resumed(reader[r].start, disk[reader[r].ino].recs) = disk[reader[r].ino].recs
  BY <1>1, <1>2, PrefixResumed
<1>4. reader' = [reader EXCEPT ![r] =
                    [reader[r] EXCEPT !.pc = "folded", !.replay = disk[reader[r].ino].recs]]
  BY <1>3 DEF Fold, Reading
<1> QED BY <1>1, <1>4 DEF Typed, ReadersTyped, Replays

LEMMA SyncedStay ==
    ASSUME Typed, FileInv, SameRecords, \A j \in Inodes : disk[j].synced <= disk'[j].synced,
           DiskTyped'
    PROVE  \A i \in Inodes : \A n \in DOMAIN disk'[i].recs :
              disk'[i].recs[n] \in acked => n <= disk'[i].synced
<1> SUFFICES ASSUME NEW i \in Inodes, NEW n \in DOMAIN disk'[i].recs,
                    disk'[i].recs[n] \in acked
             PROVE  n <= disk'[i].synced
  OBVIOUS
<1>1. n \in DOMAIN disk[i].recs /\ disk[i].recs[n] \in acked /\ n \in Nat
  BY RecordsTyped DEF SameRecords
<1>2. n <= disk[i].synced
  BY <1>1 DEF FileInv, AckedSynced
<1>3. disk[i].synced \in Nat /\ disk'[i].synced \in Nat
  BY FileTyped DEF Typed, DiskTyped, Files
<1> QED BY <1>1, <1>2, <1>3

\* A power loss cuts the journal it leaves no shorter than what was synced.
LEMMA LossCuts ==
    ASSUME Typed, PowerLoss
    PROVE  \E n \in Nat :
              /\ journal' \in entries /\ entries' = {journal'} /\ journal' \in Inodes
              /\ disk[journal'].synced <= n /\ n <= Len(disk[journal'].recs)
              /\ disk'[journal'].recs = SubSeq(disk[journal'].recs, 1, n)
              /\ disk'[journal'].synced = n
              /\ \A j \in Inodes \ {journal'} : disk'[j] = disk[j]
<1>1. entries \subseteq Inodes
  BY DEF Typed, NamesTyped
<1>2. /\ journal' \in entries /\ entries' = {journal'} /\ journal' \in Inodes
      /\ \E n \in Nat, torn \in BOOLEAN :
            /\ disk[journal'].synced <= n /\ n <= Len(disk[journal'].recs)
            /\ Becomes(journal', File(SubSeq(disk[journal'].recs, 1, n), n, torn))
  BY <1>1, EffectPowerLoss DEF Typed
<1>3. PICK n \in Nat, torn \in BOOLEAN :
          /\ disk[journal'].synced <= n /\ n <= Len(disk[journal'].recs)
          /\ Becomes(journal', File(SubSeq(disk[journal'].recs, 1, n), n, torn))
  BY <1>2
<1> DEFINE f == File(SubSeq(disk[journal'].recs, 1, n), n, torn)
<1>4. f.recs = SubSeq(disk[journal'].recs, 1, n) /\ f.synced = n
  BY DEF File
<1> HIDE DEF f
<1>5. disk'[journal'] = f /\ \A j \in Inodes \ {journal'} : disk'[j] = disk[j]
  BY <1>3, BecomesTyped DEF Typed, f
<1> QED BY <1>2, <1>3, <1>4, <1>5

LEMMA FilesOpen ==
    ASSUME NEW r \in Readers, ~ ReusesInodes, Typed, Typed', FileInv, Open(r)
    PROVE  FileInv'
<1>1. RecordsDistinct' /\ CheckpointsAgree' /\ RewriteDrawn' /\ RewriteFollows' /\ AckedSynced'
  BY DEF FileInv, Open, RecordsDistinct, CheckpointsAgree, RewriteDrawn,
     RewriteFollows, AckedSynced, Stored
<1>2. NamesUsed'
  BY DEF Open, FileInv, NamesUsed, Stored, Reading, NotReading, Typed,
     ReadersTyped
<1>3. RecordsOld'
  BY DEF Open, FileInv, RecordsOld, Stored, Reading, NotReading, Typed,
     ReadersTyped
<1>4. ReadersAgree'
  BY DEF Open, FileInv, ReadersAgree, Reading, NotReading, Typed, ReadersTyped
<1>5. RewriteHidden'
  BY DEF Open, FileInv, RewriteHidden, Stored, Reading, NotReading, Typed,
     ReadersTyped, NamesTyped
<1> QED BY <1>1, <1>2, <1>3, <1>4, <1>5 DEF FileInv

LEMMA FilesLoad ==
    ASSUME NEW r \in Readers, ~ ReusesInodes, Typed, Typed', FileInv, Load(r)
    PROVE  FileInv'
<1>1. RecordsDistinct' /\ CheckpointsAgree' /\ RewriteDrawn' /\ RewriteFollows' /\ AckedSynced'
  BY DEF FileInv, Load, RecordsDistinct, CheckpointsAgree, RewriteDrawn,
     RewriteFollows, AckedSynced, Stored
<1>2. NamesUsed'
  BY DEF Load, FileInv, NamesUsed, Stored, Reading, Typed, ReadersTyped,
     NotReading
<1>3. RecordsOld'
  BY DEF Load, FileInv, RecordsOld, Stored, Reading, Typed, ReadersTyped,
     NotReading
<1>4. ReadersAgree'
  <2> DEFINE start == IF Describes(checkpoint, reader[r].ino, reader[r].length)
                      THEN checkpoint.replay ELSE <<>>
  <2>1. reader[r].ino \in Inodes /\ reader[r].pc = "open"
    BY ReaderFile DEF Load
  <2>2. reader' = [reader EXCEPT ![r] = [reader[r] EXCEPT !.pc = "loaded", !.start = start]]
    BY DEF Load, Reading
  <2>3. ASSUME Describes(checkpoint, reader[r].ino, reader[r].length)
        PROVE  Prefix(start, disk[reader[r].ino].recs)
    <3>1. checkpoint \in Stored /\ checkpoint # None /\ checkpoint.ino = reader[r].ino
          /\ SameLastRecord(checkpoint.replay, disk[reader[r].ino].recs)
      BY <2>3 DEF Describes, Stored
    <3>2. Agree(checkpoint.replay, disk[reader[r].ino].recs)
      BY <3>1 DEF FileInv, CheckpointsAgree
    <3>3. checkpoint.replay \in Seq(Nat) \ {<<>>} /\ disk[reader[r].ino].recs \in Seq(Nat)
      BY <2>1, <3>1, StoredFile, RecordsTyped
    <3>4. Prefix(checkpoint.replay, disk[reader[r].ino].recs)
      BY <3>1, <3>2, <3>3, LastShowsPrefix
    <3> QED BY <2>3, <3>4
  <2>4. ASSUME ~ Describes(checkpoint, reader[r].ino, reader[r].length)
        PROVE  Prefix(start, disk[reader[r].ino].recs)
    <3>1. Prefix(<<>>, disk[reader[r].ino].recs)
      BY <2>1, RecordsTyped DEF Prefix
    <3> QED BY <2>4, <3>1
  <2>5. Prefix(start, disk[reader[r].ino].recs)
    BY <2>3, <2>4
  <2> HIDE DEF start
  <2>6. reader'[r].pc = "loaded" /\ reader'[r].ino = reader[r].ino /\ reader'[r].start = start
        /\ \A q \in Readers \ {r} : reader'[q] = reader[q]
    BY <2>2 DEF Typed, ReadersTyped, Replays
  <2>7. disk' = disk
    BY DEF Load
  <2> QED BY <2>5, <2>6, <2>7 DEF FileInv, ReadersAgree
<1>5. RewriteHidden'
  BY DEF Load, FileInv, RewriteHidden, Stored, Reading, Typed, ReadersTyped,
     NotReading
<1> QED BY <1>1, <1>2, <1>3, <1>4, <1>5 DEF FileInv

LEMMA FilesFold ==
    ASSUME NEW r \in Readers, ~ ReusesInodes, Typed, Typed', FileInv, Fold(r)
    PROVE  FileInv'
<1>1. /\ reader[r].pc = "loaded" /\ reader[r].ino \in Inodes
      /\ reader'[r].pc = "folded" /\ reader'[r].ino = reader[r].ino
      /\ reader'[r].replay = disk[reader[r].ino].recs
      /\ \A q \in Readers \ {r} : reader'[q] = reader[q]
  BY FoldsWhole
<1>2. RecordsDistinct' /\ CheckpointsAgree' /\ RewriteDrawn' /\ RewriteFollows' /\ AckedSynced'
  BY DEF FileInv, Fold, RecordsDistinct, CheckpointsAgree, RewriteDrawn,
     RewriteFollows, AckedSynced, Stored
<1>3. NamesUsed'
  BY <1>1 DEF Fold, FileInv, NamesUsed, Stored, Reading, Typed, ReadersTyped,
     NotReading
<1>4. RecordsOld'
  BY <1>1 DEF Fold, FileInv, RecordsOld, Stored
<1>5. ReadersAgree'
  <2>1. Agree(disk[reader[r].ino].recs, disk[reader[r].ino].recs)
    BY <1>1, RecordsTyped, AgreePrefix DEF FileInv, RecordsDistinct, Prefix
  <2>2. disk' = disk
    BY DEF Fold
  <2> QED BY <1>1, <2>1, <2>2 DEF FileInv, ReadersAgree
<1>6. RewriteHidden'
  BY <1>1 DEF Fold, FileInv, RewriteHidden, Stored, Reading, Typed,
     ReadersTyped, NotReading
<1> QED BY <1>2, <1>3, <1>4, <1>5, <1>6 DEF FileInv

LEMMA FilesConclude ==
    ASSUME NEW r \in Readers, ~ ReusesInodes, Typed, Typed', FileInv, Conclude(r)
    PROVE  FileInv'
<1>1. \A cp \in Stored' : cp # None =>
         cp \in Stored \/ (cp.ino = reader[r].ino /\ cp.replay = reader[r].replay)
  <2>1. CASE StoreCheckpoint([ino |-> reader[r].ino, replay |-> reader[r].replay])
    BY <2>1 DEF StoreCheckpoint, Stored
  <2>2. CASE UNCHANGED <<checkpoint, older>>
    BY <2>2 DEF Stored
  <2> QED BY <2>1, <2>2 DEF Conclude
<1>a. /\ reader[r].pc = "folded" /\ reader'[r].pc = "idle"
      /\ \A q \in Readers \ {r} : reader'[q] = reader[q]
  BY DEF Conclude, Reading, NotReading, Typed, ReadersTyped
<1>2. RecordsDistinct' /\ RewriteDrawn' /\ RewriteFollows' /\ AckedSynced'
  BY DEF FileInv, Conclude, RecordsDistinct, RewriteDrawn, RewriteFollows,
     AckedSynced, Stored
<1>3. NamesUsed'
  BY <1>1, <1>a DEF FileInv, NamesUsed, Conclude
<1>4. RecordsOld'
  BY <1>1, <1>a DEF FileInv, RecordsOld, Conclude
<1>5. CheckpointsAgree'
  BY <1>1, <1>a DEF FileInv, CheckpointsAgree, Conclude, ReadersAgree
<1>6. ReadersAgree'
  BY <1>1 DEF Conclude, FileInv, ReadersAgree, StoreCheckpoint, Reading,
     NotReading, Typed, ReadersTyped
<1>7. RewriteHidden'
  BY <1>1, <1>a DEF FileInv, RewriteHidden, Conclude
<1> QED BY <1>2, <1>3, <1>4, <1>5, <1>6, <1>7 DEF FileInv

LEMMA FilesBeginAppend ==
    ASSUME ~ ReusesInodes, Typed, Typed', FileInv, BeginAppend
    PROVE  FileInv'
<1>1. SameRecords /\ \A j \in Inodes : disk[j].synced <= disk'[j].synced
  <2>1. journal \in Inodes
    BY DEF Typed, NamesTyped
  <2>2. PICK n \in Nat : n >= disk[journal].synced
             /\ Becomes(journal, File(disk[journal].recs, n, FALSE))
    BY <2>1, EffectBeginAppend DEF Typed
  <2> QED BY <2>1, <2>2, EntriesSame DEF Typed
<1>2. NamesUsed' /\ RewriteHidden'
  BY DEF FileInv, BeginAppend, NamesUsed, RewriteHidden, Stored
<1>3. RecordsOld'
  BY <1>1, RecordsStay DEF BeginAppend
<1>4. RecordsDistinct'
  BY <1>1, RecordsStay DEF BeginAppend
<1>5. CheckpointsAgree'
  BY <1>1, RecordsStay DEF BeginAppend
<1>6. ReadersAgree'
  BY <1>1, RecordsStay DEF BeginAppend
<1>7. RewriteDrawn'
  BY <1>1, RecordsStay DEF BeginAppend
<1>8. RewriteFollows'
  BY <1>1 DEF BeginAppend, FileInv, RewriteFollows, Typed, WorkTyped
<1>9. AckedSynced'
  BY <1>1, SyncedStay DEF AckedSynced, BeginAppend, Typed
<1> QED BY <1>2, <1>3, <1>4, <1>5, <1>6, <1>7, <1>8, <1>9 DEF FileInv

LEMMA FilesWritePart ==
    ASSUME ~ ReusesInodes, Typed, Typed', FileInv, WritePart
    PROVE  FileInv'
<1>1. SameRecords /\ \A j \in Inodes : disk[j].synced <= disk'[j].synced
  <2>1. journal \in Inodes /\ disk[journal].synced \in Nat
        /\ disk[journal].synced <= disk[journal].synced
    BY FileTyped DEF Typed, NamesTyped
  <2>2. Becomes(journal, File(disk[journal].recs, disk[journal].synced, TRUE))
    BY <2>1, EffectWritePart DEF Typed
  <2> QED BY <2>1, <2>2, EntriesSame DEF Typed
<1>2. NamesUsed' /\ RewriteHidden'
  BY DEF FileInv, WritePart, NamesUsed, RewriteHidden, Stored
<1>3. RecordsOld'
  BY <1>1, RecordsStay DEF WritePart
<1>4. RecordsDistinct'
  BY <1>1, RecordsStay DEF WritePart
<1>5. CheckpointsAgree'
  BY <1>1, RecordsStay DEF WritePart
<1>6. ReadersAgree'
  BY <1>1, RecordsStay DEF WritePart
<1>7. RewriteDrawn'
  BY <1>1, RecordsStay DEF WritePart
<1>8. RewriteFollows'
  BY <1>1 DEF WritePart, FileInv, RewriteFollows, Typed, WorkTyped
<1>9. AckedSynced'
  BY <1>1, SyncedStay DEF AckedSynced, WritePart, Typed
<1> QED BY <1>2, <1>3, <1>4, <1>5, <1>6, <1>7, <1>8, <1>9 DEF FileInv

LEMMA FilesWriteRest ==
    ASSUME ~ ReusesInodes, Typed, Typed', FileInv, WriteRest
    PROVE  FileInv'
<1>1. /\ journal \in Inodes /\ next \in Nat /\ next' = next + 1
      /\ disk'[journal].recs = Append(disk[journal].recs, next)
      /\ disk'[journal].synced = disk[journal].synced
      /\ \A j \in Inodes \ {journal} : disk'[j] = disk[j]
  <2>1. journal \in Inodes /\ next \in Nat
    BY DEF Typed, NamesTyped, CountsTyped
  <2> DEFINE f == File(Append(disk[journal].recs, next), disk[journal].synced, FALSE)
  <2>2. Becomes(journal, f)
    BY <2>1, EffectWriteRest DEF Typed
  <2>3. f.recs = Append(disk[journal].recs, next) /\ f.synced = disk[journal].synced
    BY DEF File
  <2> HIDE DEF f
  <2>4. disk'[journal] = f /\ \A j \in Inodes \ {journal} : disk'[j] = disk[j]
    BY <2>2, BecomesTyped DEF Typed
  <2> QED BY <2>1, <2>3, <2>4 DEF WriteRest
<1>a. /\ Stored' = Stored /\ reader' = reader /\ compaction' = compaction
      /\ disk[journal].recs \in Seq(Nat)
      /\ \A n \in DOMAIN disk[journal].recs : disk[journal].recs[n] < next /\ disk[journal].recs[n] \in Nat
      /\ DOMAIN disk'[journal].recs = 1 .. Len(disk[journal].recs) + 1
      /\ \A n \in 1 .. Len(disk[journal].recs) : disk'[journal].recs[n] = disk[journal].recs[n]
      /\ disk'[journal].recs[Len(disk[journal].recs) + 1] = next
      /\ DOMAIN disk[journal].recs = 1 .. Len(disk[journal].recs)
      /\ Len(disk[journal].recs) \in Nat
  <2>1. journal \in Inodes
    BY <1>1
  <2>2. disk[journal].recs \in Seq(Nat) /\ Len(disk[journal].recs) \in Nat
        /\ DOMAIN disk[journal].recs = 1 .. Len(disk[journal].recs)
        /\ \A n \in DOMAIN disk[journal].recs : disk[journal].recs[n] \in Nat
    BY <2>1, RecordsTyped
  <2>3. \A n \in DOMAIN disk[journal].recs : disk[journal].recs[n] < next
    BY <2>1 DEF FileInv, RecordsOld
  <2>4. Stored' = Stored /\ reader' = reader /\ compaction' = compaction
    BY DEF WriteRest, Stored
  <2> QED BY <1>1, <2>2, <2>3, <2>4
<1>2. NamesUsed' /\ RewriteHidden'
  BY DEF FileInv, WriteRest, NamesUsed, RewriteHidden, Stored
<1>3. RecordsOld'
  <2>1. \A i \in Inodes : \A n \in DOMAIN disk'[i].recs : disk'[i].recs[n] < next'
    <3> SUFFICES ASSUME NEW i \in Inodes, NEW n \in DOMAIN disk'[i].recs
                 PROVE  disk'[i].recs[n] < next + 1
      BY <1>1
    <3>1. CASE i = journal
      <4>1. \/ n \in DOMAIN disk[journal].recs /\ disk'[i].recs[n] = disk[journal].recs[n]
            \/ disk'[i].recs[n] = next
        <5>1. n \in 1 .. Len(disk[journal].recs) + 1
          BY <1>a, <3>1
        <5>2. \/ n \in 1 .. Len(disk[journal].recs)
              \/ n = Len(disk[journal].recs) + 1
          BY <1>a, <5>1
        <5> QED BY <1>a, <3>1, <5>2
      <4> QED BY <1>1, <1>a, <4>1
    <3>2. CASE i # journal
      <4>1. disk[i].recs[n] < next /\ disk[i].recs[n] \in Nat /\ disk'[i].recs[n] = disk[i].recs[n]
        BY <1>1, <3>2, RecordsTyped DEF FileInv, RecordsOld
      <4> QED BY <1>1, <4>1
    <3> QED BY <3>1, <3>2
  <2>2. ASSUME NEW cp \in Stored, cp # None, NEW n \in DOMAIN cp.replay
        PROVE  cp.replay[n] < next + 1
    <3>1. cp.replay[n] \in Nat /\ cp.replay[n] < next
      BY <2>2, StoredFile DEF FileInv, RecordsOld
    <3> QED BY <1>1, <3>1
  <2>3. ASSUME NEW r \in Readers, reader[r].pc = "folded", NEW n \in DOMAIN reader[r].replay
        PROVE  reader[r].replay[n] < next + 1
    <3>1. reader[r].replay[n] \in Nat /\ reader[r].replay[n] < next
      BY <2>3, ReaderFile DEF FileInv, RecordsOld
    <3> QED BY <1>1, <3>1
  <2> QED BY <1>1, <1>a, <2>1, <2>2, <2>3 DEF RecordsOld
<1>4. RecordsDistinct'
  <2> SUFFICES ASSUME NEW i \in Inodes PROVE Distinct(disk'[i].recs)
    BY DEF RecordsDistinct
  <2>1. Distinct(disk[i].recs)
    BY DEF FileInv, RecordsDistinct
  <2>2. CASE i = journal
    <3>1. \A n \in DOMAIN disk[journal].recs : disk[journal].recs[n] # next
      BY <1>1, <1>a
    <3>2. Distinct(Append(disk[journal].recs, next))
      BY <1>1, <1>a, <2>1, <2>2, <3>1, DistinctAppended
    <3> QED BY <1>1, <2>2, <3>2
  <2>3. CASE i # journal
    BY <1>1, <2>1, <2>3
  <2> QED BY <2>2, <2>3
<1>5. CheckpointsAgree'
  <2> SUFFICES ASSUME NEW cp \in Stored, cp # None
               PROVE  Agree(cp.replay, disk'[cp.ino].recs)
    BY <1>a DEF CheckpointsAgree
  <2>1. Agree(cp.replay, disk[cp.ino].recs) /\ cp.ino \in Inodes /\ cp.replay \in Seq(Nat)
    BY StoredFile DEF FileInv, CheckpointsAgree
  <2>2. CASE cp.ino = journal
    <3>1. \A n \in DOMAIN cp.replay : cp.replay[n] # next
      BY <1>1, <2>1 DEF FileInv, RecordsOld
    <3>2. Agree(cp.replay, Append(disk[journal].recs, next))
      BY <1>1, <1>a, <2>1, <2>2, <3>1, AgreeAppended
    <3> QED BY <1>1, <2>2, <3>2
  <2>3. CASE cp.ino # journal
    BY <1>1, <2>1, <2>3
  <2> QED BY <2>2, <2>3
<1>6. ReadersAgree'
  <2> SUFFICES ASSUME NEW r \in Readers, reader[r].pc # "idle"
               PROVE  /\ reader[r].pc = "loaded" => Prefix(reader[r].start, disk'[reader[r].ino].recs)
                      /\ reader[r].pc = "folded" => Agree(reader[r].replay, disk'[reader[r].ino].recs)
    BY <1>a DEF ReadersAgree
  <2>1. /\ reader[r].ino \in Inodes
        /\ reader[r].start \in Seq(Nat) /\ reader[r].replay \in Seq(Nat)
        /\ reader[r].pc = "loaded" => Prefix(reader[r].start, disk[reader[r].ino].recs)
        /\ reader[r].pc = "folded" => Agree(reader[r].replay, disk[reader[r].ino].recs)
    BY ReaderFile DEF FileInv, ReadersAgree
  <2>2. CASE reader[r].ino # journal
    BY <1>1, <2>1, <2>2
  <2>3. ASSUME reader[r].ino = journal, reader[r].pc = "loaded"
        PROVE  Prefix(reader[r].start, disk'[journal].recs)
    <3>1. Prefix(reader[r].start, Append(disk[journal].recs, next))
      BY <1>1, <1>a, <2>1, <2>3, PrefixAppended
    <3> QED BY <1>1, <3>1
  <2>4. ASSUME reader[r].ino = journal, reader[r].pc = "folded"
        PROVE  Agree(reader[r].replay, disk'[journal].recs)
    <3>1. \A n \in DOMAIN reader[r].replay : reader[r].replay[n] # next
      BY <1>1, <2>1, <2>4 DEF FileInv, RecordsOld
    <3>2. Agree(reader[r].replay, Append(disk[journal].recs, next))
      BY <1>1, <1>a, <2>1, <2>4, <3>1, AgreeAppended
    <3> QED BY <1>1, <3>2
  <2> QED BY <2>2, <2>3, <2>4
<1>7. RewriteDrawn'
  <2> SUFFICES ASSUME compaction.pc # "idle"
               PROVE  LET recs == disk'[compaction.src].recs IN
                      /\ compaction.ino # compaction.src
                      /\ compaction.upto <= Len(recs)
                      /\ Distinct(compaction.kept)
                      /\ \A n \in DOMAIN compaction.kept : \E k \in 1 .. compaction.upto :
                            compaction.kept[n] = recs[k]
    BY <1>a DEF RewriteDrawn
  <2> DEFINE old == disk[compaction.src].recs
             new == disk'[compaction.src].recs
  <2>1. /\ compaction.ino # compaction.src /\ compaction.upto <= Len(old)
        /\ Distinct(compaction.kept)
        /\ \A n \in DOMAIN compaction.kept : \E k \in 1 .. compaction.upto :
              compaction.kept[n] = old[k]
        /\ compaction.src \in Inodes /\ compaction.upto \in Nat
    BY DEF FileInv, RewriteDrawn, Typed, RewriteTyped, Rewrites
  <2>2. Len(old) \in Nat /\ Len(new) \in Nat /\ Len(old) <= Len(new)
        /\ \A k \in 1 .. Len(old) : new[k] = old[k]
    <3>1. CASE compaction.src = journal
      <4>1. Len(disk'[journal].recs) = Len(disk[journal].recs) + 1
        BY <1>1, <1>a
      <4> QED BY <1>a, <3>1, <4>1
    <3>2. CASE compaction.src # journal
      <4>1. new = old /\ Len(old) \in Nat
        BY <1>1, <2>1, <3>2, RecordsTyped
      <4> QED BY <4>1
    <3> QED BY <3>1, <3>2
  <2> HIDE DEF old, new
  <2>3. compaction.upto <= Len(new) /\ \A k \in 1 .. compaction.upto : new[k] = old[k]
    BY <2>1, <2>2
  <2>4. ASSUME NEW n \in DOMAIN compaction.kept
        PROVE  \E k \in 1 .. compaction.upto : compaction.kept[n] = new[k]
    BY <2>1, <2>3
  <2> QED BY <2>1, <2>3, <2>4 DEF new
<1>8. RewriteFollows'
  BY <1>1 DEF WriteRest, FileInv, RewriteFollows, Typed, WorkTyped
<1>9. AckedSynced'
  <2>1. ASSUME NEW i \in Inodes, NEW n \in DOMAIN disk'[i].recs, disk'[i].recs[n] \in acked
        PROVE  n <= disk'[i].synced
    <3>1. CASE i = journal
      <4>1. next \notin acked
        BY <1>1 DEF Typed, CountsTyped
      <4>2. n \in DOMAIN disk[journal].recs /\ disk[journal].recs[n] \in acked
        BY <1>1, <1>a, <2>1, <3>1, <4>1, Appended
      <4> QED BY <1>1, <3>1, <4>2 DEF FileInv, AckedSynced
    <3>2. CASE i # journal
      BY <1>1, <2>1, <3>2 DEF FileInv, AckedSynced
    <3> QED BY <3>1, <3>2
  <2>2. ASSUME NEW i \in Inodes \ {journal}, NEW n \in DOMAIN disk'[i].recs
        PROVE  disk'[i].recs[n] # next' - 1
    <3>1. disk[i].recs[n] < next /\ disk[i].recs[n] \in Nat /\ disk'[i].recs[n] = disk[i].recs[n]
      BY <1>1, <2>2, RecordsTyped DEF FileInv, RecordsOld
    <3> QED BY <1>1, <3>1
  <2> QED BY <2>1, <2>2 DEF AckedSynced, WriteRest
<1> QED BY <1>2, <1>3, <1>4, <1>5, <1>6, <1>7, <1>8, <1>9 DEF FileInv

LEMMA FilesSyncAppend ==
    ASSUME ~ ReusesInodes, Typed, Typed', FileInv, SyncAppend
    PROVE  FileInv'
<1>1. SameRecords /\ \A j \in Inodes : disk[j].synced <= disk'[j].synced
      /\ disk'[journal].synced = Len(disk[journal].recs)
  <2>1. journal \in Inodes /\ disk[journal].synced <= Len(disk[journal].recs)
        /\ Len(disk[journal].recs) \in Nat /\ disk[journal].torn \in BOOLEAN
    BY FileTyped DEF Typed, NamesTyped
  <2>2. Becomes(journal, File(disk[journal].recs, Len(disk[journal].recs), disk[journal].torn))
    BY <2>1, EffectSyncAppend DEF Typed
  <2> QED BY <2>1, <2>2, EntriesSame DEF Typed
<1>2. NamesUsed' /\ RewriteHidden'
  BY DEF FileInv, SyncAppend, NamesUsed, RewriteHidden, Stored
<1>3. RecordsOld'
  BY <1>1, RecordsStay DEF SyncAppend
<1>4. RecordsDistinct'
  BY <1>1, RecordsStay DEF SyncAppend
<1>5. CheckpointsAgree'
  BY <1>1, RecordsStay DEF SyncAppend
<1>6. ReadersAgree'
  BY <1>1, RecordsStay DEF SyncAppend
<1>7. RewriteDrawn'
  BY <1>1, RecordsStay DEF SyncAppend
<1>8. RewriteFollows'
  BY <1>1 DEF SyncAppend, FileInv, RewriteFollows, Typed, WorkTyped
<1>9. AckedSynced'
  <2>1. \A i \in Inodes : \A n \in DOMAIN disk'[i].recs :
            disk'[i].recs[n] \in acked => n <= disk'[i].synced
    BY <1>1, SyncedStay DEF Typed
  <2>2. ASSUME NEW i \in Inodes, NEW n \in DOMAIN disk'[i].recs,
               disk'[i].recs[n] = next - 1
        PROVE  n <= disk'[i].synced
    <3>1. n \in DOMAIN disk[i].recs /\ disk[i].recs[n] = next - 1 /\ n \in Nat
          /\ n <= Len(disk[i].recs)
      BY <1>1, <2>2, RecordsTyped DEF SameRecords
    <3>2. CASE i = journal
      BY <1>1, <3>1, <3>2
    <3>3. CASE i # journal
      <4>1. n <= disk[i].synced
        BY <3>1, <3>3 DEF FileInv, AckedSynced, SyncAppend
      <4>2. disk[i].synced \in Nat /\ disk'[i].synced \in Nat /\ disk[i].synced <= disk'[i].synced
        BY <1>1, FileTyped DEF Typed, DiskTyped, Files
      <4> QED BY <3>1, <4>1, <4>2
    <3> QED BY <3>2, <3>3
  <2> QED BY <2>1, <2>2 DEF AckedSynced, SyncAppend
<1> QED BY <1>2, <1>3, <1>4, <1>5, <1>6, <1>7, <1>8, <1>9 DEF FileInv

LEMMA FilesRemoveCheckpoint ==
    ASSUME ~ ReusesInodes, Typed, Typed', FileInv, RemoveCheckpoint
    PROVE  FileInv'
<1>1. RecordsDistinct' /\ ReadersAgree' /\ RewriteDrawn' /\ RewriteFollows' /\ AckedSynced'
  BY DEF FileInv, RemoveCheckpoint, RecordsDistinct, ReadersAgree, RewriteDrawn,
     RewriteFollows, AckedSynced, Stored
<1>2. NamesUsed'
  BY DEF RemoveCheckpoint, FileInv, NamesUsed, Stored, StoreCheckpoint
<1>3. RecordsOld'
  BY DEF RemoveCheckpoint, FileInv, RecordsOld, Stored, StoreCheckpoint
<1>4. CheckpointsAgree'
  BY DEF RemoveCheckpoint, FileInv, CheckpointsAgree, Stored, StoreCheckpoint
<1>5. RewriteHidden'
  BY DEF RemoveCheckpoint, FileInv, RewriteHidden, Stored, StoreCheckpoint
<1> QED BY <1>1, <1>2, <1>3, <1>4, <1>5 DEF FileInv

LEMMA FilesBeginDiscard ==
    ASSUME ~ ReusesInodes, Typed, Typed', FileInv, BeginDiscard
    PROVE  FileInv'
<1>1. RecordsDistinct' /\ ReadersAgree' /\ RewriteDrawn' /\ RewriteFollows'
  BY DEF FileInv, BeginDiscard, RecordsDistinct, ReadersAgree, RewriteDrawn,
     RewriteFollows, Stored
<1>2. NamesUsed'
  BY DEF BeginDiscard, FileInv, NamesUsed, Stored, StoreCheckpoint
<1>3. RecordsOld'
  BY DEF BeginDiscard, FileInv, RecordsOld, Stored, StoreCheckpoint
<1>4. CheckpointsAgree'
  BY DEF BeginDiscard, FileInv, CheckpointsAgree, Stored, StoreCheckpoint
<1>5. RewriteHidden'
  BY DEF BeginDiscard, FileInv, RewriteHidden, Stored, StoreCheckpoint
<1>6. AckedSynced'
  BY DEF BeginDiscard, FileInv, AckedSynced, StoreCheckpoint
<1> QED BY <1>1, <1>2, <1>3, <1>4, <1>5, <1>6 DEF FileInv

LEMMA FilesRenameEmpty ==
    ASSUME ~ ReusesInodes, Typed, Typed', FileInv, RenameEmpty
    PROVE  FileInv'
<1>1. PICK i \in Inodes :
          /\ i \notin used /\ disk'[i] = Empty
          /\ \A j \in Inodes \ {i} : disk'[j] = disk[j]
          /\ journal' = i /\ entries' = entries \cup {i}
  <2>1. PICK i \in Inodes : Becomes(i, Empty) /\ Creatable(i) /\ journal' = i
            /\ entries' = entries \cup {i} /\ used' = used \cup {i}
    BY EffectRenameEmpty DEF Typed
  <2> QED BY <2>1, BecomesTyped DEF Typed, Creatable
<1>a. /\ <<>> \in Seq(Nat) /\ Empty.recs = <<>> /\ Distinct(<<>>)
      /\ UNCHANGED <<checkpoint, older, reader, compaction, next>>
      /\ \A n \in DOMAIN <<>> : <<>>[n] < next
  BY DEF Empty, File, Distinct, RenameEmpty
<1>2. NamesUsed'
  BY <1>1, ~ ReusesInodes DEF RenameEmpty, FileInv, NamesUsed, Stored, Creatable
<1>3. RecordsOld'
  BY <1>1, <1>a, FileAdded
<1>4. RecordsDistinct'
  BY <1>1, <1>a, FileAdded
<1>5. CheckpointsAgree'
  BY <1>1, <1>a, FileAdded
<1>6. ReadersAgree'
  BY <1>1, <1>a, FileAdded
<1>7. RewriteHidden'
  <2>1. Stored' = Stored /\ compaction' = compaction /\ reader' = reader
    BY <1>a DEF Stored
  <2>2. compaction.pc # "idle" => compaction.ino # i
    BY <1>1 DEF FileInv, NamesUsed
  <2> SUFFICES ASSUME compaction.pc \in {"ready", "locked", "checkpointed", "synced"}
               PROVE  /\ compaction.ino \notin entries'
                      /\ compaction.pc \in {"ready", "locked"} =>
                            /\ \A cp \in Stored : cp # None => cp.ino # compaction.ino
                            /\ \A r \in Readers : reader[r].pc # "idle" => reader[r].ino # compaction.ino
    BY <2>1 DEF RewriteHidden
  <2>3. compaction.ino # i
    BY <2>2
  <2>4. /\ compaction.ino \notin entries
        /\ compaction.pc \in {"ready", "locked"} =>
              /\ \A cp \in Stored : cp # None => cp.ino # compaction.ino
              /\ \A r \in Readers : reader[r].pc # "idle" => reader[r].ino # compaction.ino
    BY DEF FileInv, RewriteHidden
  <2>5. compaction.ino \notin entries'
    <3>1. entries' = entries \cup {i} /\ compaction.ino \notin entries
      BY <1>1, <2>4
    <3> QED BY <2>3, <3>1
  <2> QED BY <2>4, <2>5
<1>8. RewriteDrawn'
  <2>1. compaction' = compaction
    BY <1>a
  <2>2. compaction.pc # "idle" => disk'[compaction.src] = disk[compaction.src]
    BY <1>1 DEF FileInv, NamesUsed, Typed, RewriteTyped
  <2> QED BY <2>1, <2>2 DEF FileInv, RewriteDrawn
<1>9. RewriteFollows'
  BY <1>1, ~ ReusesInodes DEF RenameEmpty, FileInv, RewriteFollows, Creatable,
     Typed, WorkTyped
<1>10. AckedSynced'
  BY DEF AckedSynced, RenameEmpty
<1> QED BY <1>2, <1>3, <1>4, <1>5, <1>6, <1>7, <1>8, <1>9, <1>10 DEF FileInv

LEMMA FilesEndDiscard ==
    ASSUME ~ ReusesInodes, Typed, Typed', FileInv, EndDiscard
    PROVE  FileInv'
<1>1. RecordsDistinct' /\ ReadersAgree' /\ RewriteDrawn'
  BY DEF FileInv, EndDiscard, RecordsDistinct, ReadersAgree, RewriteDrawn,
     Stored
<1>2. NamesUsed'
  BY DEF EndDiscard, FileInv, NamesUsed, Stored, SyncDirectory
<1>3. RecordsOld'
  BY DEF EndDiscard, FileInv, RecordsOld, Stored, SyncDirectory
<1>4. CheckpointsAgree'
  BY DEF EndDiscard, FileInv, CheckpointsAgree, Stored, SyncDirectory
<1>5. RewriteHidden'
  BY DEF EndDiscard, FileInv, RewriteHidden, Stored, SyncDirectory, Typed,
     NamesTyped, WorkTyped
<1>6. RewriteFollows'
  BY DEF EndDiscard, FileInv, RewriteFollows, SyncDirectory, Typed, WorkTyped
<1>7. AckedSynced'
  BY DEF EndDiscard, FileInv, AckedSynced, SyncDirectory
<1> QED BY <1>1, <1>2, <1>3, <1>4, <1>5, <1>6, <1>7 DEF FileInv

LEMMA FilesPrepare ==
    ASSUME ~ ReusesInodes, Typed, Typed', FileInv, Prepare
    PROVE  FileInv'
<1>1. PICK i \in Inodes, kept \in Seq(Nat) :
          /\ i \notin used /\ used' = used \cup {i}
          /\ disk'[i] = File(kept, Len(kept), FALSE)
          /\ \A j \in Inodes \ {i} : disk'[j] = disk[j]
          /\ compaction' = [pc |-> "ready", ino |-> i, src |-> journal,
                            upto |-> Len(disk[journal].recs), kept |-> kept]
          /\ \A n \in DOMAIN kept : \E k \in 1 .. Len(disk[journal].recs) :
                kept[n] = disk[journal].recs[k]
          /\ Distinct(kept)
  <2>1. journal \in Inodes /\ Distinct(disk[journal].recs)
    BY DEF Typed, NamesTyped, FileInv, RecordsDistinct
  <2>2. PICK i \in Inodes, kept \in Seq(Nat) :
            /\ Becomes(i, File(kept, Len(kept), FALSE))
            /\ Creatable(i) /\ used' = used \cup {i}
            /\ compaction' = [pc |-> "ready", ino |-> i, src |-> journal,
                              upto |-> Len(disk[journal].recs), kept |-> kept]
            /\ \A n \in DOMAIN kept : \E k \in 1 .. Len(disk[journal].recs) :
                  kept[n] = disk[journal].recs[k]
            /\ Distinct(disk[journal].recs) => Distinct(kept)
    BY <2>1, EffectPrepare DEF Typed
  <2>3. disk'[i] = File(kept, Len(kept), FALSE) /\ \A j \in Inodes \ {i} : disk'[j] = disk[j]
    BY <2>2, BecomesTyped DEF Typed
  <2> QED BY <2>1, <2>2, <2>3 DEF Creatable
<1>a. /\ journal \in Inodes \ {i} /\ journal \in used
      /\ disk'[i].recs = kept /\ disk'[i].synced = Len(kept)
      /\ Len(disk[journal].recs) \in Nat
      /\ \A k \in 1 .. Len(disk[journal].recs) : disk[journal].recs[k] < next
      /\ UNCHANGED <<journal, entries, checkpoint, older, writer, reader, next, acked>>
      /\ Stored' = Stored
  <2>1. journal \in Inodes \ {i} /\ journal \in used
    BY <1>1 DEF Typed, NamesTyped, FileInv, NamesUsed
  <2>2. disk'[i].recs = kept /\ disk'[i].synced = Len(kept)
    BY <1>1 DEF File
  <2>3. /\ Len(disk[journal].recs) \in Nat
        /\ DOMAIN disk[journal].recs = 1 .. Len(disk[journal].recs)
    BY <2>1, RecordsTyped
  <2>4. \A k \in 1 .. Len(disk[journal].recs) : disk[journal].recs[k] < next
    BY <2>1, <2>3 DEF FileInv, RecordsOld
  <2> QED BY <2>1, <2>2, <2>3, <2>4 DEF Prepare, Stored
<1>b. \A n \in DOMAIN kept : kept[n] < next
  BY <1>1, <1>a
<1>c. /\ compaction'.pc = "ready" /\ compaction'.ino = i /\ compaction'.src = journal
      /\ compaction'.upto = Len(disk[journal].recs) /\ compaction'.kept = kept
  BY <1>1
<1>2. NamesUsed'
  BY <1>1, <1>a, <1>c DEF FileInv, NamesUsed
<1>3. RecordsOld'
  BY <1>1, <1>a, <1>b, FileAdded
<1>4. RecordsDistinct'
  BY <1>1, <1>a, <1>b, FileAdded
<1>5. CheckpointsAgree'
  BY <1>1, <1>a, <1>b, FileAdded
<1>6. ReadersAgree'
  BY <1>1, <1>a, <1>b, FileAdded
<1>7. RewriteHidden'
  BY <1>1, <1>a, <1>c DEF FileInv, NamesUsed, RewriteHidden
<1>8. RewriteDrawn'
  <2>1. disk'[journal] = disk[journal] /\ i # journal
    BY <1>1, <1>a
  <2>2. compaction'.ino # compaction'.src /\ disk'[compaction'.src].recs = disk[journal].recs
    BY <1>c, <2>1
  <2>3. compaction'.upto <= Len(disk'[compaction'.src].recs)
    BY <1>a, <1>c, <2>2
  <2>4. Distinct(compaction'.kept)
    BY <1>1, <1>c
  <2>5. \A n \in DOMAIN compaction'.kept : \E k \in 1 .. compaction'.upto :
            compaction'.kept[n] = disk'[compaction'.src].recs[k]
    <3>1. \A n \in DOMAIN kept : \E k \in 1 .. Len(disk[journal].recs) :
              kept[n] = disk[journal].recs[k]
      BY <1>1
    <3>2. disk'[compaction'.src].recs = disk[journal].recs
      BY <2>2
    <3>3. compaction'.upto = Len(disk[journal].recs) /\ compaction'.kept = kept
      BY <1>c
    <3> QED BY ONLY <3>1, <3>2, <3>3, Zenon
  <2> QED BY <2>2, <2>3, <2>4, <2>5 DEF RewriteDrawn
<1>9. RewriteFollows'
  BY <1>c DEF RewriteFollows
<1>10. AckedSynced'
  <2>1. \A n \in DOMAIN kept : n <= Len(kept)
    OBVIOUS
  <2> QED BY <1>1, <1>a, <2>1 DEF FileInv, AckedSynced
<1> QED BY <1>2, <1>3, <1>4, <1>5, <1>6, <1>7, <1>8, <1>9, <1>10 DEF FileInv

LEMMA FilesIncludeTail ==
    ASSUME ~ ReusesInodes, Typed, Typed', FileInv, IncludeTail
    PROVE  FileInv'
<1>1. /\ compaction.pc = "ready" /\ compaction.ino \in Inodes /\ compaction.src = journal
      /\ journal \in Inodes /\ compaction.ino # journal
      /\ compaction.kept \in Seq(Nat) /\ compaction.upto \in Nat
      /\ compaction.upto <= Len(disk[journal].recs)
      /\ UNCHANGED <<journal, entries, checkpoint, older, writer, reader, used, next, acked>>
      /\ Stored' = Stored
  BY DEF IncludeTail, TailIncludable, Typed, RewriteTyped, Rewrites, NamesTyped,
         FileInv, RewriteDrawn, Stored
<1> DEFINE recs == compaction.kept \o CommittedTail
<1>a. /\ CommittedTail \in Seq(Nat) /\ recs \in Seq(Nat)
      /\ disk'[compaction.ino].recs = recs /\ disk'[compaction.ino].synced = Len(recs)
      /\ \A j \in Inodes \ {compaction.ino} : disk'[j] = disk[j]
  <2>1. /\ CommittedTail \in Seq(Nat) /\ recs \in Seq(Nat)
        /\ Becomes(compaction.ino, File(recs, Len(recs), FALSE))
    BY <1>1, EffectIncludeTail DEF Typed, RewriteTyped
  <2> HIDE DEF recs
  <2>2. File(recs, Len(recs), FALSE).recs = recs /\ File(recs, Len(recs), FALSE).synced = Len(recs)
    BY DEF File
  <2> QED BY <2>1, <2>2, BecomesTyped DEF Typed
<1>b. /\ compaction'.pc = "locked" /\ compaction'.ino = compaction.ino
      /\ compaction'.src = compaction.src /\ compaction'.kept = compaction.kept
      /\ compaction'.upto = compaction.upto
  BY DEF IncludeTail, Typed, RewriteTyped, Rewrites
<1>c. /\ \A n \in DOMAIN recs : \E k \in DOMAIN disk[journal].recs : recs[n] = disk[journal].recs[k]
      /\ Distinct(recs) /\ Prefix(compaction.kept, recs)
  <2>1. Distinct(disk[journal].recs) /\ Distinct(compaction.kept)
        /\ \A n \in DOMAIN compaction.kept : \E k \in 1 .. compaction.upto :
              compaction.kept[n] = disk[journal].recs[k]
    BY <1>1 DEF FileInv, RecordsDistinct, RewriteDrawn
  <2> QED BY <1>1, <2>1, RecordsTyped, TailJoined DEF CommittedTail
<1> HIDE DEF recs
<1>d. \A n \in DOMAIN recs : recs[n] < next
  BY <1>1, <1>c DEF FileInv, RecordsOld
<1>e. /\ \A cp \in Stored : cp # None => cp.ino # compaction.ino
      /\ \A r \in Readers : reader[r].pc # "idle" => reader[r].ino # compaction.ino
  BY <1>1 DEF FileInv, RewriteHidden
<1>2. NamesUsed'
  BY <1>1, <1>b DEF FileInv, NamesUsed
<1>3. RecordsOld'
  BY <1>1, <1>a, <1>c, <1>d, <1>e, HiddenWritten
<1>4. RecordsDistinct'
  BY <1>1, <1>a, <1>c, <1>d, <1>e, HiddenWritten
<1>5. CheckpointsAgree'
  BY <1>1, <1>a, <1>c, <1>d, <1>e, HiddenWritten
<1>6. ReadersAgree'
  BY <1>1, <1>a, <1>c, <1>d, <1>e, HiddenWritten
<1>7. RewriteHidden'
  BY <1>1, <1>b DEF FileInv, RewriteHidden
<1>8. RewriteDrawn'
  <2>1. disk'[journal] = disk[journal]
    BY <1>1, <1>a
  <2>2. RewriteDrawn /\ compaction.pc # "idle"
    BY <1>1 DEF FileInv
  <2> QED BY <1>1, <1>b, <2>1, <2>2 DEF RewriteDrawn
<1>9. RewriteFollows'
  <2>1. disk'[journal].recs = disk[journal].recs
    BY <1>1, <1>a
  <2>2. ToSet(recs) \subseteq ToSet(disk[journal].recs)
    BY <1>c DEF ToSet
  <2> QED BY <1>1, <1>a, <1>b, <1>c, <2>1, <2>2 DEF RewriteFollows
<1>10. AckedSynced'
  <2>1. \A n \in DOMAIN recs : n <= Len(recs)
    BY <1>a
  <2> QED BY <1>1, <1>a, <2>1 DEF FileInv, AckedSynced
<1> QED BY <1>2, <1>3, <1>4, <1>5, <1>6, <1>7, <1>8, <1>9, <1>10 DEF FileInv

LEMMA FilesAbandon ==
    ASSUME ~ ReusesInodes, Typed, Typed', FileInv, Abandon
    PROVE  FileInv'
<1>1. RecordsOld' /\ RecordsDistinct' /\ CheckpointsAgree' /\ ReadersAgree' /\ AckedSynced'
  BY DEF FileInv, Abandon, RecordsOld, RecordsDistinct, CheckpointsAgree,
     ReadersAgree, AckedSynced, Stored
<1>2. NamesUsed'
  BY DEF Abandon, FileInv, NamesUsed, Stored, NoRewrite
<1>3. RewriteHidden'
  BY DEF Abandon, FileInv, RewriteHidden, Stored, NoRewrite
<1>4. RewriteDrawn'
  BY DEF Abandon, FileInv, RewriteDrawn, NoRewrite
<1>5. RewriteFollows'
  BY DEF Abandon, FileInv, RewriteFollows, NoRewrite
<1> QED BY <1>1, <1>2, <1>3, <1>4, <1>5 DEF FileInv

LEMMA FilesPublishCheckpoint ==
    ASSUME ~ ReusesInodes, Typed, Typed', FileInv, PublishCheckpoint
    PROVE  FileInv'
<1>1. \A cp \in Stored' : cp # None =>
         cp \in Stored \/ (cp.ino = compaction.ino /\ cp.replay = compaction.kept)
  <2>1. CASE StoreCheckpoint([ino |-> compaction.ino, replay |-> compaction.kept])
    BY <2>1 DEF StoreCheckpoint, Stored
  <2>2. CASE UNCHANGED <<checkpoint, older>>
    BY <2>2 DEF Stored
  <2> QED BY <2>1, <2>2 DEF PublishCheckpoint
<1>a. /\ compaction.pc = "locked" /\ compaction.ino \in Inodes /\ compaction.kept \in Seq(Nat)
      /\ compaction' = [compaction EXCEPT !.pc = "checkpointed"]
      /\ disk[compaction.ino].recs \in Seq(Nat)
      /\ Prefix(compaction.kept, disk[compaction.ino].recs)
      /\ Distinct(disk[compaction.ino].recs)
      /\ UNCHANGED <<disk, entries, journal, used, reader, next>>
  <2>1. compaction.pc = "locked" /\ compaction.ino \in Inodes /\ compaction.kept \in Seq(Nat)
    BY DEF PublishCheckpoint, Typed, RewriteTyped, Rewrites
  <2>2. Prefix(compaction.kept, disk[compaction.ino].recs)
    BY <2>1 DEF FileInv, RewriteFollows
  <2> QED BY <2>1, <2>2, RecordsTyped DEF PublishCheckpoint, FileInv, RecordsDistinct
<1>b. /\ compaction'.pc = "checkpointed" /\ compaction'.ino = compaction.ino
      /\ compaction'.src = compaction.src
  BY <1>a DEF Typed, RewriteTyped, Rewrites
<1>2. RecordsDistinct' /\ ReadersAgree' /\ AckedSynced'
  BY DEF FileInv, PublishCheckpoint, RecordsDistinct, ReadersAgree, AckedSynced,
     Stored
<1>3. NamesUsed'
  BY <1>1, <1>a, <1>b DEF FileInv, NamesUsed
<1>4. RecordsOld'
  <2>1. \A n \in DOMAIN compaction.kept : compaction.kept[n] < next
    <3>1. \A n \in DOMAIN disk[compaction.ino].recs : disk[compaction.ino].recs[n] < next
      BY <1>a DEF FileInv, RecordsOld
    <3>2. ASSUME NEW n \in DOMAIN compaction.kept
          PROVE  n \in DOMAIN disk[compaction.ino].recs
                 /\ compaction.kept[n] = disk[compaction.ino].recs[n]
      <4>1. /\ DOMAIN compaction.kept = 1 .. Len(compaction.kept)
            /\ DOMAIN disk[compaction.ino].recs = 1 .. Len(disk[compaction.ino].recs)
            /\ Len(compaction.kept) \in Nat /\ Len(disk[compaction.ino].recs) \in Nat
        BY <1>a
      <4>2. /\ Len(compaction.kept) <= Len(disk[compaction.ino].recs)
            /\ \A k \in 1 .. Len(compaction.kept) :
                  compaction.kept[k] = disk[compaction.ino].recs[k]
        BY <1>a DEF Prefix
      <4>3. n \in 1 .. Len(compaction.kept)
        BY <4>1
      <4> QED BY <4>1, <4>2, <4>3
    <3> QED BY <3>1, <3>2
  <2> QED BY <1>1, <1>a, <2>1 DEF FileInv, RecordsOld
<1>5. CheckpointsAgree'
  <2>1. Agree(compaction.kept, disk[compaction.ino].recs)
    BY <1>a, AgreePrefix
  <2> QED BY <1>1, <1>a, <2>1 DEF FileInv, CheckpointsAgree
<1>6. RewriteHidden'
  BY <1>1, <1>a, <1>b DEF FileInv, RewriteHidden
<1>7. RewriteDrawn'
  BY <1>1 DEF PublishCheckpoint, FileInv, RewriteDrawn, StoreCheckpoint
<1>8. RewriteFollows'
  BY <1>1 DEF PublishCheckpoint, FileInv, RewriteFollows, StoreCheckpoint
<1> QED BY <1>2, <1>3, <1>4, <1>5, <1>6, <1>7, <1>8 DEF FileInv

LEMMA FilesSyncProjection ==
    ASSUME ~ ReusesInodes, Typed, Typed', FileInv, SyncProjection
    PROVE  FileInv'
<1>1. RecordsDistinct' /\ ReadersAgree' /\ AckedSynced'
  BY DEF FileInv, SyncProjection, RecordsDistinct, ReadersAgree, AckedSynced,
     Stored
<1>2. NamesUsed'
  BY DEF SyncProjection, FileInv, NamesUsed, Stored, SyncDirectory
<1>3. RecordsOld'
  BY DEF SyncProjection, FileInv, RecordsOld, Stored, SyncDirectory
<1>4. CheckpointsAgree'
  BY DEF SyncProjection, FileInv, CheckpointsAgree, Stored, SyncDirectory
<1>5. RewriteHidden'
  BY DEF SyncProjection, FileInv, RewriteHidden, Stored, SyncDirectory, Typed,
     NamesTyped
<1>6. RewriteDrawn'
  BY DEF SyncProjection, FileInv, RewriteDrawn, SyncDirectory
<1>7. RewriteFollows'
  BY DEF SyncProjection, FileInv, RewriteFollows, SyncDirectory
<1> QED BY <1>1, <1>2, <1>3, <1>4, <1>5, <1>6, <1>7 DEF FileInv

LEMMA FilesRenameRewrite ==
    ASSUME ~ ReusesInodes, Typed, Typed', FileInv, RenameRewrite
    PROVE  FileInv'
<1>1. RecordsOld' /\ RecordsDistinct' /\ CheckpointsAgree' /\ ReadersAgree'
  BY DEF FileInv, RenameRewrite, RecordsOld, RecordsDistinct, CheckpointsAgree,
     ReadersAgree, Stored
<1>2. NamesUsed'
  BY DEF RenameRewrite, FileInv, NamesUsed, Stored
<1>3. RewriteHidden'
  BY DEF RenameRewrite, FileInv, RewriteHidden, Stored
<1>4. RewriteDrawn'
  BY DEF RenameRewrite, FileInv, RewriteDrawn
<1>5. RewriteFollows'
  BY DEF RenameRewrite, FileInv, RewriteFollows
<1>6. AckedSynced'
  BY DEF RenameRewrite, FileInv, AckedSynced, Typed, WorkTyped
<1> QED BY <1>1, <1>2, <1>3, <1>4, <1>5, <1>6 DEF FileInv

LEMMA FilesEndCompaction ==
    ASSUME ~ ReusesInodes, Typed, Typed', FileInv, EndCompaction
    PROVE  FileInv'
<1>1. RecordsDistinct' /\ ReadersAgree' /\ AckedSynced'
  BY DEF FileInv, EndCompaction, RecordsDistinct, ReadersAgree, AckedSynced,
     Stored
<1>2. NamesUsed'
  BY DEF EndCompaction, FileInv, NamesUsed, Stored, SyncDirectory, NoRewrite
<1>3. RecordsOld'
  BY DEF EndCompaction, FileInv, RecordsOld, Stored, SyncDirectory, NoRewrite
<1>4. CheckpointsAgree'
  BY DEF EndCompaction, FileInv, CheckpointsAgree, Stored, SyncDirectory,
     NoRewrite
<1>5. RewriteHidden'
  BY DEF EndCompaction, FileInv, RewriteHidden, Stored, SyncDirectory, NoRewrite
<1>6. RewriteDrawn'
  BY DEF EndCompaction, FileInv, RewriteDrawn, SyncDirectory, NoRewrite
<1>7. RewriteFollows'
  BY DEF EndCompaction, FileInv, RewriteFollows, SyncDirectory, NoRewrite
<1> QED BY <1>1, <1>2, <1>3, <1>4, <1>5, <1>6, <1>7 DEF FileInv

LEMMA FilesKillWriter ==
    ASSUME ~ ReusesInodes, Typed, Typed', FileInv, KillWriter
    PROVE  FileInv'
<1>1. NamesUsed' /\ RecordsOld' /\ RecordsDistinct' /\ CheckpointsAgree' /\ ReadersAgree' /\ RewriteHidden' /\ RewriteDrawn' /\ RewriteFollows'
  BY DEF FileInv, KillWriter, NamesUsed, RecordsOld, RecordsDistinct,
     CheckpointsAgree, ReadersAgree, RewriteHidden, RewriteDrawn,
     RewriteFollows, Stored
<1>2. AckedSynced'
  BY DEF KillWriter, FileInv, AckedSynced
<1> QED BY <1>1, <1>2 DEF FileInv

LEMMA FilesKillCompaction ==
    ASSUME ~ ReusesInodes, Typed, Typed', FileInv, KillCompaction
    PROVE  FileInv'
<1>1. RecordsOld' /\ RecordsDistinct' /\ CheckpointsAgree' /\ ReadersAgree' /\ AckedSynced'
  BY DEF FileInv, KillCompaction, RecordsOld, RecordsDistinct, CheckpointsAgree,
     ReadersAgree, AckedSynced, Stored
<1>2. NamesUsed'
  BY DEF KillCompaction, FileInv, NamesUsed, Stored, NoRewrite
<1>3. RewriteHidden'
  BY DEF KillCompaction, FileInv, RewriteHidden, Stored, NoRewrite
<1>4. RewriteDrawn'
  BY DEF KillCompaction, FileInv, RewriteDrawn, NoRewrite
<1>5. RewriteFollows'
  BY DEF KillCompaction, FileInv, RewriteFollows, NoRewrite
<1> QED BY <1>1, <1>2, <1>3, <1>4, <1>5 DEF FileInv

LEMMA FilesPowerLoss ==
    ASSUME ~ ReusesInodes, Typed, Typed', FileInv, PowerLoss
    PROVE  FileInv'
<1>1. PICK n \in Nat :
          /\ journal' \in entries /\ entries' = {journal'} /\ journal' \in Inodes
          /\ disk[journal'].synced <= n /\ n <= Len(disk[journal'].recs)
          /\ disk'[journal'].recs = SubSeq(disk[journal'].recs, 1, n)
          /\ disk'[journal'].synced = n
          /\ \A j \in Inodes \ {journal'} : disk'[j] = disk[j]
  BY LossCuts
<1>a. /\ \A cp \in Stored' : cp # None => cp \in Stored
      /\ \A r \in Readers : reader'[r].pc = "idle"
      /\ compaction'.pc = "idle" /\ writer' = "idle" /\ next' = next /\ acked' = acked
  BY DEF PowerLoss, Stored, NotReading, NoRewrite
<1>b. /\ disk[journal'].recs \in Seq(Nat) /\ n \in 0 .. Len(disk[journal'].recs)
      /\ DOMAIN SubSeq(disk[journal'].recs, 1, n) = 1 .. n
      /\ DOMAIN disk[journal'].recs = 1 .. Len(disk[journal'].recs)
      /\ \A k \in 1 .. n : SubSeq(disk[journal'].recs, 1, n)[k] = disk[journal'].recs[k]
      /\ 1 .. n \subseteq DOMAIN disk[journal'].recs
  <2>1. disk[journal'].recs \in Seq(Nat) /\ n \in 0 .. Len(disk[journal'].recs)
        /\ DOMAIN disk[journal'].recs = 1 .. Len(disk[journal'].recs)
    BY <1>1, RecordsTyped
  <2> QED BY <2>1, CutSeq
<1>c. /\ DOMAIN disk'[journal'].recs = 1 .. n
      /\ \A k \in 1 .. n : disk'[journal'].recs[k] = disk[journal'].recs[k]
  BY <1>1, <1>b
<1>2. NamesUsed'
  BY <1>1, <1>a DEF FileInv, NamesUsed, PowerLoss
<1>3. RecordsOld'
  <2>1. \A i \in Inodes : \A k \in DOMAIN disk'[i].recs : disk'[i].recs[k] < next
    BY <1>1, <1>b, <1>c DEF FileInv, RecordsOld
  <2>2. \A cp \in Stored : cp # None => \A k \in DOMAIN cp.replay : cp.replay[k] < next
    BY DEF FileInv, RecordsOld
  <2>3. \A cp \in Stored' : cp # None => \A k \in DOMAIN cp.replay : cp.replay[k] < next
    BY <1>a, <2>2
  <2>4. next' = next
    BY <1>a
  <2>5. \A i \in Inodes : \A k \in DOMAIN disk'[i].recs : disk'[i].recs[k] < next'
    BY <2>1, <2>4
  <2>6. \A cp \in Stored' : cp # None => \A k \in DOMAIN cp.replay : cp.replay[k] < next'
    BY <2>3, <2>4
  <2>7. \A r \in Readers : reader'[r].pc # "folded"
    BY <1>a
  <2> QED BY <2>5, <2>6, <2>7 DEF RecordsOld
<1>4. RecordsDistinct'
  <2> SUFFICES ASSUME NEW i \in Inodes PROVE Distinct(disk'[i].recs)
    BY DEF RecordsDistinct
  <2>1. Distinct(disk[i].recs)
    BY DEF FileInv, RecordsDistinct
  <2>2. CASE i = journal'
    <3>1. \A m, k \in 1 .. n : disk[i].recs[m] = disk[i].recs[k] => m = k
      BY <1>b, <2>1, <2>2 DEF Distinct
    <3>2. DOMAIN disk'[i].recs = 1 .. n
          /\ \A k \in 1 .. n : disk'[i].recs[k] = disk[i].recs[k]
      BY <1>c, <2>2
    <3> QED BY <3>1, <3>2 DEF Distinct
  <2>3. CASE i # journal'
    BY <1>1, <2>1, <2>3
  <2> QED BY <2>2, <2>3
<1>5. CheckpointsAgree'
  <2> SUFFICES ASSUME NEW cp \in Stored, cp # None
               PROVE  Agree(cp.replay, disk'[cp.ino].recs)
    BY <1>a DEF CheckpointsAgree
  <2>1. Agree(cp.replay, disk[cp.ino].recs) /\ cp.ino \in Inodes /\ cp.replay \in Seq(Nat)
    BY StoredFile DEF FileInv, CheckpointsAgree
  <2>2. CASE cp.ino = journal'
    <3>1. Agree(cp.replay, SubSeq(disk[journal'].recs, 1, n))
      BY <1>b, <2>1, <2>2, AgreeCut
    <3> QED BY <1>1, <2>2, <3>1
  <2>3. CASE cp.ino # journal'
    BY <1>1, <2>1, <2>3
  <2> QED BY <2>2, <2>3
<1>6. ReadersAgree'
  BY <1>a DEF ReadersAgree
<1>7. RewriteHidden'
  BY <1>a DEF RewriteHidden
<1>8. RewriteDrawn'
  BY <1>a DEF RewriteDrawn
<1>9. RewriteFollows'
  BY <1>a DEF RewriteFollows
<1>10. AckedSynced'
  <2>1. ASSUME NEW i \in Inodes, NEW k \in DOMAIN disk'[i].recs, disk'[i].recs[k] \in acked
        PROVE  k <= disk'[i].synced
    <3>1. CASE i = journal'
      BY <1>1, <1>c, <3>1
    <3>2. CASE i # journal'
      BY <1>1, <2>1, <3>2 DEF FileInv, AckedSynced
    <3> QED BY <3>1, <3>2
  <2> QED BY <1>a, <2>1 DEF AckedSynced
<1> QED BY <1>2, <1>3, <1>4, <1>5, <1>6, <1>7, <1>8, <1>9, <1>10 DEF FileInv

LEMMA FilesInit == Init => FileInv
<1> SUFFICES ASSUME Init PROVE FileInv
  OBVIOUS
<1>1. /\ Stored = {None} /\ entries = {journal} /\ journal \in Inodes /\ used = {journal}
      /\ compaction.pc = "idle" /\ writer = "idle" /\ \A r \in Readers : reader[r].pc = "idle"
  BY DEF Init, Stored, NoRewrite, NotReading
<1>2. \A i \in Inodes : disk[i].recs = <<>>
  BY DEF Init, Empty, File
<1>3. NamesUsed /\ RewriteHidden /\ RewriteDrawn /\ RewriteFollows
  BY <1>1 DEF NamesUsed, RewriteHidden, RewriteDrawn, RewriteFollows
<1>4. RecordsOld /\ RecordsDistinct /\ CheckpointsAgree /\ ReadersAgree
  BY <1>1, <1>2 DEF RecordsOld, RecordsDistinct, CheckpointsAgree, ReadersAgree, Distinct
<1>5. AckedSynced
  BY <1>1, <1>2 DEF AckedSynced
<1> QED BY <1>3, <1>4, <1>5 DEF FileInv

LEMMA FilesStutter ==
    ASSUME FileInv, UNCHANGED vars
    PROVE  FileInv'
  BY DEF vars, FileInv, NamesUsed, RecordsOld, RecordsDistinct, CheckpointsAgree,
         ReadersAgree, RewriteHidden, RewriteDrawn, RewriteFollows, AckedSynced, Stored

LEMMA FilesNext ==
    ASSUME ~ ReusesInodes, Typed, Typed', FileInv, [Next]_vars
    PROVE  FileInv'
<1>1. CASE Next
  BY <1>1,
     FilesOpen, FilesLoad, FilesFold, FilesConclude,
     FilesBeginAppend, FilesWritePart, FilesWriteRest, FilesSyncAppend,
     FilesRemoveCheckpoint, FilesBeginDiscard, FilesRenameEmpty, FilesEndDiscard,
     FilesPrepare, FilesIncludeTail, FilesAbandon, FilesPublishCheckpoint,
     FilesSyncProjection, FilesRenameRewrite, FilesEndCompaction, FilesKillWriter,
     FilesKillCompaction, FilesPowerLoss
  DEF Next
<1>2. CASE UNCHANGED vars
  BY <1>2, FilesStutter
<1> QED BY <1>1, <1>2

LEMMA FilesHold == ASSUME ~ ReusesInodes PROVE Spec => [](Typed /\ FileInv)
<1>1. Init => Typed /\ FileInv
  BY InitTyped, FilesInit
<1>2. Typed /\ FileInv /\ [Next]_vars => (Typed /\ FileInv)'
  BY NextTyped, FilesNext
<1> QED BY <1>1, <1>2, PTL DEF Spec

\* Deleting the checkpoint changes no result: whatever compactions, kills and
\* power losses there were, a replay that resumes from a checkpoint holds the
\* records of its file, all of them and no others, as long as no file is given
\* the number of an earlier one.
THEOREM CheckpointsShowTheWhole == ASSUME ~ ReusesInodes PROVE Spec => ReplaysWhole
<1> DEFINE Whole == \A r \in Readers : Fold(r) => reader'[r].replay = disk[reader[r].ino].recs
<1>1. Typed /\ FileInv /\ [Next]_vars => [Whole]_vars
  <2> SUFFICES ASSUME Typed, FileInv, NEW r \in Readers, Fold(r)
               PROVE  reader'[r].replay = disk[reader[r].ino].recs
    OBVIOUS
  <2> QED BY FoldsWhole
<1>2. Spec => [](Typed /\ FileInv)
  BY FilesHold
<1> QED BY <1>1, <1>2, PTL DEF Spec, ReplaysWhole

LEMMA LossKeepsAcked ==
    ASSUME Typed, FileInv, PowerLoss, ~ Unsettled
    PROVE  acked \cap ToSet(disk[journal].recs) \subseteq ToSet(disk'[journal'].recs)
<1>1. PICK n \in Nat :
          /\ journal' \in entries /\ journal' \in Inodes
          /\ disk[journal'].synced <= n /\ n <= Len(disk[journal'].recs)
          /\ disk'[journal'].recs = SubSeq(disk[journal'].recs, 1, n)
  BY LossCuts
<1>2. /\ disk[journal'].recs \in Seq(Nat) /\ n \in 0 .. Len(disk[journal'].recs)
      /\ DOMAIN disk[journal'].recs = 1 .. Len(disk[journal'].recs)
      /\ disk[journal'].synced \in Nat
  BY <1>1, RecordsTyped, FileTyped DEF Typed
<1>3. ASSUME NEW x \in acked, x \in ToSet(disk[journal'].recs)
      PROVE  x \in ToSet(disk'[journal'].recs)
  <2>1. PICK k \in DOMAIN disk[journal'].recs : disk[journal'].recs[k] = x
    BY <1>3 DEF ToSet
  <2>2. k <= disk[journal'].synced
    BY <1>1, <2>1 DEF FileInv, AckedSynced
  <2>3. k \in 1 .. n
    BY <1>1, <1>2, <2>2
  <2>4. k \in DOMAIN SubSeq(disk[journal'].recs, 1, n)
        /\ SubSeq(disk[journal'].recs, 1, n)[k] = x
    BY <1>2, <2>1, <2>3, CutSeq
  <2> QED BY <1>1, <2>4 DEF ToSet
<1>4. CASE entries = {journal}
  BY <1>1, <1>3, <1>4
<1>5. CASE writer = "clear"
  BY <1>5 DEF FileInv, AckedSynced
<1>6. CASE compaction.pc = "renamed"
  <2>1. /\ journal = compaction.ino /\ entries = {compaction.src, compaction.ino}
        /\ ToSet(disk[journal].recs) \subseteq ToSet(disk[compaction.src].recs)
    BY <1>6 DEF FileInv, RewriteFollows
  <2> QED BY <1>1, <1>3, <2>1
<1> QED BY <1>4, <1>5, <1>6 DEF Unsettled

\* What was acknowledged survives a power loss: the journal that is there after
\* it holds every record of the journal there was whose append had succeeded,
\* also when the loss comes between the rename of a compacted journal and the
\* sync of its directory.
THEOREM AcknowledgedKept == ASSUME ~ ReusesInodes PROVE Spec => AcknowledgedSurvive
<1> DEFINE Kept == PowerLoss /\ ~ Unsettled =>
                      acked \cap ToSet(disk[journal].recs) \subseteq ToSet(disk'[journal'].recs)
<1>1. Typed /\ FileInv /\ [Next]_vars => [Kept]_vars
  BY LossKeepsAcked
<1>2. Spec => [](Typed /\ FileInv)
  BY FilesHold
<1> QED BY <1>1, <1>2, PTL DEF Spec, AcknowledgedSurvive
=============================================================================
