----------------------- MODULE JournalCompactionProofs -----------------------
(* What replay and compaction keep, for any reservations, incidents, records  *)
(* and times.  A replay is a fold, so everything here rests on an induction   *)
(* over the prefixes of a journal (ReplayStep) and of a rewrite (KeptSteps).  *)
EXTENDS JournalCompaction, FiniteSetTheorems, WellFoundedInduction, TLAPS

-----------------------------------------------------------------------------
(* Induction over the naturals, from the well-foundedness of <.             *)

\* A non-empty set of naturals has a least element.
LEMMA LeastNat ==
  ASSUME NEW T \in SUBSET Nat, T # {}
  PROVE  \E n \in T : \A m \in T : n <= m
<1> DEFINE R == {p \in Nat \X Nat : p[1] < p[2]}
<1>1. IsWellFoundedOn(R, Nat)
  BY NatLessThanWellFounded DEF OpToRel
<1>2. \A m, n \in Nat : <<m, n>> \in R <=> m < n
  OBVIOUS
<1> HIDE DEF R
<1>3. PICK n \in T : \A m \in T : ~(<<m, n>> \in R)
  BY <1>1, WFMin
<1>4. \A m \in T : ~(m < n)
  BY <1>2, <1>3
<1> QED BY <1>4

\* What holds of zero and passes to the successor holds of every natural.
LEMMA Induction ==
  ASSUME NEW S \in SUBSET Nat, 0 \in S, \A n \in S : n + 1 \in S
  PROVE  S = Nat
<1> SUFFICES ASSUME S # Nat PROVE FALSE
  OBVIOUS
<1>1. PICK n \in Nat \ S : \A m \in Nat \ S : n <= m
  BY LeastNat
<1>2. n # 0 /\ n - 1 \in Nat
  OBVIOUS
<1>3. n - 1 \in S
  BY <1>1, <1>2
<1> QED BY <1>1, <1>2, <1>3

\* The last of some positions.
LastIn(s) == CHOOSE x \in s : \A y \in s : x >= y

\* Some positions that are not none have a last one.
LEMMA LastOf ==
  ASSUME NEW n \in Nat, NEW s \in SUBSET (1 .. n), s # {}
  PROVE  LastIn(s) \in s /\ \A y \in s : LastIn(s) >= y
<1> DEFINE T == {n - y : y \in s}
<1>0. \A y \in s : n - y \in Nat
  OBVIOUS
<1>1. T \in SUBSET Nat /\ T # {}
  BY <1>0
<1>2. PICK k \in T : \A m \in T : k <= m
  BY <1>1, LeastNat
<1>3. PICK x \in s : k = n - x
  OBVIOUS
<1>4. \A y \in s : x >= y
  <2> SUFFICES ASSUME NEW y \in s PROVE x >= y
    OBVIOUS
  <2>1. n - x <= n - y
    BY <1>2, <1>3
  <2> QED BY <2>1
<1> QED BY <1>3, <1>4 DEF LastIn

\* The last of the first n + 1 positions, when it is among them.
LEMMA LastIs ==
  ASSUME NEW n \in Nat, NEW s \in SUBSET (1 .. n + 1), n + 1 \in s
  PROVE  LastIn(s) = n + 1
<1>1. LastIn(s) \in s /\ LastIn(s) >= n + 1
  BY LastOf, n + 1 \in Nat
<1>2. LastIn(s) \in 1 .. n + 1
  BY <1>1
<1> QED BY <1>1, <1>2

-----------------------------------------------------------------------------
(* A replay, unfolded from its last record.                                  *)

\* The function FoldLeft chooses, on subsets of the first n positions.
ReplayFold(records, n, f) ==
    f = [s \in SUBSET (1 .. n) |->
           IF s = {} THEN EmptyReplay
           ELSE ApplyRecord(f[s \ {LastIn(s)}], records[LastIn(s)])]

\* There is such a function, prefix by prefix.
LEMMA ReplayFoldExists ==
  ASSUME NEW records, NEW n \in Nat
  PROVE  \E f : ReplayFold(records, n, f)
<1> DEFINE S == {k \in Nat : \E f : ReplayFold(records, k, f)}
<1>1. 0 \in S
  <2> DEFINE g == [s \in SUBSET (1 .. 0) |-> EmptyReplay]
  <2>1. \A s \in SUBSET (1 .. 0) : s = {}
    OBVIOUS
  <2>2. ReplayFold(records, 0, g)
    BY <2>1 DEF ReplayFold
  <2> QED BY <2>2
<1>2. ASSUME NEW k \in S PROVE k + 1 \in S
  <2>1. PICK f : ReplayFold(records, k, f)
    OBVIOUS
  <2> DEFINE g == [s \in SUBSET (1 .. k + 1) |->
                     IF k + 1 \in s THEN ApplyRecord(f[s \ {k + 1}], records[k + 1]) ELSE f[s]]
             h == [s \in SUBSET (1 .. k + 1) |->
                     IF s = {} THEN EmptyReplay
                     ELSE ApplyRecord(g[s \ {LastIn(s)}], records[LastIn(s)])]
  <2>2. ASSUME NEW s \in SUBSET (1 .. k + 1) PROVE g[s] = h[s]
    <3>1. CASE k + 1 \in s
      <4>1. LastIn(s) = k + 1
        BY <3>1, LastIs
      <4>2. s \ {k + 1} \in SUBSET (1 .. k + 1) /\ k + 1 \notin s \ {k + 1}
        OBVIOUS
      <4>3. g[s \ {k + 1}] = f[s \ {k + 1}]
        BY <4>2
      <4> QED BY <3>1, <4>1, <4>3
    <3>2. CASE k + 1 \notin s /\ s # {}
      <4>1. s \in SUBSET (1 .. k)
        BY <3>2
      <4>2. LastIn(s) \in s
        BY <3>2, <4>1, LastOf
      <4>3. g[s \ {LastIn(s)}] = f[s \ {LastIn(s)}]
        BY <3>2, <4>1
      <4>4. f[s] = ApplyRecord(f[s \ {LastIn(s)}], records[LastIn(s)])
        BY <2>1, <3>2, <4>1 DEF ReplayFold
      <4> QED BY <3>2, <4>3, <4>4
    <3>3. CASE s = {}
      <4>1. f[{}] = EmptyReplay
        BY <2>1 DEF ReplayFold
      <4> QED BY <3>3, <4>1
    <3> QED BY <3>1, <3>2, <3>3
  <2>3. g = h
    BY <2>2
  <2> HIDE DEF g
  <2>4. ReplayFold(records, k + 1, g)
    BY <2>3 DEF ReplayFold
  <2> QED BY <2>4
<1>3. S = Nat
  <2> HIDE DEF S
  <2>1. S \in SUBSET Nat
    BY DEF S
  <2> QED BY <1>1, <1>2, <2>1, Induction
<1> QED BY <1>3

\* A replay is the value of such a function on the whole journal.
LEMMA ReplayIsFold ==
  ASSUME NEW X, NEW records \in Seq(X)
  PROVE  \E f : ReplayFold(records, Len(records), f) /\ Replayed(records) = f[1 .. Len(records)]
<1> DEFINE F == CHOOSE f : ReplayFold(records, Len(records), f)
<1>1. ReplayFold(records, Len(records), F)
  BY ReplayFoldExists
<1>2. DOMAIN records = 1 .. Len(records)
  OBVIOUS
<1>3. Replayed(records) = F[1 .. Len(records)]
  BY <1>2 DEF Replayed, FoldLeft, MapThenFoldSet, ReplayFold, LastIn, Max
<1> QED BY <1>1, <1>3

\* The fold on whole prefixes.
LEMMA FoldOnPrefixes ==
  ASSUME NEW records, NEW n \in Nat, NEW f, ReplayFold(records, n, f)
  PROVE  /\ f[1 .. 0] = EmptyReplay
         /\ \A k \in 0 .. n - 1 : f[1 .. k + 1] = ApplyRecord(f[1 .. k], records[k + 1])
<1>1. f[1 .. 0] = EmptyReplay
  BY 1 .. 0 = {} DEF ReplayFold
<1>2. ASSUME NEW k \in 0 .. n - 1
      PROVE  f[1 .. k + 1] = ApplyRecord(f[1 .. k], records[k + 1])
  <2>1. k \in Nat /\ 1 .. k + 1 \in SUBSET (1 .. n) /\ 1 .. k + 1 # {} /\ k + 1 \in 1 .. k + 1
    OBVIOUS
  <2>2. LastIn(1 .. k + 1) = k + 1
    BY <2>1, LastIs
  <2>3. (1 .. k + 1) \ {k + 1} = 1 .. k
    OBVIOUS
  <2> QED BY <2>1, <2>2, <2>3 DEF ReplayFold
<1> QED BY <1>1, <1>2

\* Nothing replays to nothing.
LEMMA ReplayNothing == Replayed(<<>>) = EmptyReplay
<1>1. <<>> \in Seq({}) /\ Len(<<>>) = 0
  OBVIOUS
<1>2. PICK f : ReplayFold(<<>>, 0, f) /\ Replayed(<<>>) = f[1 .. 0]
  BY <1>1, ReplayIsFold
<1> QED BY <1>2, FoldOnPrefixes

\* One record more is one application more.
LEMMA ReplayAppend ==
  ASSUME NEW X, NEW records \in Seq(X), NEW x \in X
  PROVE  Replayed(Append(records, x)) = ApplyRecord(Replayed(records), x)
<1> DEFINE more == Append(records, x)
           N == Len(records)
<1>1. /\ more \in Seq(X) /\ Len(more) = N + 1 /\ N \in Nat /\ more[N + 1] = x
      /\ \A k \in 1 .. N : more[k] = records[k]
  OBVIOUS
<1>2. PICK f : ReplayFold(records, N, f) /\ Replayed(records) = f[1 .. N]
  BY ReplayIsFold
<1>3. PICK g : ReplayFold(more, N + 1, g) /\ Replayed(more) = g[1 .. N + 1]
  BY <1>1, ReplayIsFold
<1>f. \A k \in 0 .. N - 1 : f[1 .. k + 1] = ApplyRecord(f[1 .. k], records[k + 1])
  BY <1>1, <1>2, FoldOnPrefixes
<1> HIDE DEF more, N
<1> DEFINE S == {k \in Nat : k <= N => f[1 .. k] = g[1 .. k]}
<1>4. 0 \in S
  BY <1>1, <1>2, <1>3, FoldOnPrefixes
<1>5. ASSUME NEW k \in S PROVE k + 1 \in S
  <2> SUFFICES ASSUME k + 1 <= N PROVE f[1 .. k + 1] = g[1 .. k + 1]
    OBVIOUS
  <2>1. k \in 0 .. N - 1 /\ k \in 0 .. (N + 1) - 1 /\ k + 1 \in 1 .. N /\ f[1 .. k] = g[1 .. k]
    BY <1>1
  <2>2. f[1 .. k + 1] = ApplyRecord(f[1 .. k], records[k + 1])
    BY <1>f, <2>1
  <2>3. g[1 .. k + 1] = ApplyRecord(g[1 .. k], more[k + 1])
    BY <1>1, <1>3, <2>1, FoldOnPrefixes
  <2> QED BY <1>1, <2>1, <2>2, <2>3
<1>6. S = Nat
  <2>1. S \in SUBSET Nat
    OBVIOUS
  <2> HIDE DEF S
  <2> QED BY <1>4, <1>5, <2>1, Induction
<1>7. f[1 .. N] = g[1 .. N]
  BY <1>1, <1>6
<1>8. g[1 .. N + 1] = ApplyRecord(g[1 .. N], more[N + 1])
  BY <1>1, <1>3, FoldOnPrefixes
<1> QED BY <1>1, <1>2, <1>3, <1>7, <1>8 DEF more

\* What a journal replays to up to a record.
ReplayTo(records, n) == Replayed(SubSeq(records, 1, n))

\* A prefix that is longer by one record.
LEMMA PrefixAppend ==
  ASSUME NEW X, NEW records \in Seq(X), NEW n \in 0 .. Len(records) - 1
  PROVE  /\ SubSeq(records, 1, n) \in Seq(X) /\ records[n + 1] \in X
         /\ SubSeq(records, 1, n + 1) = Append(SubSeq(records, 1, n), records[n + 1])
OBVIOUS

\* A replay, record by record.
LEMMA ReplayStep ==
  ASSUME NEW X, NEW records \in Seq(X)
  PROVE  /\ ReplayTo(records, 0) = EmptyReplay
         /\ ReplayTo(records, Len(records)) = Replayed(records)
         /\ \A n \in 0 .. Len(records) - 1 :
               ReplayTo(records, n + 1) = ApplyRecord(ReplayTo(records, n), records[n + 1])
<1>1. SubSeq(records, 1, 0) = <<>> /\ SubSeq(records, 1, Len(records)) = records
  OBVIOUS
<1>2. ASSUME NEW n \in 0 .. Len(records) - 1
      PROVE  ReplayTo(records, n + 1) = ApplyRecord(ReplayTo(records, n), records[n + 1])
  BY PrefixAppend, ReplayAppend DEF ReplayTo
<1> QED BY <1>1, <1>2, ReplayNothing DEF ReplayTo

-----------------------------------------------------------------------------
(* A rewrite, record by record.                                              *)

KeepNext(full, records, expired, kept, o) ==
    IF KeepsRecord(full, records, expired, o) THEN Append(kept, records[o]) ELSE kept

Positions(records) == [i \in DOMAIN records |-> i]

\* The function FoldLeftDomain chooses, on subsets of the first n positions.
KeptFold(full, records, expired, n, f) ==
    f = [s \in SUBSET (1 .. n) |->
           IF s = {} THEN <<>>
           ELSE KeepNext(full, records, expired, f[s \ {LastIn(s)}], Positions(records)[LastIn(s)])]

\* There is such a function, prefix by prefix.
LEMMA KeptFoldExists ==
  ASSUME NEW full, NEW records, NEW expired, NEW n \in Nat
  PROVE  \E f : KeptFold(full, records, expired, n, f)
<1> DEFINE Next1(kept, o) == KeepNext(full, records, expired, kept, Positions(records)[o])
           Fold(k, f) == KeptFold(full, records, expired, k, f)
           S == {k \in Nat : \E f : Fold(k, f)}
<1>1. 0 \in S
  <2> DEFINE g == [s \in SUBSET (1 .. 0) |-> <<>>]
  <2>1. \A s \in SUBSET (1 .. 0) : s = {}
    OBVIOUS
  <2>2. Fold(0, g)
    BY <2>1 DEF KeptFold
  <2> QED BY <2>2
<1>2. ASSUME NEW k \in S PROVE k + 1 \in S
  <2>1. PICK f : Fold(k, f)
    OBVIOUS
  <2> DEFINE g == [s \in SUBSET (1 .. k + 1) |->
                     IF k + 1 \in s THEN Next1(f[s \ {k + 1}], k + 1) ELSE f[s]]
             h == [s \in SUBSET (1 .. k + 1) |->
                     IF s = {} THEN <<>> ELSE Next1(g[s \ {LastIn(s)}], LastIn(s))]
  <2>2. ASSUME NEW s \in SUBSET (1 .. k + 1) PROVE g[s] = h[s]
    <3>1. CASE k + 1 \in s
      <4>1. LastIn(s) = k + 1
        BY <3>1, LastIs
      <4>2. s \ {k + 1} \in SUBSET (1 .. k + 1) /\ k + 1 \notin s \ {k + 1}
        OBVIOUS
      <4>3. g[s \ {k + 1}] = f[s \ {k + 1}]
        BY <4>2
      <4> QED BY <3>1, <4>1, <4>3
    <3>2. CASE k + 1 \notin s /\ s # {}
      <4>1. s \in SUBSET (1 .. k)
        BY <3>2
      <4>2. LastIn(s) \in s
        BY <3>2, <4>1, LastOf
      <4>3. g[s \ {LastIn(s)}] = f[s \ {LastIn(s)}]
        BY <3>2, <4>1
      <4>4. f[s] = Next1(f[s \ {LastIn(s)}], LastIn(s))
        BY <2>1, <3>2, <4>1 DEF KeptFold
      <4> QED BY <3>2, <4>3, <4>4
    <3>3. CASE s = {}
      <4>1. f[{}] = <<>>
        BY <2>1 DEF KeptFold
      <4> QED BY <3>3, <4>1
    <3> QED BY <3>1, <3>2, <3>3
  <2>3. g = h
    BY <2>2
  <2> HIDE DEF g
  <2>4. Fold(k + 1, g)
    BY <2>3 DEF KeptFold
  <2> QED BY <2>4
<1>3. S = Nat
  <2> HIDE DEF S
  <2>1. S \in SUBSET Nat
    BY DEF S
  <2> QED BY <1>1, <1>2, <2>1, Induction
<1> QED BY <1>3

\* What a rewrite has kept of the first n records, in P[n].
KeptUpTo(full, records, expired, P) ==
    /\ P[0] = <<>>
    /\ \A n \in 0 .. Len(records) - 1 :
          P[n + 1] = IF KeepsRecord(full, records, expired, n + 1)
                     THEN Append(P[n], records[n + 1]) ELSE P[n]
    /\ Kept(full, records, expired) = P[Len(records)]

\* A rewrite, record by record: each is appended, or left out.
LEMMA KeptSteps ==
  ASSUME NEW X, NEW records \in Seq(X), NEW full, NEW expired
  PROVE  \E P : KeptUpTo(full, records, expired, P)
<1> DEFINE N == Len(records)
           F == CHOOSE f : KeptFold(full, records, expired, N, f)
           P == [n \in 0 .. N |-> F[1 .. n]]
<1>1. KeptFold(full, records, expired, N, F)
  BY KeptFoldExists
<1>2. DOMAIN records = 1 .. N /\ N \in Nat /\ DOMAIN Positions(records) = 1 .. N
  BY DEF Positions
<1>3. Kept(full, records, expired) = F[1 .. N]
  BY <1>2 DEF Kept, FoldLeftDomain, FoldLeft, MapThenFoldSet, KeptFold, KeepNext, LastIn, Max,
              Positions
<1> HIDE DEF F, N
<1>4. F[1 .. 0] = <<>>
  BY <1>1, <1>2, 1 .. 0 = {} DEF KeptFold
<1>5. ASSUME NEW k \in 0 .. N - 1
      PROVE  F[1 .. k + 1] = KeepNext(full, records, expired, F[1 .. k], k + 1)
  <2>1. k \in Nat /\ 1 .. k + 1 \in SUBSET (1 .. N) /\ 1 .. k + 1 # {} /\ k + 1 \in 1 .. k + 1
    BY <1>2
  <2>2. LastIn(1 .. k + 1) = k + 1
    BY <2>1, LastIs
  <2>3. (1 .. k + 1) \ {k + 1} = 1 .. k
    OBVIOUS
  <2>4. Positions(records)[k + 1] = k + 1
    BY <1>2, <2>1 DEF Positions
  <2> QED BY <1>1, <2>1, <2>2, <2>3, <2>4 DEF KeptFold
<1>6. ASSUME NEW n \in 0 .. N - 1
      PROVE  P[n + 1] = IF KeepsRecord(full, records, expired, n + 1)
                        THEN Append(P[n], records[n + 1]) ELSE P[n]
  BY <1>2, <1>5 DEF KeepNext
<1>7. P[0] = <<>> /\ P[N] = F[1 .. N]
  BY <1>2, <1>4
<1> HIDE DEF P
<1> QED BY <1>3, <1>6, <1>7 DEF KeptUpTo, N

-----------------------------------------------------------------------------
(* Types.                                                                    *)

Stages == {"active", "outstanding", "released"}

RetainedSet ==
    [stage : Stages, disposition : Evidenced \cup {"none", "decision"}, tip : BOOLEAN,
     base : {"claim", "checkpoint"}, integrated : BOOLEAN,
     extent : Extents \cup {"underived"}, revision : Nat]

\* A record, with the argument its operation takes, and its subjects among the
\* reservations it names.  A resolution names nothing itself.
Records ==
    {x \in [op : JournalOperations, about : SUBSET Reservations, refs : SUBSET Reservations,
            arg : UNION {Arguments(op) : op \in JournalOperations}, at : Nat, generation : Nat] :
        /\ x.arg \in Arguments(x.op) /\ IsFiniteSet(x.about)
        /\ IF x.op = "resolve" THEN x.about = {} /\ x.refs = {}
           ELSE x.about # {} /\ x.about \subseteq x.refs}

\* Operations that leave the reservations they are about as they are, or that
\* are about none that is known.
Unchanging == {"claim", "sequence", "incursion", "resolve"}

\* A reservation after one record about it, field by field.
Result(r, x) ==
    [stage |-> IF x.op = "checkpoint" THEN "outstanding"
               ELSE IF x.op = "release" THEN "released" ELSE r.stage,
     disposition |-> IF x.op \in {"release", "replace"} THEN x.arg ELSE r.disposition,
     tip |-> IF x.op = "checkpoint" \/ (x.op = "resnapshot" /\ x.arg # "active")
             THEN TRUE ELSE r.tip,
     base |-> IF x.op = "retarget"
              THEN IF r.stage = "active" THEN "claim" ELSE "checkpoint"
              ELSE IF x.op = "checkpoint" \/ (x.op = "resnapshot" /\ x.arg # "active")
              THEN "checkpoint" ELSE r.base,
     integrated |-> IF x.op = "widen" THEN r.integrated /\ r.stage # "outstanding"
                    ELSE IF \/ x.op \in {"retarget", "checkpoint"}
                            \/ x.op = "resnapshot" /\ x.arg # "active"
                    THEN FALSE
                    ELSE IF x.op \in {"release", "replace"}
                    THEN r.integrated \/ x.arg = "rewritten"
                    ELSE IF x.op = "evidence" THEN x.arg ELSE r.integrated,
     extent |-> IF x.op = "extent" THEN x.arg ELSE r.extent,
     revision |-> IF x.op = "extent" THEN r.revision ELSE r.revision + 1]

\* An operation raises the revision and leaves the rest.
LEMMA BumpedIs ==
  ASSUME NEW m \in RetainedSet
  PROVE  Bumped(m) = [stage |-> m.stage, disposition |-> m.disposition, tip |-> m.tip,
                      base |-> m.base, integrated |-> m.integrated, extent |-> m.extent,
                      revision |-> m.revision + 1]
BY DEF Bumped, RetainedSet

\* What an operation on a reservation makes of it, field by field.
LEMMA AppliedIs ==
  ASSUME NEW r \in RetainedSet, NEW x \in Records, x.op \notin Unchanging
  PROVE  Applied(r, x) = Result(r, x)
<1>1. x.op \in JournalOperations /\ x.arg \in Arguments(x.op)
  BY DEF Records
<1>2. CASE x.op = "extent"
  <2>1. Applied(r, x) = [r EXCEPT !.extent = x.arg]
    BY <1>2 DEF Applied
  <2> QED BY <1>2, <2>1 DEF Result, RetainedSet
<1>3. CASE x.op = "renew"
  <2>1. Applied(r, x) = Bumped(r)
    BY <1>3 DEF Applied
  <2> QED BY <1>3, <2>1, BumpedIs DEF Result
<1>4. CASE x.op = "widen"
  <2> DEFINE m == [r EXCEPT !.integrated = @ /\ r.stage # "outstanding"]
  <2>1. Applied(r, x) = Bumped(m)
    BY <1>4 DEF Applied
  <2>2. /\ m \in RetainedSet
        /\ m.stage = r.stage /\ m.disposition = r.disposition /\ m.tip = r.tip
        /\ m.base = r.base /\ m.extent = r.extent /\ m.revision = r.revision
        /\ m.integrated = (r.integrated /\ r.stage # "outstanding")
    BY DEF RetainedSet
  <2> HIDE DEF m
  <2> QED BY <1>4, <2>1, <2>2, BumpedIs DEF Result
<1>5. CASE x.op = "retarget"
  <2> DEFINE b == IF r.stage = "active" THEN "claim" ELSE "checkpoint"
             m == [r EXCEPT !.base = b, !.integrated = FALSE]
  <2>1. Applied(r, x) = Bumped(m)
    BY <1>5 DEF Applied
  <2>2. /\ m \in RetainedSet
        /\ m.stage = r.stage /\ m.disposition = r.disposition /\ m.tip = r.tip
        /\ m.base = b /\ m.extent = r.extent /\ m.revision = r.revision
        /\ m.integrated = FALSE
    <3>1. b \in {"claim", "checkpoint"}
      OBVIOUS
    <3> HIDE DEF b
    <3> QED BY <3>1 DEF RetainedSet
  <2> HIDE DEF m
  <2> QED BY <1>5, <2>1, <2>2, BumpedIs DEF Result
<1>6. CASE x.op = "checkpoint" \/ (x.op = "resnapshot" /\ x.arg # "active")
  <2> DEFINE m == [r EXCEPT !.tip = TRUE, !.base = "checkpoint", !.integrated = FALSE]
             n == [r EXCEPT !.stage = "outstanding", !.tip = TRUE, !.base = "checkpoint",
                            !.integrated = FALSE]
  <2>1. Applied(r, x) = IF x.op = "checkpoint" THEN Bumped(n) ELSE Bumped(m)
    BY <1>6 DEF Applied
  <2>2. /\ m \in RetainedSet
        /\ m.stage = r.stage /\ m.disposition = r.disposition /\ m.tip = TRUE
        /\ m.base = "checkpoint" /\ m.extent = r.extent /\ m.revision = r.revision
        /\ m.integrated = FALSE
    BY DEF RetainedSet
  <2>3. /\ n \in RetainedSet
        /\ n.stage = "outstanding" /\ n.disposition = r.disposition /\ n.tip = TRUE
        /\ n.base = "checkpoint" /\ n.extent = r.extent /\ n.revision = r.revision
        /\ n.integrated = FALSE
    BY DEF RetainedSet, Stages
  <2> HIDE DEF m, n
  <2>4. CASE x.op = "checkpoint"
    BY <2>1, <2>3, <2>4, BumpedIs DEF Result
  <2>5. CASE x.op = "resnapshot" /\ x.arg # "active"
    BY <2>1, <2>2, <2>5, BumpedIs DEF Result
  <2> QED BY <1>6, <2>4, <2>5
<1>7. CASE x.op = "resnapshot" /\ x.arg = "active"
  <2>1. Applied(r, x) = Bumped(r)
    BY <1>7 DEF Applied
  <2> QED BY <1>7, <2>1, BumpedIs DEF Result
<1>8. CASE x.op = "release"
  <2> DEFINE i == r.integrated \/ x.arg = "rewritten"
             m == [r EXCEPT !.stage = "released", !.disposition = x.arg, !.integrated = i]
  <2>1. Applied(r, x) = Bumped(m)
    BY <1>8 DEF Applied
  <2>2. x.arg \in Evidenced \cup {"decision"}
    BY <1>1, <1>8 DEF Arguments
  <2>3. /\ m \in RetainedSet
        /\ m.stage = "released" /\ m.disposition = x.arg /\ m.tip = r.tip
        /\ m.base = r.base /\ m.extent = r.extent /\ m.revision = r.revision
        /\ m.integrated = i
    BY <2>2 DEF RetainedSet, Stages
  <2> HIDE DEF m
  <2> QED BY <1>8, <2>1, <2>3, BumpedIs DEF Result
<1>9. CASE x.op = "replace"
  <2> DEFINE i == r.integrated \/ x.arg = "rewritten"
             m == [r EXCEPT !.disposition = x.arg, !.integrated = i]
  <2>1. Applied(r, x) = Bumped(m)
    BY <1>9 DEF Applied
  <2>2. x.arg \in {"rewritten", "decision"}
    BY <1>1, <1>9 DEF Arguments
  <2>3. /\ m \in RetainedSet
        /\ m.stage = r.stage /\ m.disposition = x.arg /\ m.tip = r.tip
        /\ m.base = r.base /\ m.extent = r.extent /\ m.revision = r.revision
        /\ m.integrated = i
    BY <2>2 DEF RetainedSet, Evidenced
  <2> HIDE DEF m
  <2> QED BY <1>9, <2>1, <2>3, BumpedIs DEF Result
<1>10. CASE x.op = "evidence"
  <2> DEFINE m == [r EXCEPT !.integrated = x.arg]
  <2>1. Applied(r, x) = Bumped(m)
    BY <1>10 DEF Applied
  <2>2. x.arg \in BOOLEAN
    BY <1>1, <1>10 DEF Arguments
  <2>3. /\ m \in RetainedSet
        /\ m.stage = r.stage /\ m.disposition = r.disposition /\ m.tip = r.tip
        /\ m.base = r.base /\ m.extent = r.extent /\ m.revision = r.revision
        /\ m.integrated = x.arg
    BY <2>2 DEF RetainedSet
  <2> HIDE DEF m
  <2> QED BY <1>10, <2>1, <2>3, BumpedIs DEF Result
<1> QED BY <1>1, <1>2, <1>3, <1>4, <1>5, <1>6, <1>7, <1>8, <1>9, <1>10
        DEF JournalOperations, Unchanging

\* What an operation makes of a reservation is one.
LEMMA AppliedType ==
  ASSUME NEW r \in RetainedSet, NEW x \in Records, x.op \notin Unchanging
  PROVE  Applied(r, x) \in RetainedSet
<1> DEFINE R == Result(r, x)
<1>1. x.op \in JournalOperations /\ x.arg \in Arguments(x.op)
  BY DEF Records
<1>2. r.stage \in Stages /\ r.disposition \in Evidenced \cup {"none", "decision"}
      /\ r.tip \in BOOLEAN /\ r.base \in {"claim", "checkpoint"} /\ r.integrated \in BOOLEAN
      /\ r.extent \in Extents \cup {"underived"} /\ r.revision \in Nat
  BY DEF RetainedSet
<1>3. R.stage \in Stages
  BY <1>2 DEF Result, Stages
<1>4. R.disposition \in Evidenced \cup {"none", "decision"}
  BY <1>1, <1>2 DEF Result, Arguments, Evidenced
<1>5. R.tip \in BOOLEAN
  BY <1>2 DEF Result
<1>6. R.base \in {"claim", "checkpoint"}
  BY <1>2 DEF Result
<1>7. R.integrated \in BOOLEAN
  <2>1. CASE x.op = "evidence"
    BY <1>1, <2>1 DEF Result, Arguments
  <2>2. CASE x.op # "evidence"
    BY <1>2, <2>2 DEF Result
  <2> QED BY <2>1, <2>2
<1>8. R.extent \in Extents \cup {"underived"}
  BY <1>1, <1>2 DEF Result, Arguments
<1>9. R.revision \in Nat
  BY <1>2 DEF Result
<1>10. R = [stage |-> R.stage, disposition |-> R.disposition, tip |-> R.tip, base |-> R.base,
            integrated |-> R.integrated, extent |-> R.extent, revision |-> R.revision]
  BY DEF Result
<1> HIDE DEF R
<1>11. R \in RetainedSet
  BY <1>3, <1>4, <1>5, <1>6, <1>7, <1>8, <1>9, <1>10 DEF RetainedSet
<1> QED BY <1>11, AppliedIs DEF R

\* Reservations that differ at most in the observation of their extent.
Alike(r, s) ==
    /\ r \in RetainedSet /\ s \in RetainedSet
    /\ r.stage = s.stage /\ r.disposition = s.disposition /\ r.tip = s.tip
    /\ r.base = s.base /\ r.integrated = s.integrated /\ r.revision = s.revision

\* No operation looks at the extent, and an observation replaces it.
LEMMA AppliedAlike ==
  ASSUME NEW r, NEW s, Alike(r, s), NEW x \in Records, x.op \notin Unchanging
  PROVE  /\ Alike(Applied(r, x), Applied(s, x))
         /\ x.op = "extent" \/ r.extent = s.extent => Applied(r, x) = Applied(s, x)
<1>1. Applied(r, x) \in RetainedSet /\ Applied(s, x) \in RetainedSet
  BY AppliedType DEF Alike
<1>2. Applied(r, x) = Result(r, x) /\ Applied(s, x) = Result(s, x)
  BY AppliedIs DEF Alike
<1>3. /\ Result(r, x).stage = Result(s, x).stage
      /\ Result(r, x).disposition = Result(s, x).disposition
      /\ Result(r, x).tip = Result(s, x).tip
      /\ Result(r, x).base = Result(s, x).base
      /\ Result(r, x).integrated = Result(s, x).integrated
      /\ Result(r, x).revision = Result(s, x).revision
  BY DEF Alike, Result
<1>4. x.op = "extent" \/ r.extent = s.extent => Result(r, x) = Result(s, x)
  BY DEF Alike, Result
<1> QED BY <1>1, <1>2, <1>3, <1>4 DEF Alike

-----------------------------------------------------------------------------
(* One record.                                                               *)

\* What replay asks of a record.
Accepted(a, x) ==
    /\ ~a.failed
    /\ x.op \in {"incursion", "resolve"} \/ Accepts(a.retained, x)
    /\ AcceptsIncident(a.retained, a.incidents, x)

\* A replay fails with a record exactly where the record is not accepted.
LEMMA AcceptedIff ==
  ASSUME NEW a, NEW x
  PROVE  ApplyRecord(a, x).failed = ~Accepted(a, x)
BY DEF ApplyRecord, Accepted

\* What an accepted record makes of a replay.
LEMMA AcceptedStep ==
  ASSUME NEW a, NEW x, ~ApplyRecord(a, x).failed
  PROVE  LET b == ApplyRecord(a, x)
             started == Started(a.finished, b.retained, x)
             ended == Ended(a.finished, b.retained, x)
         IN /\ Accepted(a, x)
            /\ b.retained = RetainedAfter(a.retained, x)
            /\ b.incidents = IncidentsAfter(a.incidents, x)
            /\ b.finished = FinishedAfter(a.finished, b.retained, x)
            /\ b.superseded = HistoryObserved(Observed(a.superseded, a.count, x),
                                              a.count, x, started, ended)
            /\ b.coordination = IF x.op \in Coordination
                                THEN a.coordination \cup {x.generation} ELSE a.coordination
            /\ b.count = a.count + 1
            /\ b.generation = x.generation
<1>1. Accepted(a, x)
  BY AcceptedIff
<1> QED BY <1>1 DEF ApplyRecord, Accepted

\* An accepted record is about known reservations, but for a claim.
LEMMA AboutKnown ==
  ASSUME NEW a, NEW x \in Records, Accepted(a, x), x.op # "sequence"
  PROVE  /\ x.op = "claim" => x.about \cap DOMAIN a.retained = {}
         /\ x.op # "claim" => x.about \subseteq DOMAIN a.retained
<1>1. x.op \in JournalOperations
  BY DEF Records
<1>2. CASE x.op = "claim"
  BY <1>2 DEF Accepted, Accepts
<1>3. CASE x.op \in {"extent", "renew"}
  BY <1>3 DEF Accepted, Accepts
<1>4. CASE x.op = "incursion"
  BY <1>4 DEF Accepted, AcceptsIncident
<1>5. CASE x.op = "resolve"
  BY <1>5 DEF Records
<1>6. CASE x.op \in {"widen", "retarget", "checkpoint", "resnapshot", "evidence", "release",
                     "replace"}
  <2>1. Accepts(a.retained, x)
    BY <1>6 DEF Accepted
  <2>2. \A r \in x.about : r \in DOMAIN a.retained
    BY <1>6, <2>1 DEF Accepts
  <2> QED BY <1>6, <2>2
<1> QED BY <1>1, <1>2, <1>3, <1>4, <1>5, <1>6 DEF JournalOperations

\* The reservations after an accepted record.
LEMMA RetainedAfterIs ==
  ASSUME NEW a, NEW x \in Records, Accepted(a, x)
  PROVE  LET f == RetainedAfter(a.retained, x)
         IN /\ f = IF x.op \in Unchanging \ {"claim"} THEN a.retained ELSE [r \in DOMAIN f |-> f[r]]
            /\ DOMAIN f = IF x.op = "claim" THEN x.about \cup DOMAIN a.retained
                          ELSE DOMAIN a.retained
            /\ \A r \in DOMAIN f :
                  f[r] = IF r \in x.about /\ x.op = "claim" THEN NewReservation
                         ELSE IF r \in x.about /\ x.op \notin Unchanging
                         THEN Applied(a.retained[r], x) ELSE a.retained[r]
<1>1. x.op \in JournalOperations
  BY DEF Records
<1> DEFINE f == RetainedAfter(a.retained, x)
<1>2. CASE x.op = "claim"
  <2>1. f = Over([r \in x.about |-> NewReservation], a.retained)
    BY <1>2 DEF RetainedAfter
  <2> QED BY <1>2, <2>1 DEF Over, Unchanging
<1>3. CASE x.op \in {"sequence", "incursion", "resolve"}
  <2>1. f = a.retained
    BY <1>3 DEF RetainedAfter
  <2> QED BY <1>3, <2>1 DEF Unchanging
<1>4. CASE x.op \notin Unchanging
  <2>1. f = Over([r \in x.about |-> Applied(a.retained[r], x)], a.retained)
    BY <1>1, <1>4 DEF RetainedAfter, Unchanging, JournalOperations
  <2>2. x.about \subseteq DOMAIN a.retained
    BY <1>4, AboutKnown DEF Unchanging
  <2> QED BY <1>4, <2>1, <2>2 DEF Over, Unchanging
<1> QED BY <1>1, <1>2, <1>3, <1>4 DEF Unchanging

\* The types of what a replay holds.
ReplayOK(a) ==
    /\ a.retained = [r \in DOMAIN a.retained |-> a.retained[r]]
    /\ DOMAIN a.retained \subseteq Reservations
    /\ IsFiniteSet(DOMAIN a.retained)
    /\ \A r \in DOMAIN a.retained : a.retained[r] \in RetainedSet
    /\ a.incidents = [i \in DOMAIN a.incidents |-> a.incidents[i]]
    /\ \A i \in DOMAIN a.incidents :
          /\ a.incidents[i] \in [refs : SUBSET Reservations, open : BOOLEAN]
          /\ a.incidents[i].refs # {}
          /\ a.incidents[i].refs \subseteq DOMAIN a.retained
    /\ a.finished = [r \in DOMAIN a.finished |-> a.finished[r]]
    /\ DOMAIN a.finished \subseteq DOMAIN a.retained
    /\ \A r \in DOMAIN a.finished : a.finished[r] \in Nat
    /\ a.count \in Nat /\ a.generation \in Nat /\ ~a.failed

\* The empty replay is of its type.
LEMMA EmptyOK == ReplayOK(EmptyReplay)
<1>1. DOMAIN <<>> = {}
  OBVIOUS
<1>2. IsFiniteSet({})
  BY FS_EmptySet
<1>3. <<>> = [r \in DOMAIN <<>> |-> <<>>[r]]
  OBVIOUS
<1> QED BY <1>1, <1>2, <1>3 DEF EmptyReplay, ReplayOK

\* A record that is accepted and names reservations that are then known.
Follows(a, x) ==
    LET b == ApplyRecord(a, x) IN ~b.failed /\ x.refs \subseteq DOMAIN b.retained

\* A claim makes a reservation.
LEMMA NewReservationType == NewReservation \in RetainedSet
BY DEF NewReservation, RetainedSet, Stages

\* The reservations an accepted record leaves.
LEMMA RetainedStep ==
  ASSUME NEW a, NEW x \in Records, ~ApplyRecord(a, x).failed
  PROVE  LET b == ApplyRecord(a, x)
         IN \A r \in DOMAIN b.retained :
               b.retained[r] = IF r \in x.about /\ x.op = "claim" THEN NewReservation
                               ELSE IF r \in x.about /\ x.op \notin Unchanging
                               THEN Applied(a.retained[r], x) ELSE a.retained[r]
<1> DEFINE g == RetainedAfter(a.retained, x)
<1>1. Accepted(a, x) /\ ApplyRecord(a, x).retained = g
  BY AcceptedStep
<1>2. \A r \in DOMAIN g :
         g[r] = IF r \in x.about /\ x.op = "claim" THEN NewReservation
                ELSE IF r \in x.about /\ x.op \notin Unchanging
                THEN Applied(a.retained[r], x) ELSE a.retained[r]
  BY <1>1, RetainedAfterIs
<1> HIDE DEF g
<1> QED BY <1>1, <1>2

\* The known reservations only grow, by finitely many.
LEMMA KnownAfter ==
  ASSUME NEW a, ReplayOK(a), NEW x \in Records, Follows(a, x)
  PROVE  LET b == ApplyRecord(a, x)
         IN /\ DOMAIN b.retained = IF x.op = "claim" THEN x.about \cup DOMAIN a.retained
                                   ELSE DOMAIN a.retained
            /\ DOMAIN a.retained \subseteq DOMAIN b.retained
            /\ DOMAIN b.retained \subseteq Reservations
            /\ x.op # "resolve" => x.about # {} /\ x.about \subseteq DOMAIN b.retained
<1> DEFINE b == ApplyRecord(a, x)
<1>1. Accepted(a, x) /\ b.retained = RetainedAfter(a.retained, x)
  BY AcceptedStep DEF Follows
<1>2. DOMAIN b.retained = IF x.op = "claim" THEN x.about \cup DOMAIN a.retained
                          ELSE DOMAIN a.retained
  BY <1>1, RetainedAfterIs
<1>3. x.about \subseteq Reservations /\ (x.op # "resolve" => x.about # {} /\ x.about \subseteq x.refs)
  BY DEF Records
<1>4. DOMAIN a.retained \subseteq Reservations /\ x.refs \subseteq DOMAIN b.retained
  BY DEF ReplayOK, Follows
<1> QED BY <1>2, <1>3, <1>4

\* One incident after a record.
IncidentAfter(incidents, x, i) ==
    IF x.op = "incursion" /\ i = x.arg THEN [refs |-> x.refs, open |-> TRUE]
    ELSE IF x.op = "resolve" /\ i = x.arg THEN [incidents[i] EXCEPT !.open = FALSE]
    ELSE incidents[i]

\* What an incident refers to, after a record, are reservations.
LEMMA IncidentRefs ==
  ASSUME NEW f, NEW x, NEW i,
         ~(x.op = "incursion" /\ i = x.arg) =>
             f[i] \in [refs : SUBSET Reservations, open : BOOLEAN]
  PROVE  /\ x.op = "incursion" /\ i = x.arg => IncidentAfter(f, x, i).refs = x.refs
         /\ ~(x.op = "incursion" /\ i = x.arg) => IncidentAfter(f, x, i).refs = f[i].refs
<1>1. CASE x.op = "incursion" /\ i = x.arg
  <2>1. IncidentAfter(f, x, i) = [refs |-> x.refs, open |-> TRUE]
    BY <1>1 DEF IncidentAfter
  <2> QED BY <1>1, <2>1
<1>2. CASE ~(x.op = "incursion" /\ i = x.arg)
  <2> DEFINE e == f[i]
  <2>1. e \in [refs : SUBSET Reservations, open : BOOLEAN]
    BY <1>2
  <2>2. IncidentAfter(f, x, i) = e \/ IncidentAfter(f, x, i) = [e EXCEPT !.open = FALSE]
    BY <1>2 DEF IncidentAfter
  <2> HIDE DEF e
  <2>3. [e EXCEPT !.open = FALSE].refs = e.refs
    BY <2>1
  <2> QED BY <1>2, <2>2, <2>3 DEF e
<1> QED BY <1>1, <1>2

\* The incidents after an accepted record: those before it, which may have been
\* resolved, and the one it opens.
LEMMA IncidentsAfterIs ==
  ASSUME NEW a, ReplayOK(a), NEW x \in Records, Follows(a, x)
  PROVE  LET g == ApplyRecord(a, x).incidents
         IN /\ g = [i \in DOMAIN g |-> g[i]]
            /\ DOMAIN g = IF x.op = "incursion" THEN {x.arg} \cup DOMAIN a.incidents
                          ELSE DOMAIN a.incidents
            /\ x.op = "incursion" => x.arg \notin DOMAIN a.incidents
            /\ x.op = "resolve" => x.arg \in DOMAIN a.incidents
            /\ \A i \in DOMAIN g : g[i] = IncidentAfter(a.incidents, x, i)
<1> DEFINE g == ApplyRecord(a, x).incidents
           f == a.incidents
<1>1. g = IncidentsAfter(f, x) /\ AcceptsIncident(a.retained, f, x)
  BY AcceptedStep DEF Follows, Accepted
<1>2. /\ f = [i \in DOMAIN f |-> f[i]]
      /\ \A i \in DOMAIN f : f[i] \in [refs : SUBSET Reservations, open : BOOLEAN]
  BY DEF ReplayOK
<1> HIDE DEF f, g
<1>3. CASE x.op = "incursion"
  <2>1. g = Over([i \in {x.arg} |-> [refs |-> x.refs, open |-> TRUE]], f)
    BY <1>1, <1>3 DEF IncidentsAfter
  <2>2. x.arg \notin DOMAIN f
    BY <1>1, <1>3 DEF AcceptsIncident
  <2> QED BY <1>3, <2>1, <2>2 DEF Over, IncidentAfter, f, g
<1>4. CASE x.op = "resolve"
  <2>1. g = [f EXCEPT ![x.arg].open = FALSE]
    BY <1>1, <1>4 DEF IncidentsAfter
  <2>2. x.arg \in DOMAIN f /\ f[x.arg].open
    BY <1>1, <1>4 DEF AcceptsIncident
  <2>3. DOMAIN g = DOMAIN f /\ g = [i \in DOMAIN g |-> g[i]]
    BY <1>2, <2>1
  <2>4. \A i \in DOMAIN f : g[i] = IF i = x.arg THEN [f[i] EXCEPT !.open = FALSE] ELSE f[i]
    BY <1>2, <2>1, <2>2
  <2> QED BY <1>4, <2>2, <2>3, <2>4 DEF IncidentAfter, f, g
<1>5. CASE x.op \notin {"incursion", "resolve"}
  <2>1. g = f
    BY <1>1, <1>5 DEF IncidentsAfter
  <2> QED BY <1>2, <1>5, <2>1 DEF IncidentAfter, f, g
<1> QED BY <1>3, <1>4, <1>5

\* An incident keeps what it refers to.
LEMMA IncidentsKept ==
  ASSUME NEW a, ReplayOK(a), NEW x \in Records, Follows(a, x)
  PROVE  LET b == ApplyRecord(a, x)
         IN \A i \in DOMAIN a.incidents :
               i \in DOMAIN b.incidents /\ b.incidents[i].refs = a.incidents[i].refs
<1> DEFINE g == ApplyRecord(a, x).incidents
           f == a.incidents
<1>1. /\ DOMAIN g = IF x.op = "incursion" THEN {x.arg} \cup DOMAIN f ELSE DOMAIN f
      /\ x.op = "incursion" => x.arg \notin DOMAIN f
      /\ \A i \in DOMAIN g : g[i] = IncidentAfter(f, x, i)
  BY IncidentsAfterIs
<1>2. \A i \in DOMAIN f : f[i] \in [refs : SUBSET Reservations, open : BOOLEAN]
  BY DEF ReplayOK
<1> HIDE DEF f, g
<1>3. \A i \in DOMAIN f : i \in DOMAIN g /\ g[i].refs = f[i].refs
  BY <1>1, <1>2, IncidentRefs
<1> QED BY <1>3 DEF f, g

\* The clocks after an accepted record.
LEMMA FinishedAfterIs ==
  ASSUME NEW a, ReplayOK(a), NEW x \in Records, Follows(a, x)
  PROVE  LET b == ApplyRecord(a, x)
             started == Started(a.finished, b.retained, x)
             ended == Ended(a.finished, b.retained, x)
         IN /\ started \subseteq x.about /\ ended \subseteq x.about
            /\ b.finished = [r \in (DOMAIN a.finished \ ended) \cup started |->
                               IF r \in started THEN x.at ELSE a.finished[r]]
            /\ DOMAIN b.finished = (DOMAIN a.finished \ ended) \cup started
            /\ DOMAIN b.finished \subseteq DOMAIN b.retained
            /\ \A r \in DOMAIN b.finished : b.finished[r] \in Nat
<1> DEFINE b == ApplyRecord(a, x)
           started == Started(a.finished, b.retained, x)
           ended == Ended(a.finished, b.retained, x)
<1>1. b.finished = FinishedAfter(a.finished, b.retained, x)
  BY AcceptedStep DEF Follows
<1>2. started \subseteq x.about /\ ended \subseteq x.about
  BY DEF Started, Ended
<1>3. b.finished = [r \in (DOMAIN a.finished \ ended) \cup started |->
                      IF r \in started THEN x.at ELSE a.finished[r]]
  BY <1>1 DEF FinishedAfter
<1>4. x.at \in Nat /\ DOMAIN a.retained \subseteq DOMAIN b.retained
  BY KnownAfter DEF Records
<1>5. DOMAIN a.finished \subseteq DOMAIN a.retained /\ \A r \in DOMAIN a.finished : a.finished[r] \in Nat
  BY DEF ReplayOK
<1>6. started \subseteq DOMAIN b.retained
  <2>1. CASE x.op = "resolve"
    BY <1>2, <2>1 DEF Records
  <2>2. CASE x.op # "resolve"
    BY <1>2, <2>2, KnownAfter
  <2> QED BY <2>1, <2>2
<1> HIDE DEF b, started, ended
<1> QED BY <1>2, <1>3, <1>4, <1>5, <1>6 DEF b, started, ended

\* A record that follows keeps a replay of its type.
LEMMA StepOK ==
  ASSUME NEW a, ReplayOK(a), NEW x \in Records, Follows(a, x)
  PROVE  ReplayOK(ApplyRecord(a, x))
<1> DEFINE b == ApplyRecord(a, x)
<1>1. ~b.failed /\ Accepted(a, x) /\ b.retained = RetainedAfter(a.retained, x)
      /\ b.count = a.count + 1 /\ b.generation = x.generation
  BY AcceptedStep DEF Follows
<1>2. /\ DOMAIN b.retained = IF x.op = "claim" THEN x.about \cup DOMAIN a.retained
                             ELSE DOMAIN a.retained
      /\ DOMAIN b.retained \subseteq Reservations
      /\ DOMAIN a.retained \subseteq DOMAIN b.retained
  BY KnownAfter
<1>3. b.retained = [r \in DOMAIN b.retained |-> b.retained[r]]
  <2> DEFINE f == RetainedAfter(a.retained, x)
  <2>1. f = IF x.op \in Unchanging \ {"claim"} THEN a.retained ELSE [r \in DOMAIN f |-> f[r]]
    BY <1>1, RetainedAfterIs
  <2>2. a.retained = [r \in DOMAIN a.retained |-> a.retained[r]]
    BY DEF ReplayOK
  <2> HIDE DEF f
  <2>3. f = [r \in DOMAIN f |-> f[r]]
    BY <2>1, <2>2
  <2> QED BY <1>1, <2>3 DEF f
<1>4. \A r \in DOMAIN b.retained : b.retained[r] \in RetainedSet
  <2> SUFFICES ASSUME NEW r \in DOMAIN b.retained PROVE b.retained[r] \in RetainedSet
    OBVIOUS
  <2>1. b.retained[r] = IF r \in x.about /\ x.op = "claim" THEN NewReservation
                        ELSE IF r \in x.about /\ x.op \notin Unchanging
                        THEN Applied(a.retained[r], x) ELSE a.retained[r]
    BY RetainedStep DEF Follows
  <2>2. CASE r \in x.about /\ x.op = "claim"
    BY <2>1, <2>2, NewReservationType
  <2>3. CASE ~(r \in x.about /\ x.op = "claim")
    <3>1. r \in DOMAIN a.retained
      BY <1>2, <2>3
    <3>2. a.retained[r] \in RetainedSet
      BY <3>1 DEF ReplayOK
    <3> QED BY <2>1, <2>3, <3>2, AppliedType
  <2> QED BY <2>2, <2>3
<1>5. IsFiniteSet(DOMAIN b.retained)
  <2>1. IsFiniteSet(x.about) /\ IsFiniteSet(DOMAIN a.retained)
    BY DEF Records, ReplayOK
  <2>2. IsFiniteSet(x.about \cup DOMAIN a.retained)
    BY <2>1, FS_Union
  <2> QED BY <1>2, <2>1, <2>2
<1>6. /\ b.incidents = [i \in DOMAIN b.incidents |-> b.incidents[i]]
      /\ \A i \in DOMAIN b.incidents :
            /\ b.incidents[i] \in [refs : SUBSET Reservations, open : BOOLEAN]
            /\ b.incidents[i].refs # {}
            /\ b.incidents[i].refs \subseteq DOMAIN b.retained
  <2> DEFINE g == b.incidents
  <2>1. /\ g = [i \in DOMAIN g |-> g[i]]
        /\ DOMAIN g = IF x.op = "incursion" THEN {x.arg} \cup DOMAIN a.incidents
                      ELSE DOMAIN a.incidents
        /\ \A i \in DOMAIN g : g[i] = IncidentAfter(a.incidents, x, i)
    BY IncidentsAfterIs
  <2>2. \A i \in DOMAIN a.incidents :
           /\ a.incidents[i] \in [refs : SUBSET Reservations, open : BOOLEAN]
           /\ a.incidents[i].refs # {}
           /\ a.incidents[i].refs \subseteq DOMAIN a.retained
    BY DEF ReplayOK
  <2>3. x.refs \subseteq Reservations /\ x.refs \subseteq DOMAIN b.retained /\ (x.op = "incursion" => x.refs # {})
    BY DEF Records, Follows
  <2> HIDE DEF b, g
  <2>4. ASSUME NEW i \in DOMAIN g
        PROVE  /\ g[i] \in [refs : SUBSET Reservations, open : BOOLEAN]
               /\ g[i].refs # {} /\ g[i].refs \subseteq DOMAIN b.retained
    <3>1. CASE x.op = "incursion" /\ i = x.arg
      <4>1. g[i] = [refs |-> x.refs, open |-> TRUE]
        BY <2>1, <3>1 DEF IncidentAfter
      <4>2. [refs |-> x.refs, open |-> TRUE].refs = x.refs
        OBVIOUS
      <4>3. [refs |-> x.refs, open |-> TRUE] \in [refs : SUBSET Reservations, open : BOOLEAN]
        BY <2>3
      <4> QED BY <2>3, <3>1, <4>1, <4>2, <4>3
    <3>2. CASE x.op = "resolve" /\ i = x.arg
      <4> DEFINE e == a.incidents[i]
      <4>1. g[i] = [e EXCEPT !.open = FALSE] /\ i \in DOMAIN a.incidents
        BY <2>1, <3>2 DEF IncidentAfter
      <4>2. e \in [refs : SUBSET Reservations, open : BOOLEAN]
            /\ e.refs # {} /\ e.refs \subseteq DOMAIN b.retained
        BY <1>2, <2>2, <4>1 DEF b
      <4> HIDE DEF e
      <4> QED BY <4>1, <4>2
    <3>3. CASE i # x.arg \/ x.op \notin {"incursion", "resolve"}
      <4>1. g[i] = a.incidents[i] /\ i \in DOMAIN a.incidents
        BY <2>1, <3>3 DEF IncidentAfter
      <4> QED BY <1>2, <2>2, <4>1
    <3> QED BY <3>1, <3>2, <3>3
  <2> QED BY <2>1, <2>4 DEF g
<1>7. /\ b.finished = [r \in DOMAIN b.finished |-> b.finished[r]]
      /\ DOMAIN b.finished \subseteq DOMAIN b.retained
      /\ \A r \in DOMAIN b.finished : b.finished[r] \in Nat
  <2> DEFINE s == Started(a.finished, b.retained, x)
             e == Ended(a.finished, b.retained, x)
  <2>1. /\ b.finished = [r \in (DOMAIN a.finished \ e) \cup s |->
                            IF r \in s THEN x.at ELSE a.finished[r]]
        /\ DOMAIN b.finished \subseteq DOMAIN b.retained
        /\ \A r \in DOMAIN b.finished : b.finished[r] \in Nat
    BY FinishedAfterIs
  <2> HIDE DEF b, s, e
  <2> QED BY <2>1
<1>8. b.count \in Nat /\ b.generation \in Nat
  BY <1>1 DEF ReplayOK, Records
<1> HIDE DEF b
<1> QED BY <1>1, <1>2, <1>3, <1>4, <1>5, <1>6, <1>7, <1>8 DEF ReplayOK, b

-----------------------------------------------------------------------------
(* Legal journals: every record is accepted by the replay of those before it. *)

Legal(records) ==
    /\ records \in Seq(Records)
    /\ \A n \in 0 .. Len(records) - 1 : Follows(ReplayTo(records, n), records[n + 1])

\* Numbers of the coordination records among the first n.
CoordinationTo(records, n) ==
    {records[o].generation : o \in {q \in 1 .. n : records[q].op \in Coordination}}

\* Every prefix of a legal journal replays, and the next record follows it.
LEMMA LegalStep ==
  ASSUME NEW records, Legal(records), NEW n \in 0 .. Len(records) - 1
  PROVE  /\ records[n + 1] \in Records
         /\ Follows(ReplayTo(records, n), records[n + 1])
         /\ ReplayTo(records, n + 1) = ApplyRecord(ReplayTo(records, n), records[n + 1])
<1>1. records \in Seq(Records)
  BY DEF Legal
<1>2. records[n + 1] \in Records
  BY <1>1
<1> QED BY <1>1, <1>2, ReplayStep DEF Legal

\* A legal journal replays to values of the right types, and counts its records.
LEMMA LegalTypes ==
  ASSUME NEW records, Legal(records)
  PROVE  \A n \in 0 .. Len(records) :
            /\ ReplayOK(ReplayTo(records, n)) /\ ReplayTo(records, n).count = n
            /\ ReplayTo(records, n).coordination = CoordinationTo(records, n)
<1> DEFINE P(n) == /\ ReplayOK(ReplayTo(records, n)) /\ ReplayTo(records, n).count = n
                   /\ ReplayTo(records, n).coordination = CoordinationTo(records, n)
           S == {n \in Nat : n <= Len(records) => P(n)}
<1>1. records \in Seq(Records) /\ Len(records) \in Nat
  BY DEF Legal
<1>2. 0 \in S
  <2>1. ReplayTo(records, 0) = EmptyReplay
    BY <1>1, ReplayStep
  <2>2. CoordinationTo(records, 0) = {}
    BY DEF CoordinationTo
  <2>3. EmptyReplay.count = 0 /\ EmptyReplay.coordination = {}
    BY DEF EmptyReplay
  <2> QED BY <2>1, <2>2, <2>3, EmptyOK
<1>3. ASSUME NEW n \in S PROVE n + 1 \in S
  <2> SUFFICES ASSUME n + 1 <= Len(records) PROVE P(n + 1)
    OBVIOUS
  <2> DEFINE a == ReplayTo(records, n)
             b == ReplayTo(records, n + 1)
             x == records[n + 1]
  <2>1. n \in 0 .. Len(records) - 1 /\ P(n)
    BY <1>1
  <2>2. x \in Records /\ Follows(a, x) /\ b = ApplyRecord(a, x)
    BY <2>1, LegalStep
  <2>0. /\ ReplayOK(a) /\ a.count = n /\ a.coordination = CoordinationTo(records, n)
    BY <2>1
  <2>5. CoordinationTo(records, n + 1) = IF x.op \in Coordination
            THEN CoordinationTo(records, n) \cup {x.generation} ELSE CoordinationTo(records, n)
    <3>1. 1 .. n + 1 = (1 .. n) \cup {n + 1}
      BY <2>1
    <3> QED BY <3>1 DEF CoordinationTo
  <2> HIDE DEF a, b, x
  <2>3. ReplayOK(b)
    BY <2>0, <2>2, StepOK
  <2>4. /\ b.count = a.count + 1
        /\ b.coordination = IF x.op \in Coordination
                            THEN a.coordination \cup {x.generation} ELSE a.coordination
    BY <2>2, AcceptedStep DEF Follows
  <2> QED BY <2>0, <2>1, <2>3, <2>4, <2>5 DEF b
<1>4. S = Nat
  <2>1. S \in SUBSET Nat
    OBVIOUS
  <2> HIDE DEF S
  <2> QED BY <1>2, <1>3, <2>1, Induction
<1> QED BY <1>1, <1>4

\* What is known stays known, and an incident keeps what it refers to.
LEMMA LegalGrows ==
  ASSUME NEW records, Legal(records), NEW m \in 0 .. Len(records), NEW n \in m .. Len(records)
  PROVE  LET a == ReplayTo(records, m)
             b == ReplayTo(records, n)
         IN /\ DOMAIN a.retained \subseteq DOMAIN b.retained
            /\ \A i \in DOMAIN a.incidents :
                  i \in DOMAIN b.incidents /\ b.incidents[i].refs = a.incidents[i].refs
<1> DEFINE a == ReplayTo(records, m)
           Q(b) == /\ DOMAIN a.retained \subseteq DOMAIN b.retained
                   /\ \A i \in DOMAIN a.incidents :
                         i \in DOMAIN b.incidents /\ b.incidents[i].refs = a.incidents[i].refs
           S == {k \in Nat : m + k <= Len(records) => Q(ReplayTo(records, m + k))}
<1>1. Len(records) \in Nat
  BY DEF Legal
<1>2. 0 \in S
  OBVIOUS
<1>3. ASSUME NEW k \in S PROVE k + 1 \in S
  <2> SUFFICES ASSUME m + (k + 1) <= Len(records) PROVE Q(ReplayTo(records, m + (k + 1)))
    OBVIOUS
  <2> DEFINE b == ReplayTo(records, m + k)
             c == ReplayTo(records, (m + k) + 1)
             x == records[(m + k) + 1]
  <2>1. m + k \in 0 .. Len(records) - 1 /\ m + k \in 0 .. Len(records) /\ Q(b)
        /\ m + (k + 1) = (m + k) + 1
    BY <1>1
  <2>2. x \in Records /\ Follows(b, x) /\ c = ApplyRecord(b, x) /\ ReplayOK(b)
    BY <2>1, LegalStep, LegalTypes
  <2>q. Q(b)
    BY <2>1
  <2> HIDE DEF a, b, c, x
  <2>3. DOMAIN b.retained \subseteq DOMAIN c.retained
    BY <2>2, KnownAfter
  <2>4. \A i \in DOMAIN b.incidents :
           i \in DOMAIN c.incidents /\ c.incidents[i].refs = b.incidents[i].refs
    BY <2>2, IncidentsKept
  <2>5. Q(c)
    BY <2>q, <2>3, <2>4
  <2> QED BY <2>1, <2>5 DEF c
<1>4. S = Nat
  <2>1. S \in SUBSET Nat
    OBVIOUS
  <2> HIDE DEF S
  <2> QED BY <1>2, <1>3, <2>1, Induction
<1>5. n - m \in Nat /\ m + (n - m) = n
  BY <1>1
<1>6. n - m \in S
  BY <1>4, <1>5
<1> QED BY <1>1, <1>5, <1>6

\* What a record refers to when it is appended is known ever after.
LEMMA LegalRefs ==
  ASSUME NEW records, Legal(records), NEW o \in DOMAIN records
  PROVE  LET full == Replayed(records)
             x == records[o]
         IN /\ x \in Records
            /\ x.refs \subseteq DOMAIN full.retained /\ x.about \subseteq DOMAIN full.retained
            /\ x.op = "incursion" => /\ x.arg \in DOMAIN full.incidents
                                     /\ full.incidents[x.arg].refs = x.refs
            /\ x.op = "resolve" => x.arg \in DOMAIN full.incidents
<1>1. records \in Seq(Records) /\ Len(records) \in Nat /\ o \in 1 .. Len(records)
  BY DEF Legal
<1> DEFINE n == o - 1
           a == ReplayTo(records, n)
           b == ReplayTo(records, n + 1)
           x == records[n + 1]
           full == Replayed(records)
<1>2. n \in 0 .. Len(records) - 1 /\ n \in 0 .. Len(records) /\ n + 1 = o
      /\ n + 1 \in 0 .. Len(records) /\ Len(records) \in n + 1 .. Len(records)
  BY <1>1
<1>3. x \in Records /\ Follows(a, x) /\ b = ApplyRecord(a, x) /\ ReplayOK(a)
  BY <1>2, LegalStep, LegalTypes
<1>4. full = ReplayTo(records, Len(records))
  BY <1>1, ReplayStep
<1>5. /\ DOMAIN b.retained \subseteq DOMAIN full.retained
      /\ \A i \in DOMAIN b.incidents :
            i \in DOMAIN full.incidents /\ full.incidents[i].refs = b.incidents[i].refs
  BY <1>2, <1>4, LegalGrows
<1> HIDE DEF a, b, x, full
<1>6. x.refs \subseteq DOMAIN b.retained /\ x.about \subseteq DOMAIN b.retained
  BY <1>3 DEF Follows, Records
<1>7. /\ x.op = "incursion" => x.arg \in DOMAIN b.incidents /\ b.incidents[x.arg].refs = x.refs
      /\ x.op = "resolve" => x.arg \in DOMAIN b.incidents
  <2>1. /\ DOMAIN b.incidents = IF x.op = "incursion" THEN {x.arg} \cup DOMAIN a.incidents
                                ELSE DOMAIN a.incidents
        /\ x.op = "resolve" => x.arg \in DOMAIN a.incidents
        /\ \A i \in DOMAIN b.incidents : b.incidents[i] = IncidentAfter(a.incidents, x, i)
    BY <1>3, IncidentsAfterIs
  <2> QED BY <2>1, IncidentRefs
<1> QED BY <1>2, <1>3, <1>5, <1>6, <1>7 DEF x, full

-----------------------------------------------------------------------------
(* The account of superseded observations.                                   *)

Naming(f, q) == {r \in DOMAIN f : f[r] = q}
Named(f, q) == Cardinality(Naming(f, q))

\* Every live observation is counted as often as a pointer of f or g names it,
\* at least once, and every pointer names a live observation.
Tallied(live, f, g) ==
    /\ IsFiniteSet(DOMAIN f) /\ IsFiniteSet(DOMAIN g)
    /\ \A q \in DOMAIN live : live[q] = Named(f, q) + Named(g, q) /\ live[q] > 0
    /\ \A r \in DOMAIN f : f[r] \in DOMAIN live
    /\ \A r \in DOMAIN g : g[r] \in DOMAIN live

\* The fields of the account, and no others.
Shape(s, latest, live, roots, droppable) ==
    s = [latest |-> latest, live |-> live, roots |-> roots, droppable |-> droppable]

\* The fields of an account.
LEMMA Fields ==
  ASSUME NEW s, NEW a, NEW b, NEW c, NEW d, Shape(s, a, b, c, d)
  PROVE  s.latest = a /\ s.live = b /\ s.roots = c /\ s.droppable = d
BY DEF Shape

\* Updating a field of an account changes that one.
LEMMA FieldUpdated ==
  ASSUME NEW s, NEW a, NEW b, NEW c, NEW d, Shape(s, a, b, c, d), NEW e
  PROVE  /\ Shape([s EXCEPT !.latest = e], e, b, c, d)
         /\ Shape([s EXCEPT !.live = e], a, e, c, d)
         /\ Shape([s EXCEPT !.roots = e], a, b, e, d)
         /\ Shape([s EXCEPT !.droppable = e], a, b, c, e)
<1>1. Shape([s EXCEPT !.latest = e], e, b, c, d)
  BY DEF Shape
<1>2. Shape([s EXCEPT !.live = e], a, e, c, d)
  BY DEF Shape
<1>3. Shape([s EXCEPT !.roots = e], a, b, e, d)
  BY DEF Shape
<1>4. Shape([s EXCEPT !.droppable = e], a, b, c, e)
  BY DEF Shape
<1> QED BY <1>1, <1>2, <1>3, <1>4

\* The same of the fields an observation updates.
LEMMA Updated ==
  ASSUME NEW s, NEW a, NEW b, NEW c, NEW d, Shape(s, a, b, c, d), NEW e, NEW f
  PROVE  /\ Shape([s EXCEPT !.latest = e, !.live = f], e, f, c, d)
         /\ Shape([s EXCEPT !.roots = e, !.live = f], a, f, e, d)
         /\ Shape([s EXCEPT !.live = e, !.droppable = @ + f], a, e, c, d + f)
<1> DEFINE l == [s EXCEPT !.latest = e]
           r == [s EXCEPT !.roots = e]
           v == [s EXCEPT !.live = e]
<1>1. Shape(l, e, b, c, d) /\ Shape(r, a, b, e, d) /\ Shape(v, a, e, c, d) /\ s.droppable = d
  BY FieldUpdated, Fields
<1>2. /\ [s EXCEPT !.latest = e, !.live = f] = [l EXCEPT !.live = f]
      /\ [s EXCEPT !.roots = e, !.live = f] = [r EXCEPT !.live = f]
      /\ [s EXCEPT !.live = e, !.droppable = @ + f] = [v EXCEPT !.droppable = d + f]
  BY <1>1
<1> HIDE DEF l, r, v
<1>3. /\ Shape([l EXCEPT !.live = f], e, f, c, d)
      /\ Shape([r EXCEPT !.live = f], a, f, e, d)
      /\ Shape([v EXCEPT !.droppable = d + f], a, e, c, d + f)
  BY <1>1, FieldUpdated
<1> QED BY <1>2, <1>3

\* The account of the observations at the ordinals E.
AccountOK(s, E) ==
    /\ Shape(s, s.latest, s.live, s.roots, s.droppable)
    /\ Tallied(s.live, s.latest, s.roots)
    /\ IsFiniteSet(E) /\ DOMAIN s.live \subseteq E
    /\ s.droppable = Cardinality(E \ DOMAIN s.live)

Without(f, lost) == [r \in DOMAIN f \ lost |-> f[r]]

\* How often an observation is named is a number.
LEMMA NamedNat ==
  ASSUME NEW f, IsFiniteSet(DOMAIN f), NEW q
  PROVE  /\ IsFiniteSet(Naming(f, q)) /\ Named(f, q) \in Nat
         /\ Named(f, q) = 0 <=> \A r \in DOMAIN f : f[r] # q
<1>1. Naming(f, q) \subseteq DOMAIN f
  BY DEF Naming
<1>2. IsFiniteSet(Naming(f, q))
  BY <1>1, FS_Subset
<1>3. Cardinality(Naming(f, q)) \in Nat /\ (Cardinality(Naming(f, q)) = 0 <=> Naming(f, q) = {})
  BY <1>2, FS_CardinalityType, FS_EmptySet
<1> QED BY <1>2, <1>3 DEF Named, Naming

\* Disjoint finite sets count together.
LEMMA Counted ==
  ASSUME NEW S, NEW T, IsFiniteSet(S), IsFiniteSet(T), S \cap T = {}
  PROVE  /\ IsFiniteSet(S \cup T) /\ Cardinality(S \cup T) = Cardinality(S) + Cardinality(T)
         /\ Cardinality(S) \in Nat /\ Cardinality(T) \in Nat
<1>1. IsFiniteSet(S \cup T)
      /\ Cardinality(S \cup T) = Cardinality(S) + Cardinality(T) - Cardinality(S \cap T)
  BY FS_Union
<1>2. Cardinality(S \cap T) = 0
  BY FS_EmptySet
<1>3. Cardinality(S) \in Nat /\ Cardinality(T) \in Nat
  BY FS_CardinalityType
<1> QED BY <1>1, <1>2, <1>3

\* Pointers that are dropped are counted out.
LEMMA WithoutCount ==
  ASSUME NEW f, IsFiniteSet(DOMAIN f), NEW lost, lost \subseteq DOMAIN f, NEW q
  PROVE  LET fewer == Cardinality({r \in lost : f[r] = q})
         IN /\ fewer \in Nat /\ Named(Without(f, lost), q) \in Nat
            /\ Named(f, q) = fewer + Named(Without(f, lost), q)
            /\ fewer # 0 => \E r \in lost : f[r] = q
<1> DEFINE S == {r \in lost : f[r] = q}
           T == Naming(Without(f, lost), q)
<1>1. S \cap T = {} /\ Naming(f, q) = S \cup T /\ S \subseteq DOMAIN f /\ T \subseteq DOMAIN f
  BY DEF Naming, Without
<1>2. IsFiniteSet(S) /\ IsFiniteSet(T)
  BY <1>1, FS_Subset
<1>3. S # {} \/ Cardinality(S) = 0
  BY FS_EmptySet
<1> HIDE DEF S, T
<1>4. /\ Cardinality(S \cup T) = Cardinality(S) + Cardinality(T)
      /\ Cardinality(S) \in Nat /\ Cardinality(T) \in Nat
  BY <1>1, <1>2, Counted
<1>5. Named(f, q) = Cardinality(S) + Cardinality(T)
  BY <1>1, <1>4 DEF Named
<1>6. Cardinality(S) # 0 => \E r \in lost : f[r] = q
  BY <1>3 DEF S
<1> QED BY <1>4, <1>5, <1>6 DEF S, T, Named

\* Pointers that are added are counted in.
Pointing(A, ordinal, f) == Over([r \in A |-> ordinal], f)

\* How often an observation is named once some reservations point to a new one.
LEMMA PointingCount ==
  ASSUME NEW f, IsFiniteSet(DOMAIN f), NEW A, IsFiniteSet(A), A \cap DOMAIN f = {},
         NEW ordinal, NEW q
  PROVE  LET g == Pointing(A, ordinal, f)
         IN /\ IsFiniteSet(DOMAIN g)
            /\ Named(g, q) = Named(f, q) + (IF q = ordinal THEN Cardinality(A) ELSE 0)
<1> DEFINE g == Pointing(A, ordinal, f)
<1>1. DOMAIN g = A \cup DOMAIN f /\ \A r \in DOMAIN g : g[r] = IF r \in A THEN ordinal ELSE f[r]
  BY DEF Over, Pointing
<1>2. IsFiniteSet(DOMAIN g)
  BY <1>1, Counted
<1> HIDE DEF g
<1>3. CASE q = ordinal
  <2>1. Naming(g, q) = A \cup Naming(f, q) /\ A \cap Naming(f, q) = {}
    BY <1>1, <1>3 DEF Naming
  <2>2. IsFiniteSet(Naming(f, q)) /\ Named(f, q) \in Nat
    BY NamedNat
  <2>3. Cardinality(A \cup Naming(f, q)) = Cardinality(A) + Cardinality(Naming(f, q))
        /\ Cardinality(A) \in Nat
    BY <2>1, <2>2, Counted
  <2>4. Named(g, q) = Cardinality(A) + Cardinality(Naming(f, q))
    BY <2>1, <2>3 DEF Named
  <2>5. Named(f, q) = Cardinality(Naming(f, q))
    BY DEF Named
  <2> QED BY <1>2, <1>3, <2>2, <2>3, <2>4, <2>5 DEF g
<1>4. CASE q # ordinal
  <2>1. Naming(g, q) = Naming(f, q)
    BY <1>1, <1>4 DEF Naming
  <2>2. Named(f, q) \in Nat
    BY NamedNat
  <2> QED BY <1>2, <1>4, <2>1, <2>2 DEF Named, g
<1> QED BY <1>3, <1>4

\* Unnamed lets go of the pointers it is given, and counts what nothing names.
LEMMA UnnamedTallied ==
  ASSUME NEW s, NEW f, NEW g, NEW lost, lost \subseteq DOMAIN f, NEW E,
         Shape(s, s.latest, s.live, s.roots, s.droppable),
         Tallied(s.live, f, g), IsFiniteSet(E), DOMAIN s.live \subseteq E,
         s.droppable = Cardinality(E \ DOMAIN s.live)
  PROVE  LET t == Unnamed(s, f, lost)
         IN /\ Shape(t, s.latest, t.live, s.roots, t.droppable)
            /\ Tallied(t.live, Without(f, lost), g)
            /\ DOMAIN t.live \subseteq DOMAIN s.live
            /\ t.droppable = Cardinality(E \ DOMAIN t.live)
<1> DEFINE fewer(o) == Cardinality({r \in lost : f[r] = o})
           dropped == {o \in DOMAIN s.live : fewer(o) > 0 /\ s.live[o] = fewer(o)}
           live == [o \in DOMAIN s.live \ dropped |-> s.live[o] - fewer(o)]
           h == Without(f, lost)
           t == Unnamed(s, f, lost)
<1>1. t = [s EXCEPT !.live = live, !.droppable = @ + Cardinality(dropped)]
  BY DEF Unnamed
<1>2. Shape(t, s.latest, live, s.roots, s.droppable + Cardinality(dropped))
  <2> HIDE DEF live, dropped, t
  <2> QED BY <1>1, Updated
<1>3. /\ \A q \in DOMAIN s.live : s.live[q] = Named(f, q) + Named(g, q) /\ s.live[q] > 0
      /\ \A r \in DOMAIN f : f[r] \in DOMAIN s.live
      /\ \A r \in DOMAIN g : g[r] \in DOMAIN s.live
      /\ IsFiniteSet(DOMAIN f) /\ IsFiniteSet(DOMAIN g)
  BY DEF Tallied
<1>4. \A q : /\ fewer(q) \in Nat /\ Named(h, q) \in Nat
             /\ Named(f, q) = fewer(q) + Named(h, q)
  <2> TAKE q
  <2> QED BY <1>3, WithoutCount
<1>5. \A q : Named(g, q) \in Nat
  BY <1>3, NamedNat
<1>6. DOMAIN h = DOMAIN f \ lost /\ \A r \in DOMAIN h : h[r] = f[r]
  BY DEF Without
<1>7. IsFiniteSet(DOMAIN h)
  BY <1>3, <1>6, FS_Subset
<1>d. dropped \subseteq DOMAIN s.live /\ \A q \in dropped : s.live[q] = fewer(q)
  OBVIOUS
<1>e. \A q \in DOMAIN s.live \ dropped : ~(fewer(q) > 0 /\ s.live[q] = fewer(q))
  OBVIOUS
<1>l. DOMAIN live = DOMAIN s.live \ dropped /\ \A q \in DOMAIN live : live[q] = s.live[q] - fewer(q)
  OBVIOUS
<1> HIDE DEF fewer, dropped, h, live
<1>8. \A q \in DOMAIN live : live[q] = Named(h, q) + Named(g, q) /\ live[q] > 0
  <2> SUFFICES ASSUME NEW q \in DOMAIN live
               PROVE  live[q] = Named(h, q) + Named(g, q) /\ live[q] > 0
    OBVIOUS
  <2>1. q \in DOMAIN s.live \ dropped /\ live[q] = s.live[q] - fewer(q)
    BY <1>l
  <2>2. s.live[q] = Named(f, q) + Named(g, q) /\ s.live[q] > 0
    BY <1>3, <2>1
  <2>3. /\ fewer(q) \in Nat /\ Named(h, q) \in Nat /\ Named(g, q) \in Nat
        /\ Named(f, q) = fewer(q) + Named(h, q)
    BY <1>4, <1>5
  <2>4. ~(fewer(q) > 0 /\ s.live[q] = fewer(q))
    BY <1>e, <2>1
  <2> QED BY <2>1, <2>2, <2>3, <2>4
<1>9. \A q \in dropped : Named(h, q) = 0 /\ Named(g, q) = 0
  <2> SUFFICES ASSUME NEW q \in dropped PROVE Named(h, q) = 0 /\ Named(g, q) = 0
    OBVIOUS
  <2>1. s.live[q] = Named(f, q) + Named(g, q) /\ s.live[q] = fewer(q)
    BY <1>3, <1>d
  <2>2. /\ fewer(q) \in Nat /\ Named(h, q) \in Nat /\ Named(g, q) \in Nat
        /\ Named(f, q) = fewer(q) + Named(h, q)
    BY <1>4, <1>5
  <2> QED BY <2>1, <2>2
<1>10. \A r \in DOMAIN h : h[r] \in DOMAIN live
  <2> SUFFICES ASSUME NEW r \in DOMAIN h, h[r] \in dropped PROVE FALSE
    BY <1>3, <1>6, <1>l
  <2> QED BY <1>7, <1>9, NamedNat
<1>11. \A r \in DOMAIN g : g[r] \in DOMAIN live
  <2> SUFFICES ASSUME NEW r \in DOMAIN g, g[r] \in dropped PROVE FALSE
    BY <1>3, <1>l
  <2> QED BY <1>3, <1>9, NamedNat
<1>12. Tallied(live, h, g)
  BY <1>3, <1>7, <1>8, <1>10, <1>11 DEF Tallied
<1>13. s.droppable + Cardinality(dropped) = Cardinality(E \ DOMAIN live)
  <2>1. E \ DOMAIN live = (E \ DOMAIN s.live) \cup dropped /\ (E \ DOMAIN s.live) \cap dropped = {}
    BY <1>d, <1>l
  <2>2. IsFiniteSet(E \ DOMAIN s.live) /\ IsFiniteSet(dropped)
    <3>1. E \ DOMAIN s.live \subseteq E /\ dropped \subseteq E
      BY <1>d
    <3> QED BY <3>1, FS_Subset
  <2> QED BY <2>1, <2>2, Counted
<1> HIDE DEF t
<1>14. t.live = live /\ t.droppable = s.droppable + Cardinality(dropped)
  BY <1>2, Fields
<1> QED BY <1>2, <1>12, <1>13, <1>14, <1>l DEF t, h

\* An observation is counted for its subjects, instead of those before it.
LEMMA ObservedAccount ==
  ASSUME NEW s, NEW E, AccountOK(s, E), NEW ordinal, ordinal \notin E,
         NEW x, x.op = "extent", IsFiniteSet(x.about), x.about # {}
  PROVE  LET t == Observed(s, ordinal, x)
         IN /\ AccountOK(t, E \cup {ordinal})
            /\ t.latest = Pointing(x.about, ordinal, s.latest)
            /\ ordinal \in DOMAIN t.live
<1> DEFINE lost == x.about \cap DOMAIN s.latest
           u == Unnamed(s, s.latest, lost)
           f == Without(s.latest, lost)
           g == Pointing(x.about, ordinal, s.latest)
           live == Over([o \in {ordinal} |-> Cardinality(x.about)], u.live)
           t == Observed(s, ordinal, x)
<1>0. /\ Shape(s, s.latest, s.live, s.roots, s.droppable)
      /\ Tallied(s.live, s.latest, s.roots)
      /\ IsFiniteSet(E) /\ DOMAIN s.live \subseteq E
      /\ s.droppable = Cardinality(E \ DOMAIN s.live)
  BY DEF AccountOK
<1>1. /\ Shape(u, s.latest, u.live, s.roots, u.droppable)
      /\ Tallied(u.live, f, s.roots)
      /\ DOMAIN u.live \subseteq DOMAIN s.live
      /\ u.droppable = Cardinality(E \ DOMAIN u.live)
  <2>1. lost \subseteq DOMAIN s.latest
    OBVIOUS
  <2> HIDE DEF lost
  <2> QED BY <1>0, <2>1, UnnamedTallied
<1>2. t = [u EXCEPT !.latest = Over([r \in x.about |-> ordinal], @),
                    !.live = Over([o \in {ordinal} |-> Cardinality(x.about)], @)]
  BY DEF Observed
<1> HIDE DEF u
<1>3. Shape(t, g, live, s.roots, u.droppable)
  <2>1. u.latest = s.latest
    BY <1>1, Fields
  <2>2. t = [u EXCEPT !.latest = g, !.live = live]
    BY <1>2, <2>1 DEF Pointing
  <2> HIDE DEF t, g, live
  <2> QED BY <1>1, <2>2, Updated
<1>4. g = Pointing(x.about, ordinal, f)
  BY DEF Over, Pointing, Without
<1>5. /\ IsFiniteSet(DOMAIN f) /\ IsFiniteSet(DOMAIN s.roots)
      /\ \A q \in DOMAIN u.live : u.live[q] = Named(f, q) + Named(s.roots, q) /\ u.live[q] > 0
      /\ \A r \in DOMAIN f : f[r] \in DOMAIN u.live
      /\ \A r \in DOMAIN s.roots : s.roots[r] \in DOMAIN u.live
  BY <1>1 DEF Tallied
<1>6. x.about \cap DOMAIN f = {} /\ DOMAIN g = x.about \cup DOMAIN f
      /\ \A r \in DOMAIN g : g[r] = IF r \in x.about THEN ordinal ELSE f[r]
  BY DEF Without, Over, Pointing
<1>7. \A q : /\ IsFiniteSet(DOMAIN g)
             /\ Named(g, q) = Named(f, q) + (IF q = ordinal THEN Cardinality(x.about) ELSE 0)
  <2> HIDE DEF f, g
  <2> QED BY <1>4, <1>5, <1>6, PointingCount
<1>8. DOMAIN live = {ordinal} \cup DOMAIN u.live
      /\ \A q \in DOMAIN live : live[q] = IF q = ordinal THEN Cardinality(x.about) ELSE u.live[q]
  BY DEF Over
<1>9. ordinal \notin DOMAIN u.live
  BY <1>0, <1>1
<1>10. Cardinality(x.about) \in Nat /\ Cardinality(x.about) > 0
  BY FS_CardinalityType, FS_EmptySet
<1> HIDE DEF f, g, live
<1>11. Named(f, ordinal) = 0 /\ Named(s.roots, ordinal) = 0
  BY <1>5, <1>9, NamedNat
<1>12. \A q : Named(f, q) \in Nat /\ Named(s.roots, q) \in Nat
  BY <1>5, NamedNat
<1>13. \A q \in DOMAIN live : live[q] = Named(g, q) + Named(s.roots, q) /\ live[q] > 0
  <2> SUFFICES ASSUME NEW q \in DOMAIN live
               PROVE  live[q] = Named(g, q) + Named(s.roots, q) /\ live[q] > 0
    OBVIOUS
  <2>1. CASE q = ordinal
    BY <1>7, <1>8, <1>10, <1>11, <2>1
  <2>2. CASE q # ordinal
    <3>1. Named(g, q) = Named(f, q) /\ live[q] = u.live[q] /\ q \in DOMAIN u.live
      BY <1>7, <1>8, <1>12, <2>2
    <3> QED BY <1>5, <3>1
  <2> QED BY <2>1, <2>2
<1>14. Tallied(live, g, s.roots)
  <2>1. \A r \in DOMAIN g : g[r] \in DOMAIN live
    BY <1>5, <1>6, <1>8
  <2>2. \A r \in DOMAIN s.roots : s.roots[r] \in DOMAIN live
    BY <1>5, <1>8
  <2> QED BY <1>5, <1>7, <1>13, <2>1, <2>2 DEF Tallied
<1>15. /\ IsFiniteSet(E \cup {ordinal}) /\ DOMAIN live \subseteq E \cup {ordinal}
       /\ (E \cup {ordinal}) \ DOMAIN live = E \ DOMAIN u.live
  <2>1. IsFiniteSet(E \cup {ordinal})
    BY <1>0, FS_AddElement
  <2> QED BY <1>0, <1>1, <1>8, <2>1
<1> HIDE DEF t
<1>16. t.latest = g /\ t.live = live /\ t.roots = s.roots /\ t.droppable = u.droppable
  BY <1>3, Fields
<1>17. AccountOK(t, E \cup {ordinal})
  BY <1>1, <1>3, <1>14, <1>15, <1>16 DEF AccountOK
<1> QED BY <1>8, <1>16, <1>17 DEF t, g

\* A clock that starts on an observation holds it; one that ends lets go of it.
LEMMA HistoryAccount ==
  ASSUME NEW s, NEW E, AccountOK(s, E), NEW ordinal, NEW x, NEW started, NEW ended,
         IsFiniteSet(started), x.op = "extent" => ordinal \in Range(s.latest)
  PROVE  LET t == HistoryObserved(s, ordinal, x, started, ended)
         IN AccountOK(t, E) /\ t.latest = s.latest
<1> DEFINE lost == (started \cup ended) \cap DOMAIN s.roots
           u == Unnamed(s, s.roots, lost)
           f == Without(s.roots, lost)
           rooted == IF x.op = "extent" THEN started ELSE {}
           roots == [r \in DOMAIN s.roots \ (started \cup ended) |-> s.roots[r]]
           g == Pointing(rooted, ordinal, roots)
           live == IF rooted = {} THEN u.live
                   ELSE [u.live EXCEPT ![ordinal] = @ + Cardinality(rooted)]
           t == HistoryObserved(s, ordinal, x, started, ended)
<1>0. /\ Shape(s, s.latest, s.live, s.roots, s.droppable)
      /\ Tallied(s.live, s.roots, s.latest)
      /\ IsFiniteSet(E) /\ DOMAIN s.live \subseteq E
      /\ s.droppable = Cardinality(E \ DOMAIN s.live)
  <2>1. /\ Shape(s, s.latest, s.live, s.roots, s.droppable)
        /\ Tallied(s.live, s.latest, s.roots)
        /\ IsFiniteSet(E) /\ DOMAIN s.live \subseteq E
        /\ s.droppable = Cardinality(E \ DOMAIN s.live)
    BY DEF AccountOK
  <2>2. \A q : Named(s.latest, q) \in Nat /\ Named(s.roots, q) \in Nat
    BY <2>1, NamedNat DEF Tallied
  <2>3. Tallied(s.live, s.roots, s.latest)
    BY <2>1, <2>2 DEF Tallied
  <2> QED BY <2>1, <2>3
<1>1. /\ Shape(u, s.latest, u.live, s.roots, u.droppable)
      /\ Tallied(u.live, f, s.latest)
      /\ DOMAIN u.live \subseteq DOMAIN s.live
      /\ u.droppable = Cardinality(E \ DOMAIN u.live)
  <2>1. lost \subseteq DOMAIN s.roots
    OBVIOUS
  <2> HIDE DEF lost
  <2> QED BY <1>0, <2>1, UnnamedTallied
<1>2. t = [u EXCEPT !.roots = g, !.live = live]
  BY DEF HistoryObserved, Pointing
<1>r. roots = f
  BY DEF Without
<1>s. IsFiniteSet(rooted)
  BY FS_EmptySet
<1>o. rooted # {} => ordinal \in Range(s.latest)
  OBVIOUS
<1>x. rooted \subseteq started
  OBVIOUS
<1> HIDE DEF u, rooted
<1>3. Shape(t, s.latest, live, g, u.droppable)
  <2> HIDE DEF t, g, live
  <2> QED BY <1>1, <1>2, Updated
<1>5. /\ IsFiniteSet(DOMAIN f) /\ IsFiniteSet(DOMAIN s.latest)
      /\ \A q \in DOMAIN u.live : u.live[q] = Named(f, q) + Named(s.latest, q) /\ u.live[q] > 0
      /\ \A r \in DOMAIN f : f[r] \in DOMAIN u.live
      /\ \A r \in DOMAIN s.latest : s.latest[r] \in DOMAIN u.live
  BY <1>1 DEF Tallied
<1>6. rooted \cap DOMAIN f = {} /\ DOMAIN g = rooted \cup DOMAIN f
      /\ \A r \in DOMAIN g : g[r] = IF r \in rooted THEN ordinal ELSE f[r]
  BY <1>r, <1>x DEF Without, Over, Pointing
<1>7. \A q : /\ IsFiniteSet(DOMAIN g)
             /\ Named(g, q) = Named(f, q) + (IF q = ordinal THEN Cardinality(rooted) ELSE 0)
  <2>1. g = Pointing(rooted, ordinal, f)
    BY <1>r
  <2> HIDE DEF f, g
  <2> QED BY <1>5, <1>6, <1>s, <2>1, PointingCount
<1>8. rooted # {} => ordinal \in DOMAIN u.live
  BY <1>5, <1>o DEF Range
<1>9. Cardinality(rooted) \in Nat /\ (rooted = {} => Cardinality(rooted) = 0)
  BY <1>s, FS_CardinalityType, FS_EmptySet
<1>10. DOMAIN live = DOMAIN u.live
       /\ \A q \in DOMAIN live :
             live[q] = IF rooted # {} /\ q = ordinal THEN u.live[q] + Cardinality(rooted)
                       ELSE u.live[q]
  BY <1>8
<1> HIDE DEF f, g, live
<1>12. \A q : Named(f, q) \in Nat /\ Named(s.latest, q) \in Nat
  BY <1>5, NamedNat
<1>13. \A q \in DOMAIN live : live[q] = Named(s.latest, q) + Named(g, q) /\ live[q] > 0
  <2> SUFFICES ASSUME NEW q \in DOMAIN live
               PROVE  live[q] = Named(s.latest, q) + Named(g, q) /\ live[q] > 0
    OBVIOUS
  <2>1. u.live[q] = Named(f, q) + Named(s.latest, q) /\ u.live[q] > 0
    BY <1>5, <1>10
  <2>2. Named(g, q) = Named(f, q) + (IF q = ordinal THEN Cardinality(rooted) ELSE 0)
    BY <1>7
  <2>3. live[q] = IF rooted # {} /\ q = ordinal THEN u.live[q] + Cardinality(rooted)
                  ELSE u.live[q]
    BY <1>10
  <2>4. Named(f, q) \in Nat /\ Named(s.latest, q) \in Nat
    BY <1>12
  <2> QED BY <1>9, <2>1, <2>2, <2>3, <2>4
<1>14. Tallied(live, s.latest, g)
  <2>1. \A r \in DOMAIN g : g[r] \in DOMAIN live
    BY <1>5, <1>6, <1>8, <1>10
  <2>2. \A r \in DOMAIN s.latest : s.latest[r] \in DOMAIN live
    BY <1>5, <1>10
  <2> QED BY <1>5, <1>7, <1>13, <2>1, <2>2 DEF Tallied
<1> HIDE DEF t
<1>16. t.latest = s.latest /\ t.live = live /\ t.roots = g /\ t.droppable = u.droppable
  BY <1>3, Fields
<1>17. AccountOK(t, E)
  <2>1. DOMAIN live \subseteq E
    BY <1>0, <1>1, <1>10
  <2> QED BY <1>0, <1>1, <1>3, <1>10, <1>14, <1>16, <2>1 DEF AccountOK
<1> QED BY <1>16, <1>17 DEF t

\* The ordinals of the observations among the first n records.
Ordinals(records, n) == {q \in 0 .. n - 1 : records[q + 1].op = "extent"}

\* The account is exact, and names the latest observation of each reservation.
Accounts(records, n, s) ==
    /\ AccountOK(s, Ordinals(records, n))
    /\ \A r \in DOMAIN s.latest : r \in records[s.latest[r] + 1].about
    /\ \A q \in Ordinals(records, n) : \A r \in records[q + 1].about :
          r \in DOMAIN s.latest /\ q <= s.latest[r]

\* The account of no records.
LEMMA EmptyAccount ==
  ASSUME NEW records
  PROVE  Accounts(records, 0, EmptyReplay.superseded)
<1> DEFINE s == EmptyReplay.superseded
<1>1. Shape(s, <<>>, <<>>, <<>>, 0)
  BY DEF EmptyReplay, NoExtents, Shape
<1>2. s.latest = <<>> /\ s.live = <<>> /\ s.roots = <<>> /\ s.droppable = 0
  BY <1>1, Fields
<1>3. DOMAIN <<>> = {} /\ Ordinals(records, 0) = {}
  BY DEF Ordinals
<1>4. IsFiniteSet({}) /\ Cardinality({}) = 0
  BY FS_EmptySet
<1> HIDE DEF s
<1>5. Tallied(s.live, s.latest, s.roots)
  BY <1>2, <1>3, <1>4 DEF Tallied
<1>6. AccountOK(s, {})
  <2>1. {} \ DOMAIN s.live = {} /\ DOMAIN s.live \subseteq {}
    BY <1>2, <1>3
  <2> QED BY <1>1, <1>2, <1>4, <1>5, <2>1 DEF AccountOK
<1> QED BY <1>2, <1>3, <1>6 DEF Accounts, s

\* A record that follows keeps the account exact.
LEMMA AccountStep ==
  ASSUME NEW records, Legal(records), NEW n \in 0 .. Len(records) - 1,
         Accounts(records, n, ReplayTo(records, n).superseded)
  PROVE  Accounts(records, n + 1, ReplayTo(records, n + 1).superseded)
<1> DEFINE a == ReplayTo(records, n)
           b == ReplayTo(records, n + 1)
           x == records[n + 1]
           E == Ordinals(records, n)
           D == Ordinals(records, n + 1)
           s == a.superseded
           u == Observed(s, n, x)
           started == Started(a.finished, b.retained, x)
           ended == Ended(a.finished, b.retained, x)
           t == b.superseded
<1>1. x \in Records /\ Follows(a, x) /\ b = ApplyRecord(a, x) /\ a.count = n /\ n \in Nat
  <2>1. n \in Nat /\ n \in 0 .. Len(records)
    BY DEF Legal
  <2> QED BY <2>1, LegalStep, LegalTypes
<1>2. t = HistoryObserved(u, n, x, started, ended)
  <2> HIDE DEF a, b, x
  <2> QED BY <1>1, AcceptedStep DEF Follows
<1>3. IsFiniteSet(x.about) /\ (x.op = "extent" => x.about # {})
  BY <1>1 DEF Records
<1>4. IsFiniteSet(started)
  <2>1. started \subseteq x.about
    BY DEF Started
  <2> QED BY <1>3, <2>1, FS_Subset
<1>5. D = (IF x.op = "extent" THEN E \cup {n} ELSE E) /\ n \notin E
  <2>1. 0 .. (n + 1) - 1 = (0 .. n - 1) \cup {n} /\ n \notin 0 .. n - 1
    BY <1>1
  <2> QED BY <2>1 DEF Ordinals
<1>6. E \subseteq 0 .. n - 1
  BY DEF Ordinals
<1>7. /\ AccountOK(s, E)
      /\ \A r \in DOMAIN s.latest : r \in records[s.latest[r] + 1].about
      /\ \A q \in E : \A r \in records[q + 1].about : r \in DOMAIN s.latest /\ q <= s.latest[r]
  BY DEF Accounts
<1>8. \A r \in DOMAIN s.latest : s.latest[r] \in E
  BY <1>7 DEF AccountOK, Tallied
<1>x. records[n + 1] = x
  OBVIOUS
<1>g. SUFFICES /\ AccountOK(t, D)
               /\ \A r \in DOMAIN t.latest : r \in records[t.latest[r] + 1].about
               /\ \A q \in D : \A r \in records[q + 1].about :
                     r \in DOMAIN t.latest /\ q <= t.latest[r]
  BY DEF Accounts
<1> HIDE DEF a, b, x, E, D, s, started, ended, t
<1>9. CASE x.op = "extent"
  <2>1. /\ AccountOK(u, E \cup {n})
        /\ u.latest = Pointing(x.about, n, s.latest)
    BY <1>3, <1>5, <1>7, <1>9, ObservedAccount
  <2>2. /\ DOMAIN u.latest = x.about \cup DOMAIN s.latest
        /\ \A r \in DOMAIN u.latest : u.latest[r] = IF r \in x.about THEN n ELSE s.latest[r]
    BY <2>1 DEF Pointing, Over
  <2> HIDE DEF u
  <2>3. n \in Range(u.latest)
    BY <1>3, <1>9, <2>2 DEF Range
  <2>4. AccountOK(t, D) /\ t.latest = u.latest
    BY <1>2, <1>4, <1>5, <1>9, <2>1, <2>3, HistoryAccount
  <2>5. \A r \in DOMAIN t.latest : r \in records[t.latest[r] + 1].about
    BY <1>7, <1>x, <2>2, <2>4
  <2>6. \A q \in D : \A r \in records[q + 1].about : r \in DOMAIN t.latest /\ q <= t.latest[r]
    <3> SUFFICES ASSUME NEW q \in D, NEW r \in records[q + 1].about
                 PROVE  r \in DOMAIN t.latest /\ q <= t.latest[r]
      OBVIOUS
    <3>1. q \in E \/ q = n
      BY <1>5, <1>9
    <3>2. r \in x.about => r \in DOMAIN t.latest /\ t.latest[r] = n
      BY <2>2, <2>4
    <3>3. q <= n
      <4>1. CASE q \in E
        <5>1. q \in 0 .. n - 1
          BY <1>6, <4>1
        <5> QED BY <1>1, <5>1
      <4>2. CASE q = n
        BY <1>1, <4>2
      <4> QED BY <3>1, <4>1, <4>2
    <3>4. CASE r \in x.about
      BY <3>2, <3>3, <3>4
    <3>5. CASE r \notin x.about
      <4>1. q \in E
        BY <1>x, <3>1, <3>5
      <4>2. r \in DOMAIN s.latest /\ q <= s.latest[r]
        BY <1>7, <4>1
      <4> QED BY <2>2, <2>4, <3>5, <4>2
    <3> QED BY <3>4, <3>5
  <2> QED BY <2>4, <2>5, <2>6
<1>10. CASE x.op # "extent"
  <2>1. u = s
    BY <1>10 DEF Observed
  <2> HIDE DEF u
  <2>2. AccountOK(t, E) /\ t.latest = s.latest
    BY <1>2, <1>4, <1>7, <1>10, <2>1, HistoryAccount
  <2> QED BY <1>5, <1>7, <1>10, <2>2
<1> QED BY <1>9, <1>10

\* The account of a legal journal is exact.
LEMMA LegalAccount ==
  ASSUME NEW records, Legal(records)
  PROVE  Accounts(records, Len(records), Replayed(records).superseded)
<1> DEFINE S == {n \in Nat : n <= Len(records) =>
                    Accounts(records, n, ReplayTo(records, n).superseded)}
<1>1. records \in Seq(Records) /\ Len(records) \in Nat
  BY DEF Legal
<1>2. 0 \in S
  <2>1. ReplayTo(records, 0) = EmptyReplay
    BY <1>1, ReplayStep
  <2> QED BY <2>1, EmptyAccount
<1>3. ASSUME NEW n \in S PROVE n + 1 \in S
  <2> SUFFICES ASSUME n + 1 <= Len(records)
               PROVE  Accounts(records, n + 1, ReplayTo(records, n + 1).superseded)
    OBVIOUS
  <2>1. n \in 0 .. Len(records) - 1 /\ Accounts(records, n, ReplayTo(records, n).superseded)
    BY <1>1
  <2> QED BY <2>1, AccountStep
<1>4. S = Nat
  <2>1. S \in SUBSET Nat
    OBVIOUS
  <2> HIDE DEF S
  <2> QED BY <1>2, <1>3, <2>1, Induction
<1>5. ReplayTo(records, Len(records)) = Replayed(records)
  BY <1>1, ReplayStep
<1> QED BY <1>1, <1>4, <1>5

\* The account of a legal journal is the one DroppableExact states.
LEMMA AccountExact ==
  ASSUME NEW records, Legal(records)
  PROVE  LET full == Replayed(records)
             s == full.superseded
         IN /\ s.droppable = Cardinality({o \in DOMAIN records :
                                            ~KeepsObservation(full, records, o)})
            /\ \A q \in DOMAIN s.live : s.live[q] = Named(s.latest, q) + Named(s.roots, q)
<1> DEFINE full == Replayed(records)
           s == full.superseded
           E == Ordinals(records, Len(records)) \ DOMAIN s.live
           D == {o \in DOMAIN records : ~KeepsObservation(full, records, o)}
           f == [q \in E |-> q + 1]
<1>1. DOMAIN records = 1 .. Len(records) /\ Len(records) \in Nat
  BY DEF Legal
<1>2. AccountOK(s, Ordinals(records, Len(records)))
  BY LegalAccount DEF Accounts
<1>3. /\ s.droppable = Cardinality(E) /\ IsFiniteSet(E)
      /\ \A q \in DOMAIN s.live : s.live[q] = Named(s.latest, q) + Named(s.roots, q)
  <2>1. IsFiniteSet(Ordinals(records, Len(records)))
    BY <1>2 DEF AccountOK
  <2>2. IsFiniteSet(E)
    BY <2>1, FS_Subset
  <2> QED BY <1>2, <2>2 DEF AccountOK, Tallied
<1>4. D = {o \in 1 .. Len(records) : records[o].op = "extent" /\ o - 1 \notin DOMAIN s.live}
  BY <1>1 DEF KeepsObservation, KeptExtent
<1>5. E = {q \in 0 .. Len(records) - 1 : records[q + 1].op = "extent" /\ q \notin DOMAIN s.live}
  BY DEF Ordinals
<1> HIDE DEF full, s, E, D
<1>6. f \in Bijection(E, D)
  <2>1. \A q \in E : q \in Int /\ q + 1 \in D
    BY <1>1, <1>4, <1>5
  <2>2. \A o \in D : o - 1 \in E /\ (o - 1) + 1 = o
    BY <1>1, <1>4, <1>5
  <2>3. f \in [E -> D] /\ \A q \in E : f[q] = q + 1
    BY <2>1
  <2>4. f \in Injection(E, D)
    BY <2>1, <2>3 DEF Injection, IsInjective
  <2>5. f \in Surjection(E, D)
    BY <2>2, <2>3 DEF Surjection
  <2> QED BY <2>4, <2>5 DEF Bijection
<1>7. Cardinality(D) = Cardinality(E)
  BY <1>3, <1>6, FS_Bijection DEF ExistsBijection
<1> QED BY <1>3, <1>7 DEF full, s, D

\* A dropped observation of a reservation is followed by one that is kept.
LEMMA KeptLater ==
  ASSUME NEW records, Legal(records), NEW o \in DOMAIN records,
         ~KeepsObservation(Replayed(records), records, o), NEW r \in records[o].about
  PROVE  \E q \in DOMAIN records :
            /\ q > o /\ records[q].op = "extent" /\ r \in records[q].about
            /\ KeepsObservation(Replayed(records), records, q)
<1> DEFINE s == Replayed(records).superseded
           E == Ordinals(records, Len(records))
<1>1. DOMAIN records = 1 .. Len(records) /\ Len(records) \in Nat
  BY DEF Legal
<1>2. /\ \A p \in DOMAIN s.latest : s.latest[p] \in DOMAIN s.live /\ s.latest[p] \in E
      /\ \A p \in DOMAIN s.latest : p \in records[s.latest[p] + 1].about
      /\ \A q \in E : \A p \in records[q + 1].about : p \in DOMAIN s.latest /\ q <= s.latest[p]
  <2>1. Accounts(records, Len(records), s)
    BY LegalAccount
  <2> HIDE DEF s
  <2> QED BY <2>1 DEF Accounts, AccountOK, Tallied
<1>3. records[o].op = "extent" /\ o - 1 \notin DOMAIN s.live
  BY DEF KeepsObservation, KeptExtent
<1>4. o - 1 \in E /\ (o - 1) + 1 = o
  BY <1>1, <1>3 DEF Ordinals
<1>5. r \in DOMAIN s.latest /\ o - 1 <= s.latest[r]
  BY <1>2, <1>4
<1> DEFINE q == s.latest[r] + 1
<1>6. s.latest[r] \in 0 .. Len(records) - 1 /\ records[q].op = "extent"
  BY <1>2, <1>5 DEF Ordinals
<1>7. q \in DOMAIN records /\ q - 1 = s.latest[r]
  BY <1>1, <1>6
<1>8. KeepsObservation(Replayed(records), records, q)
  BY <1>2, <1>5, <1>7 DEF KeepsObservation, KeptExtent
<1>9. q > o
  <2>1. s.latest[r] # o - 1
    BY <1>2, <1>3, <1>5
  <2> QED BY <1>1, <1>5, <1>6, <2>1
<1> QED BY <1>2, <1>5, <1>6, <1>7, <1>8, <1>9

\* The last record is never a dropped observation.
LEMMA LastKept ==
  ASSUME NEW records, Legal(records), records # <<>>
  PROVE  KeepsObservation(Replayed(records), records, Len(records))
<1>1. records \in Seq(Records)
  BY DEF Legal
<1>2. Len(records) \in DOMAIN records /\ Len(records) \in Nat /\ DOMAIN records = 1 .. Len(records)
  BY <1>1
<1> SUFFICES ASSUME ~KeepsObservation(Replayed(records), records, Len(records)) PROVE FALSE
  OBVIOUS
<1>3. records[Len(records)].op = "extent" /\ records[Len(records)] \in Records
  BY <1>1, <1>2 DEF KeepsObservation
<1>4. PICK r : r \in records[Len(records)].about
  BY <1>3 DEF Records
<1> QED BY <1>2, <1>4, KeptLater

-----------------------------------------------------------------------------
(* A rewrite without the records of some reservations, and without superseded *)
(* observations, replays to the original without those reservations.         *)

\* The reservations that a kept observation after the first n records is about.
ObservedLater(records, n) ==
    {r \in Reservations :
        \E q \in DOMAIN records :
            /\ q > n /\ records[q].op = "extent" /\ r \in records[q].about
            /\ KeepsObservation(Replayed(records), records, q)}

\* g is f without the reservations in E, up to extents observed again later.
RetainedSim(f, g, E, later) ==
    /\ DOMAIN g = DOMAIN f \ E
    /\ \A r \in DOMAIN g : Alike(g[r], f[r]) /\ (r \notin later => g[r] = f[r])

\* g is f without the incidents that name a reservation in E.
IncidentsSim(f, g, E) ==
    /\ DOMAIN g = {i \in DOMAIN f : f[i].refs \cap E = {}}
    /\ \A i \in DOMAIN g : g[i] = f[i]

\* What is accepted of reservations is accepted of those that are alike.
LEMMA AcceptsAlike ==
  ASSUME NEW x \in Records, NEW f, NEW g, Accepts(f, x),
         \A r \in x.about : r \in DOMAIN f <=> r \in DOMAIN g,
         \A r \in x.about : r \in DOMAIN f => Alike(g[r], f[r])
  PROVE  Accepts(g, x)
<1>1. x.op \in JournalOperations
  BY DEF Records
<1>2. CASE x.op = "claim"
  BY <1>2 DEF Accepts
<1>3. CASE x.op = "sequence"
  BY <1>3 DEF Accepts
<1>4. CASE x.op \in {"extent", "renew"}
  BY <1>4 DEF Accepts
<1>5. CASE x.op \notin {"claim", "sequence", "extent", "renew"}
  <2>1. \A r \in x.about :
           /\ r \in DOMAIN f /\ r \in DOMAIN g
           /\ f[r].stage = g[r].stage /\ f[r].integrated = g[r].integrated
           /\ f[r].disposition = g[r].disposition
    <3>1. \A r \in x.about : r \in DOMAIN f
      BY <1>5 DEF Accepts
    <3> QED BY <3>1 DEF Alike
  <2> QED BY <1>5, <2>1 DEF Accepts
<1> QED BY <1>2, <1>3, <1>4, <1>5

\* What is accepted of incidents is accepted where the same one is known.
LEMMA IncidentAccepted ==
  ASSUME NEW x, NEW f, NEW g, NEW R, NEW S, AcceptsIncident(R, f, x),
         x.op = "incursion" => x.arg \notin DOMAIN g /\ x.about \subseteq S,
         x.op = "resolve" => x.arg \in DOMAIN g /\ g[x.arg] = f[x.arg],
         NEW h, DOMAIN h = S
  PROVE  AcceptsIncident(h, g, x)
BY DEF AcceptsIncident

\* An observation changes nothing but the extent.
LEMMA ExtentAlike ==
  ASSUME NEW r, NEW s, Alike(r, s), NEW x \in Records, x.op = "extent"
  PROVE  Alike(r, Applied(s, x))
<1>1. s \in RetainedSet /\ x.op \notin Unchanging
  BY DEF Alike, Unchanging
<1>2. Applied(s, x) = Result(s, x) /\ Applied(s, x) \in RetainedSet
  BY <1>1, AppliedIs, AppliedType
<1>3. /\ Result(s, x).stage = s.stage /\ Result(s, x).disposition = s.disposition
      /\ Result(s, x).tip = s.tip /\ Result(s, x).base = s.base
      /\ Result(s, x).integrated = s.integrated /\ Result(s, x).revision = s.revision
  BY DEF Result
<1> QED BY <1>2, <1>3 DEF Alike

\* A kept record is accepted by the rewrite, and does the same there.
LEMMA KeptFollows ==
  ASSUME NEW a, ReplayOK(a), NEW b, ReplayOK(b), NEW x \in Records, Follows(a, x),
         NEW E, NEW L, RetainedSim(a.retained, b.retained, E, L),
         IncidentsSim(a.incidents, b.incidents, E), x.refs \cap E = {},
         x.op = "resolve" => a.incidents[x.arg].refs \cap E = {}
  PROVE  Follows(b, x)
<1> DEFINE f == a.retained
           g == b.retained
<1>1. Accepted(a, x)
  BY AcceptedStep DEF Follows
<1>2. x.about \cap E = {} /\ x.about \subseteq x.refs
  BY DEF Records
<1>3. /\ DOMAIN g = DOMAIN f \ E
      /\ \A r \in DOMAIN g : Alike(g[r], f[r])
      /\ DOMAIN b.incidents = {i \in DOMAIN a.incidents : a.incidents[i].refs \cap E = {}}
      /\ \A i \in DOMAIN b.incidents : b.incidents[i] = a.incidents[i]
  BY DEF RetainedSim, IncidentsSim
<1>4. x.op \in {"incursion", "resolve"} \/ Accepts(g, x)
  <2> SUFFICES ASSUME x.op \notin {"incursion", "resolve"} PROVE Accepts(g, x)
    OBVIOUS
  <2>1. Accepts(f, x)
    BY <1>1 DEF Accepted
  <2>2. \A r \in x.about : r \in DOMAIN f <=> r \in DOMAIN g
    BY <1>2, <1>3
  <2>3. \A r \in x.about : r \in DOMAIN f => Alike(g[r], f[r])
    BY <1>3, <2>2
  <2> HIDE DEF f, g
  <2> QED BY <2>1, <2>2, <2>3, AcceptsAlike
<1>5. AcceptsIncident(g, b.incidents, x)
  <2>1. AcceptsIncident(f, a.incidents, x)
    BY <1>1 DEF Accepted
  <2>2. x.op = "incursion" => x.arg \notin DOMAIN a.incidents /\ x.about \subseteq DOMAIN f
    BY <2>1 DEF AcceptsIncident
  <2>3. x.op = "resolve" => x.arg \in DOMAIN a.incidents
    BY <2>1 DEF AcceptsIncident
  <2>4. x.op = "incursion" => x.arg \notin DOMAIN b.incidents /\ x.about \subseteq DOMAIN g
    BY <1>2, <1>3, <2>2
  <2>5. x.op = "resolve" => x.arg \in DOMAIN b.incidents /\ b.incidents[x.arg] = a.incidents[x.arg]
    BY <1>3, <2>3
  <2> HIDE DEF f, g
  <2> QED BY <2>1, <2>4, <2>5, IncidentAccepted
<1>6. Accepted(b, x)
  BY <1>4, <1>5 DEF Accepted, ReplayOK
<1>7. ~ApplyRecord(b, x).failed
  BY <1>6, AcceptedIff
<1>8. x.refs \subseteq DOMAIN ApplyRecord(b, x).retained
  <2>1. x.refs \subseteq IF x.op = "claim" THEN x.about \cup DOMAIN f ELSE DOMAIN f
    <3>1. x.refs \subseteq DOMAIN ApplyRecord(a, x).retained
      BY DEF Follows
    <3>2. DOMAIN ApplyRecord(a, x).retained = IF x.op = "claim" THEN x.about \cup DOMAIN f
                                              ELSE DOMAIN f
      BY KnownAfter
    <3> QED BY <3>1, <3>2
  <2>2. DOMAIN ApplyRecord(b, x).retained = IF x.op = "claim" THEN x.about \cup DOMAIN g
                                            ELSE DOMAIN g
    <3>1. ApplyRecord(b, x).retained = RetainedAfter(g, x)
      BY <1>7, AcceptedStep
    <3>2. DOMAIN RetainedAfter(g, x) = IF x.op = "claim" THEN x.about \cup DOMAIN g
                                       ELSE DOMAIN g
      BY <1>6, RetainedAfterIs
    <3> QED BY <3>1, <3>2
  <2> QED BY <1>2, <1>3, <2>1, <2>2
<1> QED BY <1>7, <1>8 DEF Follows

\* A kept record does the same to the reservations on both sides.
LEMMA KeptRetained ==
  ASSUME NEW a, ReplayOK(a), NEW b, ReplayOK(b), NEW x \in Records, Follows(a, x), Follows(b, x),
         NEW E, NEW L, RetainedSim(a.retained, b.retained, E, L), x.refs \cap E = {},
         NEW M, \A r \in L : r \in M \/ (x.op = "extent" /\ r \in x.about)
  PROVE  RetainedSim(ApplyRecord(a, x).retained, ApplyRecord(b, x).retained, E, M)
<1> DEFINE f == a.retained
           g == b.retained
           p == ApplyRecord(a, x).retained
           q == ApplyRecord(b, x).retained
<1>1. /\ DOMAIN p = IF x.op = "claim" THEN x.about \cup DOMAIN f ELSE DOMAIN f
      /\ DOMAIN q = IF x.op = "claim" THEN x.about \cup DOMAIN g ELSE DOMAIN g
  BY KnownAfter
<1>2. \A r \in DOMAIN p :
         p[r] = IF r \in x.about /\ x.op = "claim" THEN NewReservation
                ELSE IF r \in x.about /\ x.op \notin Unchanging THEN Applied(f[r], x) ELSE f[r]
  BY RetainedStep DEF Follows
<1>3. \A r \in DOMAIN q :
         q[r] = IF r \in x.about /\ x.op = "claim" THEN NewReservation
                ELSE IF r \in x.about /\ x.op \notin Unchanging THEN Applied(g[r], x) ELSE g[r]
  BY RetainedStep DEF Follows
<1>4. /\ DOMAIN g = DOMAIN f \ E
      /\ \A r \in DOMAIN g : Alike(g[r], f[r]) /\ (r \notin L => g[r] = f[r])
  BY DEF RetainedSim
<1>5. x.about \cap E = {}
  BY DEF Records
<1> HIDE DEF f, g, p, q
<1>6. DOMAIN q = DOMAIN p \ E
  BY <1>1, <1>4, <1>5
<1>7. ASSUME NEW r \in DOMAIN q PROVE Alike(q[r], p[r]) /\ (r \notin M => q[r] = p[r])
  <2>1. CASE r \in x.about /\ x.op = "claim"
    <3>1. q[r] = NewReservation /\ p[r] = NewReservation
      BY <1>2, <1>3, <1>6, <2>1
    <3> QED BY <3>1, NewReservationType DEF Alike
  <2>2. CASE ~(r \in x.about /\ x.op = "claim")
    <3>1. r \in DOMAIN g /\ r \in DOMAIN p
      BY <1>1, <1>6, <2>2
    <3>2. Alike(g[r], f[r]) /\ (r \notin L => g[r] = f[r])
      BY <1>4, <3>1
    <3>3. CASE r \in x.about /\ x.op \notin Unchanging
      <4>1. q[r] = Applied(g[r], x) /\ p[r] = Applied(f[r], x)
        BY <1>2, <1>3, <2>2, <3>1, <3>3
      <4>2. /\ Alike(Applied(g[r], x), Applied(f[r], x))
            /\ x.op = "extent" \/ g[r].extent = f[r].extent => Applied(g[r], x) = Applied(f[r], x)
        BY <3>2, <3>3, AppliedAlike
      <4> QED BY <3>2, <3>3, <4>1, <4>2
    <3>4. CASE ~(r \in x.about /\ x.op \notin Unchanging)
      <4>1. q[r] = g[r] /\ p[r] = f[r]
        BY <1>2, <1>3, <2>2, <3>1, <3>4
      <4>2. r \notin M => r \notin L
        BY <3>4 DEF Unchanging
      <4> QED BY <3>2, <4>1, <4>2
    <3> QED BY <3>3, <3>4
  <2> QED BY <2>1, <2>2
<1>8. RetainedSim(p, q, E, M)
  BY <1>6, <1>7 DEF RetainedSim
<1> QED BY <1>8 DEF p, q

\* A record does the same to an incident on both sides.
LEMMA IncidentAfterSame ==
  ASSUME NEW f, NEW g, NEW x, NEW i, (x.op = "incursion" /\ i = x.arg) \/ f[i] = g[i]
  PROVE  IncidentAfter(f, x, i) = IncidentAfter(g, x, i)
BY DEF IncidentAfter

\* A kept record does the same to the incidents on both sides.
LEMMA KeptIncidents ==
  ASSUME NEW a, ReplayOK(a), NEW b, ReplayOK(b), NEW x \in Records, Follows(a, x), Follows(b, x),
         NEW E, IncidentsSim(a.incidents, b.incidents, E), x.refs \cap E = {}
  PROVE  IncidentsSim(ApplyRecord(a, x).incidents, ApplyRecord(b, x).incidents, E)
<1> DEFINE f == a.incidents
           g == b.incidents
           p == ApplyRecord(a, x).incidents
           q == ApplyRecord(b, x).incidents
<1>1. /\ DOMAIN p = IF x.op = "incursion" THEN {x.arg} \cup DOMAIN f ELSE DOMAIN f
      /\ x.op = "incursion" => x.arg \notin DOMAIN f
      /\ \A i \in DOMAIN p : p[i] = IncidentAfter(f, x, i)
  BY IncidentsAfterIs
<1>2. /\ DOMAIN q = IF x.op = "incursion" THEN {x.arg} \cup DOMAIN g ELSE DOMAIN g
      /\ x.op = "incursion" => x.arg \notin DOMAIN g
      /\ \A i \in DOMAIN q : q[i] = IncidentAfter(g, x, i)
  BY IncidentsAfterIs
<1>3. /\ DOMAIN g = {i \in DOMAIN f : f[i].refs \cap E = {}}
      /\ \A i \in DOMAIN g : g[i] = f[i]
  BY DEF IncidentsSim
<1>4. \A i \in DOMAIN f : f[i] \in [refs : SUBSET Reservations, open : BOOLEAN]
  BY DEF ReplayOK
<1> HIDE DEF f, g, p, q
<1>5. \A i \in DOMAIN p : p[i].refs = IF x.op = "incursion" /\ i = x.arg THEN x.refs ELSE f[i].refs
  <2> SUFFICES ASSUME NEW i \in DOMAIN p
               PROVE  p[i].refs = IF x.op = "incursion" /\ i = x.arg THEN x.refs ELSE f[i].refs
    OBVIOUS
  <2>1. p[i] = IncidentAfter(f, x, i)
    BY <1>1
  <2>2. ~(x.op = "incursion" /\ i = x.arg) =>
            f[i] \in [refs : SUBSET Reservations, open : BOOLEAN]
    BY <1>1, <1>4
  <2>3. /\ x.op = "incursion" /\ i = x.arg => IncidentAfter(f, x, i).refs = x.refs
        /\ ~(x.op = "incursion" /\ i = x.arg) => IncidentAfter(f, x, i).refs = f[i].refs
    BY <2>2, IncidentRefs
  <2> QED BY <2>1, <2>3
<1>6. DOMAIN q = {i \in DOMAIN p : p[i].refs \cap E = {}}
  BY <1>1, <1>2, <1>3, <1>5
<1>7. \A i \in DOMAIN q : q[i] = p[i]
  <2> SUFFICES ASSUME NEW i \in DOMAIN q PROVE q[i] = p[i]
    OBVIOUS
  <2>1. q[i] = IncidentAfter(g, x, i) /\ p[i] = IncidentAfter(f, x, i)
    BY <1>1, <1>2, <1>6
  <2>2. (x.op = "incursion" /\ i = x.arg) \/ f[i] = g[i]
    BY <1>2, <1>3
  <2> QED BY <2>1, <2>2, IncidentAfterSame
<1>8. IncidentsSim(p, q, E)
  BY <1>6, <1>7 DEF IncidentsSim
<1> QED BY <1>8 DEF p, q

\* A dropped record leaves the rewrite as it was: a superseded observation, or a
\* record of reservations that are forgotten.
LEMMA DroppedRetained ==
  ASSUME NEW a, ReplayOK(a), NEW x \in Records, Follows(a, x),
         NEW g, NEW E, NEW L, RetainedSim(a.retained, g, E, L),
         NEW M, L \subseteq M \cup E,
         \/ x.op = "extent" /\ x.about \subseteq M
         \/ x.about \subseteq E
  PROVE  RetainedSim(ApplyRecord(a, x).retained, g, E, M)
<1> DEFINE f == a.retained
           p == ApplyRecord(a, x).retained
<1>1. DOMAIN p = IF x.op = "claim" THEN x.about \cup DOMAIN f ELSE DOMAIN f
  BY KnownAfter
<1>2. \A r \in DOMAIN p :
         p[r] = IF r \in x.about /\ x.op = "claim" THEN NewReservation
                ELSE IF r \in x.about /\ x.op \notin Unchanging THEN Applied(f[r], x) ELSE f[r]
  BY RetainedStep DEF Follows
<1>3. /\ DOMAIN g = DOMAIN f \ E
      /\ \A r \in DOMAIN g : Alike(g[r], f[r]) /\ (r \notin L => g[r] = f[r])
  BY DEF RetainedSim
<1> HIDE DEF f, p
<1>4. DOMAIN g = DOMAIN p \ E
  BY <1>1, <1>3
<1>5. ASSUME NEW r \in DOMAIN g PROVE Alike(g[r], p[r]) /\ (r \notin M => g[r] = p[r])
  <2>1. r \in DOMAIN p /\ r \notin E /\ Alike(g[r], f[r]) /\ (r \notin M => g[r] = f[r])
    BY <1>3, <1>4
  <2>2. CASE r \in x.about
    <3>1. x.op = "extent" /\ r \in M
      BY <2>1, <2>2
    <3>2. p[r] = Applied(f[r], x)
      BY <1>2, <2>1, <2>2, <3>1 DEF Unchanging
    <3> QED BY <2>1, <3>1, <3>2, ExtentAlike
  <2>3. CASE r \notin x.about
    <3>1. p[r] = f[r]
      BY <1>2, <2>1, <2>3
    <3> QED BY <2>1, <3>1
  <2> QED BY <2>2, <2>3
<1>6. RetainedSim(p, g, E, M)
  BY <1>4, <1>5 DEF RetainedSim
<1> QED BY <1>6 DEF p

\* A dropped record touches only incidents that are dropped.
LEMMA DroppedIncidents ==
  ASSUME NEW a, ReplayOK(a), NEW x \in Records, Follows(a, x),
         NEW g, NEW E, IncidentsSim(a.incidents, g, E),
         x.op = "incursion" => x.refs \cap E # {},
         x.op = "resolve" => a.incidents[x.arg].refs \cap E # {}
  PROVE  IncidentsSim(ApplyRecord(a, x).incidents, g, E)
<1> DEFINE f == a.incidents
           p == ApplyRecord(a, x).incidents
<1>1. /\ DOMAIN p = IF x.op = "incursion" THEN {x.arg} \cup DOMAIN f ELSE DOMAIN f
      /\ x.op = "incursion" => x.arg \notin DOMAIN f
      /\ \A i \in DOMAIN p : p[i] = IncidentAfter(f, x, i)
  BY IncidentsAfterIs
<1>3. /\ DOMAIN g = {i \in DOMAIN f : f[i].refs \cap E = {}}
      /\ \A i \in DOMAIN g : g[i] = f[i]
  BY DEF IncidentsSim
<1>4. \A i \in DOMAIN f : f[i] \in [refs : SUBSET Reservations, open : BOOLEAN]
  BY DEF ReplayOK
<1>r. x.op = "resolve" => f[x.arg].refs \cap E # {}
  OBVIOUS
<1> HIDE DEF f, p
<1>5. \A i \in DOMAIN p : p[i].refs = IF x.op = "incursion" /\ i = x.arg THEN x.refs ELSE f[i].refs
  <2> SUFFICES ASSUME NEW i \in DOMAIN p
               PROVE  p[i].refs = IF x.op = "incursion" /\ i = x.arg THEN x.refs ELSE f[i].refs
    OBVIOUS
  <2>1. p[i] = IncidentAfter(f, x, i)
    BY <1>1
  <2>2. ~(x.op = "incursion" /\ i = x.arg) =>
            f[i] \in [refs : SUBSET Reservations, open : BOOLEAN]
    BY <1>1, <1>4
  <2>3. /\ x.op = "incursion" /\ i = x.arg => IncidentAfter(f, x, i).refs = x.refs
        /\ ~(x.op = "incursion" /\ i = x.arg) => IncidentAfter(f, x, i).refs = f[i].refs
    BY <2>2, IncidentRefs
  <2> QED BY <2>1, <2>3
<1>6. DOMAIN g = {i \in DOMAIN p : p[i].refs \cap E = {}}
  BY <1>1, <1>3, <1>5
<1>7. \A i \in DOMAIN g : g[i] = p[i]
  <2> SUFFICES ASSUME NEW i \in DOMAIN g PROVE g[i] = p[i]
    OBVIOUS
  <2>1. i \in DOMAIN f /\ f[i].refs \cap E = {} /\ g[i] = f[i] /\ i \in DOMAIN p
    BY <1>1, <1>3
  <2>2. ~(x.op \in {"incursion", "resolve"} /\ i = x.arg)
    BY <1>1, <1>r, <2>1
  <2>3. p[i] = f[i]
    BY <1>1, <2>1, <2>2 DEF IncidentAfter
  <2> QED BY <2>1, <2>3
<1>8. IncidentsSim(p, g, E)
  BY <1>6, <1>7 DEF IncidentsSim
<1> QED BY <1>8 DEF p

\* What a record refers to is never nothing, and is what it was when replayed.
LEMMA RefsIs ==
  ASSUME NEW records, Legal(records), NEW n \in 0 .. Len(records) - 1
  PROVE  LET x == records[n + 1]
             refs == RefsOf(Replayed(records), x)
             a == ReplayTo(records, n)
         IN /\ refs # {} /\ x.about \subseteq refs
            /\ x.op # "resolve" => refs = x.refs
            /\ x.op = "resolve" => x.refs = {} /\ refs = a.incidents[x.arg].refs
<1> DEFINE x == records[n + 1]
           full == Replayed(records)
           refs == RefsOf(full, x)
           a == ReplayTo(records, n)
<1>1. /\ records \in Seq(Records) /\ Len(records) \in Nat /\ n + 1 \in DOMAIN records
      /\ n \in 0 .. Len(records) /\ Len(records) \in n .. Len(records)
      /\ Len(records) \in 0 .. Len(records)
  BY DEF Legal
<1>2. x \in Records /\ x.refs \subseteq DOMAIN full.retained
  BY <1>1, LegalRefs
<1>3. full = ReplayTo(records, Len(records))
  BY <1>1, ReplayStep
<1>4. Follows(a, x) /\ ReplayOK(full) /\ ReplayOK(a)
  BY <1>1, <1>3, LegalStep, LegalTypes
<1>5. \A i \in DOMAIN a.incidents :
         i \in DOMAIN full.incidents /\ full.incidents[i].refs = a.incidents[i].refs
  BY <1>1, <1>3, LegalGrows
<1>6. \A i \in DOMAIN full.incidents :
         full.incidents[i].refs # {} /\ full.incidents[i].refs \subseteq DOMAIN full.retained
  BY <1>4 DEF ReplayOK
<1>7. x.op = "resolve" => x.arg \in DOMAIN a.incidents
  <2> HIDE DEF a, x, full
  <2> QED BY <1>2, <1>4, IncidentsAfterIs
<1>8. refs = (IF x.op = "resolve" THEN full.incidents[x.arg].refs ELSE x.refs)
               \cap DOMAIN full.retained
  BY DEF RefsOf
<1> HIDE DEF x, full, refs, a
<1>9. CASE x.op = "resolve"
  <2>1. x.refs = {} /\ x.about = {}
    BY <1>2, <1>9 DEF Records
  <2>2. refs = a.incidents[x.arg].refs /\ refs # {}
    BY <1>5, <1>6, <1>7, <1>8, <1>9
  <2> QED BY <1>9, <2>1, <2>2 DEF x, full, refs, a
<1>10. CASE x.op # "resolve"
  <2>1. x.about # {} /\ x.about \subseteq x.refs
    BY <1>2, <1>10 DEF Records
  <2>2. refs = x.refs
    BY <1>2, <1>8, <1>10
  <2> QED BY <1>10, <2>1, <2>2 DEF x, full, refs, a
<1> QED BY <1>9, <1>10

\* A legal journal goes on being one.
LEMMA LegalAppend ==
  ASSUME NEW p, Legal(p), NEW x \in Records, Follows(Replayed(p), x)
  PROVE  /\ Legal(Append(p, x)) /\ Replayed(Append(p, x)) = ApplyRecord(Replayed(p), x)
         /\ Len(Append(p, x)) = Len(p) + 1 /\ Len(p) \in Nat
<1> DEFINE q == Append(p, x)
<1>1. p \in Seq(Records) /\ q \in Seq(Records) /\ Len(q) = Len(p) + 1 /\ Len(p) \in Nat
  BY DEF Legal
<1>2. Replayed(q) = ApplyRecord(Replayed(p), x)
  BY <1>1, ReplayAppend
<1>3. ASSUME NEW n \in 0 .. Len(q) - 1 PROVE Follows(ReplayTo(q, n), q[n + 1])
  <2>1. CASE n \in 0 .. Len(p) - 1
    <3>1. SubSeq(q, 1, n) = SubSeq(p, 1, n) /\ q[n + 1] = p[n + 1]
      BY <1>1, <2>1
    <3> QED BY <2>1, <3>1 DEF Legal, ReplayTo
  <2>2. CASE n = Len(p)
    <3>1. SubSeq(q, 1, n) = p /\ q[n + 1] = x
      BY <1>1, <2>2
    <3> QED BY <3>1 DEF ReplayTo
  <2> QED BY <1>1, <2>1, <2>2
<1> QED BY <1>1, <1>2, <1>3 DEF Legal

\* What replays of the original and of its rewrite have in common.
Simulated(records, E, n, p) ==
    LET full == Replayed(records)
        a == ReplayTo(records, n)
        b == Replayed(p)
    IN /\ Legal(p)
       /\ RetainedSim(a.retained, b.retained, E, ObservedLater(records, n))
       /\ IncidentsSim(a.incidents, b.incidents, E)
       /\ b.coordination = {records[o].generation :
                               o \in {q \in 1 .. n : /\ records[q].op \in Coordination
                                                     /\ records[q].refs \cap E = {}}}
       /\ n = 0 \/ KeepsRecord(full, records, E, n) => b.generation = a.generation
       /\ \A k \in 1 .. Len(p) : RefsOf(full, p[k]) \cap E = {}

\* E is closed: every record that is not a superseded observation refers only to
\* reservations in E, or to none of them; the last record, to none.
Excludes(records, E) ==
    LET full == Replayed(records)
    IN /\ E \subseteq DOMAIN full.retained
       /\ \A o \in DOMAIN records :
             KeepsObservation(full, records, o) =>
                 \/ RefsOf(full, records[o]) \subseteq E
                 \/ RefsOf(full, records[o]) \cap E = {}
       /\ records # <<>> => RefsOf(full, records[Len(records)]) \cap E = {}

\* The rewrite follows a record it keeps.
LEMMA SimulatedKept ==
  ASSUME NEW records, Legal(records), NEW n \in 0 .. Len(records) - 1, NEW E,
         Excludes(records, E), NEW p, Simulated(records, E, n, p),
         KeepsRecord(Replayed(records), records, E, n + 1)
  PROVE  Simulated(records, E, n + 1, Append(p, records[n + 1]))
<1> DEFINE full == Replayed(records)
           x == records[n + 1]
           a == ReplayTo(records, n)
           b == Replayed(p)
           c == ReplayTo(records, n + 1)
           d == Replayed(Append(p, x))
           L == ObservedLater(records, n)
           M == ObservedLater(records, n + 1)
           refs == RefsOf(full, x)
<1>1. /\ n + 1 \in DOMAIN records /\ n \in 0 .. Len(records) /\ n \in Nat
      /\ DOMAIN records = 1 .. Len(records) /\ Len(records) \in Nat
  BY DEF Legal
<1>2. x \in Records /\ Follows(a, x) /\ c = ApplyRecord(a, x) /\ ReplayOK(a)
  BY <1>1, LegalStep, LegalTypes
<1>3. /\ Legal(p) /\ RetainedSim(a.retained, b.retained, E, L)
      /\ IncidentsSim(a.incidents, b.incidents, E)
      /\ b.coordination = {records[o].generation :
                              o \in {q \in 1 .. n : /\ records[q].op \in Coordination
                                                    /\ records[q].refs \cap E = {}}}
      /\ \A k \in 1 .. Len(p) : RefsOf(full, p[k]) \cap E = {}
  BY DEF Simulated
<1>4. ReplayOK(b)
  <2>1. Len(p) \in 0 .. Len(p) /\ ReplayTo(p, Len(p)) = b
    BY <1>3, ReplayStep DEF Legal
  <2> QED BY <1>3, <2>1, LegalTypes
<1>5. /\ refs # {} /\ x.about \subseteq refs
      /\ x.op # "resolve" => refs = x.refs
      /\ x.op = "resolve" => x.refs = {} /\ refs = a.incidents[x.arg].refs
  BY RefsIs
<1>6. refs \cap E = {}
  BY <1>1, <1>5 DEF KeepsRecord, Excludes
<1>7. x.refs \cap E = {} /\ (x.op = "resolve" => a.incidents[x.arg].refs \cap E = {})
  BY <1>5, <1>6
<1>8. \A r \in L : r \in M \/ (x.op = "extent" /\ r \in x.about)
  <2> SUFFICES ASSUME NEW r \in L PROVE r \in M \/ (x.op = "extent" /\ r \in x.about)
    OBVIOUS
  <2>1. PICK q \in DOMAIN records :
           /\ q > n /\ records[q].op = "extent" /\ r \in records[q].about
           /\ KeepsObservation(Replayed(records), records, q)
    BY DEF ObservedLater
  <2>2. r \in Reservations
    BY DEF ObservedLater
  <2>3. CASE q = n + 1
    BY <2>1, <2>3
  <2>4. CASE q > n + 1
    BY <2>1, <2>2, <2>4 DEF ObservedLater
  <2> QED BY <1>1, <2>1, <2>3, <2>4
<1>x. records[n + 1] = x
  OBVIOUS
<1>g. SUFFICES /\ Legal(Append(p, x)) /\ RetainedSim(c.retained, d.retained, E, M)
               /\ IncidentsSim(c.incidents, d.incidents, E)
               /\ d.coordination = {records[o].generation :
                                       o \in {q \in 1 .. n + 1 :
                                                /\ records[q].op \in Coordination
                                                /\ records[q].refs \cap E = {}}}
               /\ d.generation = c.generation
               /\ \A k \in 1 .. Len(Append(p, x)) : RefsOf(full, Append(p, x)[k]) \cap E = {}
  BY DEF Simulated
<1> HIDE DEF full, x, a, b, c, L, M, refs
<1>9. Follows(b, x)
  BY <1>2, <1>3, <1>4, <1>7, KeptFollows
<1>10. /\ Legal(Append(p, x)) /\ d = ApplyRecord(b, x)
       /\ Len(Append(p, x)) = Len(p) + 1 /\ Len(p) \in Nat /\ p \in Seq(Records)
  BY <1>2, <1>3, <1>9, LegalAppend DEF b, Legal
<1> HIDE DEF d
<1>11. RetainedSim(c.retained, d.retained, E, M)
  BY <1>2, <1>3, <1>4, <1>7, <1>8, <1>9, <1>10, KeptRetained
<1>12. IncidentsSim(c.incidents, d.incidents, E)
  BY <1>2, <1>3, <1>4, <1>7, <1>9, <1>10, KeptIncidents
<1>13. /\ c.generation = x.generation /\ d.generation = x.generation
       /\ d.coordination = IF x.op \in Coordination THEN b.coordination \cup {x.generation}
                           ELSE b.coordination
  BY <1>2, <1>9, <1>10, AcceptedStep DEF Follows
<1>14. d.coordination = {records[o].generation :
                           o \in {q \in 1 .. n + 1 : /\ records[q].op \in Coordination
                                                     /\ records[q].refs \cap E = {}}}
  <2>1. 1 .. n + 1 = (1 .. n) \cup {n + 1}
    BY <1>1
  <2> QED BY <1>3, <1>7, <1>13, <1>x, <2>1
<1>15. \A k \in 1 .. Len(Append(p, x)) : RefsOf(full, Append(p, x)[k]) \cap E = {}
  <2> SUFFICES ASSUME NEW k \in 1 .. Len(Append(p, x))
               PROVE  RefsOf(full, Append(p, x)[k]) \cap E = {}
    OBVIOUS
  <2>1. Append(p, x)[k] = IF k = Len(p) + 1 THEN x ELSE p[k]
    BY <1>10
  <2>2. CASE k = Len(p) + 1
    BY <1>6, <2>1, <2>2 DEF refs
  <2>3. CASE k # Len(p) + 1
    <3>1. k \in 1 .. Len(p)
      BY <1>10, <2>3
    <3> QED BY <1>3, <2>1, <2>3, <3>1
  <2> QED BY <2>2, <2>3
<1> QED BY <1>10, <1>11, <1>12, <1>13, <1>14, <1>15

\* The rewrite follows a record it drops.
LEMMA SimulatedDropped ==
  ASSUME NEW records, Legal(records), NEW n \in 0 .. Len(records) - 1, NEW E,
         Excludes(records, E), NEW p, Simulated(records, E, n, p),
         ~KeepsRecord(Replayed(records), records, E, n + 1)
  PROVE  Simulated(records, E, n + 1, p)
<1> DEFINE full == Replayed(records)
           x == records[n + 1]
           a == ReplayTo(records, n)
           b == Replayed(p)
           c == ReplayTo(records, n + 1)
           L == ObservedLater(records, n)
           M == ObservedLater(records, n + 1)
           refs == RefsOf(full, x)
<1>1. /\ n + 1 \in DOMAIN records /\ n \in 0 .. Len(records) /\ n \in Nat
      /\ DOMAIN records = 1 .. Len(records) /\ Len(records) \in Nat
  BY DEF Legal
<1>2. x \in Records /\ Follows(a, x) /\ c = ApplyRecord(a, x) /\ ReplayOK(a)
  BY <1>1, LegalStep, LegalTypes
<1>3. /\ Legal(p) /\ RetainedSim(a.retained, b.retained, E, L)
      /\ IncidentsSim(a.incidents, b.incidents, E)
      /\ b.coordination = {records[o].generation :
                              o \in {q \in 1 .. n : /\ records[q].op \in Coordination
                                                    /\ records[q].refs \cap E = {}}}
      /\ \A k \in 1 .. Len(p) : RefsOf(full, p[k]) \cap E = {}
  BY DEF Simulated
<1>5. /\ refs # {} /\ x.about \subseteq refs
      /\ x.op # "resolve" => refs = x.refs
      /\ x.op = "resolve" => x.refs = {} /\ refs = a.incidents[x.arg].refs
  BY RefsIs
<1>6. \/ ~KeepsObservation(full, records, n + 1)
      \/ refs \subseteq E
  BY DEF KeepsRecord
<1>7. ~KeepsObservation(full, records, n + 1) => x.op = "extent" /\ x.about \subseteq M
  <2> SUFFICES ASSUME ~KeepsObservation(full, records, n + 1)
               PROVE  x.op = "extent" /\ x.about \subseteq M
    OBVIOUS
  <2>1. x.op = "extent"
    BY DEF KeepsObservation
  <2>2. ASSUME NEW r \in x.about PROVE r \in M
    <3>1. r \in Reservations
      BY <1>2 DEF Records
    <3>2. \E q \in DOMAIN records :
             /\ q > n + 1 /\ records[q].op = "extent" /\ r \in records[q].about
             /\ KeepsObservation(Replayed(records), records, q)
      BY <1>1, KeptLater
    <3> QED BY <3>1, <3>2 DEF ObservedLater
  <2> QED BY <2>1, <2>2
<1>8. L \subseteq M \cup E
  <2> SUFFICES ASSUME NEW r \in L, r \notin E PROVE r \in M
    OBVIOUS
  <2>1. PICK q \in DOMAIN records :
           /\ q > n /\ records[q].op = "extent" /\ r \in records[q].about
           /\ KeepsObservation(Replayed(records), records, q)
    BY DEF ObservedLater
  <2>2. r \in Reservations
    BY DEF ObservedLater
  <2>3. q # n + 1
    BY <1>5, <1>6, <2>1
  <2>4. q > n + 1
    BY <1>1, <2>1, <2>3
  <2> QED BY <2>1, <2>2, <2>4 DEF ObservedLater
<1>x. records[n + 1] = x
  OBVIOUS
<1>k. ~KeepsRecord(full, records, E, n + 1) /\ n + 1 # 0
  BY <1>1
<1>g. SUFFICES /\ RetainedSim(c.retained, b.retained, E, M)
               /\ IncidentsSim(c.incidents, b.incidents, E)
               /\ b.coordination = {records[o].generation :
                                       o \in {q \in 1 .. n + 1 :
                                                /\ records[q].op \in Coordination
                                                /\ records[q].refs \cap E = {}}}
  BY <1>3, <1>k DEF Simulated
<1> HIDE DEF full, x, a, b, c, L, M, refs
<1>9. \/ x.op = "extent" /\ x.about \subseteq M
      \/ refs \subseteq E
  BY <1>6, <1>7
<1>10. RetainedSim(c.retained, b.retained, E, M)
  <2>1. \/ x.op = "extent" /\ x.about \subseteq M
        \/ x.about \subseteq E
    BY <1>5, <1>9
  <2> QED BY <1>2, <1>3, <1>8, <2>1, DroppedRetained
<1>11. IncidentsSim(c.incidents, b.incidents, E)
  <2>1. x.op = "incursion" => x.refs \cap E # {}
    BY <1>5, <1>9
  <2>2. x.op = "resolve" => a.incidents[x.arg].refs \cap E # {}
    BY <1>5, <1>9
  <2> QED BY <1>2, <1>3, <2>1, <2>2, DroppedIncidents
<1>12. b.coordination = {records[o].generation :
                           o \in {q \in 1 .. n + 1 : /\ records[q].op \in Coordination
                                                     /\ records[q].refs \cap E = {}}}
  <2>1. 1 .. n + 1 = (1 .. n) \cup {n + 1}
    BY <1>1
  <2>2. ~(x.op \in Coordination /\ x.refs \cap E = {})
    BY <1>5, <1>9 DEF Coordination
  <2>3. {q \in 1 .. n + 1 : records[q].op \in Coordination /\ records[q].refs \cap E = {}}
        = {q \in 1 .. n : records[q].op \in Coordination /\ records[q].refs \cap E = {}}
    BY <1>x, <2>1, <2>2
  <2> QED BY <1>3, <2>3
<1> QED BY <1>10, <1>11, <1>12

\* The empty rewrite follows the empty prefix.
LEMMA SimulatedEmpty ==
  ASSUME NEW records, Legal(records), NEW E
  PROVE  Simulated(records, E, 0, <<>>)
<1> DEFINE a == EmptyReplay
<1>1. ReplayTo(records, 0) = a /\ Replayed(<<>>) = a
  BY ReplayStep, ReplayNothing DEF Legal
<1>2. Legal(<<>>) /\ Len(<<>>) = 0
  BY DEF Legal
<1>3. a.retained = <<>> /\ a.incidents = <<>> /\ a.coordination = {} /\ DOMAIN <<>> = {}
  BY DEF EmptyReplay
<1> HIDE DEF a
<1>4. RetainedSim(a.retained, a.retained, E, ObservedLater(records, 0))
  BY <1>3 DEF RetainedSim
<1>5. IncidentsSim(a.incidents, a.incidents, E)
  BY <1>3 DEF IncidentsSim
<1>6. {records[o].generation : o \in {q \in 1 .. 0 : /\ records[q].op \in Coordination
                                                     /\ records[q].refs \cap E = {}}} = {}
  OBVIOUS
<1>7. a.coordination = {records[o].generation :
                          o \in {q \in 1 .. 0 : /\ records[q].op \in Coordination
                                                /\ records[q].refs \cap E = {}}}
  BY <1>3, <1>6
<1>8. \A k \in 1 .. Len(<<>>) : RefsOf(Replayed(records), <<>>[k]) \cap E = {}
  BY <1>2
<1> QED BY <1>1, <1>2, <1>4, <1>5, <1>7, <1>8 DEF Simulated

\* The rewrite follows the whole journal.
LEMMA KeptSimulates ==
  ASSUME NEW records, Legal(records), NEW E, Excludes(records, E)
  PROVE  Simulated(records, E, Len(records), Kept(Replayed(records), records, E))
<1> DEFINE full == Replayed(records)
           N == Len(records)
<1>1. records \in Seq(Records) /\ N \in Nat
  BY DEF Legal
<1>2. PICK P : KeptUpTo(full, records, E, P)
  BY <1>1, KeptSteps
<1>3. /\ P[0] = <<>> /\ Kept(full, records, E) = P[N]
      /\ \A n \in 0 .. N - 1 :
            P[n + 1] = IF KeepsRecord(full, records, E, n + 1)
                       THEN Append(P[n], records[n + 1]) ELSE P[n]
  BY <1>2 DEF KeptUpTo
<1> HIDE DEF full, N
<1> DEFINE S == {n \in Nat : n <= N => Simulated(records, E, n, P[n])}
<1>4. 0 \in S
  BY <1>3, SimulatedEmpty
<1>5. ASSUME NEW n \in S PROVE n + 1 \in S
  <2> SUFFICES ASSUME n + 1 <= N PROVE Simulated(records, E, n + 1, P[n + 1])
    OBVIOUS
  <2>1. n \in 0 .. N - 1 /\ Simulated(records, E, n, P[n])
    BY <1>1
  <2>2. CASE KeepsRecord(full, records, E, n + 1)
    BY <1>3, <2>1, <2>2, SimulatedKept DEF full, N
  <2>3. CASE ~KeepsRecord(full, records, E, n + 1)
    BY <1>3, <2>1, <2>3, SimulatedDropped DEF full, N
  <2> QED BY <2>2, <2>3
<1>6. S = Nat
  <2>1. S \in SUBSET Nat
    OBVIOUS
  <2> HIDE DEF S
  <2> QED BY <1>4, <1>5, <2>1, Induction
<1> QED BY <1>1, <1>3, <1>6 DEF full, N

\* The last record of a journal is kept.
LEMMA LastRecordKept ==
  ASSUME NEW records, Legal(records), records # <<>>, NEW E, Excludes(records, E)
  PROVE  KeepsRecord(Replayed(records), records, E, Len(records))
<1> DEFINE full == Replayed(records)
           N == Len(records)
<1>1. records \in Seq(Records) /\ N \in Nat /\ N # 0 /\ N - 1 \in 0 .. N - 1 /\ (N - 1) + 1 = N
  BY DEF Legal
<1>2. RefsOf(full, records[N]) # {}
  BY <1>1, RefsIs
<1>3. RefsOf(full, records[N]) \cap E = {}
  BY DEF Excludes
<1> QED BY <1>2, <1>3, LastKept DEF KeepsRecord

\* A legal journal replays to values of the right types.
LEMMA ReplayedOK ==
  ASSUME NEW records, Legal(records)
  PROVE  /\ ReplayOK(Replayed(records)) /\ Replayed(records).count = Len(records)
         /\ Replayed(records).coordination = CoordinationTo(records, Len(records))
         /\ ReplayTo(records, Len(records)) = Replayed(records) /\ Len(records) \in Nat
         /\ DOMAIN records = 1 .. Len(records)
<1>1. records \in Seq(Records)
  BY DEF Legal
<1>2. /\ Len(records) \in 0 .. Len(records) /\ Len(records) \in Nat
      /\ DOMAIN records = 1 .. Len(records) /\ ReplayTo(records, Len(records)) = Replayed(records)
  BY <1>1, ReplayStep
<1> QED BY <1>2, LegalTypes

\* A rewrite that excludes a closed set has the content of the original without
\* it, is itself a legal journal, and names nothing of what it excludes.
LEMMA ContentExact ==
  ASSUME NEW records, Legal(records), NEW E, Excludes(records, E)
  PROVE  LET full == Replayed(records)
             p == Kept(full, records, E)
         IN /\ ContentAgrees(full, records, E)
            /\ Legal(p)
            /\ \A k \in 1 .. Len(p) : RefsOf(full, p[k]) \cap E = {}
<1> DEFINE full == Replayed(records)
           p == Kept(full, records, E)
           b == Replayed(p)
           N == Len(records)
<1>1. Simulated(records, E, N, p)
  BY KeptSimulates
<1>2. /\ ReplayOK(full) /\ ReplayTo(records, N) = full /\ N \in Nat /\ DOMAIN records = 1 .. N
  BY ReplayedOK
<1>3. /\ Legal(p)
      /\ RetainedSim(full.retained, b.retained, E, ObservedLater(records, N))
      /\ IncidentsSim(full.incidents, b.incidents, E)
      /\ b.coordination = {records[o].generation :
                             o \in {q \in 1 .. N : /\ records[q].op \in Coordination
                                                   /\ records[q].refs \cap E = {}}}
      /\ N = 0 \/ KeepsRecord(full, records, E, N) => b.generation = full.generation
      /\ \A k \in 1 .. Len(p) : RefsOf(full, p[k]) \cap E = {}
  BY <1>1, <1>2 DEF Simulated
<1>4. ReplayOK(b)
  BY <1>3, ReplayedOK
<1>5. b.generation = full.generation
  <2>1. CASE records = <<>>
    <3>1. N = 0
      BY <2>1
    <3> QED BY <1>3, <3>1
  <2>2. CASE records # <<>>
    BY <1>3, <2>2, LastRecordKept
  <2> QED BY <2>1, <2>2
<1>6. ObservedLater(records, N) = {}
  BY <1>2 DEF ObservedLater
<1> HIDE DEF full, p, b, N
<1>7. b.retained = [r \in DOMAIN full.retained \ E |-> full.retained[r]]
  <2>1. /\ DOMAIN b.retained = DOMAIN full.retained \ E
        /\ \A r \in DOMAIN b.retained : b.retained[r] = full.retained[r]
    BY <1>3, <1>6 DEF RetainedSim
  <2>2. b.retained = [r \in DOMAIN b.retained |-> b.retained[r]]
    BY <1>4 DEF ReplayOK
  <2> QED BY <2>1, <2>2
<1>8. b.incidents = [i \in {j \in DOMAIN full.incidents : full.incidents[j].refs \cap E = {}} |->
                       full.incidents[i]]
  <2>1. /\ DOMAIN b.incidents = {j \in DOMAIN full.incidents : full.incidents[j].refs \cap E = {}}
        /\ \A i \in DOMAIN b.incidents : b.incidents[i] = full.incidents[i]
    BY <1>3 DEF IncidentsSim
  <2>2. b.incidents = [i \in DOMAIN b.incidents |-> b.incidents[i]]
    BY <1>4 DEF ReplayOK
  <2> QED BY <2>1, <2>2
<1>9. b.coordination = {records[o].generation :
                          o \in {q \in DOMAIN records : /\ records[q].op \in Coordination
                                                        /\ records[q].refs \cap E = {}}}
  BY <1>2, <1>3
<1>10. Content(b) = Pruned(full, records, E)
  BY <1>5, <1>7, <1>8, <1>9 DEF Content, Pruned
<1>11. ~b.failed
  BY <1>4 DEF ReplayOK
<1> QED BY <1>3, <1>10, <1>11 DEF ContentAgrees, b, p, full

\* The seeds of a closure are retained reservations.
LEMMA SeedsKnown ==
  ASSUME NEW full, NEW records
  PROVE  Seeds(full, records) \subseteq DOMAIN full.retained
BY DEF Seeds, Recent, Unsettled, OpenIncidents, RefsOf

\* What a compaction forgets is closed, and nothing that is still needed.
LEMMA ExpiredExcludes ==
  ASSUME NEW records, NEW full, full = Replayed(records)
  PROVE  LET E == Expired(full, records)
         IN Excludes(records, E) /\ E \cap Seeds(full, records) = {}
<1> DEFINE known == DOMAIN full.retained
           refs(o) == RefsOf(full, records[o])
           closed(S) == \A o \in DOMAIN records :
                           KeepsObservation(full, records, o) /\ refs(o) \cap S # {}
                              => refs(o) \subseteq S
           K == RetainedClosure(full, records)
           E == Expired(full, records)
           T == Seeds(full, records)
<1>1. K = {r \in known : \A S \in SUBSET known : T \subseteq S /\ closed(S) => r \in S}
  BY DEF RetainedClosure
<1>2. T \subseteq known
  BY SeedsKnown
<1>3. \A o : refs(o) \subseteq known
  BY DEF RefsOf
<1>4. E = known \ K
  BY DEF Expired
<1>5. records # <<>> => refs(Len(records)) \subseteq T
  BY DEF Seeds
<1>x. Excludes(records, E) <=>
        /\ E \subseteq known
        /\ \A o \in DOMAIN records :
              KeepsObservation(full, records, o) => refs(o) \subseteq E \/ refs(o) \cap E = {}
        /\ records # <<>> => refs(Len(records)) \cap E = {}
  BY DEF Excludes
<1> HIDE DEF known, refs, K, E, T
<1>6. T \subseteq K
  BY <1>1, <1>2
<1>7. ASSUME NEW o \in DOMAIN records, KeepsObservation(full, records, o), refs(o) \cap K # {}
      PROVE  refs(o) \subseteq K
  <2>1. PICK r : r \in refs(o) /\ r \in K
    BY <1>7
  <2>2. ASSUME NEW q \in refs(o), NEW S \in SUBSET known, T \subseteq S, closed(S) PROVE q \in S
    <3>1. r \in S
      BY <1>1, <2>1, <2>2
    <3>2. refs(o) \cap S # {}
      BY <2>1, <3>1
    <3>3. refs(o) \subseteq S
      BY <1>7, <2>2, <3>2
    <3> QED BY <3>3
  <2> QED BY <1>1, <1>3, <2>2
<1>8. ASSUME NEW o \in DOMAIN records, KeepsObservation(full, records, o)
      PROVE  refs(o) \subseteq E \/ refs(o) \cap E = {}
  <2>1. CASE refs(o) \cap K = {}
    BY <1>3, <1>4, <2>1
  <2>2. CASE refs(o) \cap K # {}
    BY <1>4, <1>7, <1>8, <2>2
  <2> QED BY <2>1, <2>2
<1>9. records # <<>> => refs(Len(records)) \cap E = {}
  BY <1>4, <1>5, <1>6
<1>10. E \cap T = {}
  BY <1>4, <1>6
<1>11. E \subseteq known
  BY <1>4
<1> QED BY <1>x, <1>8, <1>9, <1>10, <1>11 DEF E, T

-----------------------------------------------------------------------------
(* Records committed while a rewrite was verified.                           *)

\* Replays that agree on all but the account of superseded observations.
SameReplay(a, b) ==
    /\ a.retained = b.retained /\ a.incidents = b.incidents /\ a.finished = b.finished
    /\ a.coordination = b.coordination /\ a.generation = b.generation
    /\ ~a.failed /\ ~b.failed

\* A record that follows one replay follows the other, and they stay the same.
LEMMA SameStep ==
  ASSUME NEW a, NEW b, SameReplay(a, b), NEW x, Follows(a, x)
  PROVE  Follows(b, x) /\ SameReplay(ApplyRecord(a, x), ApplyRecord(b, x))
<1> DEFINE c == ApplyRecord(a, x)
           d == ApplyRecord(b, x)
<1>1. ~c.failed /\ x.refs \subseteq DOMAIN c.retained
  BY DEF Follows
<1>2. Accepted(a, x)
  BY <1>1, AcceptedStep
<1>3. /\ a.retained = b.retained /\ a.incidents = b.incidents /\ a.finished = b.finished
      /\ a.coordination = b.coordination /\ a.generation = b.generation
  BY DEF SameReplay
<1>4. Accepted(b, x)
  BY <1>2, <1>3 DEF Accepted, SameReplay
<1>5. ~d.failed
  BY <1>4, AcceptedIff
<1>6. /\ c.retained = RetainedAfter(a.retained, x)
      /\ c.incidents = IncidentsAfter(a.incidents, x)
      /\ c.finished = FinishedAfter(a.finished, c.retained, x)
      /\ c.coordination = IF x.op \in Coordination
                          THEN a.coordination \cup {x.generation} ELSE a.coordination
      /\ c.generation = x.generation
  BY <1>1, AcceptedStep
<1>7. /\ d.retained = RetainedAfter(b.retained, x)
      /\ d.incidents = IncidentsAfter(b.incidents, x)
      /\ d.finished = FinishedAfter(b.finished, d.retained, x)
      /\ d.coordination = IF x.op \in Coordination
                          THEN b.coordination \cup {x.generation} ELSE b.coordination
      /\ d.generation = x.generation
  BY <1>5, AcceptedStep
<1> HIDE DEF c, d
<1>8. SameReplay(c, d)
  BY <1>1, <1>3, <1>5, <1>6, <1>7 DEF SameReplay
<1>9. x.refs \subseteq DOMAIN d.retained
  BY <1>1, <1>8 DEF SameReplay
<1> QED BY <1>5, <1>8, <1>9 DEF Follows, c, d

\* A tail that is longer by one record.
LEMMA TailStep ==
  ASSUME NEW X, NEW p \in Seq(X), NEW j \in Seq(X), NEW n \in 0 .. Len(j) - 1,
         NEW u \in 0 .. n
  PROVE  p \o SubSeq(j, u + 1, n + 1) = Append(p \o SubSeq(j, u + 1, n), j[n + 1])
<1> DEFINE s == SubSeq(j, u + 1, n)
           t == SubSeq(j, u + 1, n + 1)
<1>1. /\ s \in Seq(X) /\ t \in Seq(X) /\ Len(s) = n - u /\ Len(t) = n + 1 - u
      /\ u \in Nat /\ n \in Nat /\ Len(p) \in Nat /\ j[n + 1] \in X
      /\ \A k \in 1 .. n - u : s[k] = j[u + k] /\ t[k] = j[u + k]
      /\ t[n + 1 - u] = j[n + 1]
  OBVIOUS
<1> HIDE DEF s, t
<1>2. t = Append(s, j[n + 1])
  <2>1. Len(Append(s, j[n + 1])) = Len(t) /\ Append(s, j[n + 1]) \in Seq(X)
    BY <1>1
  <2>2. ASSUME NEW k \in 1 .. Len(t) PROVE t[k] = Append(s, j[n + 1])[k]
    <3>1. CASE k \in 1 .. n - u
      BY <1>1, <3>1
    <3>2. CASE k = n + 1 - u
      BY <1>1, <3>2
    <3> QED BY <1>1, <3>1, <3>2
  <2> QED BY <1>1, <2>1, <2>2
<1>3. p \o Append(s, j[n + 1]) = Append(p \o s, j[n + 1])
  BY <1>1
<1> QED BY <1>2, <1>3 DEF s, t

\* Records that were appended to the original do the same after the rewrite.
LEMMA TailSame ==
  ASSUME NEW j, Legal(j), NEW p, Legal(p), NEW u \in 0 .. Len(j),
         SameReplay(ReplayTo(j, u), Replayed(p))
  PROVE  LET q == p \o SubSeq(j, u + 1, Len(j))
         IN Legal(q) /\ SameReplay(Replayed(j), Replayed(q))
<1> DEFINE q(n) == p \o SubSeq(j, u + 1, n)
           Q(n) == Legal(q(n)) /\ SameReplay(ReplayTo(j, n), Replayed(q(n)))
           S == {k \in Nat : u + k <= Len(j) => Q(u + k)}
<1>1. /\ j \in Seq(Records) /\ p \in Seq(Records) /\ Len(j) \in Nat /\ u \in Nat
      /\ Replayed(j) = ReplayTo(j, Len(j))
  BY ReplayStep DEF Legal
<1>2. 0 \in S
  <2>1. SubSeq(j, u + 1, u) = <<>> /\ p \o <<>> = p
    BY <1>1
  <2>2. q(u) = p /\ u + 0 = u
    BY <1>1, <2>1
  <2> HIDE DEF q
  <2>3. Q(u)
    BY <2>2
  <2> QED BY <2>2, <2>3
<1>3. ASSUME NEW k \in S PROVE k + 1 \in S
  <2> SUFFICES ASSUME u + (k + 1) <= Len(j) PROVE Q(u + (k + 1))
    OBVIOUS
  <2> DEFINE n == u + k
             r == q(n)
             x == j[n + 1]
             a == ReplayTo(j, n)
             c == ReplayTo(j, n + 1)
  <2>1. /\ n \in 0 .. Len(j) - 1 /\ u \in 0 .. n /\ u + (k + 1) = n + 1
        /\ Legal(r) /\ SameReplay(a, Replayed(r))
    BY <1>1
  <2>2. x \in Records /\ Follows(a, x) /\ c = ApplyRecord(a, x)
    BY <2>1, LegalStep
  <2>3. q(n + 1) = Append(r, x)
    BY <1>1, <2>1, TailStep
  <2>4. Legal(r) /\ SameReplay(a, Replayed(r))
    BY <2>1
  <2> HIDE DEF n, r, x, a, c
  <2>5. Follows(Replayed(r), x) /\ SameReplay(c, ApplyRecord(Replayed(r), x))
    BY <2>2, <2>4, SameStep
  <2>6. Legal(Append(r, x)) /\ Replayed(Append(r, x)) = ApplyRecord(Replayed(r), x)
    BY <2>2, <2>4, <2>5, LegalAppend
  <2> QED BY <2>1, <2>3, <2>5, <2>6 DEF c
<1>4. S = Nat
  <2>1. S \in SUBSET Nat
    OBVIOUS
  <2> HIDE DEF S
  <2> QED BY <1>2, <1>3, <2>1, Induction
<1>5. Len(j) - u \in Nat /\ u + (Len(j) - u) = Len(j)
  BY <1>1
<1>6. Len(j) - u \in S
  BY <1>4, <1>5
<1>7. Q(Len(j))
  BY <1>5, <1>6
<1> QED BY <1>1, <1>7

\* A rewrite that forgets nothing is a replay like the original.
LEMMA NothingForgotten ==
  ASSUME NEW records, Legal(records),
         ContentAgrees(Replayed(records), records, {}), ClocksAgree(Replayed(records), records, {})
  PROVE  SameReplay(Replayed(records), Replayed(Kept(Replayed(records), records, {})))
<1> DEFINE full == Replayed(records)
           b == Replayed(Kept(full, records, {}))
<1>1. /\ ~b.failed /\ Content(b) = Pruned(full, records, {})
      /\ b.finished = PrunedClocks(full, {})
  BY DEF ContentAgrees, ClocksAgree
<1>2. /\ ReplayOK(full) /\ full.coordination = CoordinationTo(records, Len(records))
      /\ DOMAIN records = 1 .. Len(records)
  BY ReplayedOK
<1> HIDE DEF b, full
<1>3. /\ b.retained = [r \in DOMAIN full.retained \ {} |-> full.retained[r]]
      /\ b.incidents = [i \in {j \in DOMAIN full.incidents : full.incidents[j].refs \cap {} = {}} |->
                          full.incidents[i]]
      /\ b.coordination = {records[o].generation :
                             o \in {q \in DOMAIN records : /\ records[q].op \in Coordination
                                                           /\ records[q].refs \cap {} = {}}}
      /\ b.generation = full.generation
  BY <1>1 DEF Content, Pruned
<1>4. /\ full.retained = [r \in DOMAIN full.retained |-> full.retained[r]]
      /\ full.incidents = [i \in DOMAIN full.incidents |-> full.incidents[i]]
      /\ full.finished = [r \in DOMAIN full.finished |-> full.finished[r]]
      /\ ~full.failed
  BY <1>2 DEF ReplayOK
<1>5. b.retained = full.retained
  <2>1. DOMAIN full.retained \ {} = DOMAIN full.retained
    OBVIOUS
  <2> QED BY <1>3, <1>4, <2>1
<1>6. b.incidents = full.incidents
  <2>1. {j \in DOMAIN full.incidents : full.incidents[j].refs \cap {} = {}} = DOMAIN full.incidents
    OBVIOUS
  <2> QED BY <1>3, <1>4, <2>1
<1>7. b.finished = full.finished
  <2>1. DOMAIN full.finished \ {} = DOMAIN full.finished
    OBVIOUS
  <2> QED BY <1>1, <1>4, <2>1 DEF PrunedClocks
<1>8. b.coordination = full.coordination
  <2>1. {q \in DOMAIN records : records[q].op \in Coordination /\ records[q].refs \cap {} = {}}
        = {q \in 1 .. Len(records) : records[q].op \in Coordination}
    BY <1>2
  <2> QED BY <1>2, <1>3, <2>1 DEF CoordinationTo
<1> QED BY <1>1, <1>3, <1>4, <1>5, <1>6, <1>7, <1>8 DEF SameReplay, b, full

\* And the other way round.
LEMMA SameContent ==
  ASSUME NEW records, Legal(records), NEW b, SameReplay(Replayed(records), b)
  PROVE  /\ Content(b) = Pruned(Replayed(records), records, {})
         /\ b.finished = PrunedClocks(Replayed(records), {})
<1> DEFINE full == Replayed(records)
<1>2. /\ ReplayOK(full) /\ full.coordination = CoordinationTo(records, Len(records))
      /\ DOMAIN records = 1 .. Len(records)
  BY ReplayedOK
<1>3. /\ b.retained = full.retained /\ b.incidents = full.incidents
      /\ b.finished = full.finished
      /\ b.coordination = full.coordination /\ b.generation = full.generation
  BY DEF SameReplay
<1> HIDE DEF full
<1>4. /\ full.retained = [r \in DOMAIN full.retained |-> full.retained[r]]
      /\ full.incidents = [i \in DOMAIN full.incidents |-> full.incidents[i]]
      /\ full.finished = [r \in DOMAIN full.finished |-> full.finished[r]]
  BY <1>2 DEF ReplayOK
<1>5. b.retained = [r \in DOMAIN full.retained \ {} |-> full.retained[r]]
  <2>1. DOMAIN full.retained \ {} = DOMAIN full.retained
    OBVIOUS
  <2> QED BY <1>3, <1>4, <2>1
<1>6. b.incidents = [i \in {j \in DOMAIN full.incidents : full.incidents[j].refs \cap {} = {}} |->
                       full.incidents[i]]
  <2>1. {j \in DOMAIN full.incidents : full.incidents[j].refs \cap {} = {}} = DOMAIN full.incidents
    OBVIOUS
  <2> QED BY <1>3, <1>4, <2>1
<1>7. b.finished = PrunedClocks(full, {})
  <2>1. DOMAIN full.finished \ {} = DOMAIN full.finished
    OBVIOUS
  <2> QED BY <1>3, <1>4, <2>1 DEF PrunedClocks
<1>8. b.coordination = {records[o].generation :
                          o \in {q \in DOMAIN records : /\ records[q].op \in Coordination
                                                        /\ records[q].refs \cap {} = {}}}
  <2>1. {q \in DOMAIN records : records[q].op \in Coordination /\ records[q].refs \cap {} = {}}
        = {q \in 1 .. Len(records) : records[q].op \in Coordination}
    BY <1>2
  <2> QED BY <1>2, <1>3, <2>1 DEF CoordinationTo
<1>9. Content(b) = Pruned(full, records, {})
  BY <1>3, <1>5, <1>6, <1>8 DEF Content, Pruned
<1> QED BY <1>7, <1>9 DEF full

-----------------------------------------------------------------------------
(* The rewrite that was verified.                                            *)

\* What was verified of the first `upto` records of the journal j, and still
\* holds at the time t: the reservations in E may be forgotten.
RewriteOK(j, t, upto, kept, E) ==
    /\ upto \in 0 .. Len(j)
    /\ LET base == SubSeq(j, 1, upto)
           full == Replayed(base)
       IN /\ E \subseteq DOMAIN full.retained
          /\ kept = Kept(full, base, E) /\ Legal(kept)
          /\ ContentAgrees(full, base, E) /\ ClocksAgree(full, base, E)
          /\ \A r \in E : /\ r \in DOMAIN full.finished /\ t - full.finished[r] > Retention
                          /\ r \notin OpenIncidents(full)
          /\ \A k \in 1 .. Len(kept) : RefsOf(full, kept[k]) \cap E = {}

\* Records appended meanwhile, and ticks, do not disturb it.
LEMMA RewriteStable ==
  ASSUME NEW X, NEW j \in Seq(X), NEW x \in X, NEW t, NEW upto, NEW kept, NEW E,
         RewriteOK(j, t, upto, kept, E)
  PROVE  RewriteOK(Append(j, x), t, upto, kept, E)
<1>1. upto \in 0 .. Len(j)
  BY DEF RewriteOK
<1>2. upto \in 0 .. Len(Append(j, x)) /\ SubSeq(Append(j, x), 1, upto) = SubSeq(j, 1, upto)
  BY <1>1
<1> QED BY <1>2 DEF RewriteOK

\* Time does not make what has expired unexpired.
LEMMA RewriteLater ==
  ASSUME Retention \in Nat, NEW j, Legal(j), NEW t \in Nat, NEW upto, NEW kept, NEW E,
         RewriteOK(j, t, upto, kept, E)
  PROVE  RewriteOK(j, t + 1, upto, kept, E)
<1> DEFINE base == SubSeq(j, 1, upto)
           full == Replayed(base)
           Rest == /\ upto \in 0 .. Len(j) /\ E \subseteq DOMAIN full.retained
                   /\ kept = Kept(full, base, E) /\ Legal(kept)
                   /\ ContentAgrees(full, base, E) /\ ClocksAgree(full, base, E)
                   /\ \A k \in 1 .. Len(kept) : RefsOf(full, kept[k]) \cap E = {}
           Old(s) == \A r \in E : /\ r \in DOMAIN full.finished /\ s - full.finished[r] > Retention
                                  /\ r \notin OpenIncidents(full)
<1>0. \A s : RewriteOK(j, s, upto, kept, E) <=> Rest /\ Old(s)
  BY DEF RewriteOK
<1>1. upto \in 0 .. Len(j) /\ Rest /\ Old(t)
  BY <1>0
<1>2. ReplayOK(full)
  <2>1. ReplayOK(ReplayTo(j, upto))
    BY <1>1, LegalTypes
  <2> QED BY <2>1 DEF ReplayTo
<1>3. \A r \in E : /\ r \in DOMAIN full.finished /\ t - full.finished[r] > Retention
                    /\ r \notin OpenIncidents(full)
  BY <1>1
<1>4. \A r \in DOMAIN full.finished : full.finished[r] \in Nat
  BY <1>2 DEF ReplayOK
<1> HIDE DEF full, Rest
<1>5. ASSUME NEW r \in E
      PROVE  /\ r \in DOMAIN full.finished /\ (t + 1) - full.finished[r] > Retention
             /\ r \notin OpenIncidents(full)
  <2>1. full.finished[r] \in Nat /\ t - full.finished[r] > Retention
    BY <1>3, <1>4
  <2>2. (t + 1) - full.finished[r] > Retention
    BY <2>1
  <2> QED BY <1>3, <2>2
<1>6. Old(t + 1)
  BY <1>5
<1> HIDE DEF Rest, Old
<1> QED BY <1>0, <1>1, <1>6

\* A prefix of a legal journal is legal.
LEMMA LegalPrefix ==
  ASSUME NEW j, Legal(j), NEW u \in 0 .. Len(j)
  PROVE  Legal(SubSeq(j, 1, u)) /\ Replayed(SubSeq(j, 1, u)) = ReplayTo(j, u)
<1> DEFINE p == SubSeq(j, 1, u)
<1>1. j \in Seq(Records) /\ Len(j) \in Nat
  BY DEF Legal
<1>2. p \in Seq(Records) /\ Len(p) = u /\ u \in Nat
  BY <1>1
<1>3. ASSUME NEW n \in 0 .. Len(p) - 1 PROVE Follows(ReplayTo(p, n), p[n + 1])
  <2>1. n \in 0 .. Len(j) - 1
    BY <1>1, <1>2
  <2>2. SubSeq(p, 1, n) = SubSeq(j, 1, n) /\ p[n + 1] = j[n + 1]
    BY <1>1, <1>2
  <2>3. Follows(ReplayTo(j, n), j[n + 1])
    BY <2>1 DEF Legal
  <2> HIDE DEF p
  <2> QED BY <2>2, <2>3 DEF ReplayTo
<1> QED BY <1>2, <1>3 DEF Legal, ReplayTo

\* What publishing it, after the records committed meanwhile, does.
LEMMA RewriteExact ==
  ASSUME NEW j, Legal(j), NEW t, NEW upto, NEW kept, NEW E, RewriteOK(j, t, upto, kept, E),
         upto = Len(j) \/ E = {}
  PROVE  LET q == kept \o SubSeq(j, upto + 1, Len(j))
             full == Replayed(j)
         IN /\ Legal(q) /\ ~Replayed(q).failed
            /\ E \subseteq DOMAIN full.retained
            /\ Content(Replayed(q)) = Pruned(full, j, E)
            /\ Replayed(q).finished = PrunedClocks(full, E)
            /\ \A r \in E : /\ r \in DOMAIN full.finished /\ t - full.finished[r] > Retention
                            /\ r \notin OpenIncidents(full)
            /\ \A k \in DOMAIN q : RefsOf(full, q[k]) \cap E = {}
<1> DEFINE base == SubSeq(j, 1, upto)
           full == Replayed(j)
           tail == SubSeq(j, upto + 1, Len(j))
           q == kept \o tail
<1>1. /\ upto \in 0 .. Len(j) /\ kept = Kept(Replayed(base), base, E) /\ Legal(kept)
      /\ ContentAgrees(Replayed(base), base, E) /\ ClocksAgree(Replayed(base), base, E)
      /\ E \subseteq DOMAIN Replayed(base).retained
      /\ \A r \in E : /\ r \in DOMAIN Replayed(base).finished
                      /\ t - Replayed(base).finished[r] > Retention
                      /\ r \notin OpenIncidents(Replayed(base))
      /\ \A k \in 1 .. Len(kept) : RefsOf(Replayed(base), kept[k]) \cap E = {}
  BY DEF RewriteOK
<1>2. j \in Seq(Records) /\ kept \in Seq(Records) /\ Len(j) \in Nat
  BY <1>1 DEF Legal
<1>3. CASE upto = Len(j)
  <2>1. base = j /\ tail = <<>> /\ q = kept /\ DOMAIN kept = 1 .. Len(kept)
    BY <1>2, <1>3
  <2> HIDE DEF base, tail, q
  <2>2. ~Replayed(kept).failed /\ Content(Replayed(kept)) = Pruned(full, j, E)
        /\ Replayed(kept).finished = PrunedClocks(full, E)
    BY <1>1, <2>1 DEF ContentAgrees, ClocksAgree
  <2> QED BY <1>1, <2>1, <2>2 DEF q, tail
<1>4. CASE E = {}
  <2>1. Legal(base) /\ Replayed(base) = ReplayTo(j, upto)
    BY <1>1, LegalPrefix
  <2>2. SameReplay(Replayed(base), Replayed(kept))
    BY <1>1, <1>4, <2>1, NothingForgotten
  <2>3. Legal(q) /\ SameReplay(full, Replayed(q))
    BY <1>1, <2>1, <2>2, TailSame
  <2> HIDE DEF q, full
  <2>4. /\ Content(Replayed(q)) = Pruned(full, j, E)
        /\ Replayed(q).finished = PrunedClocks(full, E)
    BY <1>4, <2>3, SameContent DEF full
  <2>5. ~Replayed(q).failed
    BY <2>3 DEF SameReplay
  <2> QED BY <1>4, <2>3, <2>4, <2>5 DEF q, full, tail
<1> QED BY <1>3, <1>4

-----------------------------------------------------------------------------
(* The state machine.                                                        *)

JournalInv ==
    /\ now \in Nat
    /\ Legal(journal) /\ replay = Replayed(journal)

PreparedInv ==
    prepared # None =>
        \E E : /\ RewriteOK(journal, now, prepared.upto, prepared.kept, E)
               /\ prepared.exact <=> E # {}

\* A record a verb appends is one of those replay accepts.
LEMMA RecordIs ==
  ASSUME CompactionAssumption, JournalInv, NEW op \in Operations, Record(op)
  PROVE  \E x \in Records :
            /\ Follows(replay, x) /\ Recorded(x)
            /\ journal' = Append(journal, x) /\ replay' = ApplyRecord(replay, x)
            /\ UNCHANGED <<now, prepared, refused>>
<1>1. PICK about \in Subjects(op), arg \in Arguments(op) :
         \E refs \in References(op, about) :
            LET x == [op |-> op, about |-> about, refs |-> refs, arg |-> arg, at |-> now,
                      generation |-> replay.generation + 1]
                next == ApplyRecord(replay, x)
            IN /\ ~next.failed
               /\ Recorded(x)
               /\ journal' = Append(journal, x)
               /\ replay' = next
               /\ UNCHANGED <<now, prepared, refused>>
  BY DEF Record
<1>2. PICK refs \in References(op, about) :
            LET x == [op |-> op, about |-> about, refs |-> refs, arg |-> arg, at |-> now,
                      generation |-> replay.generation + 1]
                next == ApplyRecord(replay, x)
            IN /\ ~next.failed
               /\ Recorded(x)
               /\ journal' = Append(journal, x)
               /\ replay' = next
               /\ UNCHANGED <<now, prepared, refused>>
  BY <1>1
<1> DEFINE x == [op |-> op, about |-> about, refs |-> refs, arg |-> arg, at |-> now,
                 generation |-> replay.generation + 1]
<1>3. /\ ~ApplyRecord(replay, x).failed /\ Recorded(x)
      /\ journal' = Append(journal, x) /\ replay' = ApplyRecord(replay, x)
      /\ UNCHANGED <<now, prepared, refused>>
  BY <1>2
<1>4. /\ x.op = op /\ x.about = about /\ x.refs = refs /\ x.arg = arg /\ x.at = now
      /\ x.generation = replay.generation + 1
  OBVIOUS
<1>5. ReplayOK(replay)
  BY ReplayedOK DEF JournalInv
<1>6. op \in JournalOperations /\ now \in Nat /\ replay.generation + 1 \in Nat
  BY <1>5 DEF CompactionAssumption, JournalInv, ReplayOK
<1>7. x = [op |-> x.op, about |-> x.about, refs |-> x.refs, arg |-> x.arg, at |-> x.at,
           generation |-> x.generation]
  OBVIOUS
<1> HIDE DEF x
<1>8. Accepted(replay, x)
  BY <1>3, AcceptedStep
<1>9. /\ DOMAIN replay.retained \subseteq Reservations /\ IsFiniteSet(DOMAIN replay.retained)
  BY <1>5 DEF ReplayOK
<1>10. /\ about \subseteq Reservations /\ IsFiniteSet(about)
       /\ op = "resolve" => about = {}
       /\ op # "resolve" => about # {}
  <2>1. CASE op = "extent"
    <3>1. about \in (SUBSET Reservations) \ {{}}
      BY <2>1 DEF Subjects
    <3>2. Accepts(replay.retained, x)
      BY <1>4, <1>8, <2>1 DEF Accepted
    <3>3. about \subseteq DOMAIN replay.retained
      BY <1>4, <2>1, <3>2 DEF Accepts
    <3>4. IsFiniteSet(about)
      BY <1>9, <3>3, FS_Subset
    <3> QED BY <2>1, <3>1, <3>4
  <2>2. CASE op = "sequence"
    <3>1. about \subseteq Reservations /\ Cardinality(about) = 2
      BY <2>2 DEF Subjects
    <3>2. about \subseteq DOMAIN replay.retained
      BY <1>3, <1>4, <2>2 DEF Recorded
    <3>3. IsFiniteSet(about)
      BY <1>9, <3>2, FS_Subset
    <3>4. about # {}
      BY <3>1, FS_EmptySet
    <3> QED BY <2>2, <3>1, <3>3, <3>4
  <2>3. CASE op = "resolve"
    <3>1. about = {}
      BY <2>3 DEF Subjects
    <3> QED BY <2>3, <3>1, FS_EmptySet
  <2>4. CASE op \notin {"extent", "sequence", "resolve"}
    <3>1. about \in {{r} : r \in Reservations}
      BY <2>4 DEF Subjects
    <3>2. PICK r \in Reservations : about = {r}
      BY <3>1
    <3> QED BY <2>4, <3>2, FS_Singleton
  <2> QED BY <2>1, <2>2, <2>3, <2>4
<1>11. about \subseteq refs /\ refs \subseteq about \cup DOMAIN replay.retained
       /\ (op \notin {"claim", "incursion"} => refs = about)
  BY DEF References
<1>12. x \in Records
  <2>1. refs \subseteq Reservations /\ (op = "resolve" => refs = {})
    BY <1>9, <1>10, <1>11
  <2>2. arg \in UNION {Arguments(o) : o \in JournalOperations}
    BY <1>6
  <2> QED BY <1>4, <1>6, <1>7, <1>10, <1>11, <2>1, <2>2 DEF Records
<1>13. refs \subseteq DOMAIN ApplyRecord(replay, x).retained
  <2>1. ApplyRecord(replay, x).retained = RetainedAfter(replay.retained, x)
    BY <1>3, AcceptedStep
  <2>2. DOMAIN RetainedAfter(replay.retained, x) =
            IF op = "claim" THEN about \cup DOMAIN replay.retained ELSE DOMAIN replay.retained
    BY <1>4, <1>8, <1>12, RetainedAfterIs
  <2>3. op \notin {"claim", "sequence"} => about \subseteq DOMAIN replay.retained
    BY <1>4, <1>8, <1>12, AboutKnown
  <2>4. op = "sequence" => about \subseteq DOMAIN replay.retained
    BY <1>3, <1>4 DEF Recorded
  <2> QED BY <1>11, <2>1, <2>2, <2>3, <2>4
<1>14. Follows(replay, x)
  BY <1>3, <1>4, <1>13 DEF Follows
<1> QED BY <1>3, <1>12, <1>14

\* What each stage of a reservation can be read from.
Sound(r) ==
    /\ r.stage = "active" => r.tip = FALSE /\ r.base = "claim"
    /\ r.stage = "outstanding" => r.tip = TRUE /\ r.base = "checkpoint"
    /\ r.stage = "released" => \/ r.tip = TRUE /\ r.base = "checkpoint"
                               \/ r.tip = FALSE /\ r.disposition = "decision"
    /\ r.disposition \in Evidenced => r.stage = "released" /\ r.tip = TRUE

AllSound == \A r \in DOMAIN replay.retained : Sound(replay.retained[r])

\* The evidence of a sound reservation can be read.
LEMMA SoundReadable ==
  ASSUME NEW r \in RetainedSet, Sound(r)
  PROVE  EvidenceState(r) # "error"
<1>1. r.stage \in Stages
  BY DEF RetainedSet
<1>2. CASE r.stage = "active"
  BY <1>2 DEF Sound, EvidenceState
<1>3. CASE r.stage = "outstanding"
  BY <1>3 DEF Sound, EvidenceState
<1>4. CASE r.stage = "released"
  BY <1>4 DEF Sound, EvidenceState
<1> QED BY <1>1, <1>2, <1>3, <1>4 DEF Stages

\* A record of an accepted operation leaves its subjects readable.
LEMMA AppliedSound ==
  ASSUME NEW r \in RetainedSet, Sound(r), NEW x \in Records, x.op \notin Unchanging,
         x.op \in {"widen", "retarget"} => r.stage # "released",
         x.op = "checkpoint" => r.stage = "active",
         x.op = "resnapshot" => r.stage = x.arg,
         x.op = "release" => IF x.arg = "decision" THEN r.stage # "released"
                             ELSE r.stage = "outstanding",
         x.op = "replace" => r.stage = "released" /\ x.arg # "integrated" /\ r.disposition \in Evidenced
  PROVE  Sound(Applied(r, x))
<1> DEFINE s == Result(r, x)
<1>1. Applied(r, x) = s
  BY AppliedIs
<1>2. x.op \in JournalOperations /\ x.arg \in Arguments(x.op)
  BY DEF Records
<1>3. /\ r.stage \in Stages /\ r.disposition \in Evidenced \cup {"none", "decision"}
      /\ r.tip \in BOOLEAN /\ r.base \in {"claim", "checkpoint"}
  BY DEF RetainedSet
<1>4. CASE x.op \in {"extent", "renew", "widen", "evidence"}
  <2>1. s.stage = r.stage /\ s.disposition = r.disposition /\ s.tip = r.tip /\ s.base = r.base
    BY <1>4 DEF Result
  <2> HIDE DEF s
  <2> QED BY <1>1, <2>1 DEF Sound
<1>5. CASE x.op = "retarget"
  <2>1. /\ s.stage = r.stage /\ s.disposition = r.disposition /\ s.tip = r.tip
        /\ s.base = IF r.stage = "active" THEN "claim" ELSE "checkpoint"
    BY <1>5 DEF Result
  <2> HIDE DEF s
  <2> QED BY <1>1, <1>3, <1>5, <2>1 DEF Sound, Stages
<1>6. CASE x.op = "checkpoint"
  <2>1. /\ s.stage = "outstanding" /\ s.disposition = r.disposition /\ s.tip = TRUE
        /\ s.base = "checkpoint"
    BY <1>6 DEF Result
  <2> HIDE DEF s
  <2> QED BY <1>1, <1>6, <2>1 DEF Sound
<1>7. CASE x.op = "resnapshot"
  <2>1. /\ s.stage = r.stage /\ s.disposition = r.disposition
        /\ s.tip = IF x.arg # "active" THEN TRUE ELSE r.tip
        /\ s.base = IF x.arg # "active" THEN "checkpoint" ELSE r.base
    BY <1>7 DEF Result
  <2>2. x.arg \in {"active", "outstanding"} /\ r.stage = x.arg
    BY <1>2, <1>7 DEF Arguments
  <2> HIDE DEF s
  <2> QED BY <1>1, <2>1, <2>2 DEF Sound
<1>8. CASE x.op = "release"
  <2>1. s.stage = "released" /\ s.disposition = x.arg /\ s.tip = r.tip /\ s.base = r.base
    BY <1>8 DEF Result
  <2>2. x.arg \in Evidenced \cup {"decision"}
    BY <1>2, <1>8 DEF Arguments
  <2> HIDE DEF s
  <2> QED BY <1>1, <1>3, <1>8, <2>1, <2>2 DEF Sound, Stages, Evidenced
<1>9. CASE x.op = "replace"
  <2>1. s.stage = r.stage /\ s.disposition = x.arg /\ s.tip = r.tip /\ s.base = r.base
    BY <1>9 DEF Result
  <2> HIDE DEF s
  <2> QED BY <1>1, <1>9, <2>1 DEF Sound
<1> QED BY <1>2, <1>4, <1>5, <1>6, <1>7, <1>8, <1>9 DEF JournalOperations, Unchanging

\* A claimed reservation is sound.
LEMMA NewSound == Sound(NewReservation)
BY DEF Sound, NewReservation, Evidenced

\* A record that follows, and that verbs write, keeps reservations sound.
LEMMA RecordSound ==
  ASSUME ReplayOK(replay), AllSound, NEW x \in Records, Follows(replay, x), Recorded(x),
         NEW b, b = ApplyRecord(replay, x)
  PROVE  \A r \in DOMAIN b.retained : Sound(b.retained[r])
<1> SUFFICES ASSUME NEW r \in DOMAIN b.retained PROVE Sound(b.retained[r])
  OBVIOUS
<1> DEFINE a == replay
<1>1. b.retained[r] = IF r \in x.about /\ x.op = "claim" THEN NewReservation
                      ELSE IF r \in x.about /\ x.op \notin Unchanging
                      THEN Applied(a.retained[r], x) ELSE a.retained[r]
  BY RetainedStep DEF Follows
<1>2. DOMAIN b.retained = IF x.op = "claim" THEN x.about \cup DOMAIN a.retained
                          ELSE DOMAIN a.retained
  BY KnownAfter
<1>3. CASE r \in x.about /\ x.op = "claim"
  BY <1>1, <1>3, NewSound
<1>4. CASE r \in x.about /\ x.op \notin Unchanging
  <2> DEFINE e == a.retained[r]
  <2>1. r \in DOMAIN a.retained
    BY <1>2, <1>4 DEF Unchanging
  <2>2. e \in RetainedSet /\ Sound(e)
    BY <2>1 DEF ReplayOK, AllSound
  <2>3. x.op \in JournalOperations
    BY DEF Records
  <2>4. Accepts(a.retained, x)
    <3>1. Accepted(a, x)
      BY AcceptedStep DEF Follows
    <3> QED BY <1>4, <3>1 DEF Accepted, Unchanging
  <2>5. x.op \in {"widen", "retarget"} => e.stage # "released"
    BY <1>4, <2>4 DEF Accepts
  <2>6. x.op = "checkpoint" => e.stage = "active"
    BY <1>4, <2>4 DEF Accepts
  <2>7. x.op = "resnapshot" => e.stage = x.arg
    BY <1>4, <2>4 DEF Accepts
  <2>8. x.op = "release" => IF x.arg = "decision" THEN e.stage # "released"
                            ELSE e.stage = "outstanding"
    BY <1>4, <2>4 DEF Accepts
  <2>9. x.op = "replace" =>
           e.stage = "released" /\ x.arg # "integrated" /\ e.disposition \in Evidenced
    <3> SUFFICES ASSUME x.op = "replace"
                 PROVE  e.stage = "released" /\ x.arg # "integrated" /\ e.disposition \in Evidenced
      OBVIOUS
    <3>1. e.stage = "released" /\ x.arg # "integrated"
      BY <1>4, <2>4 DEF Accepts
    <3>2. e.disposition \in Evidenced
      BY <1>4 DEF Recorded
    <3> QED BY <3>1, <3>2
  <2>10. b.retained[r] = Applied(e, x)
    BY <1>1, <1>4 DEF Unchanging
  <2> HIDE DEF e
  <2> QED BY <1>4, <2>2, <2>5, <2>6, <2>7, <2>8, <2>9, <2>10, AppliedSound
<1>5. CASE ~(r \in x.about /\ x.op = "claim") /\ ~(r \in x.about /\ x.op \notin Unchanging)
  <2>1. b.retained[r] = a.retained[r] /\ r \in DOMAIN a.retained
    BY <1>1, <1>2, <1>5
  <2> QED BY <2>1 DEF AllSound
<1> QED BY <1>3, <1>4, <1>5

\* The inductive invariant.  A journal is legal and the replay is its own; the
\* rewrite that was verified stays publishable; every reservation is readable.
CompactionInv == JournalInv /\ PreparedInv /\ AllSound

\* An empty journal is legal.
LEMMA InvInit == Init => CompactionInv
<1> SUFFICES ASSUME Init PROVE CompactionInv
  OBVIOUS
<1>1. journal = <<>> /\ replay = EmptyReplay /\ now = 0 /\ prepared = None
  BY DEF Init
<1>2. Legal(<<>>)
  BY DEF Legal
<1>3. DOMAIN EmptyReplay.retained = {}
  BY DEF EmptyReplay
<1>4. JournalInv
  BY <1>1, <1>2, ReplayNothing DEF JournalInv
<1>5. AllSound
  BY <1>1, <1>3 DEF AllSound
<1> QED BY <1>1, <1>4, <1>5 DEF CompactionInv, PreparedInv

\* A rewrite that passes its verification can be published.
LEMMA PrepareIs ==
  ASSUME CompactionAssumption, JournalInv, Prepare
  PROVE  \/ UNCHANGED prepared
         \/ /\ RewriteOK(journal, now, prepared'.upto, prepared'.kept, Expired(replay, journal))
            /\ prepared'.exact <=> Expired(replay, journal) # {}
<1> DEFINE E == Expired(replay, journal)
           p == Kept(replay, journal, E)
<1>1. \/ UNCHANGED prepared
      \/ /\ ContentAgrees(replay, journal, E) /\ ClocksAgree(replay, journal, E)
         /\ prepared' = [kept |-> p, upto |-> Len(journal), exact |-> E # {}]
  BY DEF Prepare
<1>2. Legal(journal) /\ replay = Replayed(journal) /\ now \in Nat
  BY DEF JournalInv
<1>3. /\ ReplayOK(replay) /\ Len(journal) \in Nat /\ journal \in Seq(Records)
  BY <1>2, ReplayedOK DEF Legal
<1>4. Excludes(journal, E) /\ E \cap Seeds(replay, journal) = {}
  BY <1>2, ExpiredExcludes
<1>5. E \subseteq DOMAIN replay.retained
  BY <1>2, <1>4 DEF Excludes
<1> HIDE DEF E
<1>6. Legal(p) /\ \A k \in 1 .. Len(p) : RefsOf(replay, p[k]) \cap E = {}
  BY <1>2, <1>4, ContentExact
<1>7. \A r \in E : /\ r \in DOMAIN replay.finished /\ now - replay.finished[r] > Retention
                   /\ r \notin OpenIncidents(replay)
  <2> SUFFICES ASSUME NEW r \in E
               PROVE  /\ r \in DOMAIN replay.finished /\ now - replay.finished[r] > Retention
                      /\ r \notin OpenIncidents(replay)
    OBVIOUS
  <2>1. r \notin Recent(replay) /\ r \notin OpenIncidents(replay) /\ r \in DOMAIN replay.retained
    BY <1>4, <1>5 DEF Seeds
  <2>2. r \in DOMAIN replay.finished /\ ~(now - replay.finished[r] <= Retention)
    BY <2>1 DEF Recent
  <2>3. replay.finished[r] \in Nat
    BY <1>3, <2>2 DEF ReplayOK
  <2>4. now - replay.finished[r] > Retention
    BY <1>2, <2>2, <2>3 DEF CompactionAssumption
  <2> QED BY <2>1, <2>2, <2>4
<1>8. SubSeq(journal, 1, Len(journal)) = journal /\ Len(journal) \in 0 .. Len(journal)
  BY <1>3
<1> HIDE DEF p
<1>9. CASE UNCHANGED prepared
  BY <1>9
<1>10. CASE /\ ContentAgrees(replay, journal, E) /\ ClocksAgree(replay, journal, E)
            /\ prepared' = [kept |-> p, upto |-> Len(journal), exact |-> E # {}]
  <2>1. prepared'.kept = p /\ prepared'.upto = Len(journal) /\ (prepared'.exact <=> E # {})
    BY <1>10
  <2>2. RewriteOK(journal, now, Len(journal), p, E)
    BY <1>2, <1>5, <1>6, <1>7, <1>8, <1>10 DEF RewriteOK, p
  <2> QED BY <2>1, <2>2 DEF E
<1> QED BY <1>1, <1>9, <1>10

\* What publishing does to the replay.
Forgets(E) ==
    /\ E \subseteq DOMAIN replay.retained
    /\ ~replay'.failed
    /\ Content(replay') = Pruned(replay, journal, E)
    /\ replay'.finished = PrunedClocks(replay, E)
    /\ \A r \in E : /\ r \in DOMAIN replay.finished /\ now - replay.finished[r] > Retention
                    /\ r \notin OpenIncidents(replay)
    /\ \A k \in DOMAIN journal' : RefsOf(replay, journal'[k]) \cap E = {}

\* What a publication does to the journal and its replay.
LEMMA PublishIs ==
  ASSUME JournalInv, PreparedInv, Publish
  PROVE  Legal(journal') /\ replay' = Replayed(journal') /\ \E E : Forgets(E)
<1>1. /\ prepared # None /\ TailAdmitted /\ journal' = Rewrite /\ replay' = Replayed(journal')
  BY DEF Publish
<1>2. PICK E : /\ RewriteOK(journal, now, prepared.upto, prepared.kept, E)
               /\ prepared.exact <=> E # {}
  BY <1>1 DEF PreparedInv
<1>3. Len(journal) = prepared.upto \/ E = {}
  BY <1>1, <1>2 DEF TailAdmitted
<1>4. Legal(journal) /\ replay = Replayed(journal)
  BY DEF JournalInv
<1> DEFINE u == prepared.upto
           p == prepared.kept
           q == p \o SubSeq(journal, u + 1, Len(journal))
<1>5. journal' = q
  BY <1>1 DEF Rewrite, CommittedSince
<1>6. RewriteOK(journal, now, u, p, E) /\ (u = Len(journal) \/ E = {})
  BY <1>2, <1>3
<1> HIDE DEF u, p
<1>7. /\ Legal(q) /\ ~Replayed(q).failed
      /\ E \subseteq DOMAIN replay.retained
      /\ Content(Replayed(q)) = Pruned(replay, journal, E)
      /\ Replayed(q).finished = PrunedClocks(replay, E)
      /\ \A r \in E : /\ r \in DOMAIN replay.finished /\ now - replay.finished[r] > Retention
                      /\ r \notin OpenIncidents(replay)
      /\ \A k \in DOMAIN q : RefsOf(replay, q[k]) \cap E = {}
  BY <1>4, <1>6, RewriteExact
<1> HIDE DEF q
<1>8. Forgets(E)
  BY <1>1, <1>5, <1>7 DEF Forgets
<1> QED BY <1>1, <1>5, <1>7, <1>8

\* What is forgotten is what is no longer retained, and the rest is as it was.
LEMMA ForgetsRetained ==
  ASSUME NEW E, Forgets(E)
  PROVE  /\ DOMAIN replay'.retained = DOMAIN replay.retained \ E
         /\ \A r \in DOMAIN replay'.retained : replay'.retained[r] = replay.retained[r]
         /\ DOMAIN replay.retained \ DOMAIN replay'.retained = E
<1>1. Content(replay').reservations = Pruned(replay, journal, E).reservations
  BY DEF Forgets
<1>2. replay'.retained = [r \in DOMAIN replay.retained \ E |-> replay.retained[r]]
  BY <1>1 DEF Content, Pruned
<1>3. E \subseteq DOMAIN replay.retained
  BY DEF Forgets
<1> QED BY <1>2, <1>3

\* Every action keeps the invariant.
LEMMA InvNext ==
  ASSUME CompactionAssumption, CompactionInv, [Next]_vars
  PROVE  CompactionInv'
<1>0. JournalInv /\ PreparedInv /\ AllSound
  BY DEF CompactionInv
<1>i. /\ Legal(journal) /\ replay = Replayed(journal) /\ now \in Nat
      /\ journal \in Seq(Records) /\ ReplayOK(replay)
  BY <1>0, ReplayedOK DEF JournalInv, Legal
<1>1. ASSUME NEW op \in Operations, Record(op) PROVE CompactionInv'
  <2>1. PICK x \in Records :
           /\ Follows(replay, x) /\ Recorded(x)
           /\ journal' = Append(journal, x) /\ replay' = ApplyRecord(replay, x)
           /\ UNCHANGED <<now, prepared, refused>>
    BY <1>0, <1>1, RecordIs
  <2>2. JournalInv'
    <3>1. Legal(Append(journal, x)) /\ Replayed(Append(journal, x)) = ApplyRecord(replay, x)
      BY <1>i, <2>1, LegalAppend
    <3> QED BY <1>i, <2>1, <3>1 DEF JournalInv
  <2>3. PreparedInv'
    <3> SUFFICES ASSUME prepared # None
                 PROVE  \E E : /\ RewriteOK(Append(journal, x), now, prepared.upto, prepared.kept, E)
                               /\ prepared.exact <=> E # {}
      BY <2>1 DEF PreparedInv
    <3>1. PICK E : /\ RewriteOK(journal, now, prepared.upto, prepared.kept, E)
                   /\ prepared.exact <=> E # {}
      BY <1>0 DEF PreparedInv
    <3>2. RewriteOK(Append(journal, x), now, prepared.upto, prepared.kept, E)
      BY <1>i, <2>1, <3>1, RewriteStable
    <3> QED BY <3>1, <3>2
  <2>4. AllSound'
    <3>1. \A r \in DOMAIN replay'.retained : Sound(replay'.retained[r])
      BY <1>0, <1>i, <2>1, RecordSound
    <3> QED BY <3>1 DEF AllSound
  <2> QED BY <2>2, <2>3, <2>4 DEF CompactionInv
<1>2. ASSUME Tick PROVE CompactionInv'
  <2>1. now' = now + 1 /\ UNCHANGED <<journal, replay, prepared, refused>>
    BY <1>2 DEF Tick
  <2>2. JournalInv'
    BY <1>i, <2>1 DEF JournalInv
  <2>3. PreparedInv'
    <3> SUFFICES ASSUME prepared # None
                 PROVE  \E E : /\ RewriteOK(journal, now + 1, prepared.upto, prepared.kept, E)
                               /\ prepared.exact <=> E # {}
      BY <2>1 DEF PreparedInv
    <3>1. PICK E : /\ RewriteOK(journal, now, prepared.upto, prepared.kept, E)
                   /\ prepared.exact <=> E # {}
      BY <1>0 DEF PreparedInv
    <3>2. Retention \in Nat
      BY DEF CompactionAssumption
    <3>3. RewriteOK(journal, now + 1, prepared.upto, prepared.kept, E)
      BY <1>i, <3>1, <3>2, RewriteLater
    <3> QED BY <3>1, <3>3
  <2>4. AllSound'
    BY <1>0, <2>1 DEF AllSound
  <2> QED BY <2>2, <2>3, <2>4 DEF CompactionInv
<1>3. ASSUME Prepare PROVE CompactionInv'
  <2>1. UNCHANGED <<journal, replay, now>>
    BY <1>3 DEF Prepare
  <2>2. JournalInv' /\ AllSound'
    BY <1>0, <2>1 DEF JournalInv, AllSound
  <2>3. \/ UNCHANGED prepared
        \/ /\ RewriteOK(journal, now, prepared'.upto, prepared'.kept, Expired(replay, journal))
           /\ prepared'.exact <=> Expired(replay, journal) # {}
    BY <1>0, <1>3, PrepareIs
  <2>4. PreparedInv'
    BY <1>0, <2>1, <2>3 DEF PreparedInv
  <2> QED BY <2>2, <2>4 DEF CompactionInv
<1>4. ASSUME Publish PROVE CompactionInv'
  <2>1. prepared' = None /\ UNCHANGED <<now, refused>>
    BY <1>4 DEF Publish
  <2>2. Legal(journal') /\ replay' = Replayed(journal') /\ \E E : Forgets(E)
    BY <1>0, <1>4, PublishIs
  <2>3. PICK E : Forgets(E)
    BY <2>2
  <2>4. JournalInv'
    BY <1>i, <2>1, <2>2 DEF JournalInv
  <2>5. PreparedInv'
    BY <2>1 DEF PreparedInv
  <2>6. /\ DOMAIN replay'.retained = DOMAIN replay.retained \ E
        /\ \A r \in DOMAIN replay'.retained : replay'.retained[r] = replay.retained[r]
    BY <2>3, ForgetsRetained
  <2>7. AllSound'
    BY <1>0, <2>6 DEF AllSound
  <2> QED BY <2>4, <2>5, <2>7 DEF CompactionInv
<1>5. ASSUME Lose PROVE CompactionInv'
  <2>1. prepared' = None /\ UNCHANGED <<journal, replay, now, refused>>
    BY <1>5 DEF Lose
  <2> QED BY <1>0, <2>1 DEF CompactionInv, JournalInv, PreparedInv, AllSound
<1>6. ASSUME UNCHANGED vars PROVE CompactionInv'
  BY <1>0, <1>6 DEF vars, CompactionInv, JournalInv, PreparedInv, AllSound
<1> QED BY <1>1, <1>2, <1>3, <1>4, <1>5, <1>6 DEF Next

-----------------------------------------------------------------------------
(* Theorems.                                                                 *)

\* However verbs, ticks and compactions interleave, the journal on disk is a
\* legal one, of records that replay accepts one after another, and what was
\* verified of a rewrite still holds of the prefix it was made from.
THEOREM LegalJournals == Spec => []CompactionInv
<1>1. CompactionInv /\ [Next]_vars => CompactionInv'
  BY CompactionAssumption, InvNext
<1> QED BY <1>1, InvInit, PTL DEF Spec

\* Replay never fails on the journal, and every retained reservation's evidence
\* can be read back, after any records and any compactions.
THEOREM AlwaysReadable == Spec => []EvidenceReadable
<1>1. CompactionInv => EvidenceReadable
  <2> SUFFICES ASSUME CompactionInv PROVE EvidenceReadable
    OBVIOUS
  <2>1. ReplayOK(replay) /\ AllSound
    BY ReplayedOK DEF CompactionInv, JournalInv
  <2>2. \A r \in DOMAIN replay.retained :
           replay.retained[r] \in RetainedSet /\ Sound(replay.retained[r])
    BY <2>1 DEF ReplayOK, AllSound
  <2>3. ~replay.failed
    BY <2>1 DEF ReplayOK
  <2> QED BY <2>2, <2>3, SoundReadable DEF EvidenceReadable
<1> QED BY <1>1, LegalJournals, PTL

\* The count of droppable observations, from which compaction decides whether to
\* run, is the number of records it would drop.
THEOREM AlwaysCounted == Spec => []DroppableExact
<1>1. CompactionInv => DroppableExact
  <2> SUFFICES ASSUME CompactionInv PROVE DroppableExact
    OBVIOUS
  <2> DEFINE s == replay.superseded
  <2>1. Legal(journal) /\ replay = Replayed(journal)
    BY DEF CompactionInv, JournalInv
  <2>2. /\ s.droppable = Cardinality({o \in DOMAIN journal : ~KeepsObservation(replay, journal, o)})
        /\ \A q \in DOMAIN s.live : s.live[q] = Named(s.latest, q) + Named(s.roots, q)
    BY <2>1, AccountExact
  <2> QED BY <2>2 DEF DroppableExact, Named, Naming
<1> QED BY <1>1, LegalJournals, PTL

\* What is published replays to what it replaced, without the forgotten
\* reservations, whatever was committed while it was verified.
THEOREM AlwaysAgrees == Spec => PublishedAgrees
<1> DEFINE A == prepared # None /\ journal' # journal /\ prepared' = None =>
                   LET expired == DOMAIN replay.retained \ DOMAIN replay'.retained
                   IN /\ ~replay'.failed
                      /\ Content(replay') = Pruned(replay, journal, expired)
                      /\ replay'.finished = PrunedClocks(replay, expired)
<1>1. ASSUME CompactionInv, [Next]_vars PROVE [A]_vars
  <2> SUFFICES ASSUME Next, prepared # None, journal' # journal, prepared' = None
               PROVE  LET expired == DOMAIN replay.retained \ DOMAIN replay'.retained
                      IN /\ ~replay'.failed
                         /\ Content(replay') = Pruned(replay, journal, expired)
                         /\ replay'.finished = PrunedClocks(replay, expired)
    BY <1>1
  <2>1. Publish
    BY DEF Next, Record, Tick, Prepare, Lose
  <2>2. PICK E : Forgets(E)
    BY <1>1, <2>1, PublishIs DEF CompactionInv
  <2>3. DOMAIN replay.retained \ DOMAIN replay'.retained = E
    BY <2>2, ForgetsRetained
  <2> QED BY <2>2, <2>3 DEF Forgets
<1> QED BY <1>1, LegalJournals, PTL DEF Spec, PublishedAgrees

\* The plan of a compaction is right about everything but the clocks.
THEOREM ContentNeverRefused == Spec => OnlyClocksRefuse
<1> DEFINE A == refused' /\ ~refused => ContentAgrees(replay, journal, Expired(replay, journal))
<1>1. ASSUME CompactionInv, [Next]_vars PROVE [A]_vars
  <2>1. Legal(journal) /\ replay = Replayed(journal)
    BY <1>1 DEF CompactionInv, JournalInv
  <2>2. ContentAgrees(replay, journal, Expired(replay, journal))
    BY <2>1, ExpiredExcludes, ContentExact
  <2> QED BY <2>2
<1> QED BY <1>1, LegalJournals, PTL DEF Spec, OnlyClocksRefuse

\* Nothing is forgotten before its time, while an open incident names it, or
\* while a record that names it stays behind.
THEOREM AlwaysAudited == Spec => AuditRetained
<1> DEFINE A == \A r \in DOMAIN replay.retained \ DOMAIN replay'.retained :
                   /\ r \in DOMAIN replay.finished /\ now - replay.finished[r] > Retention
                   /\ r \notin OpenIncidents(replay)
                   /\ \A o \in DOMAIN journal' : r \notin RefsOf(replay, journal'[o])
<1>1. ASSUME CompactionInv, [Next]_vars PROVE [A]_vars
  <2> SUFFICES ASSUME Next, NEW r \in DOMAIN replay.retained \ DOMAIN replay'.retained
               PROVE  /\ r \in DOMAIN replay.finished /\ now - replay.finished[r] > Retention
                      /\ r \notin OpenIncidents(replay)
                      /\ \A o \in DOMAIN journal' : r \notin RefsOf(replay, journal'[o])
    BY <1>1
  <2>1. CASE Publish
    <3>1. PICK E : Forgets(E)
      BY <1>1, <2>1, PublishIs DEF CompactionInv
    <3>2. r \in E
      BY <3>1, ForgetsRetained
    <3> QED BY <3>1, <3>2 DEF Forgets
  <2>2. ASSUME NEW op \in Operations, Record(op) PROVE FALSE
    <3>1. JournalInv
      BY <1>1 DEF CompactionInv
    <3>2. PICK x \in Records : Follows(replay, x) /\ replay' = ApplyRecord(replay, x)
      BY <2>2, <3>1, CompactionAssumption, RecordIs
    <3>3. ReplayOK(replay)
      BY <3>1, ReplayedOK DEF JournalInv
    <3> QED BY <3>2, <3>3, KnownAfter
  <2>3. CASE replay' = replay
    BY <2>3
  <2>4. Tick \/ Prepare \/ Lose => replay' = replay
    BY DEF Tick, Prepare, Lose
  <2> QED BY <2>1, <2>2, <2>3, <2>4 DEF Next
<1> QED BY <1>1, LegalJournals, PTL DEF Spec, AuditRetained
=============================================================================
