------------------------- MODULE MutationLockProofs -------------------------
(***************************************************************************)
(* What MutationLock promises for any number of callers and descriptors,   *)
(* and that it implements the lock BerthLedger takes in one step.          *)
(***************************************************************************)
EXTENDS MutationLock, TLAPS

\* A caller's descriptor is open in its own process: no two callers share one.
OwnDescriptor == \A c \in Callers : desc[c] # None => opener[desc[c]] = c

\* Only a caller that queued has a thread or a channel.
Unqueued ==
    \A c \in Callers : pc[c] \in {"trying", "holding"} =>
        worker[desc[c]] = "none" /\ channel[desc[c]] = "none"

\* A caller that waits has a live channel.
Awaited ==
    \A c \in Callers : pc[c] \in {"waiting", "expired"} =>
        channel[desc[c]] \in {"empty", "grant", "error"}

\* A live channel has a caller that will read it, a thread one to answer.
Served ==
    \A d \in Descriptors :
        /\ channel[d] \in {"empty", "grant", "error"} =>
              /\ opener[d] \in Callers
              /\ desc[opener[d]] = d
              /\ pc[opener[d]] \in {"waiting", "expired"}
        /\ worker[d] # "none" => channel[d] \in {"empty", "closed"}

\* Whoever was granted the lock, or was sent the grant, still has it.
GrantOwned ==
    \A d \in Descriptors : worker[d] = "granted" \/ channel[d] = "grant" => owner = d

\* The inductive invariant.
LockInv ==
    /\ TypeOK /\ OwnDescriptor /\ Unqueued /\ Awaited /\ Served
    /\ GrantOwned /\ HolderOwns /\ NoOrphanedGrant

----------------------------------------------------------------------------
\* The initial state: nothing is open.
LEMMA Initial == Init => LockInv
BY LockAssumption DEF Init, LockInv, TypeOK, OwnDescriptor, Unqueued, Awaited, Served,
                      GrantOwned, HolderOwns, NoOrphanedGrant

\* A caller that closes its own descriptor orphans nobody else's grant.
LEMMA DropKeepsGrants ==
    ASSUME LockInv, NEW c \in Callers, desc[c] # None,
           Closed({desc[c]}), Return(c, "idle", None)
    PROVE  NoOrphanedGrant'
<1> USE LockAssumption DEF LockInv
<1> SUFFICES ASSUME owner' # None PROVE NoOrphanedGrant'
  BY DEF NoOrphanedGrant
<1>1. owner' = owner /\ owner \in Descriptors /\ owner # desc[c]
  BY DEF Closed, TypeOK
<1>2. worker'[owner] = worker[owner] /\ channel'[owner] = channel[owner]
  BY <1>1 DEF Closed
<1>3. \A e \in Callers : desc[e] = owner => pc'[e] = pc[e] /\ desc'[e] = desc[e]
  BY <1>1 DEF Return, TypeOK
<1> QED
  BY <1>1, <1>2, <1>3 DEF NoOrphanedGrant

\* Every action keeps the invariant.
LEMMA Inductive == LockInv /\ [Next]_vars => LockInv'
<1> SUFFICES ASSUME LockInv, [Next]_vars PROVE LockInv'
  OBVIOUS
<1> USE LockAssumption DEF LockInv
<1>1. ASSUME NEW c \in Callers, Open(c) PROVE LockInv'
  <2>1. TypeOK'
    BY <1>1 DEF Open, Return, TypeOK
  <2>2. OwnDescriptor'
    BY <1>1 DEF Open, Return, TypeOK, OwnDescriptor
  <2>3. Unqueued'
    BY <1>1 DEF Open, Return, TypeOK, Unqueued
  <2>4. Awaited'
    BY <1>1 DEF Open, Return, TypeOK, OwnDescriptor, Awaited
  <2>5. Served'
    BY <1>1 DEF Open, Return, Served
  <2>6. GrantOwned'
    BY <1>1 DEF Open, GrantOwned
  <2>7. HolderOwns'
    BY <1>1 DEF Open, Return, HolderOwns
  <2>8. NoOrphanedGrant'
    BY <1>1 DEF Open, Return, NoOrphanedGrant
  <2> QED BY <2>1, <2>2, <2>3, <2>4, <2>5, <2>6, <2>7, <2>8
<1>2. ASSUME NEW c \in Callers, TryLock(c) PROVE LockInv'
  <2>1. TypeOK'
    BY <1>2 DEF TryLock, Return, TypeOK
  <2>2. OwnDescriptor'
    BY <1>2 DEF TryLock, Return, OwnDescriptor
  <2>3. Unqueued'
    BY <1>2 DEF TryLock, Return, Unqueued
  <2>4. Awaited'
    BY <1>2 DEF TryLock, Return, TypeOK, OwnDescriptor, Awaited
  <2>5. Served'
    BY <1>2 DEF TryLock, Return, Served
  <2>6. GrantOwned'
    BY <1>2 DEF TryLock, GrantOwned
  <2>7. HolderOwns'
    BY <1>2 DEF TryLock, Return, TypeOK, HolderOwns
  <2>8. NoOrphanedGrant'
    BY <1>2 DEF TryLock, Return, TypeOK, NoOrphanedGrant
  <2> QED BY <2>1, <2>2, <2>3, <2>4, <2>5, <2>6, <2>7, <2>8
<1>3. ASSUME NEW c \in Callers, RefuseToWait(c) PROVE LockInv'
  <2>1. TypeOK'
    BY <1>3 DEF RefuseToWait, Closed, Return, TypeOK
  <2>2. OwnDescriptor'
    BY <1>3 DEF RefuseToWait, Closed, Return, TypeOK, OwnDescriptor
  <2>3. Unqueued'
    BY <1>3 DEF RefuseToWait, Closed, Return, TypeOK, Unqueued
  <2>4. Awaited'
    BY <1>3 DEF RefuseToWait, Closed, Return, TypeOK, OwnDescriptor, Awaited
  <2>5. Served'
    BY <1>3 DEF RefuseToWait, Closed, Return, Served
  <2>6. GrantOwned'
    BY <1>3 DEF RefuseToWait, Closed, GrantOwned
  <2>7. HolderOwns'
    BY <1>3 DEF RefuseToWait, Closed, Return, OwnDescriptor, HolderOwns
  <2>8. NoOrphanedGrant'
    BY <1>3, DropKeepsGrants DEF RefuseToWait, TypeOK
  <2> QED BY <2>1, <2>2, <2>3, <2>4, <2>5, <2>6, <2>7, <2>8
<1>4. ASSUME NEW c \in Callers, Queue(c) PROVE LockInv'
  <2>1. TypeOK'
    BY <1>4 DEF Queue, Return, TypeOK, OwnDescriptor
  <2>2. OwnDescriptor'
    BY <1>4 DEF Queue, Return, OwnDescriptor
  <2>3. Unqueued'
    BY <1>4 DEF Queue, Return, TypeOK, OwnDescriptor, Unqueued
  <2>4. Awaited'
    BY <1>4 DEF Queue, Return, TypeOK, OwnDescriptor, Awaited
  <2>5. Served'
    BY <1>4 DEF Queue, Return, TypeOK, OwnDescriptor, Served
  <2>6. GrantOwned'
    BY <1>4 DEF Queue, GrantOwned
  <2>7. HolderOwns'
    BY <1>4 DEF Queue, Return, HolderOwns
  <2>8. NoOrphanedGrant'
    BY <1>4 DEF Queue, Return, Unqueued, NoOrphanedGrant
  <2> QED BY <2>1, <2>2, <2>3, <2>4, <2>5, <2>6, <2>7, <2>8
<1>5. ASSUME NEW c \in Callers, Receive(c) PROVE LockInv'
  <2>1. TypeOK'
    BY <1>5 DEF Receive, Closed, Return, TypeOK
  <2>2. OwnDescriptor'
    BY <1>5 DEF Receive, Closed, Return, TypeOK, OwnDescriptor
  <2>3. Unqueued'
    BY <1>5 DEF Receive, Closed, Return, TypeOK, Unqueued, Served
  <2>4. Awaited'
    BY <1>5 DEF Receive, Closed, Return, TypeOK, OwnDescriptor, Awaited, Unqueued
  <2>5. Served'
    BY <1>5 DEF Receive, Closed, Return, TypeOK, Served
  <2>6. GrantOwned'
    BY <1>5 DEF Receive, Closed, TypeOK, GrantOwned
  <2>7. HolderOwns'
    BY <1>5 DEF Receive, Closed, Return, TypeOK, Unqueued, GrantOwned, HolderOwns
  <2>8. NoOrphanedGrant'
    <3>1. CASE channel[desc[c]] = "error"
      BY <1>5, <3>1, DropKeepsGrants DEF Receive, TypeOK
    <3>2. CASE channel[desc[c]] = "grant"
      <4>1. pc'[c] = "holding" /\ desc'[c] = desc[c] /\ owner' = owner
        BY <1>5, <3>2 DEF Receive, Return, TypeOK
      <4>2. owner = desc[c]
        BY <1>5, <3>2 DEF Receive, GrantOwned, TypeOK
      <4> QED BY <4>1, <4>2 DEF NoOrphanedGrant
    <3> QED BY <1>5, <3>1, <3>2 DEF Receive
  <2> QED BY <2>1, <2>2, <2>3, <2>4, <2>5, <2>6, <2>7, <2>8
<1>6. ASSUME NEW c \in Callers, DropReceiver(c) PROVE LockInv'
  <2>1. TypeOK'
    BY <1>6 DEF DropReceiver, Closed, Return, TypeOK
  <2>2. OwnDescriptor'
    BY <1>6 DEF DropReceiver, Closed, Return, TypeOK, OwnDescriptor
  <2>3. Unqueued'
    BY <1>6 DEF DropReceiver, Closed, Return, TypeOK, Unqueued
  <2>4. Awaited'
    BY <1>6 DEF DropReceiver, Closed, Return, TypeOK, OwnDescriptor, Awaited
  <2>5. Served'
    BY <1>6 DEF DropReceiver, Closed, Return, TypeOK, Served
  <2>6. GrantOwned'
    BY <1>6 DEF DropReceiver, Closed, TypeOK, GrantOwned
  <2>7. HolderOwns'
    BY <1>6 DEF DropReceiver, Closed, Return, OwnDescriptor, HolderOwns
  <2>8. NoOrphanedGrant'
    <3>1. CASE channel[desc[c]] = "empty"
      BY <1>6, <3>1 DEF DropReceiver, Return, TypeOK, NoOrphanedGrant
    <3>2. CASE channel[desc[c]] # "empty"
      BY <1>6, <3>2, DropKeepsGrants DEF DropReceiver, TypeOK
    <3> QED BY <3>1, <3>2
  <2> QED BY <2>1, <2>2, <2>3, <2>4, <2>5, <2>6, <2>7, <2>8
<1>7. ASSUME NEW c \in Callers, Unlock(c) PROVE LockInv'
  <2>1. TypeOK'
    BY <1>7 DEF Unlock, Closed, Return, TypeOK
  <2>2. OwnDescriptor'
    BY <1>7 DEF Unlock, Closed, Return, TypeOK, OwnDescriptor
  <2>3. Unqueued'
    BY <1>7 DEF Unlock, Closed, Return, TypeOK, Unqueued
  <2>4. Awaited'
    BY <1>7 DEF Unlock, Closed, Return, TypeOK, OwnDescriptor, Awaited
  <2>5. Served'
    BY <1>7 DEF Unlock, Closed, Return, Served
  <2>6. GrantOwned'
    BY <1>7 DEF Unlock, Closed, GrantOwned
  <2>7. HolderOwns'
    BY <1>7 DEF Unlock, Return, TypeOK, OwnDescriptor, HolderOwns
  <2>8. NoOrphanedGrant'
    BY <1>7, DropKeepsGrants DEF Unlock, TypeOK
  <2> QED BY <2>1, <2>2, <2>3, <2>4, <2>5, <2>6, <2>7, <2>8
<1>8. ASSUME NEW c \in Callers, Expire(c) PROVE LockInv'
  <2>1. TypeOK'
    BY <1>8 DEF Expire, Return, TypeOK
  <2>2. OwnDescriptor'
    BY <1>8 DEF Expire, Return, OwnDescriptor
  <2>3. Unqueued'
    BY <1>8 DEF Expire, Return, Unqueued
  <2>4. Awaited'
    BY <1>8 DEF Expire, Return, TypeOK, OwnDescriptor, Awaited
  <2>5. Served'
    BY <1>8 DEF Expire, Return, Served
  <2>6. GrantOwned'
    BY <1>8 DEF Expire, GrantOwned
  <2>7. HolderOwns'
    BY <1>8 DEF Expire, Return, HolderOwns
  <2>8. NoOrphanedGrant'
    BY <1>8 DEF Expire, Return, NoOrphanedGrant
  <2> QED BY <2>1, <2>2, <2>3, <2>4, <2>5, <2>6, <2>7, <2>8
<1>9. ASSUME NEW c \in Callers, FailToQueue(c) PROVE LockInv'
  <2>1. TypeOK'
    BY <1>9 DEF FailToQueue, Closed, Return, TypeOK
  <2>2. OwnDescriptor'
    BY <1>9 DEF FailToQueue, Closed, Return, TypeOK, OwnDescriptor
  <2>3. Unqueued'
    BY <1>9 DEF FailToQueue, Closed, Return, TypeOK, Unqueued
  <2>4. Awaited'
    BY <1>9 DEF FailToQueue, Closed, Return, TypeOK, OwnDescriptor, Awaited
  <2>5. Served'
    BY <1>9 DEF FailToQueue, Closed, Return, Served
  <2>6. GrantOwned'
    BY <1>9 DEF FailToQueue, Closed, GrantOwned
  <2>7. HolderOwns'
    BY <1>9 DEF FailToQueue, Closed, Return, OwnDescriptor, HolderOwns
  <2>8. NoOrphanedGrant'
    BY <1>9, DropKeepsGrants DEF FailToQueue, TypeOK
  <2> QED BY <2>1, <2>2, <2>3, <2>4, <2>5, <2>6, <2>7, <2>8
<1>10. ASSUME NEW c \in Callers, Exit(c) PROVE LockInv'
  <2>1. TypeOK'
    BY <1>10 DEF Exit, Closed, Return, TypeOK
  <2>2. OwnDescriptor'
    BY <1>10 DEF Exit, Closed, Return, TypeOK, OwnDescriptor
  <2>3. Unqueued'
    BY <1>10 DEF Exit, Closed, Return, TypeOK, Unqueued
  <2>4. Awaited'
    BY <1>10 DEF Exit, Closed, Return, TypeOK, OwnDescriptor, Awaited
  <2>5. Served'
    BY <1>10 DEF Exit, Closed, Return, Served
  <2>6. GrantOwned'
    BY <1>10 DEF Exit, Closed, GrantOwned
  <2>7. HolderOwns'
    BY <1>10 DEF Exit, Closed, Return, TypeOK, OwnDescriptor, HolderOwns
  <2>8. NoOrphanedGrant'
    BY <1>10 DEF Exit, Closed, Return, TypeOK, OwnDescriptor, NoOrphanedGrant
  <2> QED BY <2>1, <2>2, <2>3, <2>4, <2>5, <2>6, <2>7, <2>8
<1>11. ASSUME NEW d \in Descriptors, Grant(d) PROVE LockInv'
  <2>1. TypeOK'
    BY <1>11 DEF Grant, TypeOK
  <2>2. OwnDescriptor'
    BY <1>11 DEF Grant, OwnDescriptor
  <2>3. Unqueued'
    BY <1>11 DEF Grant, Unqueued
  <2>4. Awaited'
    BY <1>11 DEF Grant, TypeOK, OwnDescriptor, Awaited
  <2>5. Served'
    BY <1>11 DEF Grant, Served
  <2>6. GrantOwned'
    BY <1>11 DEF Grant, GrantOwned
  <2>7. HolderOwns'
    BY <1>11 DEF Grant, TypeOK, HolderOwns
  <2>8. NoOrphanedGrant'
    BY <1>11 DEF Grant, TypeOK, NoOrphanedGrant
  <2> QED BY <2>1, <2>2, <2>3, <2>4, <2>5, <2>6, <2>7, <2>8
<1>12. ASSUME NEW d \in Descriptors, Send(d) PROVE LockInv'
  <2>1. TypeOK'
    BY <1>12 DEF Send, Closed, Outcome, TypeOK
  <2>2. OwnDescriptor'
    BY <1>12 DEF Send, Closed, TypeOK, OwnDescriptor, Unqueued, Awaited
  <2>3. Unqueued'
    BY <1>12 DEF Send, Closed, TypeOK, Unqueued
  <2>4. Awaited'
    BY <1>12 DEF Send, Closed, Outcome, TypeOK, OwnDescriptor, Awaited
  <2>5. Served'
    BY <1>12 DEF Send, Closed, TypeOK, Served
  <2>6. GrantOwned'
    BY <1>12 DEF Send, Closed, Outcome, TypeOK, GrantOwned
  <2>7. HolderOwns'
    BY <1>12 DEF Send, Closed, Unqueued, HolderOwns
  <2>8. NoOrphanedGrant'
    <3>1. CASE channel[d] = "closed"
      <4>1. CASE owner = d
        BY <1>12, <3>1, <4>1 DEF Send, Closed, NoOrphanedGrant
      <4>2. CASE owner # d
        <5>1. /\ owner' = owner
              /\ owner # None => worker'[owner] = worker[owner] /\ channel'[owner] = channel[owner]
          BY <1>12, <3>1, <4>2 DEF Send, Closed, TypeOK
        <5> QED BY <1>12, <5>1 DEF Send, NoOrphanedGrant
      <4> QED BY <4>1, <4>2
    <3>2. CASE channel[d] # "closed"
      <4>1. /\ owner' = owner
            /\ \A e \in Descriptors \ {d} : worker'[e] = worker[e] /\ channel'[e] = channel[e]
        BY <1>12, <3>2 DEF Send, TypeOK
      <4>2. CASE owner = d
        <5>1. channel[d] = "empty" /\ worker[d] # "none"
          BY <1>12, <3>2 DEF Send, Served
        <5>2. worker[d] = "granted"
          BY <5>1, <4>2 DEF NoOrphanedGrant, Unqueued, TypeOK
        <5>3. channel'[d] = "grant"
          BY <1>12, <3>2, <5>2 DEF Send, Outcome, TypeOK
        <5> QED BY <1>12, <4>1, <4>2, <5>1, <5>3 DEF Send, Served, NoOrphanedGrant
      <4>3. CASE owner # d
        BY <1>12, <4>1, <4>3 DEF Send, NoOrphanedGrant, TypeOK
      <4> QED BY <4>2, <4>3
    <3> QED BY <3>1, <3>2
  <2> QED BY <2>1, <2>2, <2>3, <2>4, <2>5, <2>6, <2>7, <2>8
<1>13. ASSUME NEW d \in Descriptors, LockFails(d) PROVE LockInv'
  <2>1. TypeOK'
    BY <1>13 DEF LockFails, TypeOK
  <2>2. OwnDescriptor'
    BY <1>13 DEF LockFails, OwnDescriptor
  <2>3. Unqueued'
    BY <1>13 DEF LockFails, Unqueued
  <2>4. Awaited'
    BY <1>13 DEF LockFails, TypeOK, OwnDescriptor, Awaited
  <2>5. Served'
    BY <1>13 DEF LockFails, Served
  <2>6. GrantOwned'
    BY <1>13 DEF LockFails, GrantOwned
  <2>7. HolderOwns'
    BY <1>13 DEF LockFails, HolderOwns
  <2>8. NoOrphanedGrant'
    BY <1>13 DEF LockFails, NoOrphanedGrant
  <2> QED BY <2>1, <2>2, <2>3, <2>4, <2>5, <2>6, <2>7, <2>8
<1>14. CASE UNCHANGED vars
  BY <1>14 DEF vars, TypeOK, OwnDescriptor, Unqueued, Awaited, Served, GrantOwned, HolderOwns,
               NoOrphanedGrant
<1> QED
  BY <1>1, <1>2, <1>3, <1>4, <1>5, <1>6, <1>7, <1>8, <1>9, <1>10, <1>11, <1>12, <1>13, <1>14 DEF Next, CallerStep

\* LockInv holds in every reachable state.
THEOREM LockInvariant == Spec => []LockInv
<1> QED BY Initial, Inductive, PTL DEF Spec

\* The variables have their types, for any number of callers, descriptors
\* and faults.
THEOREM LockTypeCorrect == Spec => []TypeOK
<1>1. LockInv => TypeOK BY DEF LockInv
<1> QED BY <1>1, LockInvariant, PTL

\* Whoever was told it holds the lock holds it (HolderOwns), and the kernel's
\* lock always has somebody who will use it or give it back.
THEOREM LockSafe == Spec => [](HolderOwns /\ NoOrphanedGrant)
<1>1. LockInv => HolderOwns /\ NoOrphanedGrant BY DEF LockInv
<1> QED BY <1>1, LockInvariant, PTL

----------------------------------------------------------------------------
\* At most one caller holds the lock, so Holder names it.
LEMMA HolderUnique ==
    ASSUME LockInv, NEW c \in Callers, pc[c] = "holding"
    PROVE  Holder = c
<1>1. \A e \in Callers : pc[e] = "holding" => e = c
  BY LockAssumption DEF LockInv, HolderOwns, OwnDescriptor, TypeOK
<1> QED BY <1>1 DEF Holder

\* A step that leaves every caller holding or not leaves the holder.
LEMMA HolderKept ==
    ASSUME LockInv, LockInv',
           \A c \in Callers : pc'[c] = "holding" <=> pc[c] = "holding"
    PROVE  Holder' = Holder
<1>1. CASE \E c \in Callers : pc[c] = "holding"
  <2>1. PICK c \in Callers : pc[c] = "holding" BY <1>1
  <2>2. Holder = c BY <2>1, HolderUnique
  <2>3. pc'[c] = "holding" BY <2>1
  <2>4. \A e \in Callers : pc'[e] = "holding" => e = c
    BY <2>1, LockAssumption DEF LockInv, HolderOwns, OwnDescriptor, TypeOK
  <2>5. Holder' = c BY <2>3, <2>4 DEF Holder
  <2> QED BY <2>2, <2>5
<1>2. CASE ~\E c \in Callers : pc[c] = "holding"
  BY <1>2 DEF Holder
<1> QED BY <1>1, <1>2

\* The same, of the state a step leads to.
LEMMA HolderNext ==
    ASSUME LockInv', NEW c \in Callers, pc'[c] = "holding"
    PROVE  Holder' = c
<1>1. \A e \in Callers : pc'[e] = "holding" => e = c
  BY LockAssumption DEF LockInv, HolderOwns, OwnDescriptor, TypeOK
<1> QED BY <1>1 DEF Holder

\* The caller that starts to hold the lock takes it from nobody.
LEMMA HolderTakes ==
    ASSUME LockInv, LockInv', NEW c \in Callers, pc'[c] = "holding",
           \A e \in Callers : pc[e] # "holding"
    PROVE  Abstract!Next
<1>1. Holder = None BY DEF Holder
<1>2. Holder' = c BY HolderNext
<1> QED BY <1>1, <1>2 DEF Abstract!Next, Abstract!Acquire

\* The caller that stops holding it leaves it to nobody.
LEMMA HolderGives ==
    ASSUME LockInv, NEW c \in Callers, pc[c] = "holding",
           pc' = [pc EXCEPT ![c] = "idle"]
    PROVE  Abstract!Next
<1>1. Holder = c BY HolderUnique
<1>2. \A e \in Callers : pc[e] = "holding" => e = c
  BY LockAssumption DEF LockInv, HolderOwns, OwnDescriptor, TypeOK
<1>3. \A e \in Callers : pc'[e] # "holding"
  BY <1>2 DEF LockInv, TypeOK
<1>4. Holder' = None BY <1>3 DEF Holder
<1>5. c # None BY LockAssumption
<1> QED BY <1>1, <1>4, <1>5 DEF Abstract!Next, Abstract!Release

\* The whole acquisition - attempt, thread, channel, deadline, crash - is a
\* lock that is taken when free and given back: what BerthLedger assumes.
THEOREM LockRefines == Spec => ImplementsAbstractLock
<1>1. Init => Abstract!Init
  BY DEF Init, Abstract!Init, Holder
<1>2. LockInv /\ LockInv' /\ [Next]_vars => [Abstract!Next]_Holder
  <2> SUFFICES ASSUME LockInv, LockInv', [Next]_vars PROVE Abstract!Next \/ Holder' = Holder
    OBVIOUS
  <2>1. CASE \A c \in Callers : pc'[c] = "holding" <=> pc[c] = "holding"
    BY <2>1, HolderKept
  <2>2. ASSUME NEW c \in Callers, TryLock(c) PROVE Abstract!Next
    <3>1. \A e \in Callers : pc[e] # "holding"
      BY <2>2, LockAssumption DEF TryLock, LockInv, TypeOK, HolderOwns
    <3>2. pc'[c] = "holding"
      BY <2>2 DEF TryLock, Return, LockInv, TypeOK
    <3> QED BY <3>1, <3>2, HolderTakes
  <2>3. ASSUME NEW c \in Callers, Receive(c), pc'[c] = "holding" PROVE Abstract!Next
    <3>1. channel[desc[c]] = "grant"
      BY <2>3 DEF Receive, Return, LockInv, TypeOK
    <3>2. owner = desc[c]
      BY <2>3, <3>1 DEF Receive, LockInv, TypeOK, GrantOwned
    <3>3. \A e \in Callers : pc[e] # "holding"
      BY <2>3, <3>2, LockAssumption DEF Receive, LockInv, TypeOK, HolderOwns, OwnDescriptor
    <3> QED BY <2>3, <3>3, HolderTakes
  <2>4. ASSUME NEW c \in Callers, Unlock(c) PROVE Abstract!Next
    BY <2>4, HolderGives DEF Unlock, Return
  <2>5. ASSUME NEW c \in Callers, Exit(c), pc[c] = "holding" PROVE Abstract!Next
    BY <2>5, HolderGives DEF Exit, Return
  <2>6. ASSUME NEW c \in Callers,
               \/ Open(c) \/ RefuseToWait(c) \/ Queue(c) \/ DropReceiver(c) \/ Expire(c)
               \/ FailToQueue(c) \/ (Receive(c) /\ pc'[c] # "holding")
               \/ (Exit(c) /\ pc[c] # "holding")
        PROVE  \A e \in Callers : pc'[e] = "holding" <=> pc[e] = "holding"
    BY <2>6 DEF Open, RefuseToWait, Queue, DropReceiver, Expire, FailToQueue, Receive, Exit,
                Return, LockInv, TypeOK
  <2>7. ASSUME NEW d \in Descriptors, Grant(d) \/ Send(d) \/ LockFails(d)
        PROVE  \A e \in Callers : pc'[e] = "holding" <=> pc[e] = "holding"
    BY <2>7 DEF Grant, Send, LockFails
  <2>8. CASE UNCHANGED vars
    BY <2>8, <2>1 DEF vars
  <2>9. ASSUME NEW c \in Callers, Open(c) \/ CallerStep(c) \/ Expire(c) \/ FailToQueue(c) \/ Exit(c)
        PROVE  Abstract!Next \/ Holder' = Holder
    <3>1. CASE TryLock(c) \/ Unlock(c)
      BY <3>1, <2>2, <2>4
    <3>2. CASE Receive(c) /\ pc'[c] = "holding"
      BY <3>2, <2>3
    <3>3. CASE Exit(c) /\ pc[c] = "holding"
      BY <3>3, <2>5
    <3>4. CASE \/ Open(c) \/ RefuseToWait(c) \/ Queue(c) \/ DropReceiver(c) \/ Expire(c)
               \/ FailToQueue(c) \/ (Receive(c) /\ pc'[c] # "holding")
               \/ (Exit(c) /\ pc[c] # "holding")
      <4>1. \A e \in Callers : pc'[e] = "holding" <=> pc[e] = "holding"
        BY <3>4, <2>6
      <4> QED BY <4>1, <2>1
    <3> QED BY <2>9, <3>1, <3>2, <3>3, <3>4 DEF CallerStep
  <2>10. ASSUME NEW d \in Descriptors, Grant(d) \/ Send(d) \/ LockFails(d)
         PROVE  Abstract!Next \/ Holder' = Holder
    BY <2>1, <2>7, <2>10
  <2> QED
    BY <2>8, <2>9, <2>10 DEF Next
<1> QED
  BY <1>1, <1>2, LockInvariant, PTL DEF Spec, ImplementsAbstractLock, Abstract!Spec
=============================================================================
