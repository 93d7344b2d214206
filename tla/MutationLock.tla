---------------------------- MODULE MutationLock ----------------------------
(***************************************************************************)
(* One acquisition of the ledger's advisory lock: a non-blocking attempt,  *)
(* then a helper thread that queues in the kernel on the caller's          *)
(* descriptor while the caller waits on a channel until its deadline.  A    *)
(* deadline closes the channel; the thread stays queued, and whatever it is *)
(* granted later must be given back.  The kernel's lock belongs to the open *)
(* descriptor and dies with it.                                            *)
(***************************************************************************)
EXTENDS Naturals

CONSTANTS
    Callers,      \* the operations that acquire the lock, each in its process
    Hasty,        \* callers whose acquisition timeout is zero
    Descriptors,  \* open file descriptors of the lock file
    MaxFaults,    \* bound: crashes and failed system calls
    None          \* no owner, no opener

ASSUME LockAssumption ==
    /\ Hasty \subseteq Callers
    /\ None \notin Callers \cup Descriptors
    /\ MaxFaults \in Nat

VARIABLES
    owner,    \* the descriptor the kernel's lock is held through, or None
    opener,   \* opener[d]: the caller whose process has d open, or None
    pc,       \* pc[c]: where caller c is in acquire
    desc,     \* desc[c]: the descriptor of c's current request, or None
    worker,   \* worker[d]: the helper thread queued through d
    channel,  \* channel[d]: what is between that thread and the caller
    faults

vars == <<owner, opener, pc, desc, worker, channel, faults>>

Init ==
    /\ owner = None
    /\ opener = [d \in Descriptors |-> None]
    /\ pc = [c \in Callers |-> "idle"]
    /\ desc = [c \in Callers |-> None]
    /\ worker = [d \in Descriptors |-> "none"]
    /\ channel = [d \in Descriptors |-> "none"]
    /\ faults = 0

\* Closing a descriptor releases the lock held through it.
Closed(ds) ==
    /\ owner' = IF owner \in ds THEN None ELSE owner
    /\ opener' = [d \in Descriptors |-> IF d \in ds THEN None ELSE opener[d]]
    /\ worker' = [d \in Descriptors |-> IF d \in ds THEN "none" ELSE worker[d]]
    /\ channel' = [d \in Descriptors |-> IF d \in ds THEN "none" ELSE channel[d]]

Return(c, step, d) ==
    /\ pc' = [pc EXCEPT ![c] = step]
    /\ desc' = [desc EXCEPT ![c] = d]

----------------------------------------------------------------------------
Open(c) ==
    /\ pc[c] = "idle"
    /\ \E d \in Descriptors :
          /\ opener[d] = None
          /\ opener' = [opener EXCEPT ![d] = c]
          /\ Return(c, "trying", d)
    /\ UNCHANGED <<owner, worker, channel, faults>>

\* Mutant: a lock that would block counts as taken.
TryLockRegardless(c) ==
    /\ pc[c] = "trying"
    /\ owner' = desc[c]
    /\ Return(c, "holding", desc[c])
    /\ UNCHANGED <<opener, worker, channel, faults>>

\* try_lock succeeds at once: the caller does not queue.
TryLock(c) ==
    /\ pc[c] = "trying"
    /\ owner = None
    /\ owner' = desc[c]
    /\ Return(c, "holding", desc[c])
    /\ UNCHANGED <<opener, worker, channel, faults>>

\* It would block, and the caller has no tolerance.
RefuseToWait(c) ==
    /\ pc[c] = "trying"
    /\ owner # None
    /\ c \in Hasty
    /\ Closed({desc[c]})
    /\ Return(c, "idle", None)
    /\ UNCHANGED faults

\* It would block: a helper thread takes the descriptor and queues.
Queue(c) ==
    /\ pc[c] = "trying"
    /\ owner # None
    /\ c \notin Hasty
    /\ worker' = [worker EXCEPT ![desc[c]] = "locking"]
    /\ channel' = [channel EXCEPT ![desc[c]] = "empty"]
    /\ Return(c, "waiting", desc[c])
    /\ UNCHANGED <<owner, opener, faults>>

\* A system call or the thread's creation fails: the descriptor is dropped.
FailToQueue(c) ==
    /\ pc[c] = "trying"
    /\ faults < MaxFaults
    /\ faults' = faults + 1
    /\ Closed({desc[c]})
    /\ Return(c, "idle", None)

----------------------------------------------------------------------------
\* The kernel grants its queue in no order the program relies on.
Grant(d) ==
    /\ worker[d] = "locking"
    /\ owner = None
    /\ owner' = d
    /\ worker' = [worker EXCEPT ![d] = "granted"]
    /\ UNCHANGED <<opener, pc, desc, channel, faults>>

LockFails(d) ==
    /\ worker[d] = "locking"
    /\ faults < MaxFaults
    /\ faults' = faults + 1
    /\ worker' = [worker EXCEPT ![d] = "failed"]
    /\ UNCHANGED <<owner, opener, pc, desc, channel>>

Outcome(d) == IF worker[d] = "granted" THEN "grant" ELSE "error"

\* Mutant: the thread keeps what it was granted and tries to send it again.
SendRetrying(d) ==
    /\ worker[d] \in {"granted", "failed"}
    /\ worker' = [worker EXCEPT ![d] = IF channel[d] = "closed" THEN @ ELSE "none"]
    /\ channel' = [channel EXCEPT ![d] = IF @ = "closed" THEN @ ELSE Outcome(d)]
    /\ UNCHANGED <<owner, opener, pc, desc, faults>>

\* The thread sends what it got; a closed channel hands it back to be dropped.
Send(d) ==
    /\ worker[d] \in {"granted", "failed"}
    /\ IF channel[d] = "closed" THEN Closed({d})
       ELSE /\ worker' = [worker EXCEPT ![d] = "none"]
            /\ channel' = [channel EXCEPT ![d] = Outcome(d)]
            /\ UNCHANGED <<owner, opener>>
    /\ UNCHANGED <<pc, desc, faults>>

----------------------------------------------------------------------------
Receive(c) ==
    /\ pc[c] = "waiting"
    /\ \/ /\ channel[desc[c]] = "grant"
          /\ channel' = [channel EXCEPT ![desc[c]] = "none"]
          /\ Return(c, "holding", desc[c])
          /\ UNCHANGED <<owner, opener, worker>>
       \/ /\ channel[desc[c]] = "error"
          /\ Closed({desc[c]})
          /\ Return(c, "idle", None)
    /\ UNCHANGED faults

\* recv_timeout reaches the deadline with nothing received.
Expire(c) ==
    /\ pc[c] = "waiting"
    /\ channel[desc[c]] = "empty"
    /\ Return(c, "expired", desc[c])
    /\ UNCHANGED <<owner, opener, worker, channel, faults>>

\* Mutant: what arrived between the deadline and the drop is leaked.
DropReceiverUnread(c) ==
    /\ pc[c] = "expired"
    /\ channel' = [channel EXCEPT ![desc[c]] = "closed"]
    /\ Return(c, "idle", None)
    /\ UNCHANGED <<owner, opener, worker, faults>>

\* The receiver is dropped, with the grant that arrived since the deadline.
DropReceiver(c) ==
    /\ pc[c] = "expired"
    /\ IF channel[desc[c]] = "empty"
       THEN /\ channel' = [channel EXCEPT ![desc[c]] = "closed"]
            /\ UNCHANGED <<owner, opener, worker>>
       ELSE Closed({desc[c]})
    /\ Return(c, "idle", None)
    /\ UNCHANGED faults

Unlock(c) ==
    /\ pc[c] = "holding"
    /\ Closed({desc[c]})
    /\ Return(c, "idle", None)
    /\ UNCHANGED faults

\* The process ends, by a signal or after its operation: all it opened closes.
Exit(c) ==
    /\ faults < MaxFaults
    /\ faults' = faults + 1
    /\ Closed({d \in Descriptors : opener[d] = c})
    /\ Return(c, "idle", None)

CallerStep(c) ==
    \/ TryLock(c) \/ RefuseToWait(c) \/ Queue(c) \/ Receive(c) \/ DropReceiver(c) \/ Unlock(c)

Next ==
    \/ \E c \in Callers : Open(c) \/ CallerStep(c) \/ Expire(c) \/ FailToQueue(c) \/ Exit(c)
    \/ \E d \in Descriptors : Grant(d) \/ Send(d) \/ LockFails(d)

Spec == Init /\ [][Next]_vars

\* Threads run, and a lock that keeps being free reaches a queued thread.
Fairness ==
    /\ \A c \in Callers : WF_vars(CallerStep(c)) /\ WF_vars(Expire(c))
    /\ \A d \in Descriptors : WF_vars(Send(d)) /\ SF_vars(Grant(d))

FairSpec == Spec /\ Fairness

----------------------------------------------------------------------------
(* Properties.                                                              *)

\* The variables have their types; a closed descriptor has no thread and no
\* channel, and a caller has a descriptor exactly while it acquires or holds.
TypeOK ==
    /\ owner \in Descriptors \cup {None}
    /\ opener \in [Descriptors -> Callers \cup {None}]
    /\ pc \in [Callers -> {"idle", "trying", "waiting", "expired", "holding"}]
    /\ desc \in [Callers -> Descriptors \cup {None}]
    /\ worker \in [Descriptors -> {"none", "locking", "granted", "failed"}]
    /\ channel \in [Descriptors -> {"none", "empty", "grant", "error", "closed"}]
    /\ faults \in 0 .. MaxFaults
    /\ \A d \in Descriptors : opener[d] = None => worker[d] = "none" /\ channel[d] = "none"
    /\ \A c \in Callers : pc[c] = "idle" <=> desc[c] = None

\* A caller that was told it holds the lock does: no two callers are.
HolderOwns == \A c \in Callers : pc[c] = "holding" => owner = desc[c]

\* The kernel's lock is always held for somebody who will use it or give it
\* back: a holder, a thread about to send, or a message in a live channel.
NoOrphanedGrant ==
    owner # None =>
        \/ \E c \in Callers : pc[c] = "holding" /\ desc[c] = owner
        \/ worker[owner] = "granted"
        \/ \E c \in Callers : /\ pc[c] \in {"waiting", "expired"} /\ desc[c] = owner
                              /\ channel[owner] = "grant"

\* A grant that outlived its caller's deadline is given back, however late
\* the kernel makes it (the comment in MutationLock::request).
GrantsEnd == \A d \in Descriptors : (owner = d) ~> (owner # d)

\* What the ledger's protocol assumes of the lock.
Holder ==
    IF \E c \in Callers : pc[c] = "holding"
    THEN CHOOSE c \in Callers : pc[c] = "holding" ELSE None

Abstract == INSTANCE AbstractLock WITH holder <- Holder

ImplementsAbstractLock == Abstract!Spec
=============================================================================
