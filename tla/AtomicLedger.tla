---------------------------- MODULE AtomicLedger ----------------------------
(***************************************************************************)
(* What the ledger promises its callers: mutations are serial transactions *)
(* over one set of facts.  A request is judged on the facts as they are    *)
(* when its transaction opens, its operations are applied in order with    *)
(* nothing in between, and a caller told "appended" had all of them        *)
(* applied.  Compaction only forgets finished reservations.                *)
(***************************************************************************)
EXTENDS Naturals, Sequences

CONSTANTS Procs, Reservations, Overlaps, None,
          Operations(_)  \* the operations a request applies

VARIABLES
    facts,  \* [gen, claimed, released]: what the journal folds to
    batch,  \* the open transaction: None, or [by, res, ops] with ops still to apply
    asked,  \* asked[p]: the mutation p has requested, or None
    answer  \* answer[p]: what p was last told

vars == <<facts, batch, asked, answer>>

Empty == [gen |-> 0, claimed |-> {}, released |-> {}]
Active == facts.claimed \ facts.released

Init ==
    /\ facts = Empty
    /\ batch = None
    /\ asked = [p \in Procs |-> None]
    /\ answer = [p \in Procs |-> "none"]

\* A claim is refused while an overlapping reservation is active; the other
\* requests need the reservation in the state they leave.
Valid(q) ==
    \/ /\ q.op = "claim"
       /\ q.res \notin facts.claimed
       /\ \A a \in Active : {a, q.res} \notin Overlaps
    \/ q.op \in {"observe", "settle"} /\ q.res \in Active
    \/ q.op = "amend" /\ q.res \in facts.claimed \cap facts.released

Ask(p) ==
    /\ asked[p] = None
    /\ \E op \in {"claim", "observe", "settle", "amend"}, r \in Reservations :
          asked' = [asked EXCEPT ![p] = [op |-> op, res |-> r]]
    /\ answer' = [answer EXCEPT ![p] = "none"]
    /\ UNCHANGED <<facts, batch>>

\* Another verb of p starts: its last answer is forgotten.
Forget(p) ==
    /\ answer' = [answer EXCEPT ![p] = "none"]
    /\ UNCHANGED <<facts, batch, asked>>

Open(p) ==
    /\ batch = None
    /\ asked[p] # None
    /\ Valid(asked[p])
    /\ batch' = [by |-> p, res |-> asked[p].res, ops |-> Operations(asked[p].op)]
    /\ UNCHANGED <<facts, asked, answer>>

Applied(kind, r) ==
    [gen      |-> facts.gen + 1,
     claimed  |-> IF kind = "claim" THEN facts.claimed \cup {r} ELSE facts.claimed,
     released |-> IF kind = "release" THEN facts.released \cup {r} ELSE facts.released]

Apply ==
    /\ batch # None
    /\ batch.ops # <<>>
    /\ facts' = Applied(Head(batch.ops), batch.res)

ApplyNext ==
    /\ Apply
    /\ batch' = [batch EXCEPT !.ops = Tail(@)]
    /\ UNCHANGED <<asked, answer>>

Tell(p, result) ==
    /\ answer' = [answer EXCEPT ![p] = result]
    /\ asked' = [asked EXCEPT ![p] = None]

Close(p) ==
    /\ batch # None
    /\ batch.by = p /\ batch.ops = <<>>
    /\ batch' = None
    /\ Tell(p, "appended")
    /\ UNCHANGED facts

\* The transaction is cut short; its last operation may have been applied.
Abandon(p) ==
    /\ batch # None
    /\ batch.by = p
    /\ batch' = None
    /\ Apply \/ UNCHANGED facts
    /\ Tell(p, "done")

Refuse(p) ==
    /\ batch = None
    /\ asked[p] # None
    /\ ~Valid(asked[p])
    /\ Tell(p, "rejected")
    /\ UNCHANGED <<facts, batch>>

\* Any other end of an operation changes no fact and claims no decision.
Inconclusive(p) ==
    /\ \E result \in {"unreadable", "cache_ahead", "done"} : Tell(p, result)
    /\ batch = None \/ batch.by # p
    /\ UNCHANGED <<facts, batch>>

\* Compaction forgets finished reservations whole and keeps the generation.
Expire(p) ==
    /\ batch = None
    /\ \E gone \in SUBSET (facts.claimed \cap facts.released) :
          facts' = [facts EXCEPT !.claimed = @ \ gone, !.released = @ \ gone]
    /\ Tell(p, "done")
    /\ UNCHANGED batch

Reset ==
    /\ batch = None
    /\ facts' = Empty
    /\ UNCHANGED <<batch, asked, answer>>

Next ==
    \/ ApplyNext \/ Reset
    \/ \E p \in Procs :
          \/ Ask(p) \/ Forget(p) \/ Open(p) \/ Close(p) \/ Abandon(p) \/ Refuse(p)
          \/ Inconclusive(p) \/ Expire(p)

Spec == Init /\ [][Next]_vars
=============================================================================
