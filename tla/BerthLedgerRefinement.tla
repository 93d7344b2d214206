----------------------- MODULE BerthLedgerRefinement -----------------------
(***************************************************************************)
(* The ledger's protocol implements serial transactions: optimistic        *)
(* preparation, batches cut short by a kill, compaction and                *)
(* reinitialization are all invisible to AtomicLedger.                     *)
(***************************************************************************)
EXTENDS BerthLedger

\* "None" is the name of no request and of no open transaction.
ASSUME RefinementAssumption ==
    /\ None \notin [op : {"claim", "observe", "settle", "amend"}, res : Reservations]
    /\ None \notin [by : Procs, res : Reservations, ops : Seq(Kinds)]

\* The process whose transaction is open: past validation, not yet concluded.
InTransaction(p) == pc[p] \in {"append", "write", "publish"}

OpenBatch ==
    IF \E p \in Procs : InTransaction(p)
    THEN LET p == CHOOSE q \in Procs : InTransaction(q)
         IN [by |-> p, res |-> req[p].res, ops |-> todo[p]]
    ELSE None

Facts ==
    [gen      |-> Gen(journal.recs),
     claimed  |-> Claimed(journal.recs),
     released |-> Released(journal.recs)]

Asked ==
    [p \in Procs |->
        IF req[p].verb = "mutate" THEN [op |-> req[p].op, res |-> req[p].res] ELSE None]

Atomic == INSTANCE AtomicLedger
    WITH facts <- Facts, batch <- OpenBatch, asked <- Asked, answer <- answer

\* Every behaviour of the ledger is a behaviour of the serial one: a stale
\* decision never reaches the journal, a refusal is true of the journal when
\* it is given, and "appended" is only told of a complete batch.
ImplementsAtomicLedger == Atomic!Spec
=============================================================================
