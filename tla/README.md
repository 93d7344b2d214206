# Verification of cargo-berth

TLA+ specifications of the concurrent core of `cargo-berth`, the program in
`crates/cargo-berth` that coordinates path ownership and merge order between Git
worktrees. Small instances are checked with TLC; the invariants that matter most
are proved for every instance with TLAPS.

Paths below are relative to `crates/cargo-berth/src`.

## 1. The system

The repository holds several programs. `cargo-berth` is the one whose core is a
protocol: any number of short-lived processes (verbs, Git hooks, harness hooks)
share files in one Git common directory, with an advisory lock and no daemon.
`cargo-port`, `cargo-tile` and `cargo-handler` are terminal programs over file and
process scans, `cargo-mend` is a source rewriter, `tui_pane` a widget library. The
project is about `cargo-berth`.

| component | state it keeps | operations | how it meets the others | what is hard | what makes it correct |
|---|---|---|---|---|---|
| ledger transactions (`ledger/handle.rs`, `preparation.rs`, `projection.rs`) | `journal.ndjson`, `projection.json` | prepare outside the lock, recheck, append, publish; lock-free read; repair; reinitialize | every verb is a validator run inside a transaction | decisions on a replay that is stale when the lock comes; kills between files; batches cut short | transactions are serial; readers are not stopped by writers; a crash leaves what the next process can use |
| mutation lock (`ledger/lock.rs`) | a kernel lock on an open descriptor | try, queue in a helper thread, wait until a deadline, drop | taken by every transaction and compaction | the grant that races the deadline | one holder; nothing stays locked for a caller that left |
| compaction (`ledger/compaction.rs`, `history.rs`) | temporary rewrite, refusal marker, throttle file | plan, verify, include the tail, publish | rewrites the journal every replay reads | records committed during the rewrite; references between reservations; clocks | what is dropped leaves the replay as it should be |
| replay (`ledger/journal.rs`, `replay_checkpoint.rs`) | checkpoint of a replayed prefix | fold records, repair a torn tail, resume from a checkpoint, store and remove it | all decisions are made on a replay | files replaced under a replay; a checkpoint stored late; power loss | the fold is of the journal as it is; an acknowledged record stays |
| reservations (`reservation/`) | folded reservations, incidents, evidence | claim, widen, retarget, checkpoint, resnapshot, release, replace, observe | the content of the journal | long legal sequences | every accepted journal can be read back |
| scopes and conflicts (`scope/`, `reservation/containment.rs`, `conflict.rs`) | none | containment, antichains, overlap | claim validation | boundary cases of path containment | symmetric, complete overlap |
| ordering graph (`edge/`, `ledger/ordering_repair.rs`) | edges and deferrals folded from claims, widenings, answers and sequences | declare, defer, resolve a deferral, reverse an order, repair a cyclic journal | gate and claim validation | cycles out of concurrent declarations; orders declared twice or in both directions | acyclic; no deferral without an order to resolve it |
| integration gate (`gate/`, `verb/integrate.rs`) | permits, pending markers | judge a move, issue and consume a permit, bypass | Git hooks; `integrate` | decisions used after the lock is gone; audits that survive crashes | a judged move is the move made; a permit is used once; a bypass is recorded |
| reconciliation and recovery (`reconcile.rs`, `recovery.rs`) | none beyond the journal | derive merge extents, revalidate evidence, settle, import markers | reads git, appends conclusions | git moves while it is read; plans cut short; trunks rewritten under a proof | conclusions are true of the commits they name; merged work ends, unmerged work does not |
| sessions and run markers (`session/`, `coordination_identity.rs`, `ledger/coordination_run_marker.rs`, `ledger/worktree_context.rs`) | session mapping, run marker of each worktree | resolve and validate a caller; claim, select, release, clear; retire, detach, restore, sweep | decide whose claim or edit it is | both files are published after the append, the marker after the lock; crash in between | a session acts for a reservation that is active; a marker names the run at work |
| drift, hooks, answers (`drift/`, `hook/`, `answer/`) | fingerprints, told records | check an edit, notice, record incursions | harness hooks | a check answered from a snapshot | an unprotected write is found |
| worktrees (`worktree/`) | enrollment, identity | enroll, classify liveness, relocate | reconciliation | directories that move or vanish | no worktree enrolled twice |
| git access (`git/`) | none | reachability, patches, refs | all evidence | an external program | an environment of the others |
| board, output, CLI, configuration | none | render, parse | - | layout and wording | - |

`PROJECT.json` lists the same components with their sources and status, and under
`hazards` each place where this code is hard to test, with the properties that
watch it or the module planned for it.

## 2. What is modelled

### MutationLock, AbstractLock

`MutationLock` is one acquisition in full: `MutationLock::request` (`Open`,
`TryLock`, `RefuseToWait`, `Queue`, `FailToQueue`), the thread it spawns (`Grant`,
`LockFails`, `Send`), `acquire`'s wait (`Receive`, `Expire`, `DropReceiver`) and
`Drop` (`Unlock`). The kernel's lock belongs to a descriptor: `owner`. `channel[d]` is
the `sync_channel(1)` between a thread and its caller, including the state in which
the receiver is gone. `Expire` and `DropReceiver` are two steps, because
`recv_timeout` returns before the receiver is dropped and a grant can arrive in
between. `Exit` is the end of the process.

`AbstractLock` is what the ledger assumes: taken when free, given back. The
refinement `ImplementsAbstractLock` (proved) is what justifies the single variable
`lock` of `BerthLedger`.

### BerthLedger, AtomicLedger, BerthLedgerRefinement

`BerthLedger` is the file protocol. State and code:

| variable | code |
|---|---|
| `journal = [ino, recs, torn]` | the file at `paths.journal`: its inode, its complete records, whether bytes follow the last newline |
| `proj` | `projection.json`: generation, end offset, and the records behind its fingerprint |
| `lock` | the holder of the mutation lock |
| `pc`, `req` | where a process is, and the verb it runs |
| `view` | `JournalPreparation`, or the compaction's source stamp |
| `plan` | `PreparedJournalCompaction`; `exact` is `CompactionSourceChanges::ExactJournal` |
| `tries` | the attempt in `MutationPreparation::Optimistic` |
| `reads` | the attempt in `retry_concurrent_projection_publication` |
| `reread` | the second `still_current` of `prepare_mutation_from_replay` has replayed |
| `todo`, `verdict` | the prepared operations and the validator's decision |

A mutation is `Stat`, `Replay`, `Restat` (`prepare_journal`), `Decide` or `Reread`,
`Acquire`, `RecheckMutation` (the second closure of `prepare_with_lock`), then
`OpenTransaction`, `Reject` or `RefuseProjection`, and for each record `BeginRecord`
and `EndRecord`, then `Publish`. After `MaxAttempts` lost rechecks it decides under
the lock. A read is `Read`, `Validate`. A compaction is `Source`, `Rewrite` or
`RefuseRewrite`, `RecheckCompaction` (`include_committed_tail`), `ProjectCompacted`,
`RenameCompacted`. A repair is `Observe`, `RecheckRepair`, `Rebuild`; a
reinitialization `Observe`, `RecheckRepair`, `Discard`, `Clear`. `Kill` ends any
process anywhere, `FailRecord` fails a write either before or after its bytes are
whole.

Four kinds of records stand for the operations of the journal: a claim, an extent
observation that a later one supersedes, a release, and evidence about a released
reservation. `Operations` has one request of two records, as a reconciliation
appends, so a batch can be cut in half. Scopes are reduced to which reservations
overlap.

`AtomicLedger` is what callers are promised: requests are judged on the facts as
they are when their transaction opens, their operations are applied with nothing in
between, "appended" is only told of a whole batch, and compaction only forgets
finished reservations. `BerthLedgerRefinement` maps one onto the other (proved): the open
batch is what the process in `append`, `write` or `publish` still has to append, and the
facts are what the journal's records say.

### ReservationReplay, JournalCompaction

`ReservationReplay` is the fold of one record: `Accepts` and `Applied` are the
lifecycle and evidence transitions of `RetainedReservationSet::apply`,
`EvidenceState` is `Reservation::evidence_state` with its errors,
`Started`/`Ended` are `FinishedHistory::observe`, `Observed`/`HistoryObserved` are the
two methods of `SupersededExtents`, with zero-based ordinals as in the code.

`JournalCompaction` appends any record the fold accepts, lets time pass, plans a
rewrite (`ExpiredHistory::of`, `CompactionPlan::of`), verifies it (`replays_agree`)
and publishes it over a journal that may have grown. It has the content that
`BerthLedger` leaves out, and leaves out the files that `BerthLedger` has.
`RetainedClosure` is the least fixed point the loop in `ExpiredHistory::of` computes.

### BypassAudit

An operation that `CARGO_BERTH_BYPASS` lets through must leave an audit record, and
no failure may stop the operation itself. `BypassAudit` follows each bypass `b` from
the hook to the deletion of its marker, against passes `r` that reconcile.

| variable | code |
|---|---|
| `dir` | the pending-bypass files of the common Git directory: name, whose bypass, whether whole |
| `journal` | the `Bypass` records, each with the marker it was imported from |
| `lock` | the mutation lock (`AbstractLock`) |
| `at[b]` | where `record_environment_bypass`, or the shell of the hook behind it, is; a retained bypass is `retained` by the engine or `printed` by the shell |
| `marker[b]` | `$marker` of that shell: the name of its file |
| `work[r]` | a reconciliation: the generation it replayed (`seen`), the names it listed (`left`), `imports`, `done` (`recovered_bypass_markers`), `unread` (`unrecorded_bypass_occurrences`) |

The engine appends directly if the lock is free (`TakeLock`, `AppendDirect`,
`PublishDirect`) and otherwise, or after any error, leaves a marker with a fresh name
(`CreateMarker`, `WriteMarker`, `SyncMarker`). Where it exits with an error or is
missing, the reference-transaction hook leaves one named after its process id
(`CreateFallback`, `PrintMarker`); the edit hook has no shell behind it in this
repository (`Edits`). A pass is `Begin`, `Prepare`, `ReadMarker` for each name,
`AcquireLock`, `Recheck` or `UseLockedPreparation`, `Import` for each import,
`CommitRepairs`, `DeleteMarker`, `Conclude`; a pass that created covers goes round
once more (`second`). Only a pass that reports (`Boards`) deletes markers. `owed` is
not in the code: it is what `CleanPassRecordsAll` compares with.

`Shell` gives each hook its process id, and hooks may share one, one after the other. A
shell marker can then take a name that was freed by an import and a deletion, and counts
as imported already (`Mistaken`). `RetainedRecorded` and `CleanPassRecordsAll` except
that bypass and no other: passing over a marker for any wider reason, another name of
the same process id for one, violates both (section 3 has the case itself).

Writing a marker's bytes is a step after its creation, so a pass can meet a torn
marker, and `Complete` writes through an open file, so nothing comes of it once the
file is deleted. `ImportFails` keeps the pass going with the record durable or not;
`Abandon` is a kill, or an error of any other call, and undoes nothing.

### OrderingGraph

`graph` is what a replay of the journal yields: edges, deferrals, and the number of
declarations made. One action is one transaction, because each is judged on the replay
that the lock makes current (`BerthLedger`). Declarations come from a claim
(`ClaimSequenced`, `ClaimEnrolled`), a widening (`WidenSequenced`), an answer that
defers (`AnswerDefer`) and the `sequence` verb (`Sequence`); `AnswerSequence` is what
an answer binds and which orders it replaces. `Checkpoint` and `End` move a
reservation on. `RepairCycle` is `ledger/ordering_repair.rs` on a journal that an
earlier build left cyclic (`Legacy`), where no other command gets past its replay.

The code searches for cycles in three ways: peeling (`ContainsCycle`), depth first
(`EnsureAcyclic`) and backwards from one edge (`WouldCreateCycle`). Each is written as
the code does it, and `Acyclic` is the definition they are compared with.

Left out: scopes and reasons of edges, which are only shown. Which reservations
conflict is a matter of paths: any live reservation of another lane may.

### IntegrationGate

`IntegrationGate` extends `OrderingGraph` with the moves of one target branch. A mover
is git, or the `integrate` verb and then git.

| variable | code |
|---|---|
| `trunk`, `upstream`, `merged` | the commits that the target, its upstream and each reservation's branch reach |
| `permits` | permits issued, and the records that consumed them |
| `mover[m]` | what the verb read and decided, and the move the hook is judging |
| `refLock` | git's lock on the reference, between prepared and committed or aborted |
| `mode`, `tracks` | whether the repository enforces or observes; whether the target has an upstream configured |

The verb reads the tips (`ReadTips`), decides and may issue a permit under the mutation
lock (`DecideIntegration`, `RejectIntegration`), and moves the branch by compare and
swap with the lock long given back (`UpdateRef`). The hook judges the proposed move in
its own transaction (`Judge`), git moves the reference (`Commit`), and the committed
phase journals the permits it finds consumed (`Audit`). In between claims, checkpoints,
declarations, merges, moves of the upstream and the other mover act: `Publish` is a
branch the upstream takes from elsewhere, `Push` the push of the target. `Stop` is the
end of any of them, killed or refused by a lock it could not have. `fresh` and
`admitted` are not in the code: they say whether a decision has been overtaken, and what
the hook let through.

What settles checkpointed work is the `Proof` reference (`git/refs.rs:64-74`): the
upstream where one is configured, the target itself where none is. A local merge that is
not pushed stays outstanding (`worktree-coordination.md:303`), so a move may land work
that still counts as unreleased, and pushed work settles whether or not the target has it.
Whether an edge holds and what enters are judged at the proposed tip all the same.

Left out: a configured upstream whose reference is missing, where nothing settles;
rewrites of branches, several targets or references in one transaction, runs
ended because they are merged, work beyond a checkpoint, worktrees without a head, the
bypass environment (`BypassAudit`). A branch has one commit, and one more after a merge.

### ReplayCheckpoint

The files of one ledger on a disk that may lose power.

| variable | code |
|---|---|
| `disk[i]` | the records of a file, how many of them are synced, whether a torn tail follows |
| `journal`, `entries` | the file at the path of the journal, and the files that path may name after a power loss |
| `checkpoint`, `older` | the stored checkpoint, and those a power loss may bring back |
| `writer` | an append (`BeginAppend` to `SyncAppend`) or a reinitialization (`BeginDiscard` to `EndDiscard`) in the lock |
| `compaction` | a rewrite from `Prepare` to `EndCompaction`, with the checkpoint of the compacted file stored before the rename |
| `reader[r]` | a replay without the lock: `Open`, `Load` (the header's comparisons), `Fold`, `Conclude` (which may store a checkpoint) |

A power loss keeps of each file any prefix no shorter than what was synced, and of each
name any file it had since the directory was last synced. Left out: contents beyond
event identifiers, and offsets in bytes; the projection, which a replay rebuilds; the
sweep of abandoned temporary files. One compaction at a time, one append in the lock.

### CoordinationIdentity

Who a command acts for.

| variable | code |
|---|---|
| `res` | what the journal says of each reservation: stage, run, worktree, and whether its caller presented the run |
| `generation` | the last record of the journal, which the recheck compares |
| `mapping`, `ino` | `session-identities.json` and its inode, `SessionMappingVersion` |
| `marker` | the coordination-run marker of each worktree; `Malformed` where its text names no run, `Unreadable` where its bytes cannot be read |
| `stranded` | markers a process that died left under the name it moved them to |
| `lock`, `work[p]` | the mutation lock, and where each command is, with what it read and prepared |
| `last` | not in the code: the run last marked in a worktree and active there ever since |

A command resolves its caller (`Begin`, `ReadMarker`): a mapped session first, then
`CARGO_BERTH_RUN`, then the marker; `--run` overrides all. `Read` replays and judges
(`Valid` is `validate_coordination_identity` and `validate_worktree_occupancy`), `Draw`
draws up the mapping as it would be, `Acquire` rechecks both versions and after
`MaxAttempts` prepares again under the lock. `Append` is the record; `Publish` the
mapping, whose failure only leaves the session unmapped (`PublishFails`). A claim
publishes its marker when it has given the lock back (`Mark`); `select` while it holds
it. A release retires the marker of its run, and a board, a release and the drift hook
sweep markers that name no active run: `LookAtMarker` reads, `Detach` renames whatever
is there by then, `Judge` decides on what was detached, and puts it back unless a newer
marker has taken the name. A sweep removes a marker that names no run, and puts back one
it cannot read and ends the command with the error (`coordination_run_marker.rs:100-120`).

Left out: first touch and widening, which select or extend a reservation from an edit;
covers, enrollment and recovery, which publish markers of their own; conflicts, so
claims are for disjoint paths; releases that checkpoint, so a release ends a
reservation; `select` with `--run`; giving up on the lock, after which a command has
done nothing; a directory in the place of a marker, which a sweep removes when it is empty.
The inode of the mapping is not given again while
another process remembers it unless `ReusesInodes`.

### ReconcileEvidence

How a reconciliation, and the `release` verb, judge one reservation against git.

| variable | code |
|---|---|
| `commits`, `trunk`, `head`, `dirty`, `registered` | git: what each commit reaches and holds, the branch the reservation is judged at, the branch and the uncommitted files of its worktree, whether git has the worktree |
| `reservation` | stage and disposition, protected tip, trunk snapshot, `IntegrationEvidenceStatus`, merge extent, scoped-patch verdicts; `replays` is whether the fold has accepted every operation |
| `pass` | what the pass in flight has read; `full` is not in the code: the last pass ran to its end |

Git moves at any step: files are edited (`Edit`), committed (`CommitWork`), merged
(`MergeBranch`), squashed, reverted, overtaken by others' commits, and both branches are
reset. A pass reads the trunk (`ReadTrunk`, `observe_repository_facts`) and the registry
with the head (`ReadRegistry`, `WorktreeRegistry::classify`) in either order, and the
status of the worktree after them. What follows is a function of those reads:
`DerivedExtent` is `MergeExtent::derived`; `TipObservation` is `revalidate_protected_tip`,
with `Reanchored` for a proof whose trunk the new one contains and `DerivedStatus` for
the others (ancestry, then a verdict on record, then a comparison of content, which
`Answers` lets find the work, not find it, fail, or be put off to a later pass);
`Judged` is `judge_integration`. A plan is the sequence of records that the operations
of the pass leave, in the order of `complete_reconciliation_plan`: `OutstandingPlan` with
its settlement, `EndedRun`, the retirement of an orphan, `ReleasedPlan`, and `HookPlan`,
which keeps only verdicts. `AppendPlan` may stop after any of them: a kill, or a failed
append. `Release` is the verb: checkpoint, resnapshot, settle or revalidate.

The status read and the append are one step, because nothing between them looks at git;
the verb's reads and its append are one step for simplicity, so `EndedWithNothingLeft` is
about passes only. The revision of a proof subject is represented by what it is for:
`AdvanceSubject` drops the verdicts of the earlier one. A merge extent that is not
derived again because its key is the same is derived again here, with the same answer.

Left out: other reservations, and with them cover claims, ordering dependents, the
shares of a group of holders and the competition for the comparison (which is an answer
`Deferred` at any time); releases of unchanged scopes and branch-rewrite markers; rebased
and amended branches; the limit of two verdicts on record.

## 3. Runs

| run | instance | properties | distinct states |
|---|---|---|---|
| `ledger_writers` | 2 processes that claim, settle, read and compact, 2 overlapping reservations, 3 generations, 1 fault, one process impatient; fair | `NoOverlappingHolders`, `ImplementsAtomicLedger`, `EveryOperationEnds`, `ReadersYieldOnlyToCommits`, `HistoryKept` | 350 381 |
| `ledger_resets` | 2 writers, one also repairs, the other reinitializes or compacts after its transactions; 2 generations, 1 reset, 2 faults | `ReplayAccepts`, `RepairRestores`, `NothingAppendedWhileAhead` | 1 323 192 |
| `lock` | 3 callers, one impatient, 4 descriptors, 1 fault; fair | `NoOrphanedGrant`, `ImplementsAbstractLock`, `GrantsEnd` | 72 498 |
| `compaction` | 2 reservations, 1 incident, 5 records of every kind, 2 ticks | `DroppableExact`, `EvidenceReadable`, `PublishedAgrees`, `OnlyClocksRefuse`, `AuditRetained` | 1 499 416 |
| `audit` | a board read and a pass that may cover; 1 bypass and 2 faults, or 2 bypasses of hooks with one process id; fair | `RetainedRecorded`, `ImportedOnce`, `CleanPassRecordsAll`, `MarkersDrain` | 738 970 |
| `ordering` | 3 reservations in 2 lanes, 3 edges, 3 declarations, from an empty journal and from each cyclic one of 2 or 3 orders, and one with two cycles | `OneOrder`, `DetectorsAgree`, `OneSidedDeferralOrderable`, `NoNewCycle`, `RepairExact` | 33 287 |
| `ordering_mutual_defer` | 3 reservations in 3 lanes | `EveryDeferralOrderable` is violated | - |
| `gate` | 2 reservations, `integrate` and a git command, 1 permit, an order to begin with, 1 more declaration, enforcing, with and without an upstream | `PermitFactsReplay`, `EntriesJudged`, `DecisionStands`, `UndisturbedAuditSpends` | 1 689 011 |
| `checkpoint` | 3 files, 1 reader, a checkpoint every 2 records, 3 records, 1 kill, 1 power loss | `ReplaysWhole`, `AcknowledgedSurvive` | 3 669 551 |
| `identity` | 2 processes, 2 sessions, 2 reservations, 2 worktrees, one with a marker that names no run or cannot be read, 2 runs, 1 fault; fair | `SessionsActive`, `MarkerKept`, `PresentedAlone`, `OthersKept`, `StaleMarkersSwept` | 614 525 |
| `evidence` | 3 commits, 1 piece of work; fair | `RecordSound`, `SettledWithNothingLeft`, `MergedWorkSettles`, `LostProofNoticed` | 674 081 |
| `evidence_race` | the same, without fairness | `EndedWithNothingLeft` is violated | - |

The bounds and why they are enough:

- `MaxAttempts` and `MaxReads` stand for the constants of the code. In `BerthLedger` they
  are 2: one attempt that is retried and one that reaches the limit; more repeat the
  first. In `BypassAudit` and `CoordinationIdentity` `MaxAttempts` is 1: the retry is
  `BerthLedger`'s, and one lost recheck leads to the preparation under the lock.
- `MaxGeneration`, `MaxRecords`, `MaxDeclarations`, `MaximumOrderingEdges`,
  `MaxPermits`, `MaxResets` and `MaxTime` bound what a run does, not what an action may
  do. Three generations allow a claim and a settlement of two records, so a batch can be
  overtaken, cut and compacted. `Retention` is 0 ticks, so one tick is the day of
  `FINISHED_HISTORY_RETENTION`.
- Faults are kills and failed calls at any step. `ledger_resets` and `audit` have two, so
  that what repairs the first can meet the second. The proofs have no bound on faults.
- Two reservations that overlap: every conflict is between two. Three in `ordering`,
  because a cycle of two is closed by one declaration and a longer one by peers.
- In `gate`, `r1` comes before `r2`; the verb is run for `r2`, git may move the branch to
  any tip. One permit is issued at most, and two movers race to spend it. The upstream
  takes `r1` (`Published`), and a push is made once it publishes landed work of `r1`.
- In `checkpoint` a file can be replaced by a compaction and by a reinitialization: three
  files. The offsets of two files are counted in records, so they coincide as often as
  they can.
- In `identity` one process claims under a run it presents, in either worktree; the other
  runs every command in one of them. `PresentedAlone`, `SessionsActive` and `OthersKept`
  are each violated within two commands when a guard is dropped.
- In `evidence` three commits are the root and two more: a branch and a merge commit, a
  squash and a reset, work and its revert. Proofs are over any commits and work. `Held`
  and `Watched` stop git once nobody looks at the reservation any more.
- In `audit` a second hook starts once the first has ended, at any step of the passes;
  two are enough, because a name is mistaken for one other. The constraint `OneAtATime`
  keeps faults to behaviours with one hook: neither faults nor invocations are fair, so
  it cuts no behaviour short that `MarkersDrain` is about.
- Symmetry is used over reservations and files, in runs without liveness.

`CHECK_DEADLOCK FALSE` appears in the runs of `compaction`, `ordering`, `gate` and
`checkpoint`, whose records, declarations and moves run out. The others check it, `evidence` included,
where a pass can always begin.

Fairness. `Fairness` of `BerthLedger` is weak for the steps of a process, because an
operation is straight-line code that blocks nowhere but in the lock, and strong for
`Acquire`, because waiting callers queue in the kernel (the comment at
`ledger/lock.rs:94`). `GiveUp` is weakly fair: a deadline passes. Nothing is assumed
of verbs being started, of kills, or of failed writes. `MutationLock` assumes the
same of its threads and of `Grant`. `FairSpec` of `BypassAudit` is weak for the steps
of a hook and for the steps of a pass, the start of a pass included: markers are only
imported if verbs keep being called, which the code relies on as well (a marker
"records it for the next journal write", `hook/pre_tool_use.rs:491`). `MarkersDrain`
assumes further, in its own statement, that board reads keep getting as far as their
deletions. `FairSpec` of `CoordinationIdentity` is the same for the steps of a command
and for the lock; a process that looks at the board does so again, since nothing else
sweeps a marker in a worktree no command visits. `Fairness` of `ReconcileEvidence` is
not of single actions, since a pass may always be killed, cut short or sent back to its
start by another append: it is that passes go on being run, and that again and again one
has its reads answered, its comparison made and its whole plan appended. Each command
begins with a pass, and a comparison that was put off comes before those already tried
(`ScopedPatchEvaluationPriority`), so it is not put off for ever.

What the violated runs show:

- `ordering_mutual_defer`: two reservations each answer the other with a deferral.
  `deferred_overlap_endpoints` then finds pending deferrals in both directions and
  returns `AmbiguousDeferral` for either sequence, so no `sequence` resolves them, against
  `docs/cargo-berth/as-built/worktree-coordination.md:340`. A deferral of one side only
  can always be ordered, the limit on edges apart (`OneSidedDeferralOrderable`, proved).
- `evidence_race`: a pass reads the registry, and with it the head of the worktree; an
  agent writes and commits; the pass then reads the status, which is clean. The extent is
  derived from the old head and the new status, `Empty`, so the reservation is settled, or
  its run ended, as `Integrated` while its last commit is in no trunk and nothing protects
  it any longer. `docs/cargo-berth/as-built/worktree-coordination.md:703` wants a merge
  extent that shows no work outside the proof, line 705 a checkout that is clean at a head
  the target contains. `SettledWithNothingLeft`, proved, is what does hold: a branch that
  did not move since the registry was read is not ended with anything left.

### Observations without a run

TLC found each of these when the quoted sentence was checked; no run is kept for them.

- A recycled marker name. The reference-transaction hook names its marker after its
  process id (`gate/install.rs:589`). Once the marker is imported and deleted the name is
  free, while the journal keeps the import. A later hook of the same process id takes the
  name; its marker counts as imported (`gate/permit.rs:508-523`) and the next board read
  deletes it, with the bypass in no record, although `ledger/journal.rs:1969` calls the
  name a "non-recycled import identity". The run `audit` reaches this, and
  `RetainedRecorded` without `Mistaken` fails there. With it, and proved for any process
  ids, it says what does hold: a marker is given up only where its own name was imported
  for another bypass. Markers the engine writes have v7 UUIDs and are not exposed.
- A forced permit that is not spent. The committed phase judges the move again, on
  lifecycles and holds as they have become. Where one changed since the prepared phase
  the permit that admitted the move no longer covers, nothing is journalled, and the
  permit stays available, although line 561 of `worktree-coordination.md` says that
  permits are single-use and journalled. Where nothing changed it is spent
  (`UndisturbedAuditSpends`, proved).
- Evidence of a release after a reset trunk. `candidate_ancestors` asks git about the
  trunk snapshot of outstanding reservations only (`reconcile.rs:669`). An integrated
  ending whose proof was lost reads TrunkRewritten on the pass that notices and
  ObjectUnknown on the next, because its snapshot was not classified: the same git is
  described in two ways. Neither calls it integrated (`LostProofNoticed`).
- An orphan is retired on its last extent. `proves_nothing_outstanding`
  (`reservation/merge_extent.rs:53`) reads the key of the last completed observation. A
  worktree that committed after it and was then removed is retired although its branch
  holds unmerged commits.
- A witness that no longer holds the work. The content is found at a squash commit, the
  pass is killed before the release, the squash is reverted and the holder's branch is
  reset. The next pass carries the proof to the new trunk (`reanchored_proof`), and since
  its witness is the trunk evaluated (`IntegrationWitness::resolve`), records the trunk
  with the revert as the witness of the rewritten ending. The work is in the history
  of that commit, not in the commit: `RecordSound` asks for no more.
- A comparison put off, where reachability has refuted the proof on record, degrades what
  the pass reports and not the record (`PreserveMaterialized`, `ComparedStatus`), although
  `worktree-coordination.md:315` says "Degradation is durable". A later pass that compares
  writes it down.

- Two presented runs in one worktree. An unidentified claim makes `r1` under a run named
  for it and maps its session. A claim under `CARGO_BERTH_RUN` then makes `r2`: the holder
  of `r1` presented nothing and does not occupy. The session claims `r3` with the
  provenance Presented, since `validate_session_mapping` asks nothing of other runs. Both
  are active and presented, while `reservation/record.rs:258` says "one run occupies it at
  a time". `PresentedAlone` is therefore about worktrees in which every claim presented
  its run.
- With `ReusesInodes` in `CoordinationIdentity`: a process that read the version of the
  session mapping, and then two publications, the second of which is given the inode of
  the first file, pass the recheck (`session/mod.rs:253`); `OthersKept` and
  `SessionsActive` fail. "Every publication replaces this inode" is true only of the
  publication that follows.
- With `ReusesInodes` in `ReplayCheckpoint`: a checkpoint stored late can describe a file
  that has been given the number of the deleted one, and `ReplaysWhole` fails.
- A compaction can be refused for good. Claim; empty extent while active; checkpoint
  (terminal now, because of that extent); a later empty extent. The clock started at the
  checkpoint rests on the first extent, which nothing roots. The rewrite drops it, the
  compacted replay starts the clock at the last record, and `replays_agree` refuses,
  although the comment at `ledger/compaction.rs:236` says that superseded observations
  leave no replay state. Nothing is lost, and nothing but a clock is ever the reason
  (`OnlyClocksRefuse`).
- A reinitialization replaces the journal before it publishes the empty projection. A
  process killed between the two leaves a projection ahead of the journal, and each
  mutation and read ends in `CacheAhead` until the projection is repaired, against the
  comment on `Projection::publish` (`ledger/projection.rs:103`). Nothing is appended
  meanwhile (`NothingAppendedWhileAhead`).
- A marker that a peer deletes between the listing and the read is reported among
  `unrecorded_bypass_occurrences` (`gate/permit.rs:494-506`), which are documented as
  markers "that could not yet become ordinary audit records" (`reconcile.rs:181`). The
  next board read is right again.
- The notice of an import is documented as "reported once by the read that imported the
  marker into the journal and deleted it" (`docs/cargo-berth/as-built/json-contract.md`,
  lines 495-497). A pass that created a cover deletes its markers and then returns the
  report of a second round (`reconcile.rs:1695-1698`): the notice is dropped. Two board
  reads that both prepared on an imported marker both give it, because the deletion
  changes nothing that the recheck compares.
- One run marker whose bytes cannot be read is put back by every sweep, and the error ends
  the pass, board, release or drift hook that swept it; the worktrees that come after it
  are not swept either. Only a claim or a selection there replaces it. `StaleMarkersSwept`
  therefore excepts behaviours in which such a marker stays.
- A marker detached by a process that dies is not swept by anything: `stranded` only grows.

## 4. Proofs

Proved for all values of the constants, from the named assumptions of the modules alone
(which say only what the constants are), and from what a theorem itself assumes. The
type invariant of every module below is proved, and therefore checked by no run.

- `MutationLockProofs`: `LockInvariant`, and from it `LockTypeCorrect`, `LockSafe`
  (`HolderOwns`, `NoOrphanedGrant`) and `LockRefines` (`ImplementsAbstractLock`).
  `HolderOwns` is not inductive: a caller becomes a holder by receiving a message. The
  invariant adds that a descriptor belongs to the caller that opened it and to no
  other (`OwnDescriptor`), that a thread and a channel exist only for a queued request
  (`Unqueued`, `Awaited`, `Served`), and that a grant in a thread or a channel is of the
  owner (`GrantOwned`).
- `BerthLedgerProofs`: `LedgerInvariant`, and from it `LedgerTypeCorrect`, `NoOverlap`
  and `DistinctGenerations`. `NoOverlappingHolders` depends on what a process saw before
  it had the lock. The invariant says, for each process and step: what it read of the
  file it names is a prefix of that file (`Seen`); past the recheck its decision is
  about the journal as it is (`Decided`); while it appends, what is left of its batch is
  still legal (`Writing`); a verified rewrite keeps a well-formed journal and may be
  followed by the tail it admits (`Planned`, `Rewriting`). Well-formedness of the
  journal (`WellFormed`: distinct generations from 1 up, at most one claim of a
  reservation, and no active overlap) is preserved by `KeptSound` and
  `KeptWithTailSound` for every rewrite a compaction may choose.

  `FilesInvariant` is a second invariant on top of the first, about what the two files
  are to each other. Replay accepts the journal (`Accepted`); the projection is of a
  part of the journal or visibly ahead of it (`ProjectionShown`); the next operation of
  an open transaction is legal (`Legal`); a verdict is exactly what the validator says
  of what it was shown (`Judged`); a step that is about to publish a projection or a
  rewrite publishes the right one (`Publishing`). Its proof sorts all steps by what they
  do to the files (`FileStep`): nothing (`FilesKept`), a projection of the journal as it
  is (`Republished`), one legal record more (`Extended`), a compaction (`Replaced`), an
  empty journal (`Discarded`). From it follow `ReplayAccepted` (`ReplayAccepts`),
  `AppendsBehindTheProjection` (`NothingAppendedWhileAhead`), `RepairIsCurrent`
  (`RepairRestores`) and `HistoryIsKept` (`HistoryKept`).

  `ReadersYield` (`ReadersYieldOnlyToCommits`) assumes `NothingReinitialized`: a
  reinitialization takes the generation back, and a reader can then give up without a
  commit. `ReadInv` counts: what a reader has replayed has at least as many generations
  more than the journal it began with as it has lost races, and what is ahead of a
  replay was committed after it.

  `LedgerRefines` (`ImplementsAtomicLedger`) takes each step to one of `AtomicLedger`:
  the start of a mutation asks (`Ask`), any other start forgets the last answer
  (`Forget`), `OpenTransaction` is `Open`, `EndRecord` is `ApplyNext`, `Publish` of a
  whole batch is `Close`, `Reject` is `Refuse`, `RenameCompacted` is `Expire`, `Discard`
  is `Reset`, a kill or a failed record inside a transaction is `Abandon`, any other end
  is `Inconclusive`, and the rest changes nothing the serial ledger has. That a refusal
  is true of the journal when it is given is `Judged`. `RefinementAssumption` says that
  `None` is neither a request nor a batch.

- `BypassAuditProofs`: `TypeCorrect`, `MarkersImportedOnce`, `RetainedStaysRecorded` and
  `CleanPassesRecordAll` (`CleanPassRecordsAll`).
  `OnceInv` is the invariant behind the first two: a pass inside its section holds the
  lock (`LockInv`), an optimistic preparation has an attempt left (`AttemptInv`), and
  what a pass will import is in no record of the prefix it replayed, which past the
  recheck is the whole journal (`FreshInv`). `KeepInv` adds who a name belongs to
  (`OwnerInv`), that only markers with a durable record are given up (`DoneInv`), and
  how far each recording has come (`ProgressInv`). Nothing is assumed of process ids: two
  bypasses share a name only if their hooks share a process id (`OneOwner`), so a marker
  that is deleted is in the journal as its own bypass, or its name was imported for
  another (`DeleteKeeps`); no two files have one name at a time. `OwedInv` follows a
  bypass through a pass that began after it was retained: once the directory is listed it
  is in the journal or `Mistaken`, among the imports, counted as unrecorded, or its marker
  is still to be read (`Pending`).

- `IntegrationGateProofs`, its first part, of `OrderingGraph`: `TypeCorrect`, `JoinedOnce` (`OneOrder`), `CyclesAreOld`
  (`NoNewCycle`), `RepairsExact` (`RepairExact`) and `DeferralsOrderable`
  (`OneSidedDeferralOrderable`). An edge without which a cyclic graph is acyclic lies on
  each of its cycles (`OnEveryCycle`). That a
  declaration closes no cycle is a lemma about `Acyclic` for each way to declare; that
  two reservations are joined once rests on what `BindClaimSequence` and `PrepareEdge`
  leave out.

  `DetectorsAlwaysAgree` (`DetectorsAgree`) is about three loops. Each is written as a
  recursive function that either answers or calls itself once, on the next state, so one
  pair of lemmas serves all three: such a function exists where a measure falls with every
  step (`IterationExists`), and what it answers is the answer at a state where the loop
  ends, of which everything is true that the steps preserve (`IterationEnds`). Peeling
  keeps every set without a source whole. Reverse reachability keeps what it has seen
  within what waits for the target, and whatever follows a visited vertex visited or
  pending. Depth-first search keeps what is behind its path closed and acyclic, and the
  edges it followed from the path lead along it or behind it (`SearchInv`); an edge back to
  the path closes a cycle (`BackEdge`).
- `IntegrationGateProofs`, of the gate itself: `GateTypeCorrect`, `PermitsReplay` (`PermitFactsReplay`),
  `NothingTakenBack` (`NoLostMove`, checked by no run for that reason),
  `OnlyJudgedEnters` (`EntriesJudged`), `DecisionsStand` (`DecisionStands`) and `AuditsSpend` (`UndisturbedAuditSpends`). The
  invariants are `PermitInv` (a consumption is of a permit issued before, to the
  reservation that consumes it, once), `TipInv` (who holds git's lock moves the target
  from where it is, and `integrate` only forwards) and `FreshInv` (as long as nothing
  disturbed a mover, what it decided or was admitted would be so again).
- `ReplayCheckpointProofs`: `TypeCorrect`; and, where a file name is never given again
  (`~ReusesInodes`), `CheckpointsShowTheWhole` (`ReplaysWhole`) and `AcknowledgedKept`
  (`AcknowledgedSurvive`). `FileInv` says that no file or event is named twice
  (`NamesUsed`, `RecordsOld`, `RecordsDistinct`); that a checkpoint agrees with the file
  it names wherever both hold the same record (`CheckpointsAgree`, also for those a power
  loss may bring back), and so does what a reader has folded (`ReadersAgree`); that a
  rewrite is nobody's file until it is renamed (`RewriteHidden`), holds records of its
  source (`RewriteDrawn`) and follows it as far as its step has come (`RewriteFollows`);
  and that what is acknowledged is synced wherever it is (`AckedSynced`).
- `CoordinationIdentityProofs`: `TypeCorrect`, `RunsAlone` (`PresentedAlone`),
  `MarkersKept` (`MarkerKept`) and, where an inode is not given again while a process
  remembers it, `OthersStay` (`OthersKept`) and `SessionsFollow` (`SessionsActive`). Only
  the holder of the lock appends, publishes and detaches (`LockHeld`). A judgement holds
  as long as the generation it was made at is the current one (`Judged`), which past the
  recheck nobody can change (`Appended`). A mapping drawn up from a later read differs
  from the present one in nothing but this command's entries, as long as the version it
  remembers is current (`MappingDrawn`), and a new inode is none that a process remembers.
  An entry without an active reservation belongs to a release that is about to publish
  (`EntriesFollow`). What is detached from under an active run is judged on what it says
  and put back (`LastActive`, `Claiming`).

- `ReconcileEvidenceProofs`: `EvidenceInvariant`, and from it `TypeCorrect`,
  `RecordsSound` (`RecordSound`) and `SettlesWithNothingLeft` (`SettledWithNothingLeft`).
  `RecordSound` is not inductive: an operation replays only in the right stage, and a
  proof is right only about the tip it was made for. `EvidenceInv` adds that a commit's
  history goes on into histories of its commits (`Histories`), and that stage, tip,
  snapshot, evidence and witness fit each other (`Sound`). Commits never change once they
  are made (`Grows`), so what is true of them stays true however git moves; what a pass
  derives from any two commits is sound (`PassObserved`), and every prefix of every plan
  leaves a sound record (`PlanSound`), which is why it does not matter where a plan is
  cut. The ending property needs the reads of the pass, and `EndingLeavesNothing`, that
  no plan ends a reservation as integrated without a fresh empty extent.

- `JournalCompactionProofs`: `LegalJournals`, and from it `AlwaysReadable`
  (`EvidenceReadable`), `AlwaysCounted` (`DroppableExact`), `AlwaysAgrees`
  (`PublishedAgrees`), `ContentNeverRefused` (`OnlyClocksRefuse`) and `AlwaysAudited`
  (`AuditRetained`). All are about what a whole journal replays to, so they rest on an
  induction over its prefixes: the naturals are well founded (`LeastNat`, `Induction`), the
  replay of a record more is one application more (`ReplayStep`), and the rewrite keeps or
  drops one record at a time (`KeptSteps`).

  A journal is `Legal` if replay accepted every record when it came; that of a published
  rewrite is again, which is what a later compaction starts from. In a legal journal the
  account is exact (`AccountExact`): what replay counts as droppable, record by record,
  are the superseded observations there are, and a live one is named as often as it is
  somebody's latest or holds a clock. The rewrite drops reservations that no kept record
  ties to a retained one (`Excludes`, from the closure), and is followed record by record:
  after every prefix its replay has the retained reservations, incidents and coordination
  records of the original's (`Simulated`), except for the extent of a reservation that is
  observed again later. Hence the content always agrees, and only clocks can differ.
  A rewrite that forgets nobody admits records committed after it was verified: they have
  the same effect on both replays (`SameReplay`, `TailSame`).

  `PublishedAgrees` is not inductive, since the rewrite was verified some steps before it
  is published. `CompactionInv` says that the journal is legal and `replay` its replay
  (`JournalInv`), that all that was verified of the prepared rewrite holds of the prefix it
  was made from (`PreparedInv`), and how stage, disposition, tip and base of a retained
  reservation fit, so that its evidence can be read (`AllSound`).

Every inductive invariant was an invariant of a TLC run before it was proved.

Only model-checked: the liveness properties (`EveryOperationEnds`, `GrantsEnd`,
`MarkersDrain`, `StaleMarkersSwept`, `MergedWorkSettles`, `LostProofNoticed`). Liveness
under fairness is outside the prover. Every invariant and every other property of a
passing run is proved.

## 5. What is not modelled

- In `BerthLedger`: power loss and inode reuse (`ReplayCheckpoint` has both), the version
  of the session mapping in the recheck (`CoordinationIdentity` has it), the list of
  gated branches, the marker that holds back a refused compaction and the file that
  throttles the pruning of history: each only makes an operation retry, or a compaction
  not start. `append_recoverable_operations`, which goes on after a failed append:
  `FailRecord` ends its transaction; `BypassAudit` has it.
- In `ReplayCheckpoint`: the projection, which is not synced (`ledger/projection.rs:103`)
  and may be any earlier one, or one ahead of the journal, after a power loss. It is a
  cache; one that is ahead is refused until it is repaired, which `ledger_resets` has for
  kills. No property covers the projection after a power loss.
- In `ReservationReplay`: scopes, permits, answers, worktree moves; proof subjects and
  verdicts of scoped patches, which `ReconcileEvidence` has. Records of these kinds change
  neither stage nor clock.
- In `BypassAudit`: repositories that are not enrolled, where nothing is recorded; the
  other operations of a reconciliation, whose failure is an `Abandon`; a compaction
  between replay and recheck, which only makes the recheck fail (bypass records are
  kept); branch-rewrite markers, which share the directory and the name prefix and are
  skipped; the shell wrapper of the edit hook, which the documentation names and the
  repository does not hold.
- In `JournalCompaction` a record weighs one unit, so `droppable` counts records where
  the code counts bytes.
- What section 2 names as left out of each module.
- Scopes and path containment, covers, branch-rewrite markers, recovery, drift, the told
  record of hooks, worktree enrollment: planned below.
- Git, the board, output, configuration, command line: an external program, or wording
  and layout over a replayed state.
- `cargo-port`, `cargo-tile`, `cargo-handler`: terminal programs whose bulk is rendering,
  key handling and scans of the file system and the process table; they share no state
  with `cargo-berth`. `cargo-mend` is an analysis of Rust syntax over compiler output,
  `tui_pane` a library of widgets. Most of the lines of the repository are theirs.

## 6. Plan

What is left, in this order.

1. First touch and widening in `CoordinationIdentity`: an edit that selects or extends a
   reservation, with the check of `hook/pre_tool_use.rs` before it (`EditAdmission`).
2. Branch-rewrite markers beside `BypassAudit`: a pass updates them in place, and their
   maps decide which reservations move.
3. `ScopeConflicts`: containment, antichains and overlap as pure operators against a
   reference definition over bounded paths.
4. Several reservations in `ReconcileEvidence`: cover claims, shares of a group of
   holders, ordering dependents, and the recovery verb, which replaces a disposition whose
   evidence was lost.
5. `ToldRecord`: notices told by concurrent hooks.
6. Worktree enrollment and liveness, then `cargo-tile`'s shim registration and
   `cargo-port`'s watcher.
