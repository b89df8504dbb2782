# Verification of norte

norte is a file manager whose file operations run in a core
(`crates/norte-core`), inside a daemon that several frontends, agents and
command lines share, or embedded in one of them. This directory holds TLA+
models of the core's concurrent parts, the TLC runs that check them on small
instances and TLAPS proofs that hold for every instance. Paths below are
relative to `crates/norte-core/src/` unless they say otherwise.

| Module | What it is |
| --- | --- |
| `Scheduler` | the task scheduler and the pause gate (`scheduler.rs`, `progress.rs`) |
| `TaskLifecycle` | what the scheduler promises of a task: an abstract specification that `Scheduler` implements |
| `Approvals` | policy questions put to a human: the router, the decides, the frontends (`daemon/approvals.rs`) |
| `Spool` | retained sync plans: registry, files, pumps, applies, teardown (`sync/spool.rs` and its callers) |
| `UiSession` | the saved screen: store, file, lock, writer, embedded window (`ui_session.rs`, `ui_session/disk.rs`, `embedded.rs`) |
| `Sessions` | the pool of remote sessions and its one caller (`sessions.rs`, `engine.rs` `provider_for`) |
| `RenamePlan` | the planner of a batch of renames, as functions (`rename/plan.rs`) |
| `Renames` | its executor and the undo of a session over it (`rename/exec.rs`, `undo.rs`); extends `RenamePlan` |
| `Journal` | the hash chain, who owns the file, pinning, anchors, compaction (`journal.rs`, `embedded.rs`, `observer.rs`, `crates/norte-cli/src/cmd/audit.rs`) |
| `SyncExec` | a sync plan turned into writes, and its undo (`sync/exec.rs`, `undo.rs`) |
| `Transfer` | one file copied or moved, with retries (`ops.rs`) |
| `MC*` | values for the constants of the runs |
| `SchedulerProofs`, `ApprovalsProofs`, `SessionsProofs`, `JournalProofs`, `TransferProofs`, `UiSessionProofs`, `RenamesProofs` | theorems about the module of that name, and their proofs |
| `SyncProofs` | the same for `SyncExec` and `Spool`: a retained plan and its execution (the names of `Spool` that `SyncExec` has too are prefixed: `SpoolInit`, `SpoolNext`, `SpoolSpec`) |

`PROJECT.json` maps each definition to the lines it models and lists runs,
mutants, hazards, findings and theorems.

## 1. Inventory

### The core's own logic

| Component | State it keeps | Operations | Interacts with | What is hard | What makes it correct |
| --- | --- | --- | --- | --- | --- |
| Scheduler (`scheduler.rs`) | a heap and a semaphore per lane, a token, a pause gate and a published state per task | submit, cancel, pause, resume, move; runner; checkpoint | every long operation is one of its tasks; clients act through handles | runners and jobs are not paired; slots are lent during a pause; cancels race everything | slots are neither lost nor duplicated, the queue is serial, order, every task ends |
| Approvals (`daemon/approvals.rs`) | the pending table, an id counter, one oneshot per question | request, decide, pending, set_broadcaster | policy gate suspends a dispatch; frontends decide; broadcast | deadline, withdrawal, two deciders and a restart race | fail-closed, one decision, no misdirected answer, bounded table, nobody missed |
| Retained plans (`sync/spool.rs`) | the registry (issued, applying, planning, dead), the plan files | create, write, finish, open, remove, forget | planning tasks, pumps, `sync.apply`, the teardown of a connection | files are named by content; unlinks come later than decisions | a plan is executed once at a time, a mark has a holder, a dead connection leaves nothing |
| Journal (`journal.rs`, `observer.rs`) | the hash-chained table, the head in memory, batches | record, compensate, mark, compact, verify | every mutating operation | the head is advanced after an await; compaction beside appends | the chain has one successor per entry and no gap that is not declared |
| Undo (`undo.rs`) | none of its own: it reads the journal | plan, revert, compensate | journal, providers, scheduler | the units are chosen before they are reverted | LIFO, batches whole or not at all, nothing reverted over drift |
| Batch rename (`rename/`) | a plan with temporaries; the steps done | plan, execute, roll back | providers, journal | cycles, failures after the effect, names taken meanwhile | the result is the plan's, or the report says exactly what stayed |
| Sync execution (`sync/exec.rs`) | the step at hand, the buried destination | revalidate, bury, copy, record, compensate | spool, journal, providers | a record that fails after the effect | nothing approved is destroyed unrecorded |
| Transfers (`ops.rs`) | partial files, files in flight | copy, move, delete with retries | scheduler, providers, journal | a commit that landed and reported an error | no finished copy is failed, no foreign file is claimed |
| Sessions (`sessions.rs`) | the pool, the dials in flight, the cooldowns | get, dial, leave, evict | providers | single flight with waiters that leave | one dial per key, no waiter lost, no dial cancelled for another |
| UI session (`ui_session.rs`) | the document, its revision, the dirty flag, the disk lock | put, flush, seal, adopt | frontends, a second process | a put during a flush, a late lock | an acknowledged put is written |
| Hooks (`hooks.rs`) | a bounded queue, a fuse | emit, drop, run | operations, plugins | overload | drops are counted, a bad guest is cut off |
| Policy (`policy.rs`) | an ordered rule list | evaluate | the engine's gate | overlapping rules | the first match decides |
| Daemon (`daemon/server.rs`) | connections, subscriptions, feeds, live tasks | dispatch of every method | everything above | cancellation of a dispatch at any await; a slow peer | a slow or dead peer costs nobody else anything |
| Engine, backend (`engine.rs`, `backend/`) | registries | submit work, forward | everything above | little: a facade | |

The remaining crates are providers (`norte-vfs-*`), the client
(`crates/norte-client`), the frontends, parsers, catalogues and tools; each is
listed in `PROJECT.json` with the reason it is not modelled.

### How the modelled parts meet

A frontend's request reaches the daemon, which dispatches the requests of one
connection one after the other. A mutating request passes the policy gate; an
Ask suspends the dispatch in `Approvals` until a human, the deadline or a
withdrawal ends it. What is let through is submitted to the `Scheduler`, which
runs it when a slot of its lane is free, and pins the journal for its whole
life (`Journal`). `sync.plan` is such a task: it streams the plan to a file of
the `Spool`; a pump carries the frames to the client. `sync.apply` takes the
right to a plan, passes the gate and submits the task of `SyncExec`.
`rename_batch` submits that of `Renames`, copies and moves that of `Transfer`.
Each of them writes rows, which an undo, again a task, reads and compensates:
`Renames` and `SyncExec` hold executor and undo together because what goes
wrong goes wrong between the two. A provider of a remote tree comes from
`Sessions`. The screen a frontend shows is kept by `UiSession`.

The models are otherwise separate: each takes the others as an environment that
may do anything the code allows (the gate in `Spool` may refuse or be cancelled;
a body in `Scheduler` may end or park at any point; a row in `Renames`,
`SyncExec` and `Transfer` may fail to land; any call to a provider may fail
before or after its effect).

## 2. Plan

Done: the modules above, and the proofs of all of them except `RenamePlan`
(section 12).

Left, in this order:

1. `AppliedIsKnown` of `Renames` for every instance in which no two tasks work
   on the same files at once; as it stands it is a property of the instance that
   `renames` checks (section 12).
2. An abstract specification of the journal seen by an undo (a log of effects
   and reversals) that `Renames` and `SyncExec` implement.
3. `Hooks`, the policy's first match, and the reconnecting client composed with
   `Approvals`.
4. Transfers of trees and resumed partial files.

## 3. Scheduler

State. A task's id is its number, `lane`, `prio` and `seq` are the fields of
`QueuedJob`; `heap[k]` and `free[k]` are the heap and the semaphore of a lane,
permits numbered so that one can be followed. `runner[r]` is where the runner
spawned by the submit of task r stands: it may pop another submit's job.
`permit` and `held` are the two halves of a `PauseGate`. `worker[j][w]` is a
caller of `checkpoint`: the coordinator (`Main`) or a file in flight of
`copy_file_run`. `state` is what `ProgressReporter` published.

Actions. `submit_en` and `push` are the two halves of `submit_en` (the id is
taken before the heap's lock); `cancel`, `pause`, `resume`, `mover_en_cola` are
the clients'; `runner_acquires`, `runner_sees_cancel`, `take_job` and `pop` are
the runner's biased select and what follows; `run_job` is the start;
`checkpoint_*`, `parked_*`, `reacquire*` and `wait_for_slot` are the pieces of
`TaskCtx::checkpoint` between its awaits; `file_starts`, `file_lands` and
`run_drains` are `copy_file_run`; `body_returns`, `body_panics`, `publish_end`
the supervised end. A body is one future, so its callers interleave only at
awaits.

Left out: byte and entry counts and their 10 Hz coalescing (a change of state
always publishes); the work of a body between checkpoints.

`TaskLifecycle` is the view of somebody who watches published states and slots:
a task runs on a slot nobody else has, or without one only once it is
cancelled; when it publishes Paused its slot is back; the end is final and
comes after the slot is free. `Scheduler` instantiates it with `phase` computed
from `outcome` and the callers, and the same `lane`, `cancelled`, `permit`,
`state`.

Runs:

| Run | Instance | Properties |
| --- | --- | --- |
| `sched_lanes` | 3 tasks, 2 priorities, a provider lane with 2 slots and the serial queue, one caller per body | `TypeOK`, `RunnersMatchJobs`, `TurnsAreKept` |
| `sched_gate` | 2 tasks of the serial queue, the first pausable with a file in flight beside its coordinator, under `FairSpec` (23,073 states) | `SlotAccounting`, `SlotsGuardWork`, `GoesOnWithSlot`, `ImplementsLifecycle`, `TasksEnd` |

`SlotsGuardWork` is `WorkIsBacked` (body code of a task nobody cancelled runs on
a slot, or while a sibling has lent it) and `QueueIsSerial`; `TurnsAreKept` is
`LeavesInOrder` and `MovesOneTurn`; `TasksEnd` is `CancelledEnds` and
`UnpausedEnds`. A property that is a conjunction has one mutant per conjunct.

Why the bounds are enough: a runner that takes another submit's job needs two
queued jobs, and one that is overtaken needs a third, in front; a move needs
two neighbours and one bystander; two slots let a cancelled job run beside a
held one. A pause with one file in flight already has a caller that lends the
slot and one that has not reached a checkpoint, in either order; what three
callers add is covered by the proofs, which are for any number of them. A move
across priorities swaps turns that the priority then overrides; the engine
submits queued work with one priority only, so `MovesOneTurn` is stated for that
case.

Fairness. `RunnerFairness`: the runtime polls what is ready (weak fairness of
the runner's steps, of the awaits inside a checkpoint, of the start and of the
last publication); a tokio semaphore serves its waiters in order, so a waiter
that keeps waiting while permits keep coming is served (strong fairness of the
two acquisitions). `BodyFairness`: a body ends or stops at a checkpoint when
paused; it is what every operation of the core does. Clients owe nothing: a
task may stay paused for ever, and `UnpausedEnds` says that its neighbours end
all the same. Its exception, `SlotKept`, is the state that `PausedHasLent` shows
(section 13): a paused body that keeps its slot does keep its neighbours out.

## 4. Approvals

State. `pending` is the router's table, `id`, `next_id` and `first_id` its
counter; `gate[a]` is where the suspended `request` of a question stands,
`answer[a]` its oneshot channel, `outcome[a]` what it returned. `deciding[f]`
is a decide between the lock and the send. A frontend has a `link` (its
subscription and how far its resynchronisation is), what is on its way to it
(`listed`, `outbox`), what its client let through (`seen`) and what its human
sees (`screen`). `taken`, `shown` and `acked` record history for the
properties.

Actions. `request`, `register`, `announce`, `wakes`, `elapses`, `closes` and
`guard_drop` are `request` between its locks and awaits, `withdrawn` its drop;
`decide` and `decide_sends` are `DaemonApprovalResolver::decide`; `broadcast` is the
fan-out of the server, with full outboxes; `connect`, `pending_snapshot`,
`resync`, `pump` and `push_approval` are the client's (`crates/norte-client`).
`restart` is the end of the process and the start of another one, with ids
seeded from its clock: `Seed` is past every id given out before, which is what
the nanosecond clock gives unless it goes back (the code calls it best effort).

Left out: the text of a question, and who may decide (frontends here are the
human ones).

| Run | Instance | Properties |
| --- | --- | --- |
| `approvals` | 2 questions, 2 processes, 2 frontends of which one owns a live feed, room for 1 (236,024 states) | `DecidedOnceByHuman`, `NobodyMissed`, `AnswersWhatWasShown`, `TableIsSound`, `AsksEnd` |

`DecidedOnceByHuman` is `TakenOnce` and `ApprovedByHuman`; `TableIsSound` is
`BoundedTable` and `NoOrphans`. The constraint `Load` of `MCApprovals` keeps the
instance small: with a second question only one frontend takes part. Two
frontends are needed for a double decision, two questions for a misdirected
answer or a full table, and neither case needs the other; two processes for an
old dialog. The steps of a suspended request (`Gate`, the only fair ones) and a
restart never leave the states the constraint admits, so the constraint hides
no behaviour that `AsksEnd` is about. Fairness: the runtime polls a suspended
dispatch at its deadline and runs what does not wait (weak fairness of `Gate`);
humans and clients owe nothing.

## 5. Spool

State. `issued`, `applying`, `planning` and `dead` are the `Registry`;
`disk[k]` is the plan whose file has the name of key k (a connection and a
digest: plans of the same tree share it), `part` the temporary files, `stale`
the plans past their TTL. `stage[p]` is where a planning task stands, `pump[p]`
the pump of its frames, `apply[a]` a `sync.apply` from its claim to the unlink,
`link[c]` how far the teardown of a connection is.

Actions. Each critical section of the registry and each operation of the
blocking pool is an action of its own: `create` … `withdrawn_unlinks` for a
plan, `pump_*`, `open` … `remove_unlinks` for an apply, `hang_up` and
`drop_connection*` for a teardown, `expires` for the TTL. `Drains` and
`CancelsAt` say what clients do: whether every live client reads its socket
within `FEED_ROOM_WAIT`, and where an `rpc.cancel` of `sync.apply` lands. They
are parameters because two of the disagreements of section 13 depend on them. An
apply dropped inside `Spool::open`, with its mark taken and no guard yet, is the
stage "dropped": `MarkHasHolder` names it as the one mark nobody will release.

Left out: the bytes of a plan, its digest and the check for tampering (a plan
is its key); the sweep at startup (it is the initial state); failing unlinks;
the embedded core, which has one connection; daemons of an older version.

| Run | Instance | Properties |
| --- | --- | --- |
| `spool` | 2 connections, 2 digests (one of a plan with blockers), 2 plans, 2 applies, room for one tombstone; clients read, cancels at the gate and inside `open` (121,094 states) | `SingleUse`, `MarkHasHolder`, `RegistryIsExact`, `TeardownCompletes` |

`RegistryIsExact` is `WritersCounted` and `TombstonesBounded`. `Load` of
`MCSpool` keeps the second connection out once there are two plans, and both of
one tree: every race here is between two plans of one key, or a plan and an
apply of it, and a teardown; a tombstone is swept when a second connection
closes. Fairness: the scheduler runs every task to its end (section 3), and the
runtime the pumps and what is left of a connection. `TeardownCompletes` needs no
apply to end.

## 6. UiSession

State. `disk` and `holder` are `session.json` and its lock; per process,
`store`, `dirty` and `owner` are the `SessionStore`, `right` the right to write
(`WriteState`, `WriteRight`), `inflight` the document of a blocking write and
`pc` how far its start or shutdown is. A body is the set of puts it was made
from: a client takes what it last read and adds its own, so "builds on" is
inclusion.

Actions. `open_lock` and `open_load` start a process; `claim`, `session_get`,
`session_answer`, `session_put` and `session_release` are a connection's;
`retry_lock`, `retry_adopt` and `retry_persists` are the late acquisition of the
lock (#237), between whose steps a put may land; `take_dirty`, `flush_session`,
`dump`, `write_ok` and `write_fails` the save of a daemon or a window; `seal`,
`cancel`, `last_flush` and `writer_ends` the orderly shutdown; `dies` a kill.

Run `ui_session`: a daemon with two connections and a window of a newer binary,
2 puts, one failing write, one unreadable load (321,809 states). `SealedIsSaved`,
`OwnerIsCurrent`, `FileIsKept` (`SavedIsKept`: a save replaces only what it was
built on; `FutureIsKept`: a file of a newer binary survives an older one) and
`SavesHappen` (`AcceptedIsSaved`, `LateRight`). `load_or_default` starts a
process that found the file unreadable afresh and lets it write: once such a
process has accepted a put the document has started over, and what was saved
before is excepted (`StartedOver`). The exception is not only that process's:
with three processes and four puts, one that loaded the old document before,
and gets the lock after, finds a lower revision in the file, does not adopt it
(`adopt_from_disk`, `ui_session.rs:241`) and saves over what it never read. The
instance of the run is too small for it; it came out of the proof. Two puts are one in flight and one beside it; the third actor of a
handover is the process that was there before. Fairness: the daemon's writer
wakes on its timer and the blocking pool runs its writes (weak fairness of
`Writer`), and a start goes on to its load.

Not modelled: `adopt_revision`, a revision at the end of its range, a document
that is too large, a `Daemon` dropped without being run.

## 7. Sessions

State. `providers` is the cache (an Arc per key, aliases included), `over` says
which archive reads from which session, `connecting` the dial registered for an
endpoint with its waiters and aliases, `dial`, `outcome` and `cancelled` the
dial tasks, `cooldown` the negative cache with its age in four steps, `caller`
the requests.

Actions. Each is what one of the pool's locks covers: `request`,
`alias_current`, `check_cooldown`, `connect_remote`, `wakes` and `drops` for a
caller; `dial_ok`, `dial_err`, `dial_cancelled`, `dial_sends` for a dial task;
`insert_composite`, `uses`, `observes` (an eviction) and `close` for sessions;
`connection_dies` and `time_passes` for the world.

Run `sessions`: an endpoint asked by two names, another endpoint, 2 callers, 2
dials, 2 sessions, room for one cooldown (1.66 million states).
`DialsAreShared` is `WaitersAreCounted` and `NobodyIsStranded`;
`CachesAreSound` is `OneSession`, `EvictedStaysOut` and `CooldownBounded`. Two
callers are a dial joined and left, two dials one that was abandoned beside the
one that took its place, and a cap of one is full at the second failure. A
session the human closed by one of its names is excepted from `OneSession`:
`close` removes one key (section 13).

Not modelled: the notices to observers, what a connection carries.

## 8. RenamePlan and Renames

`RenamePlan` translates `classify` and `order` as functions over a listing:
twins that fold to one key, blockers, claims, chains walked from their free end,
cycles opened with a temporary name. `PlanIsRight` compares them with a
definition that knows no order: a plan exists exactly when all pairs can move at
once, and its steps, none of which overwrites, give the directory in which they
have. The hash of a plan is the plan.

State of `Renames`. `dir` is a directory whose provider compares bytes, `rows`
the journal, `counter` its batch counter, `task` where each batch and each undo
stands, `report` what it reports: the rows whose compensation was lost, the row an
undo was blocked at, and the sets `stuck` and `uncertain` of at most one step each.
A row carries the task that wrote it (`by`), which the table does not: a batch
number alone would not tell the rows of two processes apart if one were given out
twice, and that it is not is part of what is shown (`BatchesApart`). The
journal may start with rows of an earlier process, none of which undoes another
(`HistoryAssumption`).

Actions. `rename_batch_plan`, `refuse` and `rename_batch` are the engine's;
`rename_*`, `landed`, `record_*`, `unwind_*`, `compensate` and
`compensation_lost` the executor's `run` and `unwind` between their awaits, with
an answer that may be lost after the effect (`rename_fails`) and the probe that
tells; `undo_entries`, `take_turn`, `skip_undone`, `stop_in_part`, `revert_entry*`,
`revert_batch*` an undo, which runs a batch's inverse through the same executor;
`create`, `delete`, `cancel` and `crash` (with the reopening of the journal) the
world.

Run `renames`: seven names of which two are twins and one a temporary; a cycle,
a chain that ends on a twin or a single rename; a row of an earlier process; two
undos; one fault, one foreign file, one cancellation, one crash (1.66 million
states). `PlanIsRight`, `AppliedIsKnown`, `BatchIsWhole` (`AllOrNothing`,
`CancelledIsBack`, `BatchesApart`), `UndoneOnce`, `StrictLIFO`. The smallest
batch that can be half done has two steps and a cycle has three; a second undo
is needed for a row undone twice, an earlier row for an order to be broken. The
properties except the batches that an undo chose while they were being run or
reverted (`early`): section 13 says why. `ProbeRaces = FALSE` bounds the world:
nobody creates a file between the failure of a call and the probe, which the
probe, made of two stats, cannot tell from our own.

Not modelled: the patterns that compute names, organize and changes of mode,
directories that fold case and the detour they need, the ceiling of an undo.

## 9. Journal

State. `rows`, `base`, `anchors` and `signed` are the file and its side files;
`holder` SQLite's exclusive lock; `handle[p]` the head and the counter of batches
a process keeps in memory; `window` the ownership window of `LazyJournal` with
what it last announced; `front` what the frontend was told; `task` the tasks
with their pin; `job` a compaction. A hash is the sequence of the records below
it.

Actions. `journal_gate`, `pin_for_task`, `alloc_batch`, `record_entry`,
`record_fails`, `mutate_unrecorded` and `finish` are a task's; `resolve_now`,
`release_if_idle`, `set_warning_sink` and `clocks` the session's; `daemon_start`,
`session_start` and `process_ends` processes; `audit_anchor`, `compact_plan`,
`compact_sign`, `compact` and `compact_ends` the commands, which may be killed
between any two of their steps; `file_permissions` a file that cannot be opened
for a while.

Runs. `journal`: one session, the daemon, the compactor, 2 tasks of 2 rows, one
end of a process, one fault, 2 compactions (2.32 million states):
`ChainIsSound` (`NeverAccused`: the audit accepts every reachable file;
`HeadIsCurrent`), `RecordedWhole`, `NotMute`, `CompactionIsWhole`. Two processes
are a head that goes stale, two tasks a pin beside a release, two compactions a
base replaced by another. `journal_indicator` violates `IndicatorGoesOff`.

Not modelled: power loss under the WAL, torn lines of the side files, unknown
formats and migrations, queries for display, the timeouts of a release, a caller
dropped inside `record_entry`.

## 10. SyncExec

State. A path of `dest` holds what it held when the plan was made, what the
source has, a directory, half a tree, somebody else's file or nothing; `source`
says whose source is still there; `trash` is what was buried, in order; `rows`
the batch and its compensations; `run` the task, `undo` an undo; `strange`,
`late`, `bare` and `doubted` are history for the properties.

Actions. `step_*` choose and revalidate; `bury*`, `destroy_*`, `remove_node*`
and `make_*` are the effects, each with a clean failure and one in doubt;
`trashed*`, `created*`, `removed*` the rows; `bury_returned` and
`bury_not_returned` what happens when a row does not land; `undo_*`, `revert_*`,
`compensated`, `compensation_lost` are `revert_sync_batch`; `meddle`,
`source_goes`, `cancel` and `crash` the world.

A path inside another path of the plan is inside a directory the plan creates
(`NestingAssumption`): the walk of `crates/norte-sync` descends into a pair of
directories and into one that only the source has, never into what a step
replaces or deletes.

Runs. `sync_exec`: a plan with one step of each kind, over a trash that names
what it buries, one that does not and none; 2 faults, one foreign write, one
cancellation, 2 undos (2.64 million states). `DestinationIsSafe`
(`NothingIsLostQuietly`, `SourceLooksFirst`), `ForeignStays`, `ReportIsTrue`,
`UndoIsSafe` (`UndoIsHonest`, `NothingGoesInside`). Two faults are an effect
whose row fails and a return that fails too. Excepted: paths somebody else
touched, a single destruction in doubt, and the path `sync_undo` is about.
`sync_undo` violates `OriginalIsBuriedOnce`.

Not modelled: the comparison that makes a plan, a root swapped under the run,
an edit that keeps size and second, changes below the first level of a tree,
policy verdicts in the middle of a batch, a failing `alloc_batch`.

## 11. Transfer

State. `fs` holds a file or nobody at the source, the destination and the free
name a collision may choose; `task` is the await it stands at, with its attempt
and its doubt; `rows` the journal, `did` the effects that really happened.

Actions. `rename_*` and `probe*` are `rename_retrying` and `rename_applied`;
`collide` the policy; `remove_*` the clearing of the destination and the removal
of the source; `commit_*` and `copy_*` a copy whose commit may be in doubt;
`on_mutation*` the row; `standing` the second look before the source goes;
`meddle` and `cancel` the world.

Run `transfer`: every copy and move, on one provider (that can rename or not,
with identities or not) and across two, under four policies; `MAX_RETRIES` is 3
as in the code; one row that does not land; three foreign writes (224,666
states). `NeverNowhere`, `RowsAreTrue` (`EffectsHaveRows`, `ClaimsAreOurs`),
`AnswersAreTrue`, `AlwaysEnds`. Three foreign writes empty, fill and empty a
name between two attempts. A transient error may come as often as it likes: that
`AlwaysEnds` holds is the count of attempts. Fairness: the runtime polls the
task and every call to a provider answers (weak fairness of `Work`); the code
has no timeout there, a provider that never answers is one it waits for.
Foreign files have another size (`SameSize = FALSE`): section 13.

Not modelled: trees, links, native copies, resumed partial files, renames that
change only the spelling, the policy Newer, others who touch the source,
`delete_task` and `write_task`.

All runs have `CHECK_DEADLOCK FALSE`: tasks, questions, plans, puts and faults
are bounded, and once all have ended nothing is left to do. Only `sched_lanes`
lists its `TypeOK`; the other modules' hold on the same instances when they are
added to the cfg, and are proved except that of `Renames` (section 12).

## 12. What is proved

TLAPS proves, for every value of the constants that satisfies the named
assumptions: bounds are naturals (`MaxTasksAssumption`, `BoundsAssumption`, …;
`MaxSeqAssumption` leaves room for the one row a journal may start with), the
queue is not a scheme, `Main` is a caller, the tombstone cap is positive, markers
of absence are no values (`NoneAssumption`, `DocAssumption`, `AbsentAssumption`,
`CompositeAssumption`), an endpoint exists and the callers are finitely many
(`KeysAssumption`, `CanonAssumption`), a plan is one `norte-sync` can make
(`PlanAssumption`, `NestingAssumption`), batches and undos are different tasks and
the rows a journal starts with undo nothing (`TasksAssumption`,
`HistoryAssumption`). TLC evaluates each of them in a run.

- `SchedulerProofs`. The inductive invariant is `TypeOK /\ Agreement /\
  SlotAccounting` (`Invariance`). `SlotAccounting` alone is not inductive:
  whether giving a permit back duplicates it depends on who may hold one, hence
  `StagesAgree` (submitted, queued, open, over exclude each other) and
  `PermitsAgree`; that nobody works unbacked depends on there being a single
  lender and on what "held" means, hence `LendingAgrees`; and that `pop` has one
  answer depends on `SeqsDistinct`. From it: `TypeCorrect`, `SlotsAccountedFor`,
  `WorkAlwaysBacked`, `SerialQueue` (the queue has one slot, so two backed
  bodies would share it), the two of them together `SlotsAlwaysGuardWork`, and
  the action property `SlotBackBeforeGoingOn`.
  `RunnersAndJobs` adds the equality of two cardinalities, step by step: each
  action adds one to both sides, takes one from both, or changes neither.
  `TurnsKept` follows from the invariant (`SeqsDistinct` makes `Before` a total
  order, and a move exchanges the turns of two neighbours, so that every rank
  but theirs is the cardinality it was). `KeepsLifecycle` is the refinement:
  initial states map to initial states and every action to an action of
  `TaskLifecycle` or to a stutter. It needs one more invariant,
  `LenderIsPaused`: the caller that lent the slot of a task nobody cancelled has
  published the pause and no sibling publishes over it before the slot is back;
  without it the step that lends would not be the lifecycle's Paused.
- `ApprovalsProofs`. The inductive invariant (`ApprovalsInvariant`) adds to the
  properties: every question has an id of its own over all processes
  (`DistinctIds`); clients know only what was asked (`ClientsKnowAsked`); a
  decide in hand is for the question shown (`InHand`); an entry is in the table,
  in one decide, or out of reach (`OneTaker`); a channel holds only an
  acknowledged answer (`Told`). From it: `ApprovalsTypeCorrect`,
  `DecidedAtMostOnce` and `FailClosed` (`DecisionsAreSound`),
  `AnswersReachTheirQuestion`, `TableBounded` and `TableWithoutOrphans`
  (`TableAlwaysSound`), `NoAskMissed`. They rest on the seed of a new
  process being past the ids of the old ones, as the model has it.
- `SyncProofs`, about `Spool`. `CoreInvariant` (the shape of the registry, keys, and the exact
  count of writers) gives `SpoolTypeCorrect` and `WritersAlwaysCounted`; with
  the finiteness of `dead` it gives `TombstonesStayBounded` (both are
  `RegistryAlwaysExact`). `MarksAreHeld` needs no assumption: a dispatch dropped
  inside `Spool::open` is a holder of its mark that never lets go.
  `ExecutedByOne` assumes that live clients read (`Drains`); without it TLC shows
  the conclusion false (section 13). The invariant behind `ExecutedByOne`,
  `Rights`, says that what is held is marked, what is marked is not issued, and
  that a pump lets go of a plan only at its end or with the
  connection.

- `SessionsProofs`. `WaitersAreCounted` and `NobodyIsStranded` hold each other up
  and need more: a registered dial is one that is dialling, under the canonical
  key, that nobody gave up, and who waits for a dial waits for one of its endpoint
  (`Registered`); where there is no dial nobody is counted (`Vacant`); nothing
  refers to a session that is not built yet (`ArcsBuilt`, for an eviction to be
  for good); and an alias leads where its endpoint leads unless the human closed
  it (`AliasesFollow`, which gives `OneSession`). From it: `TypeCorrect`,
  `DialsShared`, `CachesSound`.
- `JournalProofs`. The invariant says of the table what `verify_chain` finds out
  by walking it: the mutations are the numbers from the base up without a gap
  (`Gapless`), each carries the hash of the one below (`Linked`), the heads in
  memory are the last row of the file and a bound of its batches (`Heads`), the
  anchors hold over the base and the base is signed (`Vouched`), and a compaction
  owns the file from its plan to its end and cuts it at a row of it (`Planned`);
  `Work` says which tasks have the
  journal open, `Talk` that what a session last announced is what its frontend
  shows. From it: `ChainSound`, `TasksRecordedWhole`, `NeverMute`. For
  `CompactionsAreWhole`, an action property, the cut of `compaction_plan` is the
  recursive function `lowered`; that it is defined and never splits a batch is
  shown by the least cut for which it would not be.
- `TransferProofs`. The invariant has a clause per await: what the task knows of
  the three names there, which effects are owed a row, what a doubt may be
  about. `NoEffectUnrecorded` (`EffectsHaveRows`) needs nothing else.
  `FileNeverNowhere`, `RowsTrue` and `AnswersTrue` have the hypothesis
  `~SameSize`: a commit in doubt is told from somebody else's file by its size,
  and with files of one size `ClaimsAreOurs` is false (section 13).
- `UiSessionProofs`. The invariant says of each process who may write and why
  (`Rightful`), that it can read what it has (`Readable`), what its connections
  were told (`Told`), and, unless the document started over, that the file, the
  document in flight and the one in memory are made from one another in this
  order (`Descends`). From it: `SealedSaved`, `OwnerCurrent` and the action
  property `FileKept`.
- `SyncProofs`, about `SyncExec`, for every plan, whatever its trees, faults, strangers and
  undos. `NothingIsLostQuietly` speaks of the moments between two steps; inside
  a step the invariant says, for each await, where the destination is just then
  (`InHand`), for the steps behind it what they left, for those ahead that
  nothing was touched (`Running`). `Kept` is the journal and the trash: a row
  that names a burial names the original, and where it can only be found by its
  path the last one there is the original (`FoundByPath`). `Walk` and `Walked`
  are the undo: it goes down the rows, what it has not walked is not undone, and
  a path whose rows are all walked is back or named. From it: `DestinationSafe`,
  `ReportTrue`, `UndoSafe` and the action property `ForeignKept`. They keep the
  exceptions of the properties: paths somebody else touched, destructions in
  doubt, and the pair of rows that `sync_undo` is about.

- `RenamesProofs`, for any number of batches and undos at once, any requests,
  faults, cancellations, deaths and strangers, and whatever steps the planner
  hands over: nothing in the argument depends on what `order` computes. It is
  about the journal. The steps of `Next` are first reduced to kinds (`Kinds`):
  goes on, records, takes back, loses a compensation, ends a unit, halts, chooses,
  takes the turn, dies; the invariants are then shown for each kind. `Shape` is
  what single tasks keep: what a run has applied is a prefix of its steps, each
  with a row of its own or none (`Applied`); the units of an undo are disjoint,
  of one batch each and not themselves undos (`UnitsShape`); one undo has the turn
  (`OneTurn`). `Rows` is what several tasks keep of each other. Its core is that
  "undone" is not stable: a compensation is itself compensated when the undo that
  wrote it unwinds. `Settled` says that a row is undone and nobody is left who
  would take that back, and this is stable. `Behind`: what an undo with the turn
  has passed, or found undone, is settled (hence `StrictLIFO`); `Ahead`: what it
  has before it is not undone, and of the unit in hand exactly the steps applied
  are; `Chosen`: the batch of a unit it holds has ended, and what the unit leaves
  out of it is settled; `OwnRows` and `TakenBack`: what a batch wrote it may still
  take back, or it is settled, or its compensation was said to be lost;
  `BeganWhole` and `Balanced`: an undo in the middle of a batch began with all of
  it, and half a batch is in force only there or where a report says so; `Once`:
  a row has one reversal in force. From it (`RenamesInductive`):
  `BatchStaysWhole`, `RowsUndoneOnce` and the action property `UndoIsLIFO`. They
  keep the exception of the properties, batches an undo chose while they were
  being run or reverted (`early`, section 13).

The invariants of `SyncExec` and of `Renames`, the largest, were checked by TLC
before they were proved: the one on the instance of `sync_exec` and on a plan with
nested directories, the other on that of `renames` and by simulation with two
batches, three undos and four faults.

Only model-checked:

- the liveness properties `TasksEnd`, `AsksEnd`, `TeardownCompletes`,
  `SavesHappen` and `AlwaysEnds`: the prover does not do liveness under fairness;
- `PlanIsRight`: what `order` computes for every listing needs an induction over
  its folds, which the prover does not do. The `TypeOK` of `Renames` needs the
  type of those folds, for the same reason; `Shape` is the part of it that the
  theorems need;
- `AppliedIsKnown`: it is no property of every instance. With two batches over
  the same files (`Batches` of two tasks and three temporaries, the constants of
  `renames` otherwise) TLC finds it false in a few seconds: the call of one fails
  without effect, the other renames the same file to the same name, and the probe
  takes that for its own effect. The run has one batch beside the undos, where it
  holds.

## 13. Where the code and its comments disagree

With a run of their own (`findings` in `PROJECT.json` quotes the lines):

- `sync_undo`, `OriginalIsBuriedOnce`: the undo of a sync batch goes on after a
  blocked row. When the newer row of an overwrite is blocked because its path is
  empty, the older one puts the original back; the next undo then takes the
  original for the copy and buries it again.
- `journal_indicator`, `IndicatorGoesOff`: `announce` emits Recovered only after
  Lost; after Squatted it is noted and not emitted, and the indicator stays on.

Stated in the modules and violated too; adding the property to the named
configuration, with the constants given, reproduces each:

- Scheduler, `PausedHasLent` (`sched_gate`): ADR 0164 says a
  paused task gives its slot back. Paused again while the lender waits for its
  slot, a sibling parks with nothing to lend; the lender gets the slot, finishes
  its file without another checkpoint, and the paused body keeps it.
- Scheduler, `CleanupLooksRunning` (`sched_gate`): a resume and a cancel that
  both arrive before the checkpoint is polled leave the task published as Paused
  while its body cleans up (`scheduler.rs:194` says otherwise).
- Scheduler, `CancelledLeavesQueue` (`RunnerFairSpec`, three tasks of the serial
  queue, none pausable): a cancelled queued task leaves the heap at once only if
  its own runner is still waiting; otherwise it waits for a body to end
  (`scheduler.rs:492`).
- Approvals, `AppliedIsTold` (`approvals`): a decide sent between the last poll
  and the drop of the receiver is acknowledged as Applied, and the request still
  times out or is withdrawn (`daemon/approvals.rs:55`). The operation does not
  run: only the acknowledgement is wrong.
- Approvals, `NeverNeither` (`approvals`): the owner of a live feed whose outbox
  is full loses the announcement and keeps its subscription
  (`daemon/server.rs:681`), so it may hear of a question through neither path.
  `NobodyMissed` is therefore stated for the other frontends.
- Spool, `SingleUse` with `Drains = FALSE`: a pump that gives up on a client that
  is only slow forgets the marks of the connection's running applies. A new plan
  of the same tree is then issued and may be applied beside the first.
- Spool, `DroppedGivesBack`: `Spool::open` claims the plan before it awaits the
  read and the guard that gives it back exists only after; a dispatch dropped in
  between leaves the mark until the connection ends (`engine.rs:2497`).
- Spool, `IssuedHasFile`: `remove` releases the mark and unlinks by name later; a
  plan of the same tree that lands in between loses its file and is noted as
  issued (`sync/spool.rs:722`).
- Spool, `ExpiredDoNotCount` (`MAX_RETAINED_SYNC_PLANS = 1`): the TTL deletes
  files and leaves the registry, and the cap counts the registry: a connection
  full of expired plans cannot plan (`sync/spool.rs:565`).
- Spool, `NoneOfTheDead`: the last counted writer erases the tombstone that a
  plan between `create_part` and `open_writer` still needs; its plan is issued
  for a dead connection until its pump fails. `TeardownCompletes` shows that it
  is collected in the end.
- Sessions, `ClosedIsNotReused`: `close` removes one key, and the next request
  finds the session under another of its names (`sessions.rs:116`).
- Sessions, `NoDialInCooldown`: the cooldown is read under one lock and the dial
  registered under another; a caller that looked before a dial failed registers
  a new one right after, inside the window (`sessions.rs:473`: "a re-dial cannot
  sneak into the window without seeing the negative-cache").
- Renames, `WholeWhenChosen`: an undo takes its units from the journal while a
  batch, or its unwinding, is in the middle; the rows it saw are then reverted
  as if they were all of it, or a row is compensated twice (`engine.rs:4731`).
- Renames, `AppliedIsKnown` with a second batch over the same files: `landed`
  looks at the two names only, and what another task of the same session did
  between the failed call and the probe counts as its own: it records, or takes
  back, a rename it did not make (`rename/exec.rs:375`).
- Renames, `BlockedIsClean`: an undo whose rename failed after its effect, with
  a probe that cannot tell, reports a blocked row although it moved the file.
- SyncExec, `DoubtIsOurs`: `ops::Ambiguity` says a destruction in doubt counts as
  ours; `destroy_leaf` of a single file takes the error as it comes.
- SyncExec, `StoppedLeavesNoTrace`: the doc of `ApplyError` says of Stopped that
  "the step that failed left no trace"; a directory or a copy whose row does not
  land stops the run and stays, without a row.
- Transfer, `ClaimsAreOurs` with `SameSize = TRUE`: a commit in doubt is told
  from somebody else's file by presence and size only.

Met while reading, outside the models' reach or with no property of their own:
`ui_session/disk.rs` says that a file that exists and cannot be read is not a
first startup, and `load_or_default` makes it writable; `revert_sync_batch`
counts a cancelled burial among the lost compensations although nothing was
applied (`undo.rs:1690`).

## 14. Running

`tlc -config spool.cfg MCSpool` (or the module `PROJECT.json` names for the run)
checks a run; the longest take about two minutes. `tlapm SyncProofs.tla` checks
the proofs of a module, a few minutes for each; `SyncProofs` and `RenamesProofs`
are the longest. The mutants in the modules (definitions whose comment begins
with "Mutant") are plausible bugs, each of which breaks the property
`PROJECT.json` pairs it with; no specification uses them.
