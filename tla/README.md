# A TLA+ development of leantoken

leantoken is a headless retrieval service. A CLI and an MCP server answer
searches, reads and change queries about one source repository from an SQLite
index. Several processes may serve and update the same index at once, files keep
changing below them, and `setup` edits configuration files that belong to other
programs. This directory holds TLA+ models of the parts where that is hard, TLC
configurations that check them on small instances, and TLAPS proofs of their
main invariants.

Source paths below are relative to the repository's `src/` directory.

## The system

### Parts

| part | state | operations | hard behaviour | what makes it correct |
| --- | --- | --- | --- | --- |
| reconciliation waves (`services/reconciliation.rs`) | current and pending wave, callers of each, counters | reconcile, enqueue, exit_waiter, mark_running, finish_wave | callers join and leave while a task waits for two locks | an answered caller sees its own edits; none is lost or cancelled by another |
| index coordination (`coordination.rs`) | lock files: operation, leader, initialization, database lease | try, acquire with cancellation, release | holders die; shared against exclusive use | one publisher at a time, one leader |
| reconciliation pipeline (`indexer/`, `storage/publication.rs`, `storage/staging.rs`, `storage/writer.rs`) | baseline, plan, staged rows; generation, metadata and files table in SQLite | discover, plan, relocate, prepare, publish, retry | files and the database change between the steps | a generation holds texts the files had; stale plans are not published |
| watcher and scheduler (`watcher/`, `main/index_runtime.rs`) | raw queue, overflow flag, pending request, message channel, scheduler | callback, coalesce, flush, drain, act, retry | every queue is bounded; errors and restarts | no change is forgotten, pending work has a deadline |
| setup transaction (`setup/execution.rs`, `transaction.rs`, `apply.rs`, `plan.rs`, `runtime.rs`) | client files, skills, journal, private runtimes | plan, install, preflight, apply, commit, rollback, recover, prune | kills and failed writes at any step, users editing the same files | all or nothing, no user edit lost, no dangling registration |
| runtime leases (`setup/runtime/lease.rs`) | shared and exclusive lease per artifact | start, prune, roll back | a server starts while its runtime is pruned | a running server's runtime stays |
| leadership and supervision (`main/mcp_runtime.rs`) | leader lock, tasks, back-off | compete, lead, fail over, shut down | leaders end while followers sleep | some process leads again |
| MCP readiness and admission (`mcp/state.rs`, `mcp/runtime.rs`, `mcp/admission.rs`) | Starting / Ready / Failed, activation flag, permits | activate, wait, set_ready, set_failed, admit | notifications race with checks and deadlines | no lost wake-up, no permit leak |
| blocking executor (`services/executor.rs`) | permits of blocking work | submit, run, cancel | a caller goes, its closure stays | permits bound the running closures |
| retrieval receipts (`storage/receipts.rs`, `services/receipts.rs`, `services/receipt_rebase.rs`) and query receipts, read-delta bases | snapshots of shown evidence, quotas, expiry | evaluate, append, rebase, evict | clocks, quotas, concurrent writers | what a receipt calls already shown was shown |
| cache management (`cache/`) and opening (`storage/open.rs`, `services/startup/`) | cache directories, database leases, staged databases | open, migrate, prune, compact | a service opens what is being pruned | a database in use is never removed |
| retrieval snapshots (`storage/snapshot.rs`) | pinned generation | begin, check, retry | publication during a read | one answer, one generation |
| savings and failure accounting (`storage/accounting.rs`) | saturating counters | record, snapshot, reset | overflow | counters do not go back |
| cursors, deduplication, batching (`services/cursor.rs`, ...) | none | pure functions | boundaries | agree with a reference definition |
| search, context, outline, files, exact reads, history, JSON queries, ranking, parsers, Git access, discovery, CLI, configuration, transport, doctor, upgrade | no shared mutable state of their own | read-only pipelines, text formats, subprocesses | none of the above | outside this development |

### How they interact

```
 notify -> watcher task -> channel -> scheduler --+
                                                  v
 MCP / CLI call -> wave --> admission permit -> operation lock -> pipeline
                                                                     |
                                          SQLite: one transaction per generation
                                                                     |
 MCP / CLI retrieval <- snapshot of one generation <-----------------+
```

Each server process competes for the leadership of the index; the leader runs the
watcher and the scheduler. Any process may run a wave. Every user of a cache
directory holds a shared lease on it, and pruning and compaction need the
exclusive one. All publishers take the operation lock; the pipeline nevertheless checks
its baseline again inside the publication transaction. `setup` shares nothing
with the index: it has its own lock, journal and runtime directory. A server that
was started from a private runtime holds a lease on it, which is where the two
meet.

PROJECT.json lists every part, the hazards at their source lines with the
properties that cover them, and the source lines behind every definition.

## Modules

| module | models | run by | proved in |
| --- | --- | --- | --- |
| ReconcileWaves | waves, admission, operation lock, direct index calls | MCReconcileWaves | ReconcileWavesProofs |
| FreshRetrieval | what the waves promise to callers; ReconcileWaves implements it | MCReconcileWaves | ReconcileWavesProofs |
| IndexPublication | one reconciliation from baseline to commit | MCIndexPublication | IndexPublicationProofs |
| AtomicIndex | what one call promises about the index; IndexPublication implements it | MCIndexPublication | IndexPublicationProofs |
| WatcherPipeline | the way of a change from the kernel to the index | MCWatcherPipeline | WatcherPipelineProofs |
| McpRuntime | one server process: activation, leadership, supervision, shutdown | MCMcpRuntime | McpRuntimeProofs |
| ToolCalls | a `tools/call` from the transport to its answer; permits and waits | MCToolCalls | ToolCallsProofs |
| CacheLifecycle | one cache directory: open, lead, close, prune, compact, crash | MCCacheLifecycle | CacheLifecycleProofs |
| SetupTransaction | setup, remove, prune, recovery, runtime leases | MCSetupTransaction | SetupTransactionProofs |
| RetrievalReceipts | receipts of shown evidence, their quotas, rebase | MCRetrievalReceipts | RetrievalReceiptsProofs |

The models meet at narrow points. ReconcileWaves treats a scan as one read of a
version counter and one write of the index. IndexPublication opens that step:
discovery, planning, preparation and publication, without the lock, so that its
results do not depend on it. WatcherPipeline treats a reconciliation as the
reading of a set of files, each at its own moment, followed by success or
failure. McpRuntime has that whole leader as one state, "lead", which the loop
enters when it wins the leadership and leaves when the leader stops, fails or is
cancelled; it has several repositories, each with its readiness state. ToolCalls
takes one of these and sees its state change at any moment. CacheLifecycle has
opening as the steps that take and hold file locks, and McpRuntime as one step that
succeeds or fails.

Definitions whose comment begins with *Mutant* are plausible bugs of the
definition that follows them. No specification uses them; each property was
seen to fail when one of them takes the place of the correct definition.

### ReconcileWaves

| model | code |
| --- | --- |
| `current`, `pending`, `next_wave_id` | the fields of `CoordinatorState` |
| `phase`, `cancelled`, `waiters` | `Wave.phase`, `.cancellation`, `.waiters`, by wave id |
| `call`, `outcome`, `asked` | where a `reconcile()` call stands, its oneshot, the version when it was made |
| `task`, `result`, `seen` | program counter of the task of `spawn_wave`, what it will hand to `finish_wave`, the version its scan began at |
| `permit`, `opLock` | `indexing_admission`, the operation lock file |
| `diag` | the wave counters of `ReconciliationDiagnostics` |

`Admit`, `Enqueue`, `Receive`, `GiveUp`, `Deadline` and `ExitWaiter` are the
steps of the call, each as large as the mutex or await points allow. `GiveUp`
and `Deadline` observe the select arm, `ExitWaiter` takes the mutex later: what
happens in between is the point of the model. The task takes the admission,
turns in `coordination::acquire`, marks the wave running, scans, publishes,
releases and finishes; every early return goes through `Abandon`. `Direct...`
are index calls of this and other processes, which may die and lose the lock. A
targeted call among them is taken to publish as much as a full one.

The repository is a version counter; a scan that begins at version `v`
publishes an index that contains every edit up to `v`. A file that cannot be
read is outside this abstraction (see IndexPublication). The poisoned-mutex
branch and the peak counters are left out: no critical section can panic.

**Refinement.** FreshRetrieval is the service as a caller knows it: edits, an index
that is published and never goes back, and calls that are accepted up to a capacity
and then answered or refused with a reason. It has no waves, tasks, locks or
processes. ReconcileWaves instantiates it as `Promise`, with its own `version`,
`indexed` and `asked`, with `ActiveCapacity` as the capacity, and with `Visible(r)`
as the call: every internal state of a call that is under way is "pending". An
abstract `Answer` demands that the index contains what the caller asked for *at the
moment of the answer*, so the mapping carries freshness, and `Publish` carries that
a slow indexer cannot put an older view in the place of a newer one.

### IndexPublication

`db` is the committed metadata row and files table. `job[p]` is what a reconcile
call has in memory: its baseline, the pages it has read, the discovered files,
candidates and removals, hashes of created files, relocations and the stage.
`window[p]` is a ghost: every content a path had since the attempt began.

A call is a full reconciliation, a rebuild or a targeted call for reported
paths. Each phase visits its paths one at a time in any order while files change
and other calls commit. `Observe` decides whether a targeted call needs a
discovery; `Hash` and `Relocate` are `plan_relocations`; `Prepare` reads the file
again and may fail. `Commit`, `NoOp` and `Stale` are the outcomes of the
publication transaction; `Stale` plans again or gives up after the last attempt.
`Abort` is an error, a cancellation or the death of the process.
`ConflictMeansProgress` is about the retries: the generation a call starts its n-th
attempt from is at least n, so a call that gives up lost every attempt to a
publication that was really made.

**Refinement.** AtomicIndex is the same system without phases, plans, baselines and
stages: a call starts with a scope, may lose reads, and then fails without effect or
succeeds in one step. That step moves to the next generation, labelled with the
call's configuration, or leaves the index alone; it gives every path of the scope a
content the file had since the call (or its last attempt) started; it changes a path
outside the scope only to what the call saw there; and every new row is derived under
the call's configuration or moved from a path that loses it. `Outcome`, `Promised`,
`Watched` and `Unreadable` are what AtomicIndex sees of a job. A new attempt is a new
start whose scope may only grow: a targeted call that meets a new configuration goes
on as a rebuild.

The membership check and the content check of the incremental plan are one step
(`Plan`). Import projections, full-text maintenance, byte limits and profiling are left
out. The operation lock is left out on purpose.

### WatcherPipeline

An event, the watcher's pending state, a message, the scheduler's pending state
and an action are all *requests*: "full", or a set of paths. `Merge` is
`PendingReconciliation::insert`, `extend` and `bound`.

| model | code |
| --- | --- |
| `kernel`, `callback`, `raw`, `overflowed` | the notify callback: `try_send`, then, as a separate step, the store of the overflow flag |
| `task`, `pending`, `armed` | the loop of the watcher task, its pending request and its sleep |
| `messages` | the bounded channel; a full channel turns `pending` into a full request |
| `leader`, `scheduled`, `quiet` | `run_mcp_index_loop`, `run_index_leader` and `WatcherReconciliationScheduler` |
| `action`, `unread`, `read` | the running reconciliation, file by file |
| `dirty`, `failed` | ghosts: changes not indexed, files a successful action could not read |

A leader whose first scan fails with an error that may pass is "down" and registers
again after a delay (`FailFirstScan`); later errors of that kind keep the leader and
schedule the action again (`Fail`). A terminal error or a cancellation ends the loop of
`run_mcp_index_loop` for good (`End`, "ended"). Another process may lead then, which
is the subject of McpRuntime.

Time is abstract: a deadline that is set passes some time. The growth of retry
and full-scan delays is therefore not modelled.

### SetupTransaction

`file` has, for each client configuration and skill, whether it exists, the
user's part and the launcher its LeanToken entry names. `journal` is the recovery
journal, `runtimes` the installed artifacts, `run` the memory of the run that
holds `setup.lock`. Users change the files without the lock (`UserEdit`,
`UserDelete`, `UserRepair`): they write their own part, remove a registration, or add
one that names the package or an installed runtime (`Nameable`). A runtime that the
run under way has just installed is not added: its rollback
(`rollback_installed_runtime`) does not look for references it has not written.

A run recovers what it finds, then resolves a plan, confirms, installs the
runtime, checks the originals again, writes the journal, replaces the files one
by one (clients first, skills after), commits and cleans up; on an error it
rolls back in reverse order. Comparing a file with its expected content and
replacing it are two steps. A write may fail with nothing changed ("fail") or
after the file was replaced ("unsynced"). `Crash` is a kill at any step and also
stands for errors after which the run merely returns.

A server process (`server`) identifies the artifact its executable belongs to, takes
the shared lease, validates the artifact under the lease and serves; each is a step
of its own. Pruning and the rollback of an installation need the exclusive lease
and remove the artifact in a further step. The lease files are never removed. Two
things are simpler than in the code. A process recognises its artifact by device,
inode and digest; here a removed directory is never taken for the one noted, so a
reinstallation that gets the same inode and digest, which would be the same artifact
again, is refused. Pruning compares the configurations and then removes the
artifact; here this is one step, so a registration that is added between the two is
outside the model, as it is outside what the code can see.

Unmanaged registrations, the capability checks against replaced directories, dry
runs and the refresh selection are left out.

### McpRuntime

| model | code |
| --- | --- |
| `server` | the transport task |
| `main`, `outcome` | `run_mcp`, `supervise_mcp_tasks` and what they return |
| `runtime`, `cancelled` | the task `run_mcp_runtime` and its cancellation token |
| `flag`, `owed`, `wait`, `notified` | a flag with its `Notify`: set, the notification still to be sent, the waiter, its future |
| `state` | `McpServiceState` of each registered repository |
| `run` | its task: wait for the activation, open, compete, lead, back off, follow |
| `leader` | the leadership lock of its index: nobody, this process, another one |

A `Notify` of tokio keeps no memory of `notify_waiters`: it reaches the futures that
exist at that moment. A wait is therefore three steps (create the future, read the
flag, wait), raising a signal is two (set the flag, notify), and they interleave
freely. The handshake, the primary repository and the contexts all wait this way.

Calls, the handshake, the closing of the transport, the stop of a leader and the
other processes that take and give up a leadership are the environment. Delays are
abstract. What a repository does once it is ready is in ToolCalls.

### ToolCalls

| model | code |
| --- | --- |
| `entry`, `idOf`, `direct` | `dispatched_calls` by request id, the id of a call, a direct response that blocks the receiver |
| `state`, `notifying` | the service state and the notification that follows its write |
| `pc`, `stage`, `note`, `cancelled` | the handler, what it waits for, its `Notified` future, its token |
| `admitted`, `active`, `execution`, `ahead` | owners of the permits of `request_admission` and of the two semaphores of the executor, whose queue is fair |
| `work` | the blocking closure, which outlives a caller that was cancelled or timed out |

A permit is owned by a dispatch entry, a handler or a closure, and a semaphore is
full when enough owners exist; nothing else counts, so a leak is an owner that stays.
A cancelled or unwound call leaves a tombstone in the dispatch map until its handler
is gone. A first answer "index not ready" is retried once after a wait for the index.
Ids may be used again; the client is assumed not to reuse the id of a *control*
request it still waits for, because the transport keeps no entry for those.

### CacheLifecycle

One managed cache directory, with services that open, lead, use and close it and
commands that prune or compact it, in processes that may crash between any two
steps. Caches share no locks, so one is enough; what others contribute to its
selection is an arbitrary choice.

A file lock belongs to an inode and not to a name: a process that opened a lock file
before it was unlinked locks a file nobody else will find. Opening a lock file
(`fd`) and locking it (`held`) are therefore separate steps, and lock files and
databases have identities (`ino`, `db`, `using`). A prune probes, selects, takes the
exclusive lease, inspects again and removes the artifacts one by one (`at`), the
database before its WAL; the lease file stays. `torn` records a database that lost
the WAL with its committed transactions. A corrupt database is rebuilt by the
service that holds the initialization lock.

The contents of schema migrations, the index binding and the reports of the
commands are left out.

### RetrievalReceipts

| model | code |
| --- | --- |
| `rows`, `usage`, `nextRow` | the tables `retrieval_receipts` with their evidence, and the counters its triggers keep |
| `namespace`, `namespaces` | the random namespace in every token, and how many were generated |
| `copies`, `mixed` | copies of the database file; a ghost, whether the file is a copy that opening did not detect |
| `call` | a request's snapshot, its items, the token it names, what rebase has loaded and classified |
| `held`, `seen` | the tokens a client got; a ghost with what it was shown |

A retrieval reads one generation (`Read`) and evaluates the receipt in one write
transaction: `Refuse`, `Reuse` and `Succeed` are its outcomes, with pruning,
eviction and the truncation of what is appended inside the step. `Load`, `Classify`
and `Persist` are a rebase. A response may be lost (`Abort`), so a client can go on
with an older token and branch.

`Copy` copies the database file, `Restore` ends the processes, puts a copy in its place
and opens it. `regenerate_receipt_namespaces_if_cloned` rotates the namespace when the
identity of the file is not the one stored in it. The identity is device and inode on
Unix and the canonical path on Windows: an overwriting copy or an inode that is used
again on Unix, and any copy under the same path on Windows, keep it. Whether a copy
keeps it is therefore a free choice (`same`). A copy that does is opened in its own
namespace, row ids are handed out a second time, and old tokens name other receipts;
`mixed` marks that state until a rotation ends it, and `WithheldWasShown` and
`UnknownForGood` claim nothing in it. Quotas, sources and rebases are claimed there
too. Compaction is a `VACUUM` in place: it keeps file, identity and rows, and changes
nothing here.

Evidence is a set of a place, a text and the exact-only flag. Every reading of the
wall clock is any element of `Times`, so it may jump either way. Byte quotas have
the form of the count quotas and are left out, as are near duplicates and the
resource that only shows a receipt.

## Runs

| run | instance | what it asks |
| --- | --- | --- |
| waves | 2 callers, 2 waves, 1 edit, an indexer of another process | `Freshness`, `NoLiveWaiterCancelled`, `NoLostWaiter`, `SingleTask`, `WaveAccounting`, the refinement `ImplementsFreshRetrieval`, `EveryCallReturns` |
| publication | 2 calls, 2 paths, 1 text, 2 attempts, 1 edit | `RelocationSourcesKept`, `PublishedFromWindow`, `RelocationMoves` |
| publication_retries | 3 calls under a new configuration, 1 path, 2 attempts, 1 edit | `ConflictMeansProgress`, the refinement `ImplementsAtomicIndex` |
| publication_derivation | 1 call under a new configuration | `UniformDerivation` is violated |
| watcher | 2 paths, capacities of 1, 2 edits, 1 fault | `NoLostChange`, `PendingIsScheduled`, `EveryChangeIndexed` |
| mcp | the primary repository and one context | `OrderlyExit`, `ReadyIsMaintained`, `ActivationServed`, `TakeOver`, `CloseStops` |
| calls | 3 calls, the third with a new id or with that of the first; capacities of 2, 1 to execute | `WorkBounded`, `ReservedUntilAnswered`, `NoLostWake`, `EverythingReturns` |
| cache | 2 services, 2 maintenance commands, 4 inodes, 3 starts | `InUseIsKept`, `OneOwner`, `WholeDatabase`, `PrunedForAReason`, `OpenEnds` |
| setup | 3 clients, the first two with one skill, the third with another; 1 user edit, 2 faults | `AllOrNothing`, `UserEditsSurvive`, `SkillsFollowRegistrations` |
| setup_runtimes | 1 client, 1 skill, 1 private runtime, 1 server, 1 user edit, 2 faults | `RegistrationsResolve`, `ServingIsInstalled`, `RecoveryCompletes` |
| setup_unsynced | 2 clients, the sync of the commit record may fail | `AllOrNothing` is violated |
| receipts | 2 clients, 2 overlapping places, 2 texts, quotas of 2, 3 rows, 4 requests, publications, copies and restorations together | `QuotasKept`, `WithheldWasShown`, `SourceKept`, `UnknownForGood`, `CarriedIsCurrent` |

Type correctness is proved for every module and therefore not part of a run.

Why the bounds are enough. *Waves*: with two callers one leaves while the other stays
or joins, two waves let one be current and one pending, and one edit separates a scan
that saw it from one that did not. The index call elsewhere meets the task in the
operation lock. Two permits serve both callers, so a refusal for lack of capacity is
covered by the proofs only, as are more waves, edits and callers and index calls of
the same process. *Publication*: two paths make a rename, two calls make one stale,
the contents include a text, a binary and an oversized file and no file; three calls
are needed for one to lose twice. The refinement is run with one path; renames and
paths outside the scope are in its proof. *Watcher*: with capacity one the second event of any
stage meets a full queue; two paths tell a set of paths from a full request. *Mcp*: the
primary and one context are the two kinds of repository; contexts do not interact
except through the shared cancellation. *Calls*: three calls overfill every capacity of
two, and the third reuses an id that is live, tombstoned or free. The dispatch map
holds four times the dispatch capacity in the code and two entries here, so that
tombstones fill it; no more than two handlers are then alive, and handler admission
never refuses. Larger maps are covered by the proofs. *Cache*: two of each kind compete for every lock; four inodes
let a lock file and the database be replaced. *Setup*: with three
clients some are selected and some are not, a removed client shares its skill with a
registered one or does not, and a transaction has up to five files; two faults let a
rollback or a recovery fail after the failure that caused it. The end of recovery is
checked with one client and its skill: a journal of two entries, two kills, and an
edit that blocks recovery and is taken back. The one edit may also be a registration
added while a prune is under way. *Receipts*: with quotas of two the third
receipt evicts and the third evidence is cut off. Four events let a receipt be issued,
a generation be published, the rebase be loaded and classified, and another generation
overtake it; or a receipt be issued, the file be copied, another receipt be issued and
the copy be restored. `MaxPerReceipt` is two and so is the number of places: that a
single receipt is cut off at its own limit is in the theorem `QuotasAreKept` only.

Symmetry is used in publication, publication_retries and receipts, which have no
liveness property. `CHECK_DEADLOCK FALSE` is set where the system may stop: all calls
have returned, the bounds on edits and faults are used up, or the loop of the watcher's process has
ended.

### Fairness

- *Waves*: spawned tasks, blocking closures and polled futures run
  (`WF` on each). Nobody has to edit, to give up or to begin an index call.
  Other users of the lock end or die, and the operating system drops their lock.
- *Watcher*: the notify thread, the watcher task and the leader run (`WF`), and a
  process that is down after an error that may pass leads again. One that met a terminal
  error or was cancelled does not (`wait_after_index_attempt`), and
  `EveryChangeIndexed` claims nothing for it.
  `SF` on `TaskSleep`, `Drained` and `TakeReady`: poll ticks come at least 30
  seconds apart, the sleep of a pending request and the quiet period last half a
  second, so ticks, which reset neither for ever, cannot keep them from ending.
  Edits are bounded: the code sets no limit on how long steady changes postpone
  a reconciliation, and the development claims nothing for that case.
- *Mcp*: every task runs, delays end, the opening of a repository ends, and a
  cancelled leader returns (`WF` on the steps of each task). Nothing makes a client
  call or close, a leader stop, another process release its leadership, or the
  shutdown timeout pass.
- *Calls*: tasks that can run do, timers fire, operations end and writes complete
  (`WF` on the steps of each call). A client need not send or cancel anything, and
  the services need not start: a wait ends by its deadline.
- *Cache*: a process that opens a cache or maintains one goes on (`WF`). Nobody has to
  start, close, lead or commit.
- *Setup*: a run is not suspended for ever and setup is invoked again (`WF` on
  `Run` and `Invoke`). That is what recovery on the next invocation presumes.

## What is proved

For every value of the constants that satisfies the modules' assumptions.

**ReconcileWavesProofs.** `Freshness` is not inductive: a call is answered by
`finish_wave`, long after the step that decides whether it is fresh. `IInv`
strengthens it along the life of a wave. `SlotsInv` ties slots, tasks and wave
ids together (only the current wave has a task, a pending wave has callers and
has not begun). `PhaseInv` says that a wave not yet begun is cancelled exactly
when it has no callers, and that one that has begun is never cancelled.
`WaitersInv` says that a queued call without outcome is listed by exactly one
kept wave. `LockInv` says who is inside the operation lock. `VersionInv`, `ScanInv`
and `OutcomeInv` carry the versions: what callers asked for is at most what the
running scan saw, then at most what is indexed. `CountInv` is the accounting of
waves. One lemma per action shows that it keeps the conjuncts it can disturb.
Theorems: `TypeCorrect`, `FreshAnswers`, `LiveWaitersKeepTheirWave`,
`WaitersAreKept`, `OneTaskAtATime`, `WavesAreAccounted`, `PublicationOrder` (the index
never regresses), and `Refinement`: under `IInv` every step is a step of
FreshRetrieval or changes nothing a caller can see.

**IndexPublicationProofs.** `BaselineInv`: as long as the committed generation is the
one of the baseline, the configuration and every row read so far (`Paged`) are the
committed ones, although the pages are read in separate transactions; and the n-th
attempt has a baseline of generation n at least. Theorems: `TypeCorrect`,
`PlansAreCommitted` (a plan that passes the baseline check was made from exactly the
committed rows), `ConflictsAreProgress`.

`JobInv` carries the contents seen by a call through its phases. A property of the
publication step is not inductive, because discovery, plan and preparation decide about a
path at different moments and from different contents. `PlanInv` says, for the paths the walk
has reached (`Walked`) and those the plan has decided on (`Planned`), that what is missing
or removed was seen absent and that what is left alone may be left (`Leave`: its row
has a content that was seen). `StageInv` says the same of the prepared candidates
(`Settled`): staged with a text that was seen, removed, left or unread.
`RelocationInv` ties a relocation to a row that goes and to a file, with its text,
that had none; `StillInv` says that nothing is relocated before. The windows only
grow, so an edit disturbs none of them (`PartsGrow`), and a new phase starts with no
more paths walked, planned or settled than the one before it (`AdvanceSets`); each
phase then has one lemma about the visited path. `DerivationInv` adds the
configurations: what is staged has the call's, and when the index has another one,
every row is removed, derived again or unread. Theorems: `SourcesAreKept`,
`RenamesMove`, `PublicationsAreFromWindows`; `QuietFiles` (a file not edited during a
call is indexed exactly, which is what ReconcileWaves takes a scan to do);
`MixedByUnread` (a row that could not be read is the only way to the mixture the run
publication_derivation shows); and `Refinement`: under these invariants every step is a
step of AtomicIndex or changes nothing it sees. No theorem assumes anything about the
operation lock.

**WatcherPipelineProofs.** `NoLostChange` becomes inductive with `ActionCovers`: a
reconciliation reads only what its action asked for, so a failure that merges the
action back covers everything it had taken; the raw queue is drained for a full
request only; nothing is watched before the leader registers. The lemma
`MergeCovers` says that merging covers both arguments whatever the limit, hence
that no bound in the pipeline loses a path. Theorems: `TypeCorrect` (queues stay
within their capacities), `ChangesAreKept`, `WorkIsScheduled`.

**McpRuntimeProofs.** `ExitInv` has, by where `run_mcp_runtime` is, which tasks it can
have started (`Started`) and what a return of `run_mcp` says about them (`Returned`).
`ReadyInv` adds where the task of a ready repository is. Theorems: `TypeCorrect`,
`ExitIsOrderly`, `ReadyStaysMaintained`.

**ToolCallsProofs.** `CallsInv`: `PermitInv` says exactly who owns the permits of the
executor (a queued run its active permit, a closure both, whether its caller is there
or not), `CapacityInv` and `MapInv` that the semaphores and the dispatch map are never
overdrawn, `WakeInv` that a sleeping call has a future which the next notification
reaches. Theorems: `TypeCorrect`, `BoundedWork`, `Reserved`, `WakesUp`.

**CacheLifecycleProofs.** `CacheInv`: `LeaseInv` rests on the lease file keeping its
inode, so that shared and exclusive leases exclude each other. `OwnerInv` follows from
it for the lock files that *are* unlinked: they go only while no service has a lease.
`DatabaseInv` says that a database is replaced only under the initialization lock and
that a WAL is removed only after its database. Theorems: `TypeCorrect`, `InUse`,
`SingleOwner`, `OpensWhole`, `PruneReasons`.

**SetupTransactionProofs.** One strengthening per promise. `LeaseInv`: what a
process found intact under its lease is installed, and nobody leases the artifact
that is being removed. `EditInv`: the old and the new content of a file have the
user's part in common, in the memory of the run and in the journal, and a file about
to be replaced holds what it was compared with. `ResolveInv` and `ReceiptInv`: the
registrations a run read, planned or may put back name installed runtimes, and a
runtime this run installed is named only where the run has written, so that
rolling it back leaves no reference. `SidesInv`: a mixture of old and new files has a
pending journal that lists the new ones. `SkillInv`: as long as users leave the
registrations alone, skills follow registrations in what the recovery of the journal
would restore, in what the run planned from and in what it plans, and every file is on
one of these sides, as the paths still to do tell (`FollowInv`); a plan that starts
from such files ends in such files (`PlanFollows`), and so does undoing or recovering
it at any point. Theorems: `TypeCorrect`, `ServedIsInstalled`, `EditsAreKept`,
`RegistrationsStayResolved`, `TransactionsAreAtomic` and
`SkillsStayWithRegistrations`; the last two assume that the sync of the commit record
does not fail (see below for what happens when it does).

**RetrievalReceiptsProofs.** A response withholds what a *stored row* lists, the
promise is about what a *client* saw; `IInv` connects the two. `TokensInv`: a token
that is held was given out, so its id is below the next row id of its file.
`BackedInv`: what the row of a held token lists was shown to the holder, and evidence
that is not exact-only was shown from the row's own generation; the response under
way may add to both. `ClassifiedInv`: what a rebase found unchanged is unchanged as
long as the generation is the same. Every step deletes rows, inserts one under a
fresh id, or restores a copy. A restored copy either is in a new namespace, and then
no token held is known, or is `mixed`, and then the parts about tokens claim nothing
(`Trusted`). `RowsKept` states what the other steps have in common, and the clients
need nothing else of the store. The copies satisfy the quotas and the types of the
file they were taken from (`CopiesInv`, `File`). The counters are
exact because the evidence of disjoint sets of rows adds up (`CountedWithout`,
`CountedAdded`). Theorems: `TypeCorrect`, `QuotasAreKept`,
`NothingIsWithheldUnseen`, `SourcesAreKept`, `RebasedIsCurrent`,
`UnknownStaysUnknown`: every property of the module.

Every safety property of the passing runs is the statement of a theorem. Only
model-checked, and so for good, are the liveness properties (`EveryCallReturns`,
`EveryChangeIndexed`, `ActivationServed`, `TakeOver`, `CloseStops`,
`EverythingReturns`, `OpenEnds`, `RecoveryCompletes`): the prover handles neither
fairness nor ENABLED.

## What the checks show about the code

Two runs end in a violation.

- **publication_derivation.** After a change of the configuration or of the
  parsers' fingerprint, a reconcile in which one file cannot be read keeps that
  file's old row and labels the generation with the new hash
  (`indexer/orchestrator.rs`, near line 345). Later calls find the hash unchanged and
  skip the file. `docs/architecture.md` promises a complete reconciliation
  before the new policy is recorded.
- **setup_unsynced.** `SetupTransaction::commit` reports the failed directory sync
  of a journal that already says "committed" (`setup/transaction.rs`, line 141);
  `apply_plan` then rolls back under it. A kill during that rollback leaves a mixture
  of old and new files that the next run does not undo. `docs/usage.md`
  promises that the journal restores the previous contents. The other setup
  runs that check `AllOrNothing` switch this fault off (`UnsyncedCommit`).

Limits are stated inside properties rather than hidden: a user edit that
falls between the comparison of a file and its replacement is lost
(`UserEditsSurvive` excludes exactly those, by the ghost `raced`); a file that
could not be read keeps its old row until it changes again (`unread` in
`PublishedFromWindow`, `failed` in `NoLostChange`); a terminal error leaves changes
unindexed (`EveryChangeIndexed`); a restored copy of the database that keeps the
identity of the file makes old tokens name other receipts (`mixed` in
`WithheldWasShown` and `UnknownForGood`).

Observations that no run states, because they are outside a model or concern what the
code does not promise clearly enough:

- A context that no call ever selected stays "starting" after the runtime of the
  primary has ended, since `set_failed` reaches only the primary
  (`main/mcp_runtime.rs`, lines 55 and 144). `docs/architecture.md` says that an
  unexpected exit of the runtime cannot leave tools reporting startup for ever.
  `ActivationServed` excludes a stopped runtime.
- The rebuild of a corrupt database replaces a file that another service may still
  have open: that service goes on with the old one (`stale` in CacheLifecycle, which
  `InUseIsKept` excludes).
- The comment on `regenerate_receipt_namespaces_if_cloned` (`storage/open.rs`, lines
  666 to 670) says that the identity is "volume serial and file index on Windows" and
  changes when the database is "replaced in place". The code has the canonical path on
  Windows, which a replacement keeps, and device and inode on Unix, which an
  overwriting copy keeps. In the model this is `Restore` with `same`.
- A prune revalidates under the lease why it selected a cache, except for the size
  limit: what the total was when the cache was selected decides.
- `persist_query_receipt` and `persist_rebased_receipt` read the clock before they
  take the writer lock. One that is delayed there deletes receipts that others
  recorded meanwhile as if the clock had gone back; `touch_query_receipt` reads the
  clock inside the transaction for that reason (`storage/query_receipts.rs`,
  line 102). RetrievalReceipts allows any reading of the clock and claims nothing
  about how long a receipt is kept.

## Not modelled

- *Query receipts and read-delta bases, snapshots, accounting, cursors*: planned, below.
- *Search, context, outline, files, exact reads, history, JSON queries, ranking,
  parsers, SQL queries*: pipelines that read one snapshot and keep no state. What they
  compute is ranked and budgeted text; a model would repeat the code.
- *Client configuration formats, CLI, configuration, doctor, upgrade*: parsing,
  formatting and subprocess probes.
- *Discovery and admission of paths*: bounded walks; their result is an input of
  IndexPublication and of WatcherPipeline.
- *The contents of schema migrations*: SQL text inside one transaction.

Together with examples, benchmarks and tests these are most lines of the
repository. The parts with state that several actors share are a small share of
it, and those are the ones modelled here.

## Plan

1. **Query receipts and read-delta bases**, which share the scheme of
   RetrievalReceipts with keys and limits of their own. The property worth having: an
   answer "already covered" is what a scan of the pinned generation would return.
2. **Snapshots**: pinned generations and retries above IndexPublication's commits;
   AtomicIndex is the index such a snapshot reads.
3. **Accounting**, and the pure algorithms: cursors, deduplication, batch
   boundaries, source-byte accounting, against reference definitions.

Theorems next: an abstract specification of one repository as a caller of ToolCalls
knows it, implemented by ToolCalls; one of the cache directory as its services know it,
implemented by CacheLifecycle.
