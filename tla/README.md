# Verification of better-compact

`better-compact` (package `opencode-better-compact-plugin`) is a compaction plugin for
OpenCode and Pi, with a CLI that mirrors local sessions to a remote store. This
directory holds TLA+ specifications of it, the TLC runs that check them on small
instances, and the theorems TLAPS proves about them. Every definition was translated
from the source under `src/`; `PROJECT.json` maps each one to its lines.

## The system

| # | Component | State it keeps | Operations | Talks to |
|---|---|---|---|---|
| 1 | OpenCode hooks, `vcc_mode=off` (`server.ts`) | attempts (2), locals held over awaits | `session.compacting`, `chat.messages.transform`, `text.complete`, `compaction.autocontinue`, `event` | host (callbacks, client calls), 2, 12 |
| 2 | Attempt stores (`state.ts`) | a `Map` with TTL and cap | get, set, delete, clear, cleanupExpired | 1, 3 |
| 3 | OpenCode hooks, `vcc_mode=hybrid` (`server.ts`) | VCC attempts (2) | the same hooks over immutable attempts | host, 2, 11 |
| 4 | Outbox (`sync-state.ts`) | SQLite: records, outbox rows, cursors, revisions, S3 checkpoints and failures | enqueue, claim, acknowledge, fail, reconcileCommitted, adoptThrough, forceReconcile | 5, 6, 7, 8 |
| 5 | Postgres mirror (`postgres.ts`) | remote rows, fence, lease, snapshot-seen | ensureRemoteSource, uploadFenced, purge | 4 |
| 6 | Discovery (`jsonl.ts`, `opencode-v1.ts`) | checkpoint per source | one pass, bounded by records, resumed later | 4 |
| 7 | S3 sync (`s3-sync.ts`, `cli.ts`) | checkpoint and failure row per file | plan, upload, retry, exhaust | 4, session-center |
| 8 | CLI and daemon (`cli.ts`, `config.ts`) | lock directory, worker loop, `config.json` with its lock, `sync.env`, `rag.env`, systemd units | run, setup, install, uninstall, prune, reconcile, retry-s3, reset, adopt | 4-7, 14, systemd |
| 9 | Installer, configuration (`install.sh`, `configure.ts`, `tui.ts`) | files, backups, transaction state, locks | install, configure, select, rollback | file system |
| 10 | Pi adapter (`pi*.ts`, `vcc-pi*.ts`) | the branch Pi keeps, the awaited hook | before_compact, before_tree, recall | Pi host, 11, 13 |
| 11 | VCC core (`vcc*.ts`) | none (pure) | collect, form episodes, compile, recall; patch, pack | 3, 10 |
| 12 | Ledger, projection, validation, sanitising | none (pure) | build, render, validate, redact | 1, 3 |
| 13 | /cat commands (`cat*.ts`) | the pin file and its lock | attach, pin, reset | 10 |
| 14 | RAG worker (`rag_worker.py`) | saved cursor, stream, stager, writer | stream, stage, encode, write | the mirrored tables |

### What is hard, and what makes each component correct

* **Hooks (1, 3).** The host awaits the hooks of one session in sequence, but its
  event bus calls `event` between any two awaits of a running hook, the hooks of
  other sessions interleave over the same store, attempts expire and are evicted, and
  each client call may fail. Correct: auto-continuation fails closed; recovery context
  is never stale, not lost and not repeated; normal turns are untouched; sessions do
  not disturb each other.
* **Stores (2).** Correct: the Map's insertion order survives deletion, expiry and
  re-insertion, and the cap costs the session set longest ago.
* **Outbox and mirror (4-6, 8).** Crashes between a remote commit and its local
  acknowledgement, a second worker, leases that run out, discovery in several passes.
  Correct: the mirror applies records in order and exactly once, comes to show the
  source, and the outbox drains.
* **S3 (7).** Lost receipts, retries, files that change while they are read. Correct:
  what session-center holds for an acknowledged version is that version; a failing file is
  retried a bounded number of times and holds up no other for good.
* **Commands (8).** They read and write the same files over several awaits next to each other and the
  daemon, and may be killed. Correct: what is set up can be served, and what is pruned locally
  stays in the mirror.
* **Lock (8).** Kills and restarts at any system call, processes that find a stale lock at
  once. Correct: one holder, and a stale lock is taken over.
* **Installer (9).** A failure, a kill or an edit of the user after any step. Correct: a rollback
  restores what it owns, keeps what the user wrote, and no entry names a checkout that is gone.
* **Pi (10, 13).** The user moves around in a tree of entries, and Pi or the plugin compacts.
  Correct: summary and live context hold every message between them; a handle is answered
  whenever its entry is on the branch, unless the index of the whole branch is refused (too long, or a message
  with an id that `validIdentity` refuses) or the item is larger than `max_bytes`; no pin is lost.
* **Collection (11).** The session is paged backwards while it changes. Correct: what claims to be
  complete is; equal sources give equal candidates; the limit costs only what it must.
* **RAG worker (14).** Three threads, failing passes, restarts, late rows. Correct: the cursor
  passes nothing that is not embedded, and everything comes to be embedded.

## Modules

| Module | Models |
|---|---|
| `AttemptStore` | the operators of `AttemptStore` / `VccAttemptStore` (`state.ts`) |
| `AttemptStoreOps` | arbitrary calls of them next to the Map as a sequence |
| `CompactionHooks` | component 1 over component 2, with the host and the bus |
| `VccHooks` | component 3 over component 2, with the host and the bus |
| `LedgerChain` | component 12: the recovery ledgers of chained compactions and their byte limit |
| `VccSource` | component 11: collection, episodes, the candidate, recall |
| `SyncLock` | the lock directory of component 8, one action per system call |
| `OrderedMirror` | what components 4 and 5 promise: a log, of which longer and longer prefixes are applied |
| `MirrorSync` | components 4, 5 and the loop of 8, for one source; refines `OrderedMirror` |
| `JsonlDiscovery` | component 6, one pass of `discoverJsonl`; the adapter `MCMirrorSync` gives to `MirrorSync` |
| `S3Sync` | component 7, with the loop of 8 and `retry-s3` |
| `RagPipeline` | component 14 |
| `SyncCommands` | the setup, install, uninstall and prune commands of component 8 |
| `Installer` | component 9 |
| `PiSession` | components 10 and 13 |
| `Listing` | a set of numbers listed upwards and a list without some of its values, which several modules use |
| `*_proofs` | the theorems about `CompactionHooks`, `VccHooks` (with `VccSource`), `MirrorSync` (with `RagPipeline`) and `S3Sync`, in `Sessions_proofs` about `AttemptStoreOps`, `PiSession` and `LedgerChain`, and in `Cli_proofs` about `SyncLock`, `SyncCommands` and `Installer`; `AttemptStore_proofs` has the lemmas on the store that the first three share, and `Listing_proofs` those on lists |

`MC*` modules hold the finite sets and bounds the `.cfg` files give to the constants, and
the properties that need a history variable or an instance to state. `MCHandlers` (what a host or a
person calls) and `MCWorkers` (what runs on, the stores, and the hybrid mode) put components that
share no state side by side; `part` says which one a behaviour runs, and the others rest. An operator commented "Mutant" is a mutated form of the definition after it,
which one of the properties must reject; no specification uses it.

### AttemptStore

A store is a record: `map` from session to attempt, and `older`, the insertion order of
the JavaScript `Map` as a relation. A relation, not a sequence, so that eviction is a
cardinality and the proofs need no induction over sequences; `AttemptStoreOps` carries the Map
as a sequence next to it and `StoreIsTheMap` says the two agree after every call.

### CompactionHooks

Each action is the code between two awaits. A hook with awaits is a chain of points:
`compacting -> compacting_prior`, `transform_load -> transform_prior -> transform_replay`,
`text -> text_prior`, `auto -> auto_prior`; `call[s]` is the point with the locals the
code keeps over it (`loaded`: the ledger of the data that was loaded; `active`: the
attempt object held). Where the code reads an attempt before an await and writes it
after, so does the model: `Transform` / `TransformRecover` mutate an object that the store
may have dropped meanwhile. `*Fail` actions are the `recover` callbacks of
`guardInternalHook`.

* `durable[s]` is what the host has stored: `revision` counts changes of messages and todos,
  `compaction` numbers the newest summary message, `parts` are its text parts, `later` says
  that an ordinary user message follows it, `prior` is the newest plugin-valid summary before.
* A **ledger** is the pair (revision it was built from, prior summary it chains): the
  code compares ledgers by digest over data that these two determine.
* A **text** is blank, prose, a JSON projection bound to a ledger, or a plugin-valid summary.
* The host (external) starts turns and compactions, streams text parts, stores the
  summary, cancels, fails, acts on `output.enabled`, deletes sessions, restarts. What it
  does is read off how the code uses it, including what a failing host may do.
* The bus delivers events in order, at any later time (`PromptEvents = FALSE`) or before
  the host goes on (`PromptEvents = TRUE`).
* `session.status` idle and `session.idle` run the same code, and both are the event
  `session.idle` here.
* `MCCompactionHooks` adds the history variable `trouble` (an event was late; something
  failed), for the premises of the three properties that are stated there, and `study`: a
  behaviour has one session with everything (`Alone`), or two that share the store (`Beside`).

### VccHooks

The same split at awaits for `vcc_mode=hybrid`: `compacting -> compacting_rest`,
`text -> text_target -> text_prepare -> text_rest`, `auto -> auto_load -> auto_prepare -> auto_rest`.

* An attempt is never assigned to. The text hook holds the one it read over its awaits and
  `set`s a changed copy, so an attempt an event deleted meanwhile comes back; this is in
  the model as it is in the code.
* A collection is the session as of its first page (`VccSource` has its pages); `Collect`
  takes it in one step and may be incomplete. All digests are functions of the revision
  collected (a candidate's also of whether a patch was accepted), so comparing digests is
  comparing revisions. `CandidateStable` of `VccSource` checks the half of this the hooks rely on.
* `Consistent` is the part of `validateVccAttempt` that relates fields: `set` throws on an attempt
  that fails it, so it is part of `VccTypeOK`, and the steps after a `set` rely on it.
* The host awaits every hook of a session, so a hook never runs for an abandoned call.
* `AutoFail` leaves the VCC attempt: the `recover` callback (`server.ts:399-402`) deletes the
  attempt of the other store only.
* The text hook is called for the parts of ordinary messages too (`StreamTurn`).

### VccSource

A message is its kind, whether its tool call has ended, and the user message it answers.
`ToEvents` expands it into its content, a call and a result or human answer, as
`toVccOpenCodeEvents` does; `Canonical` is the second pass of `collectVccOpenCodeSession`
over the authoritative records by time (`ByTime`, then `EventsOf`); `Episodes`, `CompletePair`, `Protected`, `Mandatory`
are the steps of `compileVccCandidate`, and `Selected` is its loop, each round of which (`SelectOne`) takes the newest
episode that still fits. A digest or an archive handle is what it is a digest of. Sizes (`SizeOf`)
count units instead of bytes: one for an event, three for a long tool result. The session gains
messages, its messages go on and are deleted between any two pages (`AddMessage`,
`MessageGoesOn`, `DeleteMessage`); `steady` remembers the handles of the events that did not change since a
collection began: the handle of an event is its ID and its payload (`ArchiveHandle`), so that a message may go on
while the handle of its call stays. A recall is a collection without a candidate, whose index
(`Indexed`) answers the handles of the candidate before it (`listed`); `RecallStatus` is what the tool says, with
its refusals. `RecallAnswers` holds the size of the event that was listed against the answer to the event that is
found later: for each `max_bytes`, "oversized" exactly if the item is larger, and otherwise the item.

### LedgerChain

`RecoveredLedger` is what the backward scan of `buildRecoveryLedger` takes from the newest messages, `Merged` adds
the ledger of the newest valid summary (`Prior`), wherever it is, and `Fit` is `fitLedger`: sections are
emptied in `RemovalOrder`, and in the first one that need not go entirely a binary search finds the
least number of values to remove. Texts are numbers, a value's bytes depend on its section only, and
the limits of `LEDGER_LIMITS` are constants. `LedgerFits` compares `Fit` with what a careful reader would
want of it; `ChainCovers` compares the chain with a ledger of the whole history. The scan's limits on
parts and pages are left out, and so are truncation and redaction.

### SyncLock

`acquireSyncLock` and `release`. `fs.rm` with `recursive` is an unlink of the pid file and then the
removal of the directory, which fails when a new file has appeared; `writeFile` is an open
that truncates and then a write, which succeeds on a file that was unlinked meanwhile
(`open[p]` is FALSE then). A pid is what `kill(pid, 0)` tests: the pid of some process that runs.
`past` is a history variable: whether two acquisitions ever overlapped, and whether a
process was killed while it acquired or released.

### MirrorSync and JsonlDiscovery

A worker's step runs from one await to the next, or to the next commit of the SQLite state,
so that it can be killed in between: `poll`, `discover`, `lease`, `fence`, `claim`, `claimed`, `upload`,
`committed`, `stored`, `maintain`, `finish`. The outbox is a set of rows with SQLite's reuse of ids;
`uploadFenced` is one transaction (`Commit`), which may commit and lose its answer
(`ReplyLost`); `ApplyRow` has the control records and the revision guard of the upserts.
The lock keeps workers apart unless `OverlapAt` lets a second one start, as `lock_steal` shows
it may. What an adapter returns is the parameter `Discover`, so that the theorems hold for any
adapter. `JsonlDiscovery` defines it for a tree of JSONL files: inventory, candidates, resumed
lines, the record limit, shrinking sources, prefix controls. `seen` is the tree when sizes and
times were taken and `now` the one that is read.

### S3Sync

`BeginPass`, `Scan`, then per file `Defer`, `SkipFile` or `TakeFile`, `HashFile`, `Upload`, `Receipt`, or
`FileFails`, which ends the walk; `EndPass` records a complete source, `Loop` is the loop of
`syncRun`. A hash is the content. session-center is external: it puts the body of a request at
its start offset. Clocks are two facts that become true, a retry and a full scan that are due.
`forgotten` marks the files for which a kill or a cleared failure row left no trace of
an accepted upload: whether the next append is then refused is session-center's contract, and
`ReceiptArchived` says nothing of them.

### RagPipeline

The main loop with the server-side stream, the lookahead page, the stager and the writer thread,
each of which can fail; the handler of a failed pass drops the stream and the stager and keeps
the writer. Documents arrive late, behind the cursor and outside the lookback, and supersede
others. What a query returns is a set of documents: their numbers are its order. A document is one chunk or none.

### Installer

`install.sh` up to its commit and in its exit trap, `configure.ts` from the lock to the write, the
handler of a failed write and the rollback, the selection in the TUI, and a user who edits the
same files under no lock. `EntryResolves` holds at every step, not only at rest, as long as no lock was taken from a
process that still worked (`slow`). `CommitSignals` lets a signal arrive while the installer commits: the
`handlers` run is without it, `install_interrupted` is about it.

### SyncCommands

A command of a terminal runs from one await to the next: it loads the settings (`Begin`, `LoadTo*`), makes the
lock of the configuration, renames the new one over it and removes the lock (`saveConfig`), writes `sync.env` or
`rag.env`, writes, enables, disables or removes a unit, plans a prune and removes its files one by one. A URL is
what it is for; flags are chosen when a command begins. The environment of the caller has no URL and the
default sources exist. `alone` says of a command whether another has written since it read the settings;
`torn` and `overtaken` are history variables for the premises of the two properties. What the daemon does to
the rows of a file that is gone is `DaemonPasses`; `MirrorSync` has the rest of it.

### PiSession

The branch is a sequence of entries; a summary is the set of entries it was built from,
including those of the ledger it chains. `BeginCompact`/`BeginTree` read the branch, `ModelReturns` is the
provider, `HookReturns` or `PiCompacts` append. The pin file is read and written by several sessions
under a lock directory that a dying one leaves behind. With a fixed pin every /cat attachment is
left out of the records (`pi-adapter.ts:44-51`), ordinary ones too, although `README.md:417` says they keep
the normal behaviour; `SummaryAndTail` is about spoken messages only.

A handle is an entry and the marker of its branch. `PiRecallStatus` has the refusals of `vcc_recall` in their order:
the index (`IndexComplete`) is refused for all handles alike when the branch is too long or one message on it has an
id of `RefusedIds` (`test/vcc-pi-recall.test.ts:111-115`), then the handle, then an item (`ItemBytes`) over `max_bytes`.
`RecallStable` says that there is no further reason: where the index is complete and the entry is on the branch, the handle
is answered, or refused as oversized exactly if the item is. A pin has the time it was asked for (`Stamps`), which is
before the lock is taken, and it is the time that decides which pins the cap leaves (`PinSaved`).

## Runs

| Run | Bounds | Shows |
|---|---|---|
| `handlers` | one component at a time; below | the hooks (fresh ledgers, sound continuation, recovery that is not repeated, normal turns unchanged, no refusal without cause, attempts isolated), Pi, chained ledgers, the installer, the commands |
| `mirror` | 2 workers that overlap once, one file, one change, one fault, killed anywhere | order and exactly-once (`MirrorsLog`), replay, nothing lost, the outbox drains, the mirror becomes current |
| `workers` | one component at a time; below | the stores, the lock, S3, RAG, the hybrid hooks, collection and recall |
| `hooks_recovery_lost` | prompt events, faults | finding 1 |
| `vcc_ordinary_text` | 1 session, no faults | finding 2 |
| `lock_steal` | 2 workers, nobody is killed | finding 3 |
| `mirror_stranded` | 1 worker, killed anywhere | finding 4 |
| `mirror_multipass` | 1 worker, one record per pass | finding 5 |
| `mirror_inventory` | 1 worker, 2 files, 2 changes | finding 6 |
| `install_interrupted` | 1 installer, one signal | finding 7 |
| `vcc_pair_split` | as collection in `workers` | finding 8 |
| `ledger_request_lost` | 3 requests, 6 messages, 1 ledger, no other facts | finding 9 |

Bounds of `handlers`. Hooks: 1 session, 2 history changes, 2 compactions, 2 parts, 2 late events, faults, one
restart; or 2 sessions with cap 1, TTL 1, one tick, no faults, each one compaction, no history change and one
event underway. Pi: 2 sessions over 1 pin, 6 entries or, with recall or pins, fewer (`PiBound`), tails of one
turn; the index takes 3 entries, the id of the last one that fits is refused, items have two sizes and
`max_bytes` is either. Ledgers: 2 requests with 3 rules, an edit of 3 files and a failed build, 2 todos with 2 changes
(right after a compaction, `TodosAtCompaction`), 2 compactions that may fail, turns up to a session of 3
messages, a window of 2, two values per section, a budget that never cuts and one that cuts into most sections.
Installer: 2 installers and a selection, 1 fault, 1 edit per file. Commands: 2 terminals, 2 commands, a kill or a
failing systemctl, 1 session file; the second terminal is used while the first is, and the daemon and the
files stay as they are next to RAG commands, which know of neither (`CommandsBound`).

Bounds of `workers`. Store: 3 sessions, cap 2, TTL 1, clock 0-3, 5 sets. Lock: 2 workers, one a
service, 6 pids, killed anywhere, no reused pid. S3: 2 files, one always refused and walked first,
3 contents, 2 changes per file, 1 fault, 2 attempts. RAG: 5 documents, 2 of them late, pages of
2, 2 faults. Hybrid hooks: 1 session, one history change, 2 compactions, 2 parts, one tick. Collection: 6 kinds of
messages, 2 messages at first and 2 changes, pages of 2, 2 pages, 2 collections, a limit of 16 that can
take one long episode, or two short ones, or neither; recall with each `max_bytes` up to the size of a long result.
`LeastPid` gives a starting process the least free pid, since pids are compared for equality only.

Deadlock is not checked in these two: a component stops when its bounds are used up.

Why the bounds are enough. Two compactions are needed for a stale ledger, for a summary
that chains a prior one and for an invalid summary followed by another compaction; two
parts for a split response; two history changes for one inside and one outside the
compaction; two undelivered events let an event of the previous turn arrive in the
next. `TroubleBound` stops exploring where both a late event and a fault have happened: of
the properties that are only checked, three have premises without one of them, `AttemptsIsolated` is about
two sessions beside which nothing fails, and the others are proved. A cap of
one with two sessions evicts at every set. Two workers are enough for the
lock's races, since each involves one that takes the lock and one that clears it; six
pids let every process restart with a pid that is written nowhere. In the mirror a fault of one kind, a change
and an overlap already reach every point with every other at each of its points. A file that
is refused before one that is accepted is what starves in a walk that breaks at the first failure.
Two collections are a candidate and a comparison or recall; two changes let a message come
and another go, or a message come on one page and move the boundary of the next. Two commands are a setup and the one that undoes or
follows it, or two that overlap.

## Fairness

Liveness is checked for the lock, the mirror, S3 and the RAG worker; it is claimed where the code
runs in a loop of its own, and never of users, sources or faults.

* `SyncLock`: a worker that acquires or releases goes on (it waits for nobody), and the service is
  started again when it failed (`Restart=on-failure`, `RestartSec=5` in the unit, `cli.ts:1473`). Nobody
  need release, be killed, or start after a clean end. `StaleLockTaken` is checked without reused
  pids: with them it fails, because a process that always gets the pid that is written in the
  stale lock takes itself for the holder. A process killed between `mkdir` and the write of
  its pid, or inside `rm`, leaves a lock that every later one refuses; the code does so on
  purpose (`cli.ts:285-286`) and the property excludes it (`"orphan"`).
* `MirrorSync`: each worker's steps, time (row leases and delays, the scan's age, the source lease), and that
  the sync is started again when no worker runs. Faults are bounded, so that after the last one the
  claim is about the code.
* `S3Sync`: the steps of a pass, time for each failure row, and strong fairness of starting the daemon: it
  is stopped by signals and kills however often, and the unit starts it again. Runs with `--once`
  are not obliged: with only those, a permanently refused file that is walked first keeps those behind
  it waiting for good, since each run clears its failure and breaks at it again.
* `RagPipeline`: the main loop, both threads, the lookback and the interval of the full sweep.

## Proofs

Proved for every value of the constants, under the assumptions the modules state
(`StoreAssumption`, `OpsAssumption`, `HooksAssumption`, `VccAssumption`, `LockAssumption`, `MirrorAssumption`,
`PiAssumption`, `S3Assumption`, `AttemptAssumption`, `CommandsAssumption`, `LedgerAssumption`,
`VccSourceAssumption`).

`CompactionHooks_proofs`: `TypeCorrect`, `HeldAttempt`, `ContinuationSound`, `RecoveryFresh`. None of the
properties is inductive: what `AutoRebuilt` approves depends on
what `AutoLoad` loaded, what the text hook stored, and which attempt it stored it from.
`HooksInv` adds, per session: the ledger a hook loaded (`LoadedFresh`), the attempts in the
store (`StoredFresh`) and those held over an await (`HeldFresh`) are not older than the
ledger the running compaction began with (`born`); durable summaries are numbered in order
(`DurableInOrder`); while autocontinue runs, its loaded ledger chains the summary before the
current one (`AutoLoaded`). Each action preserves each conjunct; the store's operators are
used through lemmas that say which entries they keep (`KeepOnly` never invents an
attempt), so eviction needs no counting. Events, expiry and other sessions' hooks only
remove attempts of a session or leave them alone.

`StoreManaged` and `Isolation` (`AttemptsIsolated`), of the same module, need the store as a whole: the
order covers exactly the live sessions and is strict and total, and there are at most `MaxAttempts` of
them (`Managed`). Every call of a hook or an event is one of five (`StoreCall`), and each keeps `Managed`
and takes an attempt of another session only if it expired or the store is full (`StoreCallManaged`). The
assumption `AttemptAssumption` says that no attempt record is the model value for "none".

The properties that hold as long as nothing is late or fails are proved of `OneSpec`, the specification that records
it (`trouble`); that one session is studied alone, in one instant, is part of two of them, its length and everything
else is arbitrary. `TurnUnchanged` (`NormalTurnUnchanged`), with other sessions beside: an attempt that is
bound to no summary is there only during its compaction, or an event is underway that removes or
completes it (`BareGoes`), and as the host waits for its events none is underway when the next turn
asks (`EventsSettle`). `RecoveredOnce` (`RecoveryNotRepeated`), also with failures: from the recovered turn on
the summary stays invalid (`RecoveryFor`), the only event underway is the end of a turn (`OnlyIdle`), the attempt that gave
recovery, or that of a compaction tried since, is in the store (`RecoveryStored`), and at a new turn it is a
tombstone (`Tombstone`); a cancelled compaction leaves one too, as it had recovery itself. `ContinuesUnlessDisturbed`
(`RefusedOnlyForCause`): at every point of a compaction whose history has not moved since it began, the ledger in
hand is the one the session had then and chains what will be the prior summary (`Chained`), first in the attempt
(`Begun`), then in the first part and in no other (`Rendered`), which is the part the attempt is bound to
(`Summarised`), so the ledger loaded for the verdict is equal to it. All three rest on lemmas that say what
an action makes of its session (`TurnFields` to `EventFields`) and leaves of the others (`StepLeavesOthers`).

`Cli_proofs`, the lock: `LockTypeCorrect`, `LockExcludes` and `LockNamesHolder` for every set of workers,
crash points and reused pids. `MutualExclusion` is not inductive: a process about to clear the
lock must not meet an owner. `LockInv` adds, as long as no acquisitions overlapped, what each
process finds at its point (`Found`), that only one process owns or clears the lock (`Sole`),
and that one about to probe has read the pid of the owner, which is alive (`ProbesOwner`).
Each action has a lemma, with one step per conjunct.

`Cli_proofs`, the commands: `SetUpServed` (`SetUpIsServed`) and `PrunedKept` (`PrunedRowsKept`), for any
number of terminals, files, commands, kills and failures of `systemctl`. A command builds on what it read several awaits
ago, so `ServedInv` says that one that no other has overtaken (`alone`) still has the settings as they are
between its load and its save (`Loaded`), and how far an installation or a removal that is `alone` has come
(`Installing`: the tunnel is on before the unit that wants it, and the worker is off before the tunnel goes).
`SetUpIsServed` itself says nothing while a setup is on its way, so `Wanted` holds on to the tunnel for as long
as nothing is torn and whoever is in the middle of a setup is alone (`Sound`). `KeptInv`: the flag a prune
saved, or found saved, is still in the settings when the files go, and a daemon that is up has read it. A write
of p makes everybody else in the middle of a command not alone (`WriteStep`), so what is whole after a write was whole
before it (`WholeBefore`, `SoundBefore`).

`MirrorSync_proofs`: `MirrorAppliesInOrder` and the refinement `MirrorImplementsLog`, for every adapter,
any number of workers that overlap anywhere, and any faults. `IInv` adds to `AppliedInOrder` that
every row, in the outbox or held by a worker, carries the entry of the log at its revision, and that
no worker holds a revision above the remote one. The fence lets a batch through only if its
revisions continue the remote revision without a gap, so what is applied next is what the log has
next. `MirrorStepMaps` shows that every step is `StageEntries`, `ApplyEntries` or a stutter.
`NothingIsLost` (`NothingLost`): rows are acknowledged by id, and SQLite gives the id of a deleted last row
again. `KeepInv` says that ids are unique, that (as long as workers did not overlap) at most one worker runs
and the rows it holds have the ids of no other row of the outbox, that what it is about to acknowledge was
applied, and that every revision above the remote one has a row. New ids are above those in the
table because a finite set of numbers has a maximum (`FiniteHasMax`).
`TablesAreReplayed` (`TableIsReplay`), for every adapter that marks the records of a complete snapshot: the tables,
written in batches whose reconciliations look at whole tables, show what the log shows when it is applied record by record.
`TableInv` adds that the revisions in the tables are not above the remote one, so that the guard of the upserts
lets every new row through, and that the log is bracketed: `enqueue` marks all records of a complete snapshot and
puts the control record that ends it behind them, which is the contract `IsFound` asks of every adapter. A batch
is then compared with the log entry by entry (`BatchIsReplay`): the two differ in a key only where a later record of
the batch, with no control record in between, overwrites or marks it (`Agrees`), and at the end of the batch none is left.
`MirrorTypeCorrect` (`MirrorTypeOK`) needs the three invariants above and `TypeInv`, which says of a worker that
holds a batch that it has not had all of its batches yet, so that an acknowledgement does not count past `MaxBatches`.

It also proves `CursorIsSound` (`CursorSound`) of the RAG worker, which reads the mirror, for any finite set of
documents, any page size and any faults. `RagInv`: what a stream found and is not stored is in the page in hand, in
the page that was read ahead or behind both, in the order of the query (`StreamSound`); of a page that is being
encoded it is a candidate or with the writer, and of a page with the stager it is in what the stager brings back
(`Holds`). A page is the first part of the rows in that order (`FirstPageIs`), so when its
last batch is written nothing below its last row is left. A writer that fails keeps its batch until the
failure is raised, and a pass that failed starts from nothing (`StartsAnew`).

`VccHooks_proofs`: `VccTypeCorrect`, `VccContinuationSound`, `VccOneText` and `VccQuietContinues`. What autocontinue
approves was written by the text hook several awaits and events earlier, so `VccInv` follows the
attempt from hook to hook: in the store it is bound to a message and a part or to neither and is no
newer than the history (`StoredSound`), the copy the text hook holds is bound to the part it completes
(`HeldSound`), a summary that has a text has its attempt bound to one of its own parts or gone, so
that the next part comes out blank (`OneText`), and autocontinue holds an attempt no newer than
the host's question and then loads a history no older than it (`Continuing`). An attempt whose
revision is the one loaded is therefore of the very history that was asked about. Every event, expiry and
eviction is one lemma, `Forgotten`: the invariant allows any attempt to be gone.
`VccQuietContinues` (`QuietContinues`) is the other half, that autocontinue is not closed more often than it should
be, for any sessions that fit into the store; with one more, another session's attempt may evict the one in use,
and the property does not hold. `QuietInv` says at each await of a compaction nothing disturbed that the
attempt was stored in this very instant, so that no clock expires it, that it was prepared from the history as
it still is, and how far it has come: without a message, bound to the first part, finished with the
text of that part. It had to know that what the model wrote first is the part under way (`Spoken`) and that no
attempt is from the future (`Aged`), as the age of a later set could otherwise be anything.

It also proves, of the collection below the hooks (`VccSource`), `SourceIsCovered` (`SourceCovers`), `CandidatesAreStable`
(`CandidateStable`), `CandidatesAreBest` (`CandidateBest`), `RecallsAnswer` (`RecallAnswers`) and its type invariant, for
any page size and limits and however the session changes between two pages. `SourceInv` says that the session
is sorted by ID, that what is collected so far lies from the cursor on and has every message from there on that
has an event that did not change (`CollectedAfter`), and that a candidate is compiled from the messages its handles name and nothing
else (`Compiled`). A page is the end of what lies before the cursor (`PageIs`), so it joins the records without a gap and
without a message twice. `EventsByTime` says what the two recursions over the messages give: one event
for each part of each message, in the order of the messages. Stability then needs no step of its own:
both candidates are the same function of the same set. For `CandidatesAreBest`, every round of the selection adds an
episode or finds that none fits (`SelectOneIs`), so after as many rounds as there are episodes none is left that fits
(`SelectedIs`), and sizes add up at most (`SizesAdd`). The proofs assume the positive limits that
`requirePositiveLimit` checks (`vcc-opencode-session.ts:66-68`).

`AttemptStore_proofs` has the lemmas about the operators of the store that those three rest on, and
`OldestGoFirst`: what is evicted has at least `MaxAttempts` sessions after it and what stays has fewer,
and in a transitive order the sessions after a later one are a subset of those after an earlier one, so
everything evicted was set before everything kept. `EvictCaps` and `EvictFills`: at most `MaxAttempts`
stay, and exactly so many if any goes, as the number of live sessions after it tells apart
those that stay. `Sessions_proofs` proves `InsertionOrder` of arbitrary calls, and `StoreIsMap` (`StoreIsTheMap`): the relation is the
order of the Map's sequence. A set takes the entry of its session out and appends it, an eviction drops the first
ones; what is left of a list is described by the places that stay (`IsPlaces` of `Listing_proofs`), so that
two sessions are in the relation exactly if their places in the list are in that order, before and after a call.

It also proves `LedgersFit` (`LedgerFits`) of the recovery ledger, for any limits, sizes of values and budgets that hold an
empty block. `FitsUpTo` says what is left after n sections of `RemovalOrder`: parts of the full ledger, the sections behind
n untouched, those up to n empty if it still does not fit, and for the last section that lost values, that
everything before it is empty and that one value more is too much. `FitStep` needs that the binary search finds
the least number (`LeastTrimIs`): its range always has the answer in it and halves, so that as many steps as there are
values are enough. The size of a block depends on the lengths of its sections only (`BytesByLen`). `LedgerInv` says of
every summary in the session that its sections are finite sequences, which is what merging and
sorting need in order to give such sequences again (`MergedIsData`).

And `ChainIsCovered` (`ChainCovers`), under the same assumptions: when nothing had to be cut and no message left the window
before a ledger had it, the chain carries what one ledger of the whole session would. The inductive invariant
`ChainInv` says it of every summary in the session (`ChainSound`): a summary whose predecessors all follow each other within the
window carries the last values of everything before it (`Carries`). That is what the merge needs, because
the prior ledger and the window are two parts of the session that overlap, and of two such parts the
newest values of their last values are the last values of the whole (`MergeCovers`), as long as no value came
twice, where a value moves to its newer place. `fitLedger` then has nothing to cut (`AmpleFits`). The todos are not
carried but corrected: a listed todo that the bounded list has no place for comes after all it holds, and so
does not come back out of the prior ledger with the status it had (`ListedWins`).

It also proves `PinsAreKept` of the Pi adapter. `PinInv` adds that a session in the middle of an update, dead or
alive, is the holder of the pin lock, which nobody removes for another, and that what a session is about to
write is its change of the pins that are in the file now, not of those it once read.
On the branch it proves `BranchIsCovered` (`SummaryAndTail`), `TailIsKept` (`TailKept`) and `RecallIsStable`
(`RecallStable`), for any kinds of messages, any number of turns in the tail and any history of compactions
and excursions. `PiInv` says of every compaction on the branch, not only of the newest, that the entry it keeps is before it
and live, that it covers what was said before that entry and nothing after it, and how many turns it kept
(`CompactionSound`): the user may go back to any of them. Each of these depends on the entries up to the
compaction (`SoundCarries`), so it survives cuts and growth (`SoundGrows`), and a compaction is sound when it is made
because the live branch is what the boundary of the newest one leaves (`LiveIs`). A hook that waits for
the model has cut the branch as it still is (`HookSound`). A handle is below the root marked by the second
entry, which no cut that keeps its own entry removes (`HandleSound`). So it is among the handles of the branch, and
what is left are the refusals of the index and of the size, for any sizes and refused ids.

`S3Sync_proofs`: `CompleteSourceIsWhole`. Files change during the pass and the snapshot was read at its start;
`WalkInv` adds that a version is identified by its time stamp among those of its file, that nothing
stored is newer than the file, and that as long as the pass counts as complete every file already
walked is acknowledged in the version of the snapshot. `ReceiptsAreArchived` (`ReceiptArchived`) rests on
`ArchiveInv`: where what session-center assembled is not what was acknowledged, a failure row or the process
that sent it remembers so until it is forgotten, a plan trusts the acknowledged version only where there is no
such row, and what a plan sends makes the walked version out of what is assembled, unless the time stamp of
the file moved on. It assumes that no file has the name under which a failure of the whole source is kept, which
the code begins with a NUL (`cli.ts:24`).

`Cli_proofs`, the installer: `EditsSurvive` (`EditsKept`), for every `CommitSignals`; `FailuresUndone` (`FailureUndone`) and
`EntriesResolve` (`EntryResolves`) with `~CommitSignals`, as `install_interrupted` refutes the latter with it.
A step changes one process and what it writes, and the others only notice which files were changed (`Stands`), so
every action has a lemma that says what it makes of its process, and the four invariants are proved from those.
`Way` says what `configure.ts` was run for at each point and when the state file exists. `EditsInv`: every copy that
may still be written, of a file nobody edited meanwhile, holds all edits. `UndoInv`: a file nobody else has changed
is as the transaction found it, or its copy is. `LocksInv`: the locks exclude, the one of `configure.ts` as long as
none is taken from a process that works. `EntryInv`: an installer that found no working checkout has configured
nothing it cannot undo (`Fresh`), and a selection writes only where both entries are there (`Selects`).

`Listing_proofs` has the induction and the recursion that the proofs about lists rest on: on numbers up to a bound with a
set in the place of the predicate (`InductiveUpTo`), on the values a recursive function goes through (`StepsExist`,
`StepsType`), on what `Keep` leaves of a list and in which order, and on a set of numbers listed upwards (`AscendingIs`).

Only model-checked: the remaining properties of the runs. Liveness under fairness is out of the prover's
reach. `HandlersTypeOK` and `WorkersTypeOK` choose the type invariant of the part that runs; those of the hooks, the lock, the commands and the collection are theorems (`TypeCorrect`,
`VccTypeCorrect`, `LockTypeCorrect`, `CommandsTyped`, `MirrorTypeCorrect`, `SourceTypeCorrect`).

## Findings

1. `hooks_recovery_lost`: the transform hook also runs for the compaction request itself. When
   the newest summary is invalid it injects recovery there and sets `recoveryUserID`. If
   that compaction is cancelled before its summary message exists, `session.idle` turns
   the attempt into a tombstone, and the next user turn, which still follows the invalid
   summary, gets no recovery (`README.md:305` says it can be rebuilt then).
2. `vcc_ordinary_text`: in hybrid mode the text hook answers `""` when the session has no attempt
   (`server.ts:495-498`) or the message is no compaction summary, so ordinary assistant
   messages are blanked, although "Normal turns are left byte-for-byte unchanged"
   (`README.md:282`).
3. `lock_steal`: `acquireSyncLock` removes the directory because of the pid it read earlier. When that
   process ends and another creates the lock in between, the `rm` deletes the new lock and both
   hold it, also without a crash (`cli.ts:285-286`: "rather than deleting another writer's lock").
4. `mirror_stranded`: a worker killed between `setRemoteRevision` and `acknowledge` leaves rows at or below
   the remote revision, which neither `claim` nor `reconcileCommitted` looks at again: the
   outbox is never empty (`cli.ts:500-502`).
5. `mirror_multipass`: a file discovered in several passes stages its prefix control only in the
   last, which tombstones the lines earlier passes mirrored
   (`db/migrations/004_reconcile_prefix_index.sql:1`).
6. `mirror_inventory`: when a new file appears, the inventory takes over the size and time of a
   changed file whose lines it has not read; they are never read (`cli.ts:503-505`).
7. `install_interrupted`: `configure.ts` removes the transaction state before `install.sh` notes that the
   transaction is over. A signal in between removes the new clone while the configuration still
   names it (`README.md:73`).
8. `vcc_pair_split`: the answer to a question tool is human, hence protected, hence its episode is not
   selected, and the call that asked is in no list of the candidate
   (`vcc-opencode-message.ts:25-27`: "can retain the pair together").
9. `ledger_request_lost`: `mergeStrings` puts the values of the ledger before in front and removes repeated ones
   with a `Set`, which keeps the first place. A request that is asked again after the compaction ("continue")
   keeps its old place and is cut as the oldest, although it is one of the newest `tail_turns`
   (`README.md:261`). Errors, evidence and constraints are merged in the same way, so that under a tight
   budget, too, the values that came again are the first to go.

Noted without a run: `sync prune` looks at the pid of the sync lock once, so a daemon that starts while it plans has
read the settings before `keep_remote_on_missing` was saved and deletes the rows of the pruned files
(`overtaken`); a command that loaded the configuration before the prune and saves it after undoes the flag.
`enable --now` does not restart a service that runs, so a daemon keeps the transport of before a `sync setup
--install`. `rag.env` comes before `sync.env`, so a RAG worker keeps the database of before a new `sync setup`.
Also an idle event delivered after the next turn began deletes the attempt that turn rebuilt,
and recovery repeats (`README.md:285`: events are "not correctness gates"; `RecoveryNotRepeated` has
no late event as its premise). The candidate and its rendered projection share the limit
`max_summary_bytes` (`server.ts:735`), so a candidate close to it may not be rendered and the
summary degrades. A message without parts makes the source of its session incomplete
(`vcc-opencode-message.ts:39`). An outbox over its byte cap makes every pass fail before the upload that
would drain it, when the rows are below the backpressure threshold and a discovery does not fit. The actions of the
ledger before are kept although their todos are completed by now (`ledger.ts:344-349`), and a todo
that left the list stays in the ledger with the status it had.

## Plan

What would come next: `VccHooks` over `VccSource` instead of its one-step collection; several
sources sharing the outbox cap in `MirrorSync`, with `forceReconcile`, `reset` and `compact`; the OpenCode
database adapter next to `JsonlDiscovery`; validation and rehearsal of patches; how a projection is bound to a new ledger
(`remapProjection`).

## Abstractions

Where a definition is coarser than the code on purpose:

* `Installer.Restored` puts both files back in one step; `configure.ts` restores one after the other (`255-261`,
  `437-443`). A kill between the two leaves the transaction recorded, whose next rollback finds the first file
  unchanged and restores the other; the states between the two restores are not checked.
* `MirrorSync.Fresh` compares a discovery with what was staged before it, while the code also compares a record with
  an earlier one of the same discovery (`sync-state.ts:318-321`): the model stages the second of two equal session
  records too, and the second applies as the first did.
* `MirrorSync.Adopt` may happen to any source; the command adopts only `opencode-v1-sqlite` (`cli.ts:1436`). The
  properties hold with it and hence without.
* `JsonlDiscovery.DiscoverJsonl` fails when any file it might read is gone, also one that a signal or the limit of
  records would have kept it from. A failed pass leaves everything as it was and is repeated.
* `RagPipeline.Encode` encodes one document at a time; the worker groups them by length (`rag_worker.py:873-878`). What is written
  and when the cursor moves depends on the batch of the stream, not on that.
* `PiSession`: no two pins have the same `pinnedAt`; the code would then decide by the session's name.
* Recall is the lookup of one handle: `expand` does the same for several with a share of `max_bytes` each, and
  a discovery that is larger than `max_bytes` is refused as a whole.

## Not modelled

* Formatting, redaction and parsing of text, options and prompts: string work, abstracted to what
  the properties tell apart.
* Chat admission and replay sanitising (`sanitize.ts`): a pure filter over the text of one message,
  whose interplay with the hooks is in `CompactionHooks` (`sent[s].history`).
* CLI maintenance other than `retry-s3`, `adopt`, `prune` and the setup and install commands: report and
  repair commands whose effect on the state database is one transaction each.
* The wire format of VCC on Pi, packing and paging of recall results: encodings.
* The OpenCode database adapter: queries that feed the outbox that `MirrorSync` models.
* Benchmarks, corpora, generated bundles, DDL.

`PROJECT.json` gives the status and reason per component.
