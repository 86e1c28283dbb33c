# surface_export: models, checks and proofs

`surface_export` is a Clusterio plugin that moves a Factorio space platform from
one game instance to another. Moving means copying: the source instance locks
and serialises the platform, the controller stores the export and sends it on,
the destination rebuilds and validates it, and only then the original is
deleted. The specifications here say what that protocol promises (`Custody`),
how the code keeps it (`TransferProtocol`, `SurfaceLock`), and what the machinery
around it does: exports and uploads on their way, the history of operations, the
timeline drawn of it, the live view of the web interface, and the gateway links.
Each says which of its promises TLC finds true of small instances, which it finds
broken, and which are proved for every instance.

Paths below are relative to
`src/docker/seed-data/external_plugins/surface_export/` (the *plugin*) unless
they start with `docs/`, which is `src/docs/`.

## 1. Inventory

| Part | State it keeps | Operations | Hard behaviour |
|---|---|---|---|
| Transfer orchestration, `lib/transfer-orchestrator.ts` | `activeTransfers` (record per transfer: status, verdict, timer handle) | start, retry guard, send, verdict, timeout, rollback, prune | every handler awaits messages in the middle; a timeout races the verdict; records do not survive a restart |
| Stored exports, `controller.ts` | `platformStorage`, its file | store, evict over a cap, delete after completion, load | eviction of what is about to be used; write after the event |
| Source lock registry, `module/utils/surface-lock.lua` | `storage.locked_platforms`, committed tombstones | lock, upgrade, unlock, commit, clear, identity gate, expiry scan | outlives the platforms it names; several owners; a deadline |
| Destination holds, `module/core/destination-hold.lua` | `storage.destination_holds` | stage, go live, discard | may own a platform that is also locked; each restores what it captured |
| Source handlers, `instance.ts`, `module/interfaces/remote/delete-platform-for-transfer.lua` | none | delete, unlock, lock state | release before delete; an error in the middle |
| Export pipeline, `module/core/export-pipeline.lua` | `storage.async_jobs`, exports | queue, batch, complete, census abort | many ticks under a lock somebody else may release |
| Import, `instance.ts`, `module/core/import-*.lua` | import jobs, the new platform | deliver, build, validate, go live, discard, report | the copy is live before its verdict is sent; a failed discard |
| Chunked delivery, `import-platform-chunk.lua`, `import-session.lua` | sessions of chunks | begin, chunk, finalise, prune | sessions keyed by name; caps |
| Job scheduler, `module/core/async-processor.lua` | job table, settings | tick, queue, status | concurrency limit |
| Export cache, `module/utils/export-cache.lua` | exports in the save | record, prune | an export pruned before it is fetched |
| Log and ledger, `lib/transaction-logger.ts`, `lib/audit-ledger.ts`, `lib/persist-queue.ts` | events per transfer, files | log, persist, archive a recycled id, rotate, load | overlapping writes; a failed load |
| Uploads and downloads, `controller.ts`, `instance.ts` | operation records in `activeTransfers` | request, answer, completion event | the answer and the event race; a record is pruned or forgotten |
| Pending intents, commit markers, `controller.ts` | two maps and files | persist, prune | observability only |
| Gateways, `controller.ts`, `module/core/gateway*.lua`, `web/gateway/` | link map and its file; staging slot and configuration of each game; edits of each canvas | load, edit, save, push, pull, stage, apply | two canvases, two pushes, a push and a pull overlap |
| Subscriptions, `lib/subscription-manager.ts`, `lib/platform-tree.ts`, `shared/revision-gate.ts`, `shared/live-status.ts`, `web/index.tsx` | revisions, subscribers; tree, list and watermarks of each page | subscribe, emit, coalesce, retry | answers out of order; sessions that drop, resume and are lost |
| Timeline, `shared/transfer-timeline.ts` | none | build | spans of different clocks |
| Validators and census, `module/validators/`, `module/export_scanners/census-accumulator.lua` | none | compare counts | boundary cases of the tolerance |
| Scanners and restorers, `module/export_scanners/`, `module/import_phases/` | none of their own | translate engine objects | depend on the engine |
| Commands, tools, rendering | none | show, start | none of the protocol's |

How they interact: the controller routes everything. `TransferPlatformRequest`
and `StartPlatformTransferRequest` start a transfer; `ImportPlatformRequest` goes
to the destination and is answered when the payload is queued there;
`TransferValidationEvent` comes back later; `DeleteSourcePlatformRequest` and
`UnlockSourcePlatformRequest` go to the source, which executes each as one Lua
call over RCON. The connection to an instance is ordered, but a session may be
lost with requests on it. The orchestrator is one JavaScript thread: code between
two awaits is atomic, and anything may run at an await. Inside an instance every
Lua call is atomic.

What makes each correct:

- transfer: never both gone, never both live, a record says what happened,
  every transfer settles, no lock is left behind;
- lock and hold registries: a platform is out of play exactly while something
  owns it, an owner loses it to nobody else, identity is the surface;
- exports: what was asked for is answered and there when it is fetched, and a transfer that was reported
  as failed does not take place;
- uploads: what is reported delivered is what is built, and the history agrees with the game;
- log, ledger, files: what was recorded is not lost, reordered or taken for another's;
- timeline: every millisecond once, and under the right name;
- gateways: the last save wins in every game, links stay in pairs and within the mode;
- live view: a page never goes back on what it was told, and says live only when it is.

The hazards behind these are listed one by one, with their line, in
`PROJECT.json`.

## 2. Modules

| Module | Models |
|---|---|
| `Custody` | the abstract promise about one platform: it is removed only while frozen and while an exact export of it is live |
| `TransferProtocol` | source instance, controller, destination and messages, for any number of transfers of one platform |
| `MCTransferProtocol` | its instances for TLC |
| `TransferProtocolProofs` | its theorems |
| `SurfaceLock` | lock registry, tombstones and destination holds of one instance, over platforms that come, are renamed and go |
| `SurfaceLockProofs` | its theorems, and those of an instance without holds |
| `Exports` | exports from the game's cache over the instance to the controller's store, and what is then done with them |
| `Uploads` | payloads delivered to a game in chunks, and the operation records of uploads |
| `TransactionHistory` | the controller's memory of operations: events, details, audit ledger, their files, crash and restart |
| `Timeline` | the logs a transfer writes, and the timeline that is drawn of a log |
| `LiveView` | a page of the web interface, its link, and the controller's subscriptions and trees |
| `GatewayGraph` | links as the canvas draws and edits them, and the rule of the Multi Cluster mode (operators only) |
| `GatewayConfig` | links from the canvases over the controller's map and file to the games |
| `ExportsProofs`, `UploadsProofs`, `LiveViewProofs`, `GatewayConfigProofs`, `TransactionHistoryProofs` | the theorems of each |
| `VerdictsShownProofs` | that the list of operations shows every verdict of the history |

Each module `M` that is run has an `MCM` with its instances for TLC. `GatewayConfig`
extends `GatewayGraph`; `TransferProtocol` refines `Custody`. The others do not share state
in the code beyond what each says: `TransferProtocol` takes of the history the await of
`archiveRecycledTransferId`, and of the exports that one may be lost; `Exports` takes of a
transfer that it was sent on; `Timeline` takes the events of a transfer and nothing else.

### TransferProtocol

A transfer is named by its export, because the code does so: the job id of the
export is in the lock, in the key of the stored export and in the key of the
record. A call of `transferPlatform` that passes the retry guard is an *attempt*.

State and code:

| Variable | Code |
|---|---|
| `alive`, `lock` | the original platform and its entry in `storage.locked_platforms`, reduced to its owner: a transfer, a plain export, a player |
| `exact`, `expired` | history: the exports that equal the original as it stands locked; the transfers whose lock reached its deadline |
| `export`, `starting` | the export job; the flow that will call `transferPlatform` (`"store"`: the controller polls for the export; `"request"`: the instance asks) |
| `stored` | `platformStorage` |
| `rec` | the record in `activeTransfers`; `attempt` is the object identity that a coroutine holds on to, `timer` its `validationTimeout` handle, `preserved` its `validationResult.destinationPreserved` |
| `timers` | the `setTimeout`s that are armed, also those whose record was replaced |
| `tries`, `call` | attempts admitted; where each `transferPlatform` coroutine stands |
| `handlers` | the coroutines of `handleTransferValidation` under way |
| `import`, `reply`, `verdicts`, `srcLink` | the import on the destination, the answer to its request, validation events, and the ordered requests to the source |
| `faults` | how many faults there were, and whether one of them cut a transfer off from its lock (`Severing`) |

One action is one stretch of code without an await. The handler of a verdict is
therefore three: `ReceiveVerdict` (up to the request to the source), the source's
`ExecDelete`, `RefuseDelete` or `ExecUnlock`, and `FinishHandler` (from the answer
on), with `DropStored` after the last awaits of a completed transfer. A coroutine
writes the record it started with, whatever became of it: `h.rec` is that identity.

`Environment` names what may disturb a transfer. Disturbances cost nothing and
may happen at any time: a timeout before the awaited event, a lock that reaches
its deadline, a player's lock and unlock, a plain export of the same
platform, an operator who starts stored exports. Faults are counted and bounded by
`MaxFaults`: lost messages and sessions, a destination offline, a failing send, a
verdict that turns into a failure while it is sent, a platform that the engine
refuses to delete, a controller restart.

`scan_transfer_expiries` releases a lock past its deadline whatever became of the transfer, a live copy
included, and so does `LockExpires`, whenever `"ttl"` is in `Environment`. The deadline itself, 36000 ticks
after the lock, is not modelled: it may come at any moment, or never.

Abstractions to know of: a platform is locked exactly while `lock` says so (what
hiding and freezing amount to is in `SurfaceLock`); one platform, one source, one
destination; the broadcasts of status that the handlers await are not messages of
the model, because nothing reads them and the order of two coroutines' requests is
that of their broadcasts; the local unlock that an instance does after a refused
start is put on `srcLink` with the others, since the refusal travels there.

### SurfaceLock

`platform[i]` is the platform at index `i` with its surface, name, and the three
things that take it out of play (hidden, paused, running, where running stands
for the active state of its entities). `lock[i]` and `hold[h]` are the registry
entries with the state they captured, `tombstone[j]` a committed tombstone,
`surfaces` the surface indices used so far: the game never uses one twice,
platform indices it does. Each operation of the two Lua modules is one action; so
are a player's removing and renaming platforms, `/resume-platform`, and the two
forms of time, `Elapse` and `Scan`. `commit_source_transfer_lock`, `stage`,
`go_live` and `discard` are in the code and reachable by remote call, but the
controller does not use them yet (docs/TRANSFER_2PC.md, phase 2); they are modelled
with the rest because they share its state.

`Interference` adds what the documented protocol does not: a transfer lock taken
without a job id, `/resume-platform`, an engine that refuses to delete.

### Exports

One job is one export: a download, a transfer that the controller manages, or one that
was asked for in the game. `job`, `locked` and `cache` are the game's: `cache` gives each export its
`cache_seq`, 0 to those that are not in it, and `seq` counts them; `notices` (completions
sent), `replies` (RCON answers, in order) and `managed` (`controllerManagedTransferExports`)
the instance's; `link` is its ordered link to the controller, whose handler of each request
is `handler`, with what the user was `told`. `store` is `platformStorage` in the order of
the timestamps, by which `cleanupOldExports` evicts; `Behind` are exports of an instance
whose clock is late. An answer that waits and is then needed is an action of its own
(`Reply`, `Receive`, `Found`, `TimedOut`); each handler between two awaits is one step.

A transfer that is sent on has a `record`, by what the retry guard makes of it: `sending` (the answer of the
destination is awaited), `open` (a verdict is), `stuck` (a send that failed for good), `failed` (may be tried
again), `closed` (may not). The request that asked for the transfer is answered with what `transferPlatform` returns, so only
after the destination has accepted (`ImportAccepted`) or refused (`ImportRefused`), its session was lost
(`SessionLost`: a success, the verdict is awaited) or the send failed (`SendFailed`). `Resend` is the operator
who starts a stored export again, which the guard admits after a failure and before a first attempt, and
`Settled` the end of a record by verdict or timeout. `taken` are the exports that a destination began to import.
Two things are simpler than in the code: the await of the archive between the guard and the record is
one step here (`TransferProtocol` and `TransactionHistory` have it apart), and records are not pruned. `Saved` are
exports during which the game is saved: after a restart such an export may run again, whatever became of
it since.

### Uploads

`sendChunkedJson` is `SendChunk`: one RCON command each, judged by its reply.
`import_platform_chunk` collects chunks under a key made of platform name and force, closes
the session when it has as many as this call says, and queues a job if they decode; a chunk
is told from another by the payload and its number, and the last one by the operation id,
which comes last in the JSON. `record`, `row`, `answer` and `held` are the controller's side:
the status in `activeTransfers`, the last ledger row, what the user was told, and which
handler still holds the record. The game saves and may be started again from its save.

### TransactionHistory

An operation is known by the moment it started. `Begin` asks its guard once: while it waits for the row that
archives the earlier operation, another of the same id may begin, and the later to open replaces the record. `active`, `logs`, `detail`, `index`,
`revisions` and `latched` are the controller's memory, `rowQueue` and `fileQueue` the two
promise chains of `persist-queue.ts`, `ledger` and `file` what is on disk. A handler that awaits
a row leaves what it does next in the queue (`then`). Objects shared between the store and
queued snapshots are shared in the model as well: archiving renames an entry wherever it is
referred to. `Crash` empties the memory, perhaps in the middle of a rotation, `Boot` is the
load with migration and latch. `TransactionLog` and `Summaries` are what the list and the
detail view answer.

### Timeline

The state machine writes logs: the handlers of a transfer with their reads of the clock,
where the event of a phase reads the clock once more (`Lag`). `Trimmed`, `Residuals`,
`DetailWindows`, `Details` and the sums are `buildTransferTimeline` as a function of the
list of events, whatever part of it there is. `spent` records, for each phase, the milliseconds for
which it went on: the reference the bars are held against.

### LiveView

A page with its callbacks, its `syncLiveState` calls under way (`syncs`), its retry loop and its
watermarks; one link, on which pushes and answers are in order; and the controller, whose
trees are built by asking every instance (`builds`) and numbered when they are done. A link
drops, resumes with what was queued, or is lost for a new session. What a page shows of an
instance or a transfer is a version number.

The summaries of a page have three writers: pushes, behind a watermark; the answer to the list, behind
`touched` (`entriesChangedSince`); and the answer to a log that the user opens (`OpenLog`, `SendLog`,
`LogOpened`), which `loadTransactionLog` merges with no gate at all. A fetch that fails is swallowed
(`AnswerFetchError`): the page says live, without what it did not get. After a restart of the controller no
transfer is active, and the list says what the ledger has (`Known`): of a transfer that was under way its start,
or nothing if that row was not yet written. Two histories serve the properties: `told`, the transfers the page was told of in
its session, and `missed`, those of which it may not know the present state, because the fetch failed or the log it
read was overtaken.

### GatewayGraph and GatewayConfig

A link is a pair of gateways, a gateway a pair of instance and name; the controller's map and
a canvas's edits are sets of links. `GatewayGraph` has the edits (`ApplyConnect`,
`ApplyDisconnect`, `PlanBulkLink`) and the rule that canvas and controller share
(`CheckMultiModeLink`). `GatewayConfig` has several canvases over one controller: a save is a
request per instance, each of which the controller checks against its map, writes to its file
(a queue) and pushes. A delivery is one command, or begin, chunks and commit into the one
staging slot of the game; `no` numbers the deliveries of an instance, as their tokens do.

## 3. What is checked

Runs that pass:

| Run | Instance | Shows |
|---|---|---|
| `transfer_retry` | 1 transfer, 2 attempts, 2 faults, everything, fairness | `NeverBothGone` (Gate A of docs/TRANSFER_2PC.md), `CompletedImpliesGone`, that the protocol implements `Custody`, `AwaitingSettles`, `TransferEndsItsLock`: by its own delete or unlock, without help from the deadline or a player (everything but `"ttl"`, which adds only its history: a player's unlock releases any lock at any time) |
| `transfer_two` | 2 transfers, 1 attempt each, every disturbance, room for one stored export | `LockAttended`: without a failure no transfer lock is left for its TTL to find |
| `transfer_orderly` | 1 transfer, room for 2 attempts, 3 faults among lost sessions, lost export, restart; a deadline at any moment | `NeverBothLive` (Gate B): a copy is live beside an unlocked original only if the deadline of that lock ran out |
| `lock_alone` | 2 indices, 2 names, 2 jobs, 2 surfaces, no holds, no interference | `NotLiveIsOwned`, `CommittedNotLive`, `DeletedWasExact`, `CommittedIsIrreversible`, across index reuse |
| `lock_and_hold` | 1 index, 2 jobs, 2 holds, 2 surfaces, every interference | `HoldKeepsNotLive` |
| `exports` | a download, a managed and a local transfer, cache of 2, store of 2, 1 fault, fairness | `TransferAsAnswered`, `LockedExportCached`, `RequestSettles` |
| `uploads` | 2 uploads of one payload and a longer file, one session key, 1 fault, fairness | `HistoryIsOutcome`, `DeliveredIsQueued`, `OperationSettles` |
| `history` | 2 ids, 5 moments, 2 details, one row per ledger file, 2 generations, 1 fault | `IndexIsFold`, `RecordedSurvivesRestart`, `EveryVerdictShown`, `VerdictBeforeDetail`, `FileNeverRegresses`, `SuccessesSurvive` |
| `timeline` | 4 ms, 2 verdicts, floor and lag of 1 ms, two reports of phases | `TimeCountedOnce`, `AttributionIsTrue` |
| `live_view` | 1 instance, 1 transfer of 2 steps, 2 synchronisations, 1 fault, fairness | `LiveMeansSubscribed`, `SummariesNeverRegress`, `PageCatchesUp` |
| `gateway` | 2 instances, 2 multi gateways and a hub, 2 canvases, 2 clicks, 1 fault | `MultiModeOk`, `NewestWins`, `LinksTwoWay`, `ConfigNeverRegresses` |

The bounds are the least that let the cases meet. Two attempts: a retry, an armed
timeout of the first attempt and a coroutine of it that finishes during the
second. Two transfers: one that holds the lock when the other's rollback arrives;
a plain export and a player's lock come on top. Two faults: one that starts a
failure and one during its handling. In `exports` the one fault meets answers of the destination, verdicts and retries,
which cost none. Two surfaces on one index: the reuse of an index. TTL 1 and
retention 2: each deadline is met on time, early and late, and the tombstone's is
the later one, as in the code. Three exports for a cache and a store of two: one of each must
go. Two uploads that differ in their last chunk only and a third, longer delivery: sessions
left behind meet chunks of the same content, of another, and of another number. Four begins and persists for two ids:
an id used, persisted, used again and persisted, or both ids once, over a store of two details and ledger files
of one row, so that each write rotates. Four milliseconds are enough for every order of two verdicts, their
lags and the clean-up; the properties speak of a log at every length. Two steps of a transfer: a list after a restart tells the first,
and a log that was read before the second step arrives after its push (`MaxSteps`; the changes of instance and transfer share
the bound, and one log is read at a time, none after the last fault). One click of each of
two canvases, or two of one, with both saves under way at once. The
theorems of section 4 hold for every value of the bounds. `EveryVerdictShown`
was also checked for one id with seven moments, and with two faults, and
`LiveMeansSubscribed` depends on `Errors` and `MaxMounts`, as said below.

Some runs leave out an environment in which their property is false; what happens there is
said below: `transfer_orderly` timeouts and second transfers; `lock_alone` holds,
`/resume-platform` and an engine that refuses to delete; `exports` clocks that differ (`Behind`); `uploads` deliveries of one name at
the same time (`Overlap`) and a job that ends before its delivery is answered
(`Overtaking`); `live_view` a page that is mounted a third time after an error; `gateway` an instance whose configuration is now above and now below the size
of a single command (`Sizes`).

### What does not hold

`both_live_stale_unlock` ends in a counterexample of a sentence of docs/TRANSFER_2PC.md, quoted in
`PROJECT.json`: with no fault and no timeout, a rollback unlock names a platform, not a
transfer, and releases the next transfer's lock, whose copy goes live beside the original.

The rest was met while modelling. What an environment or a constant named above leaves out, the modules show
when it is put back; the rest is read off the lines concerned. None of those about transfers loses a platform: `NeverBothGone` is proved
under all of them at once, with `exact` ending where the lock ends.

Transfers:

- A retry of a transfer that was rolled back imports while the original runs; its delete is then
  refused and both are live. docs/ENGINEERING_FAQ.md:177-178 says "a plain retry works".
- The status stays `awaiting_validation` until the answer to a rollback's unlock is there, so that a
  verdict after the timeout may still drive a delete or a second rollback (status guard,
  `lib/transfer-orchestrator.ts:321`); docs/ENGINEERING_FAQ.md:174-176 says that it never does. The
  timeout's coroutine may then write `failed` over `completed`, and the retry guard admits a retry of
  what succeeded.
- After a send that failed for another reason than a lost session the record stays `transporting`
  (`:218`) and every retry is told that the transfer is active.
- The deadline of a lock frees the original whatever became of the copy. A transfer that takes longer, or whose record a
  restart forgot, ends with both live; docs/TRANSFER_2PC.md:64-67 names this corner, and `NeverBothLive` excepts it by
  name (`expired`), and nothing else.
- After a restart, a lost source session or a lost export it may be left to the deadline, or to a player, to end the lock.
  `TransferEndsItsLock` excepts these three (`Severing`).
- "only delete clears" a committed lock (docs/TRANSFER_2PC.md:93-94), but a delete that the engine refuses clears it
  too: `delete_platform_for_transfer` lifts the lock and marks the tombstone deleted before it deletes the platform, which then stands
  (`delete-platform-for-transfer.lua:18-41`). `CommittedIsIrreversible` is false with `"stuck"` in `Interference`;
  `lock_alone` and `CommitIsFinal` leave that out. Nothing in the controller commits a lock yet.
- Stage, lock, go live, unlock leave a platform hidden that nobody owns (`surface-lock.lua:392`).
- `/resume-platform` runs a platform under a transfer lock, and it is deleted with what ran since.
- A rollback may release a player's manual lock; a tombstone is pruned while its committed lock
  stands, and the delete then refuses; a transfer lock without a job id satisfies any
  transfer's delete; going live asks for no lock.

Exports:

- When the reply to the export command is lost, the controller reports a failed transfer, the mark is
  never set, and the instance starts the transfer when the export is there. When the reply to the import
  is lost between the destination's instance and its game, the transfer is reported as failed and its source unlocked, and
  the game imports all the same. `TransferAsAnswered` leaves out these and what an operator sends again (`orphans`).
- An error after the destination has accepted would be answered as a failure of a transfer that goes on
  (`lib/transfer-orchestrator.ts:207-209`); no statement there that can throw was found, and it is not modelled.
- The store evicts by the timestamps that instances give: with a clock that is behind, an export that
  has just arrived is the one that goes.
- The mark of an export that is aborted stays for ever. The remote call `clear_old_exports` of the
  README passes no protected ids, so that an operator can drop what a lock protects.

Uploads:

- Two deliveries of platforms of one name mix their chunks; the last reply may be `CHUNK_OK`, which
  counts as success, and the operation then waits for ever.
- A job that ends before the answer to its delivery is overwritten by that answer
  (`awaiting_completion` over `completed`), or by a failure if the answer is lost.
- An operation that a restart or a prune cuts off stays open in the history until its event comes.

History:

- A latched load error makes `persistTransactionLog` return before the ledger row, although its message
  says "Transfers are still recorded in the audit ledger" (`lib/transaction-logger.ts:322-330`).
- The start row of an id that is used again never shows in the folded index over the old terminal row.
- An operation that is persisted while it is being archived (`lib/transaction-logger.ts:301`, an await) is
  stored under the id again, and the next operation of the id replaces that: after a crash and a rotation its
  verdict is listed no more. `EveryVerdictShown` leaves such operations out (`excused`).
- After a crash between the archival row and the rewrite of the detail file, opening the new operation
  shows the earlier one's detail. An id that is used again after its detail was evicted replaces the
  earlier verdict.
- A crash in the middle of a rotation costs a generation; an append that was cut off spoils the row after it.
- `cleanup_failed` and `error` outcomes of some paths are never persisted.

Live view and timeline:

- A tree gets its number when it is finished, not when it was asked: an older tree may have the newer number.
- The component says "Retrying", but only a synchronisation of the retry loop is retried; one that a
  component began and that fails is not.
- A synchronisation that began before the page was left and opened again, and that is still fetching, may
  finish after the newest one failed: nothing asks which synchronisation it was, and the page says live
  although its subscription was removed when it was left. It takes three mounts (`MaxMounts` of 3) and an
  error (`Errors`); `LiveMeansSubscribed` is checked with one mount and errors, and
  proved for that and for any mounts without errors.
- The answer to a log that is opened replaces what newer pushes said of its transfer, and the next push or
  list puts that right. Without one the page keeps showing the older state. `SummariesNeverRegress` excepts
  that answer, `PageCatchesUp` the transfers in `missed`.
- When the tree or the list cannot be fetched the page says live all the same, with the list it had
  (`web/index.tsx:350-356`).
- A new session may put an entry back: after a restart of the controller the list has the start row of a transfer
  that was under way, older than what was pushed before. The properties speak of one session (`told`).
- A verdict for a record that a restart forgot has no window, and its import phases are drawn before the
  start. The bars of an export shift by the time `archiveRecycledTransferId` takes. Phases of the import are
  cut to the window of the first verdict.

Gateways:

- Two pushes, one in chunks and one in a single command: the older is committed after the newer is applied
  (`Sizes` of both kinds violates `ConfigNeverRegresses`).
- A set that arrives while the link to the host is down is answered as a plain success, and the instance
  does not pull when the link is back; a push between the answer to a pull and "running" is skipped.
- A failed write leaves the memory changed, unpushed, and answered as a failure.
- Two canvases overwrite each other and leave one-way links; the requests of one save are not atomic.
- A file that cannot be read counts as empty, and is overwritten by the next save; a canvas whose load failed
  shows an empty, editable graph; cluster-wide links of an older version are taken over without the rule
  of the Multi Cluster mode.

### Fairness

Fairness is weak and asked of what the code's scheduling gives. Transfers: an
import request that was not lost is answered; a coroutine whose awaited answer is
there resumes; an armed `setTimeout` fires; the source executes the there resumes; an armed `setTimeout` fires; the source executes the requests that
reach it; an export job ends, and the flow that waits for it asks for the transfer or gives up (`FlowProceeds`).
That `on_tick` scans the locks is not relied on: no transfer is shown to end by the deadline. Exports: the game works on its jobs, the
instance on replies and notices, the controller on messages, a destination accepts or refuses what reached it,
and a wait that can no longer end well times out. Uploads: the instance goes on sending and answers, the game runs a queued job,
the controller takes its messages. Live view: a link that is down is resumed or replaced, queues are
served, a log that was read is sent, instances answer, timers fire. Nothing is asked of administrators and users, of faults, of
messages that may be lost, of an import on the destination (it may hang), or of a
restarted controller's old flows.

Deadlock is not checked, for a transfer may be over, a registry empty, a canvas unedited for good.

## 4. What is proved

`TransferProtocolProofs`, for every set of transfers and every bound, from
`ConstantsAssumption` (bounds are natural numbers, names are distinct):

- `TypeCorrect`: `Spec => []TypeOK`;
- `OriginalOutlivedByCopy`: `Spec => []NeverBothGone`;
- `CompletedIsTrue`: `Spec => []CompletedImpliesGone`;
- `ImplementsCustody`: `Spec => CustodySpec`;
- `LockIsAttended`: `Spec => []LockAttended`;
- `NeverBothLiveInOrder`: `Spec => []NeverBothLive`, if `Environment \subseteq Interruptions` and there is one
  transfer (`OneTransfer`). The deadline of the lock is one of the `Interruptions` and comes at any moment. The run
  `both_live_stale_unlock` shows that a second transfer breaks it.

The first four rest on one inductive invariant, `CustodyInv`. `NeverBothGone` is not
inductive: when the source executes a delete it looks at its lock only, and that a
copy is live is a matter of what was sent long before. The invariant follows that
knowledge along its way:

1. a transfer that holds the lock has an exact export (`LockVouches`), and without a lock no export
   is exact (`UnlockedInexact`);
2. an attempt that was not sent has no import (`UnsentIdle`), so a copy, once live, is not
   made undone by a new attempt;
3. a SUCCESS verdict is sent of live copies only (`VerdictsTrue`);
4. a delete is requested by the handler of a SUCCESS only, and for a live copy (`RequestsTrue`), also when
   the timeout, another attempt or a restart came in between;
5. a handler that has the answer to its delete speaks of an original that is gone (`AnswersTrue`), which
   carries `CompletedImpliesGone`.

Preservation is proved action by action; the refinement adds, for each action, the
step of `Custody` it is (`Freeze`, `Snapshot`, `Thaw`, `Validate`, `Delete`) or that
it stutters.

`LockAttended` speaks of behaviours without a failure up to now, and its invariant `AttendedInv` does too: every
disturbance that could leave a lock behind counts as a fault. A lock is attended while its export runs, while
its flow will start the transfer, while the record of the transfer will settle, or while an unlock is on its
way (`Attended`). What carries this through the end of a transfer is that a handler past its request has
released or spent the lock (`Answered`), and that only a transfer that has an export is ever started
(`StoredExported`, `TriedRecorded`).

`NeverBothLive` is proved by `OrderlyInv`: with interruptions alone, the answer a handler gets
is the answer to its own request (`AnswersFaithful`); an unlock is sent, and takes effect, only after the attempt has
no copy and will have none (`UnlocksLate`, `UnlockedLate`, where `Over` says what is left of an attempt); and an
attempt is sent once, by the flow of its export (`StartedOnce`, `Sending`), because an interrupted session leaves the record
for the timer (`Armed`). A lock that is gone before the attempt is over was ended by its deadline (`UnlockedLate`), which the
history `expired` remembers. Nobody asks for a second attempt in this environment, although the bound admits it.

`SurfaceLockProofs`, from `SurfaceLockAssumption` and `NoneAssumption`:

- `TypeCorrect`: `Spec => []TypeOK`;
- `HoldOwnsNotLive`: `Spec => []HoldKeepsNotLive`, by `HoldInv`: no surface is
  newer than the counter (`SurfacesUsed`), and two holds never own the same platform
  (`HoldsDistinct`). Without the second, one hold's going live would reveal the other's platform;
- `CommitIsFinal`: `Spec => CommittedIsIrreversible`, if the engine never refuses to delete
  (`"stuck" \notin Interference`): a committed lock ends only by the delete for the job of the commit, which
  leaves a marked tombstone and no platform.

The same module, for an instance without holds and interference
(`HoldIds = {}`, `Interference = {}`, the environment of `lock_alone`):

- `NoneStranded`: `Spec => []NotLiveIsOwned`;
- `CommittedStaysDown`: `Spec => []CommittedNotLive`;
- `DeletesWhatWasExported`: `Spec => DeletedWasExact`.

One invariant, `AloneInv`, says of each index what its platform, its lock and its exports are
to each other: a lock of the surface that is there was taken of a live platform and keeps it hidden and
frozen since its job exported it; a lock of an earlier surface leaves the platform alone; and
surfaces are numbered upwards, so that the second never becomes the first.

`GatewayConfigProofs`, from `GatewayConfigAssumption` (which also keeps canvases apart from the words `"load"`,
`"pull"` and `"nobody"`, that stand for other requesters) and `GatewayGraphAssumption`:

- `MultiModeAlways`: `Spec => []MultiModeOk`, if the links of an older version that the controller found
  are of hubs (`Found \subseteq HubNames \X Keys`). `loadGatewayConfig` takes such links over
  without the rule, so the premise is necessary. The invariant `RuleInv` keeps the rule of the map, of the
  file and of every snapshot on its way to the file, because a restart makes any of them the map;
- `NewestWinsAlways`: `Spec => []NewestWins`, and `NeverRegresses`: `Spec => ConfigNeverRegresses`, both if the
  configuration of an instance is always sent in one command or always in chunks (`OneSize`); without that they
  are false, as said above. `DeliveryInv` numbers what is on its way to a game: deliveries that wait stand in
  the inbox in the order of their numbers (`InOrder`), each is ahead of what the game has staged, which is
  ahead of what it applied (`Ahead`), and the last number carries what the controller would send now, is under
  way, or was applied (`Latest`).

`TransactionHistoryProofs`, from `HistoryAssumption`:

- `IndexAgrees`: `Spec => []IndexIsFold`. A row that is appended changes the fold as
  `recordAuditRow` changes the index; a load takes the fold of what the files have in order. `IndexInv` adds
  that files and queues hold rows. Facts about the last row of a name are proved with the least
  counterexample, from `WFMin` and `NatLessThanWellFounded`, since an induction theorem
  over an operator cannot be used;
- `TypesAlways`: `Spec => []TypeOK`. What `Retained` and `Migrated` pick by counting is there because in a finite
  set that is ordered each number is the rank of some element (`NthOf`);
- `FileGoesForward`: `Spec => FileNeverRegresses`;
- `RowBeforeDetail`: `Spec => VerdictBeforeDetail`;
- `LedgerReadBack`: `Spec => []RecordedSurvivesRestart`. Rows go only when a rotation pushes a file that is not empty
  off the end of the ledger. `LedgerInv`: each place of the ledger before the last is then a full file, but one for
  each crash that cut a rotation short (`Dense`, `Filled`), and the files read in order are the last rows recorded (`Holds`);
- `SuccessesKept`: `Spec => SuccessesSurvive`. What `Retained` picks of a store that is sound holds no fewer successes
  than their floor (`RetainedKeeps`), and counts are compared by injections. That every snapshot fits the window
  (`Fits`) is the invariant. An entry is replaced only by another under its id, for which the property makes an
  exception.

`FileGoesForward` and `RowBeforeDetail` follow the snapshots of the details along one line: the file, the queue to it, what waits for
a row of the ledger, and the store. `FileInv`: no snapshot has an older state of an entry than one before it
(`Line`), and in none do two entries share an id or the moment they were saved (`AllSound`). The renaming of an entry
reaches all snapshots but the file itself, and yet keeps both, since an archival id names the moment its entry was
saved. A file that could not be read has nothing on its way to it (`Latched`). `VerdictInv` adds that a
state which a snapshot has and one before it lacks has its row in the ledger, or in the queue no later
than the snapshot, or lost it (`Told`).

`VerdictsShownProofs`, on top of these:

- `VerdictsShown`: `Spec => []EveryVerdictShown`.

What the list shows is made of the record, the store, the index and the events, and a crash puts older copies in the
place of three of them. The proof therefore looks at the history as a *view* (`View`): the rows of the ledger
followed by those that wait for it, in one sequence, of which the first `c` are known; a *shelf* of all
snapshots of the details (file, queue to it, waiting behind a row, store), each with the number of rows asked for before it;
the operations with a record and those that wait to have one; and the ids that have events. All that the
controller, its disk and a crash do is then one of nine steps, or two of them: an operation registers, starts,
renames the detail before it, persists; a row cannot be written (`Drops`); the controller crashes, forgets the details
it could not read, migrates a file without a ledger; or nothing but the shelf, the records and what is known move on (`Rests`).
Each step is proved to preserve `Good` (`RestsGood` to `MigratesGood`), and each action to be such steps. `Good`
says that

1. an operation with a verdict has a detail in the store (`Stored`);
2. a verdict under the id itself is of a detail that has the id, or one that was archived, by a row after it or in every
   snapshot that has it (`Held`), and of two verdicts under one id, the later one of an operation that began later, the
   earlier was archived before the later was written (`Split`);
3. the verdicts under an id are of operations that began one after the other (`Ascends`), the one with the record or in waiting began
   no earlier than those (`Newest`) and has its own detail or none (`OwnDetail`); one that waits for a row has neither row nor
   record nor detail (`Unborn`), and after the verdict of the one with the record there is none of a later
   one (`Stand`). Operations that were lost, and start rows, are left out here, because of two that begin at once the one that
   began first may open last and replace the record of the other;
4. a detail under an id that follows an earlier row of it has a verdict after that row, on
   record before the snapshot (`ToldOnShelf`, `ToldInStore`);
5. a moment is that of one operation of one id (`Marked`).

Each operation waits for one row (`OpensOnce`, part of `InHand`). In 1 to 4 the operations that the property excuses are left out. `Stored`, `Held` and `Split` show that a verdict is
listed, under its id or its archival one; the others, with `IndexIsFold`, that a line opens its own operation. TLC agrees with
all of `Good` but `Marked`, which chooses two functions, on the instance of `history`.

`ExportsProofs`, from `ExportsAssumption`, for any jobs, cache, store, clocks and disturbances:

- `TypesAlways`: `Spec => []TypeOK`, with an injective store and a cache numbered apart;
- `TransfersAsAnswered`: `Spec => []TransferAsAnswered`;
- `LockedExportsCached`: `Spec => []LockedExportCached`.

`ExportsInv` follows the mark. An export that was completed is fetched once (`FetchedOnce`, `OneFetched`). A managed
export whose answer and mark were not lost is marked, or the reply that will mark it stands before the one that brings
the export (`Marked`), because RCON answers in order; so its instance never asks for its transfer. What awaits the answer of
a destination was then sent by its own handler, which waits for that answer, and what a destination took was answered with a
success, or broken off with an answer that says neither (`Answered`): whatever the destination answers, however
often the controller restarts, and although a failed record may be tried again. That the newest export is in the cache holds
by its number, and a lock keeps it there (`LockedExportCached` is part of the invariant).

`UploadsProofs`, from `UploadsAssumption`:

- `TypesAlways`: `Spec => []TypeOK`, which bounds the next chunk of a delivery by its chunks;
- `DeliveriesQueued`: `Spec => DeliveredIsQueued`, if deliveries under one key do not overlap (`OneByOne`);
- `HistoryTrue`: `Spec => []HistoryIsOutcome`, if in addition a job does not end before its delivery was answered
  (`AnswerFirst`). The section above says what happens without each.

`SessionInv`: no session, nor one in the save, has the last chunk of a delivery, for a whole
session is closed (`Tailless`); and a delivery under way finds what it sent (`Progressing`). So a session that an
earlier delivery left behind is completed by the later one's own last chunk only when its content is
the later one's throughout. `OutcomeInv`: what is queued was sent and is built once (`Queued`), what
awaits an answer or an event is open (`Open`), the ledger row repeats the record (`Ledger`), and the last word on an
operation, in its record or in the last event on its way, is what the game has (`Verdicts`).

`LiveViewProofs`, from `LiveViewAssumption`, for any instances, transfers, synchronisations, mounts and faults, with
and without errors:

- `TypesAlways`: `Spec => []TypeOK`;
- `SummariesGrow`: `Spec => SummariesNeverRegress`;
- `LiveIsSubscribed`: `Spec => []LiveMeansSubscribed`, if no handler of a subscription throws, or the page is
  mounted no more than once (`~Errors \/ MaxMounts <= 2`). Without that it is false, as said in section 3.

Three invariants, each used by the next. `Typed` is `TypeOK` with the kinds of what is queued. `OneAnswer`: what a
synchronisation awaits is in one place, as a request, a tree under construction, an answer that is ready or a
message on its way, there once, and fits its step; nothing is awaited once the session is lost. Without it a
late answer could be taken for that of a newer request. `NeverAhead` is about what the page was told of
in its session (`Shown`): it shows no version that is not true yet; the pushes on their way are no older than what it
shows, in order (`Ahead`), and no older than the lists sent before them (`ListsBefore`); a log on its way says nothing that
is not true yet, and nothing newer than the pushes behind it (`Notes`); and a list under way is no older than what is shown of each
transfer, except of those that were pushed or opened since it was asked for, which the page keeps (`touched`, all of them told:
`Noticed`). It holds within a session: while the link is lost nothing is on its way but what the next
session forgets (`Session`).

`LiveIsSubscribed` needs three more. `RequestsInv`: a request asks for what its synchronisation was started for, and
for logs as long as the page has not learnt that it may not see them; a refusal is on its way only to a user without
the permission. `CarefulInv`, if no handler throws: while the page is mounted, the last word on its
subscription is a request that subscribes, or a refusal on its way that will make the page ask again, or it
is said, and nothing on its way takes it back. `OnceInv`, for one mount with errors: requests that unsubscribe stand before
those that subscribe (`Ordered`), and once a subscription was accepted, by an answer on its way, a
synchronisation that fetches, or a page that shows it (`Secured`), it stays.

Only model-checked:

- liveness (`AwaitingSettles`, `TransferEndsItsLock`, `RequestSettles`, `OperationSettles`,
  `PageCatchesUp`), for the prover does not reach fairness;
- `TimeCountedOnce` and `AttributionIsTrue` of the timeline: what `MergeIntervals` returns is a fold over a sorted
  sequence, and a fact about every fold needs induction over data.

## 5. Not modelled, and the plan

Scanners, restorers, validators and deserialiser translate engine objects; the engine decides
what is right and is not part of the repository. Not modelled for want of weight are
`AsyncProcessor` with the phases of an import (one tick, one job at a time; a job either ends
with a verdict or hangs, which is what the other modules assume of it), the re-arming of latches,
pending intents and commit markers (written, pruned and shown, but read by no decision), and
rendering. The staged delivery of `import-session.lua` (begin, enqueue, finalise) is called by
nothing in the repository: `importPlatformChunked` uses `import_platform_chunk`.
`PROJECT.json` names every component and says why it is left out.

What could be added, in order of weight:

1. `AsyncProcessor` and `ImportJob`: the tick, the concurrency limit, the ways an import may fail.
2. `SourceInstance`, composing `Exports` with `SurfaceLock`: job ids of a save that is
   rolled back are given again, and stand for another platform's export and lock.
3. `Census`: the comparison of counts as operators against a reference.
4. `LatchRearm`.

## 6. Running

```
tlc -config transfer_retry.cfg MCTransferProtocol.tla
tlapm TransferProtocolProofs.tla
```

A run takes between seconds and two minutes, a module of proofs up to seven minutes. An operator whose comment begins with
*Mutant* is a plausible mistake in the definition after it, used to see that a
property notices; no specification uses one.
