# Reflex Next: formal models

Reflex Next is a local-first desktop application that rewrites and optimizes
text with language models.  A Rust/Tauri host starts a Python *sidecar* (the
runtime), talks newline-delimited JSON to it, and the runtime drives the core
use case, the model providers and the capability plugins; an HTTP host and a
cloud service stand beside the desktop.  This directory holds TLA+ models of the
parts of that system where several threads, processes or crashes meet, the TLC
configurations that check them on small instances, and TLAPS proofs of what
matters most, for every value of the constants.

Run everything from this directory:

    tlc -workers 2 -config TaskScheduler_life.cfg MCTaskScheduler.tla
    tlapm TaskScheduler_proofs.tla

Contents: 1 the system, 2 the modules, 3 how they correspond to the code, 4 the
runs, 5 fairness, 6 what the models found, 7 the proofs, 8 what is only
model-checked or not modelled, 9 what would come next.

## 1. The system

### 1.1 Components

| component | source | state | operations | hard behaviour |
|---|---|---|---|---|
| Task scheduler | `packages/reflex-runtime/.../task_registry.py`, `context.py` | registry of request ids, FIFO queue, active table, worker threads, closed flag | submit, cancel, cancel_all, close, worker loop, synchronous commands | threads interleave between lock releases; id reuse; lost wake-ups; capacity |
| Optimize request | `packages/reflex-core/.../usecases/optimize.py`, `cancellation.py`, `provider_events.py`, `context.py` | event stream, deadline (open / expired / closed), token | generator steps, deadline timer, user cancel, provider stream, history save | deadline against completion; cancel against completion; exactly one terminal |
| Plugin call | `plugin_limits.py`, `context.py` | budget, message queue, slots, plugin thread | budget timer, producer, consumer loop, close | timeout against result; completion flag against queue; stubborn plugins keep slots |
| Capability registry, plugin manager | `capability_registry.py`, `plugin_manager.py`, `context.py` | instances and their cache, enabled plugins, history keys and policy, maintenance gate | discover, enable, configure, invoke, begin and end a generation | settings change under a running generation; a second instance beside the first |
| History key rotation | `commands.rs`, `history_key_store.rs`, `plugins/history-sqlite/...` | key versions in the credential store, rotation checkpoint, freeze, database file, file moved aside, replace marker, backups, recovery marker | resume, prepare, promote, finalize, rollback; repair, restore; save, delete, read | a protocol over three processes' worth of state with a crash possible between any two steps |
| History records | `plugins/history-sqlite/.../repository.py`, `export.py` | rows, retention metadata, backups, recovery marker, cursor of a client | save with retention, rate, delete, clear, repair, restore; list, search, export | a walk over a table that changes; limits that overlap; old databases |
| Providers | `plugins/provider-*` | attempt, parser, token; bytes not decided yet | stream_events, list_models | protocol validation, retries, cancellation of a blocked read, cuts inside a character or a marker |
| Semantic detector | `plugins/semantic-detector` | lifecycle lock and generation, snapshot on disk, cached model and vectors | detect, download, delete, status | two single flights beside a model that is replaced |
| Rust sidecar host | `apps/tauri-host/src-tauri/src/sidecar.rs` | child processes, table of active requests per child, ids seen, lifecycles, timers | send, configure, route event, time out, cancel, restart, warm up, shut down | events of an old process; children that hang; slow consumers |
| HTTP host | `packages/reflex-http-host/.../gateway.py`, `app.py` | session, subscriptions, tombstones, queue and buffers | subscribe, send, dispatch, disconnect, close | full queues; ids retired until their terminal event |
| Cloud service | `services/reflex-cloud` | claims, quota, ledger and reservations; feedback, screenshots, samples, releases | optimize, cancel, retention, submit, delete, publish, roll back | clean-up after half a call; crossing transactions of several processes |
| Front end | `apps/tauri-host/src` | view state | flows per screen | late events |
| Translator, batch runner, Markdown preview; templates, tools, workbench | `plugins`, `template-packs`, `tools`, `workbench` | files or none | translate, load, verify | none |

`PROJECT.json` lists all of them with their status and, under *hazards*, the
lines where testing is hard, each with the properties that cover it.

### 1.2 How they interact

    front end --invoke--> Rust host --JSON lines--> command loop (cli.py)
                             |                          |
                 credential store (keys)        RuntimeContext (context.py)
                                                 |         |           |
    HTTP clients -> HTTP host --JSON lines-->    TaskScheduler  OptimizeUseCase  PluginExecutor
                                                  (workers)     (+ watchdog)     (isolated threads)
                                                                  |                  |
                                                              providers    CapabilityRegistry
                                                                           -> history-sqlite,
    cloud clients -> cloud service -> PostgreSQL, providers                   semantic detector

* Either host owns the runtime as a child process and sees it through its pipes:
  one reader thread per child, a queue or a table from request id to listener.
* One thread of the runtime reads commands.  `optimize` and `plugin_call` become
  *tasks* of the bounded scheduler; `cancel`, `shutdown`, configuration and
  queries are answered on the reading thread while they own their request id.
* A worker that runs an optimize task consumes the generator of the use case and
  writes each event; a watchdog thread may expire the request at any point; a
  cancel sets the shared token.  The provider's stream runs in that worker, too.
* A worker that runs a plugin call starts one more, isolated, thread for the
  plugin and reads a bounded queue that the thread fills; a timer thread may set
  the token.
* Every call of a capability, and every generation that will be saved, passes the
  gate of the capability registry under its lock and works outside of it, with the
  settings it took along.
* The history plugin is called by other requests (list, save, delete) and by the
  host's administration calls.  Its coordinator lets writers and readers in or
  keeps them out; the state that decides whether a rotation is under way is
  spread over the credential store, a row of the database, marker files and a
  flag in memory.
* The cloud service shares nothing with the desktop but the providers' code; its
  processes meet in the database.

### 1.3 What makes each part correct

* **Scheduler.**  A request id has one owner from acceptance to end; an accepted
  task is run once or reported cancelled once; a cancel reaches the task it was
  meant for; close leaves nothing behind; no wake-up is lost.
* **Optimize request.**  The client sees one well-formed stream with one
  terminal event; a result never comes after the deadline and an expired
  deadline is always reported as such; a result that the client already has is
  stored unless the user objects.
* **Plugin call.**  Slots are given back exactly once; a plugin that ignores
  everything keeps neither its caller nor the buffer; a cancel stops events; a
  cancel is not reported as a failure of the plugin.
* **Capability registry and plugin manager.**  A record follows the policy of the
  moment its generation began; nothing writes beside a repair; there is one
  instance of a plugin, for its locks are in it.
* **Key rotation.**  No record is lost, brought back or left under a key that
  the host no longer sends; a key is promoted only when it covers every record;
  nobody reads or writes a file while it is replaced; the user's call ends; and
  whatever fails, there is a way out.
* **History records.**  The count from which retention works is true; retention
  takes the oldest and never the record just saved; a walk gives out what was
  there all along, once; a restore can be undone; a repair reopens the history.
* **Providers.**  One start, one end, no completion of a stream that was cut off,
  no text twice; a cancelled call ends; cuts of the network do not matter.
* **Semantic detector.**  Query and scenes are encoded by one model, the one that
  is installed; a detection never waits for a download.
* **Sidecar host.**  A request waits exactly while events can reach it; a request
  reaches only the child that acknowledged its configuration; in the end nobody
  waits for a child that is gone, hangs or is not trusted.
* **HTTP host.**  An event reaches the subscriber of its own request or nobody; a
  stream that is told of its end can still read it.
* **Cloud service.**  A call that goes on is found under its id, and the gates
  count its id; each estimate is settled or given back exactly once; one release is
  published, so that a rollback has one to put back; no row of a deleted
  installation and no file of a refused submission stays behind.

## 2. The modules

| module | what it is | extends / instantiates |
|---|---|---|
| `TaskLifecycle` | what the runtime promises about one command (abstract) | |
| `TaskScheduler` | registry, queue, workers and the calls into them | instantiates `TaskLifecycle` |
| `MCTaskScheduler` | instance: which submission carries which id | `TaskScheduler` |
| `TaskScheduler_proofs` | invariant, refinement, reach of cancel and of close | `TaskScheduler`, TLAPS |
| `EventStream` | what a client may see of one optimize request (abstract) | |
| `OptimizeRequest` | generator, watchdog, token, provider, store | instantiates `EventStream` |
| `MCOptimizeRequest` | instance | `OptimizeRequest` |
| `OptimizeRequest_proofs` | invariant, refinement | `OptimizeRequest`, TLAPS |
| `PluginCall` | budget, execution, executor and both loops | |
| `MCPluginCall` | instances: one call in depth, two calls over one slot | `PluginCall` |
| `PluginCall_proofs` | slots, events after a cancel, closing | `PluginCall`, TLAPS |
| `Capabilities` | plugin manager, capability registry, settings of a generation | |
| `SemanticModel` | detection and the management of its model | |
| `ProviderStreams` | one call of a model provider, five adapters | |
| `PluginSystem` | the three above, side by side | `Capabilities`; instantiates `SemanticModel`, `ProviderStreams` |
| `StreamText` | from bytes to events, and the filter of thoughts | |
| `MCPlugins` | instance: the gate, the detector, a provider's call, or its text | `PluginSystem`; instantiates `StreamText` |
| `PluginSystem_proofs` | the gate; the detector; the providers' streams | `PluginSystem`, TLAPS |
| `HistoryStore` | what the user expects of the history (abstract) | |
| `HistoryRotation` | host, key store, plugin, coordinator, repository, other requests, crashes | instantiates `HistoryStore` |
| `MCHistoryRotation` | instances | `HistoryRotation` |
| `HistoryRotation_proofs` | invariant, safety, refinement | `HistoryRotation`, TLAPS |
| `HistoryQuery` | order, cursor, pages, what can be decrypted (operators) | |
| `HistoryRecords` | the calls that change the records, and a client that walks through them | `HistoryQuery` |
| `MCHistoryRecords` | instance | `HistoryRecords` |
| `HistoryRecords_proofs` | retention, restore, walks | `HistoryRecords`, TLAPS |
| `SidecarHost` | the desktop host and its runtime processes | |
| `HttpGateway` | the HTTP host | |
| `Hosts` | the two above, side by side | `SidecarHost`; instantiates `HttpGateway` |
| `MCHosts` | instance | `Hosts` |
| `Hosts_proofs` | routes and configurations; streams of the HTTP host | `Hosts`, TLAPS |
| `CloudOptimize` | optimize calls of the cloud: claims, quota, budget | |
| `CloudFeedback` | feedback, samples, deletion, releases | |
| `Cloud` | the two above, side by side | `CloudOptimize`; instantiates `CloudFeedback` |
| `MCCloud` | instance | `Cloud` |
| `Cloud_proofs` | gates and books; releases and left-overs | `Cloud`, TLAPS |

The modules of the runtime compose at their interfaces rather than in one state
space.  `TaskScheduler`'s `Run ... FinishRun` is the whole of an
`OptimizeRequest` or of a `PluginCall`; that such a run always ends, which the
scheduler's liveness assumes, is `RequestEnds` of the one and `CallerIsReleased`
of the other.  The token that `cancelled` stands for in the scheduler is `token`
in the two others, and `UserCancels` may happen at any step because the
scheduler's cancel, sweep and close may.  `OptimizeRequest` takes any stream of
provider events and asks of a provider that a cancelled call comes back: the
streams of `ProviderStreams` are among them, and `CancelledCallEnds` is what is
asked.  The hosts see the runtime as `TaskLifecycle` and `EventStream` describe
it: each request ends once.  `HistoryRotation` composes four components in one
module: their protocol is the point.  It models the coordinator and the steps of
a file's replacement, and of the records only their keys; `HistoryRecords` models
what each call does to the rows, and takes from it that repair and restore keep
writers out.

`Cloud`, `Hosts` and `PluginSystem` put modules side by side that share no variable;
`MCCloud`, `MCHosts` and `MCPlugins` each run several modules in one run.
A behaviour is one of one of them and what else there is rests in an initial state, so
that the states of both are added and not multiplied, and nothing is
said about a composition.  The theorems are about each module's own specification.

## 3. Modules and code

`PROJECT.json`'s *map* names the lines of every definition.  This section says
how to read them.

### 3.1 `TaskScheduler`

`registry`, `queue`, `active`, `started`, `closed` are the fields of
`TaskRegistry` and `BoundedTaskScheduler`.  A block the code runs under one lock
is one action, so `submit` is three: `Submit` (start the workers), `Register` or
`RegisterDuplicate` (the registry's lock), `Enqueue` or `EnqueueRefused` (the
condition's lock).  `cpc` says where each calling thread is, `wpc`
where each worker is; `chits` and `cqueue` are the tokens and tasks a call read
under a lock and handles after it (lines 149-200 cancel outside the lock).  A
worker goes `lock -> took -> run -> cleanup -> pop`, and `cleanup` (frees the id)
and `pop` (drops the active entry) are two steps because the code takes two
locks.  `Condition.notify` wakes one waiting worker of the model's choice.

A task stands for one submission: its token, its `run` and its `on_cancel`.  The
code compares tokens by identity, the model compares tasks.  `stage`, `runs`,
`notes` and `target` are history variables: no guard reads `runs`, `notes` or
`target`, and `stage` only keeps a submission from being made twice.

`RuntimeContext.close` is `CancelAll` with `after = "allThenClose"`, then
`CancelRegistered`, then `Close`; the `shutdown` command is `Serve`, `CancelAll`
and `Served`.  Left out: the registry's own limit `max_tasks`, which its callers
never hit, and the bounded join of `close`, which promises nothing.

### 3.2 `OptimizeRequest`

`pc` is the place of the worker in the generator; every read of the token
(`Check`), of the clock (`CheckClock`) and of the deadline's lock (`Settle`,
`Expire`) is a step of its own, because the watchdog (`WatchdogFires`,
`WatchdogCancels`) and the canceller (`UserCancels`) run between them.  `time` has
three values: before the deadline, the timer may fire, the worker's clock agrees:
the two clocks are read independently.  The provider may send any of the nine
kinds of event at any point, stop, raise, or stay silent.  `Settle(e)` is
`try_complete`: it writes `e`, or the timeout if the deadline has expired.
`last` is the event the client saw last, `stored` the fate of the record.

Abstractions: the text of events; the byte limit, which fails as the chunk limit
does; saving the record is one step.  `UsageMayClash` says whether a provider's
usage record may repeat a key of its metadata (section 6).

### 3.3 `PluginCall`

`caller` is the runtime worker in `_run_plugin_call`, `plugin` the isolated thread
in `_execute_plugin_call` and `BoundedPluginExecutor._run`.  They share `token`,
`late` (the monotonic clock has passed the deadline), `timer`, the bounded
`queue` and `completed`.  `slots`, `threads` and `closed` belong to the executor
and are shared by all calls.  Each of the ways out of `submit` is an action
(`AcquireBusy`, `CreateFails`, `AddBusy`, `StartFails`, `Start`).  What the
plugin's own code decides (`Invoke`, `Yield`, `Exhausted`, `Raises`) is separate from
what the runtime does for it, because only the latter is fair.

Abstractions: the byte budget ends a call as the event budget does; a write to
standard output does not fail; the bounded join of `close` is left out.

### 3.4 `Capabilities`

`found`, `wanted` and `cached` are the plugin manager's, `plugins`, `enabled`,
`known`, `unavailable`, `keys`, `policy`, `maintenance` and `readsBlocked` the
registry's; a plugin is the number of its instance, so that `OneInstance` can
tell a second one from the first.  A configuration command is one action, for the
command loop handles one at a time.  `job` says what each worker does: a
generation (`StartOptimize ... OptimizeEnds`) with the policy it froze, a save
with the instance and settings it took at the gate, a call (`Invoke ...
Returns`).  Between the gate and the end any number of configurations may come.

Abstractions: what a plugin does; keys are there or not; refused keys and
policies never arrive, because `protocol.py` refuses them by the same rules.

### 3.5 `SemanticModel`

`lock` and `generation` are `ModelLifecycle`'s, `disk` is the snapshot in the cache
directory, `cache` the model, the vectors, the generation they are filed under and
the two `loading` flags of `plugin.py`.  A stretch of `detect` under the condition is
one action, a load and an encoding are steps between.  Nobody waits for the
lifecycle lock: who finds it taken gives up (`EntersLifecycle`, `Enters`).  A
version of the model is a snapshot (`Snapshots`).  A download may leave any of them, or
none, whether it succeeds or not, but only a success advances the generation, and a
deletion that fails may leave the snapshot or not (`DownloadStops`,
`DownloadCompletes`, `DeleteFails`).  `installed` remembers the snapshots that were on
the disk since the generation began; `ResultIsCurrent` compares the snapshots that
encoded query and scenes with each other and with these.  `library` says whether the
embedding library can be imported.

### 3.6 `ProviderStreams` and `StreamText`

`call` picks one of five adapters, which have their own parser, status table, JSON
reader, end of body and manner to open and to cancel a call (`GeminiCall` ...
`MiniMaxCall`).  `phase` and `attempt` are the loop of attempts; `pending` and
`after` hold what was parsed and not yet yielded, since the consumer may cancel
between two events.  The server sends any event of the protocol's alphabet in any
order, a JSON body, a status, or ends or fails; `whole` is what it knows of its
own answer.  `out` is what was yielded, each with its attempt.

`StreamText` is the layer below: `Feed` appends a chunk to what the reader holds,
cuts lines off and hands lines on; `End` ends the body.  A line end may be LF, CR
or both; a character has one byte or two; a marker of MiniMax's thoughts several
characters.  `CutsDoNotMatter` compares with the same body read at once (`Read` of
the whole), and for the filter with a definition that scans the whole text
(`Visible`).

Abstractions: texts, usage records and backoff times; the limit of bytes is part
of `StreamText`, the limits of single fields are malformed events.

### 3.7 `HistoryRotation`

`host` is the place of `rotate_history_keys` (or of another administration call)
in `commands.rs`; `active`, `pending`, `used` are the key store; `configured` is
the active version the runtime was last sent.  `call` is the one maintenance call
the plugin executes: its operation, its step, the keys it was sent with, whether
it was cancelled, whether the host still listens, whether it goes well so far.
`frozen` and `readsBlocked` are the coordinator.  A file is the key version of
each record (0: absent) and the row `rotation_checkpoint`; `main` is the database,
`aside` the file `_replace_database` moved away, `marker` the replace-state file,
`backup` the latest backup, `recovery` the recovery-required file.  `Live` is the
file that counts: the one `recover_interrupted_replace` would choose.

Every `os.replace`, every transaction and every write of a marker is a step, and
every step that may raise has a failing twin.  `Crash` stops the runtime, or the
application, between any two steps and forgets what is only in memory; the files
and the key store survive.  The other requests (`client`) pass the registry's
gate, then the coordinator's, then work: between gate and work a whole rotation
may pass, with `snapshot` getting old.

Abstractions: a record's content is its key version; one latest backup stands for
the directory of backups, and the backup that `restore` takes of the present file
is not represented; retention, pruning, rate and clear are `HistoryRecords`; a step of the
credential store, and a credential call, is atomic; the history enters recovery
only through the failures of maintenance, never by spontaneous damage of the file;
key configurations pushed by the settings screen are not modelled.  `GiveUp`
stands for the user's cancel (prepare, repair, restore) and for the plugin's
deadline (any operation).

### 3.8 `HistoryQuery` and `HistoryRecords`

`file` is the database: its rows, the rows of `schema_meta` that retention keeps
(a count, a number of saves, a pending mark, the layout version) and what repair
set apart.  `HistoryQuery` holds the functions of a table: which rows lie behind a
cursor for each sort and direction (with SQLite's NULL behind every rating), how
rows are selected, matched and cut into pages.  `ORDER BY ... LIMIT n` is stated by
ranks: a selected row stands at the place that the number of rows before it gives
(`Selectable`, `SelectRows`), and `Oldest` are the rows that few others are older
than; no table is sorted, so that the proofs can reason about it.  Every call of the plugin is an
action and one transaction: `Save` with the whole of `_apply_retention`, `Rate`,
`Delete`, `Clear`, `Repair`, `Restore` with its backup and its pruning.  `reader`
is a client between two calls: `NextPage` follows its cursor, `SearchBatch` and
`ExportBatch` are the batches of one long call, each with a connection of its own.
It also remembers which records stood where they stand since the walk began
(`Standing`, `Watch`): `EachOnce` is about those.

`Damage` makes a row undecryptable, `NextDay` lets records and backups age,
`OldFile` is a database that an older release left, without retention rows.

Abstractions: a text contains the keyword or not; the size of a file is a number of
pages per record; the journal files of SQLite; the coordinator, which is in
`HistoryRotation`.

### 3.9 `SidecarHost`

`op` is the one operation under the controller's lifecycle lock: it sends its
commands one after another (`Examine -> Replace, Start, Claim -> Write -> Check ->
Ack`), the later ones to the generation that acknowledged the configuration.
`lock` is the mutex of `running`, which a private cancel takes, too.  A child is a
number; `child` holds its process (running, hung, exited), the flags `unhealthy`
and `stopping`, its table, and its reader thread with the event in hand.  `life` is
a request's lifecycle and what ended it, `timer` and `canceller` are the threads
beside it.  The reader takes a line (`Take`), dispatches it, or condemns its child
and drains the table (`Eof`, `BadLine`, `Condemns`, `Drain`); the timer fires,
fails the others and kills the child; whoever holds a private stream may drop it.

Abstractions: where the code ends a request and takes it out of the table in two
steps, the model takes one; parsing of lines, launching and stderr are left out; a
table's capacity and the number of ids seen are constants; two commands never
carry one id (the code refuses the second as a duplicate).  `Shutdown` is one step:
the code first fails every request that waits and then writes the shutdown command
under the lock (`sidecar.rs:1141-1203`), a write that a hanging child may block; it is
the last thing the application does.

### 3.10 `HttpGateway`

A handler is `Send` (subscription and write under one lock), `Open`, `Read`,
`SendCancel`, `Timeout`, `ClientGone`, `CancelOnLeave` and `Unsubscribe`, which
retires the id of a request whose end has not been read.  The child is seen
through its pipes (`TakeCommand`, `Emit`), the reader fills the session's queue
(`Put`), the dispatch thread looks the subscription up under the lock (`LookUp`) and
fills its buffer outside of it (`Dispatch`); a full buffer gives up its oldest
event for the terminal one (`Filled`).  `closed` and `session` are the life of the
gateway.  Of `app.py` the streaming handlers are modelled, not the validation.

Abstractions: `Close` is one step, while the code empties the books under the lock and
then, outside of it, cancels what was registered and shuts the child down
(`gateway.py:457-472`).  Nobody can tell between the two: what the child still says finds
no subscription, and a handler that leaves finds nothing to take out.  A handler that
*sends* in between would be accepted, for `send_command_with_subscription` does not look
at `_closed`; but the lifespan of the application calls `close` (`app.py:204-207`) after the
server has let its connections end, so none begins.  A use of the gateway outside of
that lifespan is not covered.

### 3.11 `CloudOptimize`

`pc` is where a call of `POST /v1/optimize` is: `Claim` of its id, `Reserve` (the
admission transaction with quota and budget), `Start`, `Chunk` after `Chunk`, then
the nested `finally` blocks `Leave`, `Close`, `Record`, `Settle`, each of which may
fail.  `claims` is a process's table and `cancelled` its tokens; `usage`, `ledger`,
`spent` and `res` are rows.  Beside the calls run a cancel, the retention loop
(`Purge`), midnight (`NextDay`), the expiry of reservations (any subset, whenever
somebody looks) and a restart of the service, which loses `claims` and `token` and
nothing else.  An entry is the call that made it, and `token` says with whose token a
call runs: its own at first, and from `Start` on that of whatever entry stands under its
id, because `stream` does not ask who made it.  Any number of calls may share an id.  A
deletion of the installation's data shows itself as a refused chunk, and then as `Stop`.

Abstractions: a transaction is one step, for its rows are locked or changed by
conditional updates; one character costs one unit; all clients share one address.

### 3.12 `CloudFeedback`

`sub` is a submission between accepting the screenshot, saving its file and
committing its row; `deletion`, `purge` and `sampling` are the other multi-step
calls.  Each may break off at any step, because a process ends, a commit fails or a
file operation fails (`SaveFails`, `SubmitBreaks`, `SampleBreaks`, `DeletionBreaks`,
`PurgeBreaks`); `strays` remembers the files for which nobody cleans up after that.
`tx` is the open transaction on a release.  A publication takes its time
(`BeginPublish`), reads the published release (`FindPublished`), locks it and looks at it
again (`LockOther`), and commits; other processes commit in between, for the lock of
the code is one of a process, and the service is prepared for several over one database
(`docs/CLOUD-BETA-RELEASE.md:111`).  `release` holds status and time of publication,
`overtaken` remembers that a publication was committed after one that took its time later.

Abstractions: every item has a screenshot; the clocks of the processes agree; admin
lists, statistics and consent forms are left out.

## 4. The runs

Times are those of two TLC workers on four cores.

| run | configuration | instance | distinct states | what it shows |
|---|---|---|---|---|
| `scheduler_life` | `TaskScheduler_life.cfg` | 1 caller, 2 workers, 4 tasks, 2 ids, queue 1 | 287 568 (90 s) | ownership of ids, one outcome, reach of cancel and of close, wake-ups, `TaskLifecycle` is implemented |
| `optimize_safety` | `OptimizeRequest_safety.cfg` | 2 chunks, no clash | 16 187 | deadline, store, `EventStream` is implemented, termination |
| `plugin_calls` | `PluginCall_calls.cfg` | 1 call with buffer 2 and budget 3, or 2 calls over 1 slot | 157 132 | slots, events after a cancel, release of caller and thread |
| `plugin_cancel` | `PluginCall_cancel.cfg` | 1 call | violation | finding 1 |
| `rotation_safety` | `HistoryRotation_safety.cfg` | 2 records, 2 clients, 3 key versions, 2 requests, 1 crash | 521 031 | everything of 1.3 for the rotation |
| `rotation_recovery` | `HistoryRotation_recovery.cfg` | 1 record, 1 client, 1 crash | violation | finding 2 |
| `history_walks` | `HistoryRecords_walks.cfg` | 3 records, limits of 2, 3 changes, 2 requests | 1 084 429 (73 s) | retention, restore, walks |
| `history_repair` | `HistoryRecords_repair.cfg` | the same | violation | finding 3 |
| `plugin_services` | `Plugins_services.cfg` | 2 workers, 4 configurations; or 2 detecting threads, 1 replacement among 2 snapshots; or 5 adapters, 3 attempts, 7 events; or a body of 6 characters | 415 937 (120 s) | settings against generations, instances, maintenance, models, streams of the providers, cuts, cancel |
| `hosts` | `Hosts_streams.cfg` | 3 operations, 2 children; or 2 requests of one id | 698 676 (130 s) | routes, configurations, nobody is left waiting, streams of the HTTP host |
| `cloud_service` | `Cloud_service.cfg` | 4 calls of 2 installations, 3 of them with one id; or 3 releases and 1 item | 937 553 (120 s) | ids and gates, books, releases, left-overs |
| `cloud_capacity` | `Cloud_capacity.cfg` | the same | violation | finding 4 |

The definitions of the properties carry a comment each that says what they mean
and which code they are about.  A few notes on their reading:

* `SchedulerInv` is the inductive invariant of the proofs, checked here with one
  caller; two racing callers, and any number, are covered by the proof.
* `CloseCancelsEverything` is about the real caller structure, one thread that
  reads commands (`cli.py`).  With two callers and two workers it fails by way of
  the dropped entry (section 6): a task whose entry was dropped is no longer in
  `active`, and its token may be missed when its id is registered anew.
* `LastIsRefused` of `MCTaskScheduler` is an action constraint: `t4` comes only to a
  full pool, is refused there, and that behaviour ends; it makes the refusal
  happen without the states of a fourth running task.
* `OneStream` of `MCPluginCall` is a constraint: when two calls have begun, their
  events and deadlines are left out, since no event touches a slot; a single call
  shows the stream in full.
* `DeadlineDecides` and `NothingIsLeftOver` are conjunctions of two named parts.
* `OneIsActive` is about the newest release only while no publication has been overtaken,
  and `ScreenshotHasRow`, a part of `NothingIsLeftOver`, excepts the files of deleted
  installations and those a failed write or the end of a process left: section 6 says
  what the code does there.
* `EachIdIsCounted` counts ids and not calls, for calls are what the code does not bound:
  `CapacityHolds` is the property of calls, and it is violated (finding 4).
* `MCSymmetry` permutes the three releases: they have the same sources, and the times of
  those that were published differ.
* `StreamSpec`, `LifecycleSpec` and `StoreSpec` are refinements: the abstract
  module's `Spec` as a property of the detailed one, under the mapping given with
  the `INSTANCE`.
* `NobodyIsLeftWaiting` is of the form `<>[]`: every behaviour of the bounded model
  comes to rest, and at rest nobody waits for an optimize request, nobody for a
  child that is gone or not trusted, and no timed out request leaves a child
  hanging.  Requests without a timer may wait for a child that lives and is slow.

### 4.1 Bounds, and why they are enough

* **Scheduler.**  The hazards need an id that is used again while its first task
  winds down (two submissions of one id, two workers), a queue that fills (one
  place), and a task that is overtaken (a third and fourth submission).
* **Optimize.**  Two chunks reach the limit and pass it.  Everything else is
  explored in full: no other bound is in the module.
* **Plugin.**  A buffer of two with a budget of three has a full buffer, a budget
  that is exceeded, and a message in each hand.
* **Rotation.**  `MaxRequests = 2` is a rotation and its retry, two rotations, or
  a rotation and a restore; three key versions let both rotations create one; two
  records let a batch leave one behind; two clients let a reader and a writer
  meet one rotation; one crash may fall between any two steps of either.
* **History records.**  Three records are one more than `MaxRecords` and than the
  batch of a search, so that selections overlap and a second batch exists; pages
  of one record make every step of a walk a call; three changes fit a save, a
  backup and a restore between two calls.  `CleanupBatch = 1` leaves work pending.
* **Providers.**  Seven events are one more than the longest stream an adapter
  needs to complete; three attempts are the code's own number.  Six characters in
  chunks of up to three hold a line of data, its end, an event's end and a cut in
  each of them; for the filter, an opener, a closer and text on either side.
* **Capabilities.**  Four commands change policy, keys and plugin and change one
  back.  **Detector.**  One generation replaces the model of the beginning, or deletes it;
  of two snapshots one can be left by a download that failed before or after; two
  threads are the two sides of a single flight.
* **Desktop host.**  Two children are a generation and the next; four commands are
  a configuration with its dependent request, an administration call and a
  cancel.  Two active requests fill a table, three ids the history of ids.
* **HTTP host.**  A buffer of one and a queue of two are full at once when a chunk
  and the end of one request meet what comes for another.  The cancel endpoint is used where nobody
  pings (`PingsOrCancels`), whose ids it does not know.  One tombstone is as many as ids
  can be retired here: the code keeps far more of them than the runtime runs tasks.
* **Cloud.**  Two calls of one id and installation are a call and its retry, and a call of
  another id competes; one midnight, one fault.  The limits are such that each of
  them refuses somewhere.  Three calls of one id, the last from another installation,
  are what it takes to run with a foreign token; they have a day without faults to
  themselves, and the cancels: for the books a cancel is one more way to `Stop`.  Three
  releases are needed for a rollback to choose what it puts back; three publications
  let two cross after one.

`CHECK_DEADLOCK FALSE` stands where requests, crashes, calls and submissions are
bounded or one-shot, so that a run may be over.

## 5. Fairness

* `TaskScheduler!FairSpec`: a thread inside a call keeps running and so does a
  worker; nobody has to call.  That a task's `run` returns (`FinishRun`) is what
  the two budgets provide: the deadline of an optimize request and the plugin
  call's deadline both release the worker, as the two runs below show.
* `OptimizeRequest!FairSpec`: worker, watchdog and time run.  A provider is bound
  only by its contract, to come back once its token is set (`WF(token /\ Await)`);
  without a token it may be silent for ever, and then it is the watchdog that
  ends the request.
* `ProviderStreams!Fairness` shows that contract for the five adapters: the thread of
  the call goes on where the code computes, and a closed client wakes a blocked
  read (`Closed`).  The server has no fairness: it may never answer.
* `PluginCall!FairSpec`: the runtime's threads and time run.  The plugin's own
  code has no fairness: it may never return.
* `HistoryRotation!FairSpec`: the host's thread, the plugin's thread and the
  threads of the other requests run.  Users, crashes and failures are free.  The
  weak fairness of `PluginStep` is about the thread as a whole: which step fails
  is open.
* `SemanticModel!FairSpec`: each detecting thread runs; the threads that download or
  delete need not, for a download may hang with the lock in its hand.
* `SidecarHost!Fairness`: the thread of the operation, each child's reader while it
  has something to do, the timers and the threads that write private cancels run.
  A write is bound to return only from a child that reads or is gone
  (`Returns`); a child owes nothing, it may hang for ever.

In `MCHosts` and `MCPlugins` a module's fairness holds in the behaviours that are about it;
what rests in the others need not move.

`HttpGateway`, `StreamText`, `Capabilities`, `HistoryRecords` and the cloud modules
are checked for safety only.

## 6. What the models found

Four runs end in a violation.  Each states what a document or test of the
repository says, and `PROJECT.json` quotes it.

1. **A cancel reported as a plugin failure** (`plugin_cancel`, `context.py:889`).
   A plugin that stops for the cancel sends nothing and completes.  A caller that
   was waiting in `receive` sees `completed` before it looks at the token again
   and answers `plugin_failed`.
2. **Recovery without a way out** (`rotation_recovery`, `plugin.py:98`).  If the
   undo of a failed prepare itself raises, both the recovery marker and the
   rotation checkpoint remain.  In recovery only repair and restore are admitted,
   and both refuse while there is a checkpoint; the rotation actions, which would
   clear it, are not admitted.  Both survive a restart: the history stays
   read-only.
3. **A repair that does not last** (`history_repair`, `repository.py:340`).  `repair` of
   a database that an older release left stamps the new index layout and writes
   one of the three rows that retention reads.  The next save finds the layout up
   to date, skips the migration, misses the two other rows and puts the history
   into recovery mode again, after every repair anew.
4. **A gate that does not count calls** (`cloud_capacity`, `optimizer.py:143`).  `stream`
   takes whatever claim stands under its request id, and a call releases that id
   twice, whoever claimed it (`optimizer.py:121-125`, `api.py:244-248`).  Of three calls with
   one id, chosen by the client: the first leaves its stream and gives the id up, the
   second claims it, the first's clean-up pops the second's claim, the third claims,
   and the second streams with the third's token.  Two calls run under one claim, more
   than the gate admits (`docs/CLOUD-CLOSURE-ARCHITECTURE.md:84-85`, the gate of
   concurrency within one process), and a cancel or the end of one stops the other.
   What holds is `EachIdIsCounted`: who goes on does so under the claim of its id.

Further disagreements that the models reach or that reading the code for them
showed, without a run of their own:

* **Scheduler** (`task_registry.py:245`).  A worker frees the request id and then
  drops its active entry *by request id*.  If the id was accepted again in
  between, the entry of the new, running task is dropped; `submit` counts one task
  too few from then on and admits one more than `max_workers + max_queue`, which
  `docs/verification/backend-resource-lifecycle.md:16` states as the limit.
* **Optimize** (`optimize.py:352`).  A usage record with a key that is also a
  metadata key (or `elapsed_seconds`) makes `metric_event(**usage, **metadata)`
  raise `TypeError` after `done` was written; the handler writes an error event, so
  the request has two terminals.  The constant `UsageMayClash` admits it.
* **Plugin call** (`context.py:879`, `:888`).  The timer fires between the check of
  the budget and the check of the token: the client is told *cancelled* although
  the deadline passed.  A plugin puts its result and completes between the empty
  receive and the test of `completed`: the client is told `plugin_failed` although
  the result waits in the queue.
* **Host and rotation** (`commands.rs:975`).  The user cancels while the answer of
  prepare is on its way: the host takes *cancelled*, the plugin stays frozen until
  the runtime is started again.
* **Maintenance** (`plugin.py:229-231`).  `block_reads` stands before the `try`: a
  rollback that is cancelled while it waits for readers leaves readers and writers
  refused until the runtime is started again.
* **Saves under the previous key.**  A save whose snapshot is older than a whole
  rotation stores its record under the previous key.  It stays readable
  (`RecordsReadable` covers it), it is merely not under the newest key.
* **Retention** (`repository.py:1299`, `:1356`).  The size of the database is looked at
  only every so many saves; between them it may pass its limit.
* **Replacement** (`repository.py:848`).  The replaced database is opened for writing
  before the file aside is dropped; after a crash there may be a `-wal` file of the
  one beside the other.  Journal files are not modelled.
* **HTTP host** (`gateway.py:450`).  The event that ends a request may have been looked
  up just before the client leaves: the id is then retired with no terminal event
  to come, although the test calls it *tombstoned until runtime terminal event*; it
  is freed when the oldest tombstone is dropped.
* **Sidecar host** (`sidecar.rs:1242`, `:1073`).  With the table of ids exactly full
  and the child gone or unhealthy, the start-up probe of the new child cannot claim
  an id, so the renewal of the table is never reached and every send is answered
  with *session full*, against the intention of the test at `:2873`.
  `warmup` (`:740-755`) drops an unhealthy child without stopping it: two runtimes may
  live at once.  The overflow of a private stream ends the stream and not the
  runtime's task.  Only optimize requests have a timer in the host.
* **Cloud** (`service.py:495`).  A reservation that expired while its call ran is not
  settled, so what is really spent may pass the budget of
  `docs/CLOUD-BETA-RELEASE.md:147`.  `api.py:172-177`, `:271`: a response whose generator
  is never started keeps its claim (`Abandon`).  `service.py:1293-1305`: a screenshot
  whose row is committed after the deletion has read the paths, or whose file
  cannot be removed, stays without a row and without an owner; so does one whose write
  fails when the file is there already (`storage.py:42`; `service.py:1175-1183` has no path to
  delete yet), or whose process ends before the commit.  `docs/CLOUD-BETA-RELEASE.md:88`,
  `:94` promise that screenshots go after 90 days and with the installation;
  `ScreenshotHasRow` excepts these files (`strays`, and those of deleted installations).
  `service.py:937`: a publication takes its time before it reads which release is
  published.  If another process publishes in between, the first supersedes it with an
  earlier `published_at`; a rollback then goes by these times (`:980-988`) and may put
  back a release that is not the one before, against `docs/CLOUD-BETA-RELEASE.md:108`.
  Within one process `_quality_release_lock` excludes it.
* **Semantic detector** (`plugin.py:146-160`, `model_manager.py:113-135`, `:149`).  A detection
  under way while the model is replaced or deleted may answer from the old one, if
  another detection has filed the new generation meanwhile: the last look compares the
  generation of the cache, not that of the vectors in hand.  `ResultIsCurrent` is
  therefore about the time when no such detection is left.  A download that fails may
  leave another snapshot that can be loaded, without a new generation: who has a model
  in the cache goes on with it, who has none loads the one that came.  A deletion that
  fails half way leaves a part of the snapshot.

## 7. The proofs

All theorems are checked by TLAPS (Z3, Zenon, and LS4 for the temporal steps),
for every value of the constants that satisfies the assumptions.  The
assumptions are small: limits are positive integers, functions have the sets
they are defined on, sentinels are outside the sets they stand beside, the set of
plugin calls is finite, a thread that manages the detector's model is not one that
detects, and a command of the desktop host is one line.  Sets of requests, clients,
workers, records, installations and releases may be infinite, except where a
cardinality is stated.

| module | theorem | about |
|---|---|---|
| `TaskScheduler_proofs` | `SchedulerInvariant` | `Spec => []SchedulerInv`, any number of threads, ids and tasks |
| | `SchedulerTypeCorrect`, `SchedulerOwnership`, `SchedulerOneOutcome`, `SchedulerClosedEmpty` | its consequences |
| | `SchedulerImplementsLifecycle` | every step is a step of `TaskLifecycle` or none |
| | `OneSubmissionAlive` | its promise that of one request id one submission is alive |
| | `CancelsReachTheirTask` | a cancel reaches the task it was issued for, any number of callers |
| | `CloseReachesEverybody` | close leaves nobody uncancelled, if one thread calls the scheduler |
| `OptimizeRequest_proofs` | `OptimizeTypes`, `OptimizeInvariant` | types and the inductive invariant |
| | `DeadlineAlwaysDecides` | `DeadlineDecides`, from its parts `ResultsAreInTime` and `ExpiryReported` |
| | `SaveStopsForUserOnly`, `ProgressStops` | further consequences |
| | `StreamImplemented` | `EventStream` is implemented if `UsageMayClash = FALSE` |
| `PluginCall_proofs` | `SlotsAreAccounted`, `PluginThreadsAreBounded` | slots, hence threads |
| | `EventsStop`, `ClosedStaysClosed` | events after a cancel; closing |
| `HistoryRotation_proofs` | `RotationInvariant` | the inductive invariant |
| | `RotationTypes`, `ReadersAreSafe`, `WritersAreOut`, `RecordsStayReadable`, `PromotionCoversAll` | its consequences |
| | `StoreImplemented` | `HistoryStore` is implemented |
| `PluginSystem_proofs` | `CapabilitiesInvariant` | the inductive invariant of the gate |
| | `PluginsHaveOneInstance`, `RecordsFollowTheirPolicy`, `MaintenanceIsAlone` | its consequences, any plugins and workers |
| | `DetectorInvariant` | the inductive invariant of the detector and of its model's management |
| | `ResultCurrent` | `ResultIsCurrent`: query and scenes were encoded by the installed model, any detections, commands and generations |
| | `DetectorWorksOnce`, `LifecycleIsExclusive` | one thread loads, one encodes; nobody reads a model's files while they are replaced |
| | `DetectorsWakeUp` | whoever waits has a thread that will wake it: what `DetectionEnds` needs besides fairness |
| | `StreamsInvariant` | the inductive invariant of a provider's call, five adapters |
| | `StreamsWellFormed` | `WellFormed`: order of the events, any server, any number of attempts |
| | `StreamsOneAttempt` | `TextFromOneAttempt`: no text of an attempt beside that of another |
| `HistoryRecords_proofs` | `RecordsInvariant` | database and backups are well formed, finite and counted |
| | `TheCountIsTrue`, `SavesKeepToThePolicy`, `RestoresCanBeUndone` | count, retention, restore, any records and policy |
| | `WalksGiveEachOnce` | `EachOnce`, any records, requests and sizes of page and batch |
| `Hosts_proofs` | `SidecarInvariant`, `SidecarTypes` | the inductive invariant of the desktop host |
| | `TablesRouteTruly`, `NothingBeforeItsConfiguration` | its consequences, any commands and restarts |
| | `BuffersAreInOrder`, `TheEndCanBeRead` | the HTTP host: types, buffers, a told end is there to read |
| | `StreamsAreNotMixed` | `NoStrayEvent` while the tombstones have room |
| `Cloud_proofs` | `FeedbackInvariant` | the inductive invariant of feedback and releases |
| | `OneReleaseIsActive` | `OneIsActive`: one release is published, the newest unless a publication was overtaken; any processes |
| | `NothingStays` | `NothingIsLeftOver`: no row of a deleted installation; whose the files without a row are |
| | `OptimizeInvariant`, `GatesHold` | calls, claims, books; `EachIdIsCounted`, any number of calls under one id |
| | `BooksAreTrue` | `BooksHold`, if `DayOutput <= MaxOutput` |

Some proved formulas stand in no run, because the theorem says more than a run could
add and the runs are kept to what says most: the types, `LiveTaskOwnsItsId`,
`AtMostOneOutcome`, `ClosedQueueStaysEmpty`, `CancelStopsProgress`,
`ClosedStartsNothing`, `WritersKeptOut`, `WorkIsDoneOnce`, `FilesAreLeftAlone`,
`NobodyWaitsInVain`, and the inductive invariants but the
scheduler's.  Each inductive invariant was checked by TLC on the instance of its
run before it was proved.

Three theorems have a condition.

* `CloseReachesEverybody` is about one calling thread, which is what the command
  loop is (`cli.py`); for two it is false (section 4).
* `StreamsAreNotMixed` is about the behaviours in which the ids that are retired, or
  are about to be, fit into the tombstones (`FewOpenEnds`; the code has room for 4096,
  `gateway.py:31`).  Beyond that the code drops the oldest tombstone (`:451`), and a
  client that sends its id again may read the end of the former request.  An id stays
  retired for good when its terminal event was dropped by a full queue or was looked
  up before the client left, so a gateway that runs for long enough can get there.
  In the run the condition always holds: there is one id and one tombstone.
* `BooksAreTrue` asks that the daily output of an installation is no more than the
  largest output that is estimated for a call, as the default settings have it
  (200 000 characters each, `config.py:50`, `:73`).  The two settings are independent:
  with a larger daily output a call may send, and settle, more than was reserved for
  it (`service.py:502`), and the budget no longer holds.

### 7.1 Along which argument

**Scheduler.**  None of the four safety properties is inductive.  `SchedulerInv`
adds who may move a task: a task inside `submit` belongs to one caller
(`CallsInv`), the queue holds each queued task once (`QueueInv`), a drained task
waits in one place of one call (`DrainInv`), a held task is held by one worker,
which has or has not run it (`WorkersInv`), and the counters agree with the stage
(`OutcomeInv`).  Then no two threads can end the same task.  The refinement maps
`stage` and `runs` to a phase; a task leaves the phase *accepted* the moment it is
taken out of the queue by a cancel, though its callback comes later.  That no two
live attempts share an id is ownership: two live tasks would both own the id.

**Optimize.**  `DeadlineInv` says that closing and expiring exclude each other
until the request has ended, and what each place of the worker may rely on;
`CancelInv` that only the user or the expiry sets the token; `ProgressInv` that
between a check of the token and the next write nothing is overdue.  The
refinement needs one more invariant, `StreamInv`: which event was last at each
place of the worker, and that a chunk was written if text was seen.

**Plugin.**  `SlotsAccounted` is an equation about a cardinality: the proof shows
for each way in and out of `Holders` that the set changes by one element and
`slots` by one (`HolderEnters`, `HolderLeaves`), and that every other step
changes neither.  It needs that a plugin thread exists only after its caller
started it (`NotStarted`).

**Rotation.**  `RotationInv` has nine groups: types; which operation takes which
step (`StepInv`); the host waits for its call (`CallInv`); a call that froze the
history has it to itself once it drained (`FreezeInv`); where the database is at
each step of a replacement (`FileInv`); the backup holds the same records as the
live file for as long as an undo may need it (`StoreInv`); which checkpoint is in
front of each step (`CheckpointInv`); what the host may rely on when it promotes
or drops a key (`HostInv`); and which keys a file may use (`KeyInv`: only a file
with a checkpoint uses the pending key, and a verified checkpoint vouches for
every record).  Each group is preserved by the help of the others: the undo loses
nothing because nobody wrote since the backup, nobody wrote because the freeze
drained and, after a crash, because the checkpoint is still there.  There is one
lemma per group and per part of the next-state relation (host, plugin, clients,
crash).

**Scheduler, cancel and close.**  A cancel reads the registry, then the active
table, then the queue, and a task may move between any two of them.  `FilesInv` says
where a task can be found (a waiting one in the queue; the entry of a held one is its
own or gone, because `Pop` goes by the id), `AimInv` that what the cancel was issued
for is cancelled, in the call's hand, over, or still under the id that is to be looked
up.  `CloseInv` says the same of everybody once close has read the tokens.

**Capabilities.**  `FirstInstance`: whatever the manager made it made once and keeps,
so that everyone holds number 1.  `SavesAsBegun` relates the snapshot of a saving
worker with what it froze when its generation began; `OwnersGate` says that who set
the maintenance flag is one worker, and that the gate is closed for as long as it has
not returned.

**Semantic detector.**  `ResultIsCurrent` excepts the detections that were under way
as a model was installed or deleted, so its invariant goes by epochs.  `EpochIsCurrent`
holds from the moment nobody of an earlier generation is left (`~crossed`).  Within an
epoch the disk may still change, for a download that fails may leave another snapshot;
what is found anywhere is a snapshot of this epoch or none (`Here`).  What makes query
and scenes agree all the same is the cache: it takes a model only when it has none
(who loads found none there, and one thread loads), so that everybody who goes on has
the cache's own model (`DetectionIsCurrent`) and the vectors were encoded by it.  A new
generation begins such an epoch only if all detections are idle; then what the cache
holds is filed under an older generation (`Behind`: nobody is ahead), and the next
detection drops it before it uses it.  `SingleFlight` ties the two flags of the cache to
the one thread that loads and the one that encodes, and `LifecycleLock` ties the lock to
whoever reads or changes the files, so that a load reads one model and not halves of
two.  A flag that is up has a thread that will take it down: whoever waits for it is
woken (`NobodyWaitsInVain`).

**Providers.**  What was yielded (`out`) and what was parsed but not yet yielded
(`pending`) are read as one answer (`Tells`, up to `Told`), since a cancellation may
come between two events.  `Piece` gives each event its place in the answer: the start
first and once, an end last and only when the adapter is done, a completion only of a
`whole` answer.  For this each parser has to give what fits what it remembers
(`Fits`): one lemma per adapter goes through the cases of its alphabet.  Gemini and
MiniMax parse text only; their callers open and end the call (`Bare`, `FitsBare`), so
that their answers have a start at once and an end when the call is settled.
`ParsedInv` is what makes the end of a body safe: where it may complete a call
(the compatible protocols and MiniMax), a parser that remembers a finish has seen a
whole answer.  `RestInv` says that between two attempts nothing but the opening
has been shown, because a retry needs that no text was; so all text is of the last
attempt (`OneAttempt`).  A call that is over is well formed, and stays so because
nothing is yielded any more.

**Records.**  `RecordsInv` is about one file at a time (`Sound`): finite, its rows as
they were saved, and the count right unless it is missing in a file of an older
release.  There is a lemma for what each call makes of a sound file, and one for
`Retained` as a whole.  That a selection of the oldest rows has as many rows as asked
for, or all, needs ranks: in a finite set the number of rows before a row is different
for each, and takes every value below the size (`OldestRows`, `Ranked`).

**Walks.**  A walk is correct because its cursor parts the rows: what was given out
lies before it and what is owed lies behind it or was given out (`Parted`).  `WalkInv`
adds that what is owed is there and untouched (`Owing`), that a search has found what
it owes or has yet to scan it, in order (`Searched`, `InOrder`), and that rows which
others touched are excepted.  Three facts carry it: `Beyond` is a strict order on the
places of rows, total but for two places of one identifier (`BeyondIsAnOrder`); a
selection returns the first rows behind the cursor in this order, so that whatever is
left out lies behind all that is in (`Selecting`); and turning a page moves the cursor
to the last row that was given out (`Turning`).  What others do between two calls
only adds to `touched` and takes from `owed` (`Watching`).

**Desktop host.**  `RoutesAreTrue` and `ConfiguredFirst` are about many threads that
share the tables, yet are inductive with four more groups: an operation is what is
left of its list of commands (`Sequenced`), a command its sender knows nothing of was
not registered (`Fresh`), the child an operation deals with is the one it configured
(`AtItsChild`), and timers, cancels and readers deal with registered requests only
(`Registered`).

**HTTP host.**  Events come from five places in a row: the child's input, its running
requests, its output, the hand of the dispatch thread and the buffers.  `Flow` says
that a request has one terminal event and nothing after it anywhere along this way;
`Holders` that an id of which something may still come is held by its subscription or
by its tombstone, so that no second request can take it.  `Unsubscribe` is the step
that can break this, by dropping a tombstone: an injection from the tombstones into
`OpenEnds` shows that it drops none while `FewOpenEnds` holds.

**Feedback.**  That the published release stands alone rests on the locks of rows
(`Holds`: a transaction's own row and the one it locked stay as they were) and on the
unique index; a publication acts on what it read before others committed, so its commit
succeeds only if that is the one that is published now.  `Times` says that no two
publications have one time, `FoundReleased` and `FoundNewest` what the reading of an open
transaction is still worth; the order of times is lost with a publication that commits
after a later one, and `OneActive` claims it only until then (`overtaken`).
`NothingIsLeftOver` is inductive with `LinkedHaveRows`; each step that may break off either
leaves the file to its row, or makes it one of `strays`.

**Cloud optimize.**  `RunningHoldClaims` says that a call that runs has as its token the
claim under its id: its own until `Start`, from then on whichever was there, and a
release that pops a claim cancels the token of everyone who runs with it.  So it
connects the ids that run with the claims that the gates count.  The ledger is a sum
over calls; `LedgersAreExact` states it with `Total` over a set that each
step changes by one call, and `Stages` and `OutputIsCounted` bound what a call can
still add to it.  Expiry lets go of a whole set of reservations at once, which is why
the sum must be exact and not only a bound.

The proved modules and what they use declare no recursive operator; `StreamText`
does (`Strip`, `Filter` and their like), which is one reason why it is model-checked
only.  Where a proof needs induction (a sum over a finite set, the ranks of rows, the
newest of many releases), it takes the least number of a non-empty set for which the
claim fails (`LeastNumber`, from the library's theorem about well-founded relations).

## 8. Limits

**Only model-checked.**  Liveness: `NoWakeUpIsLost`, `RequestEnds`, `CallerIsReleased`,
`ThreadComesBack`, `RotationEnds`, `CancelledCallEnds`, `DetectionEnds`,
`NobodyIsLeftWaiting`; the prover has no rules for fairness and `ENABLED` here.
Safety that is checked and not proved: `CutsDoNotMatter` of `StreamText`.  Its
definitions are recursive, and what a recursive definition computes for every input
is a proof by induction over data, which is out of the prover's reach.
`CloseCancelsEverything` for more than one caller is false; `NoStrayEvent` and
`BooksHold` are proved under the conditions of section 7.

**Not modelled**, of the modelled components: the journal files of SQLite, the
step by step migration of the oldest schema and encryption; the parsing of events
and the launch of processes in the Rust host, its settings files and credential
stores; validation of requests and headers in the HTTP host; registration, consent
forms, statistics and the admin's lists of the cloud.

Components left out entirely are listed in `PROJECT.json` with the reason.  In
short: the desktop shell, diagnostics and tools are I/O with hardly any state; the
front end's flows keep view state of one user; parsing, validation, templates and
scene rules are functions of their input; the translator, the batch runner and the
Markdown preview keep nothing between two calls.

## 9. What would come next

1. **`HistoryReplace`** (`repository.py:831-979`): one replacement at the level of
   files, with the `-wal` and `-shm` files of SQLite, quarantine and the backup that
   `restore` takes; it would implement the atomic replacement that
   `HistoryRotation` assumes file by file.
2. **`ConfigStore`**: the host's writes of several settings files that may fail half
   way.
3. **Refinement of the hosts.**  `SidecarHost` and `HttpGateway` as implementations of
   `EventStream` at the client's edge.
4. **`StreamText` without recursion.**  With folds in the place of its recursive
   operators its module could hold theorems: first that `Feed` keeps what it cannot
   yet cut, then `CutsDoNotMatter` step by step.
