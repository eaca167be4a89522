# VaporLensDB: specifications of the backend

VaporLensDB is a desktop database client: a Tauri application whose Rust backend
(`src/src-tauri/src`) holds the database sessions and whose TypeScript frontend
(`src/src`) calls it through IPC commands.  This directory holds TLA+ modules
of the backend and of the parts of the frontend it races with, TLC
configurations that check them on small instances, and TLAPS proofs of the
core's properties for all instances.

Paths below are relative to `src/src-tauri/src` unless they begin with `src/`.

## 1. The system

| Component | State it keeps | Operations | Talks to |
|---|---|---|---|
| Session table, `services/connection_manager.rs` | per Data Source: live connection (driver, generation, operation registry, serial gate, console sessions), pending mark, status; session limit, idle policy | begin/finish connect, disconnect, invalidate (by generation), evict, reclaim idle, shutdown, begin/activate/end/cancel query, install/remove console session, begin/end console operation, set phase | called under one async lock by every command |
| Connection commands, `commands/connection.rs`, idle worker, `lib.rs` | cleanup gate (`idle_reclaim_gate`) | connect (ping, admit, open without lock, finish), disconnect, update, delete, test; periodic reclaim | session table, configuration store, metadata caches |
| Query and console commands, `commands/query.rs` | none of their own; each running command keeps the driver and lease it was admitted with | execute, stream, explain, cancel, commit, rollback, switch transaction mode | session table, query engine, drivers |
| Query engine, `services/query_engine.rs`, `utils/query_budget.rs` | cancellation flags of running batches | run a batch or a stream within budgets | drivers |
| Metadata cache, `services/metadata_service.rs` | values by key, age, LRU order, tokens of loads in flight | load (single flight per epoch), clear a source | session table's leases, drivers |
| Metadata index, `services/metadata_index.rs`, `commands/metadata.rs` | entries and generation per source | walk and commit, clear, search | task manager, leases |
| Task manager, `services/task_manager.rs` | status, progress, scope and cancel flag per task | create, start, cancel, finish, clear | index, export, import, preview and download tasks |
| Application shutdown, `commands/lifecycle.rs`, `src/src/lib/applicationClose.ts` | close-request flags; Idle/Running/Completed | request close, listener ready, run cleanup once | idle worker, session table, webview |
| JDBC sidecar client, `drivers/jdbc.rs` | child process, request lock, session-lost flag | request with timeout, stream, cancel, restart, shutdown | Java bridge process |
| SSH tunnels, `services/ssh_tunnel.rs` | child process, reserved port | open in bounded attempts, close | ssh |
| Configuration store, `services/config_store.rs` | SQLite database, cleanup queue; secrets in the Keychain | migrate; CRUD of connections and groups; drafts, history; delete with credential cleanup and retry | Keychain, driver registry |
| Master key, `utils/crypto.rs` | the key item or file of the platform | find, migrate or create the key; encrypt, decrypt | Keychain, Secret Service, DPAPI |
| Driver registry and downloads, `services/driver_registry.rs`, `driver_config.rs`, `driver_download.rs`, `commands/driver.rs` | products, definitions, installations, staged jars | define, edit, delete, import, download, resolve | store, task manager |
| Export, import, preview, `commands/export.rs`, `src/src/hooks/useCsvPreview.ts` | per task: part file, channel, transaction | export, import, preview, cancel | task manager, leases, drivers |
| SQL files, `commands/sql_file.rs` | grants and fingerprints per document | grant, read, save | other programs on the same file |
| SQL analysis, `utils/sql_parser.rs`, `services/sql_risk.rs` | none | mask, split, classify, quote | query commands, frontend |

What is hard in this system:

* every command may be suspended at an `await` while others change the table:
  a connect command pings and opens its driver without any lock;
* an operation keeps its *physical* connection (driver, registry, gate) while
  the Data Source it belongs to is disconnected and connected again;
* some reports go back by name (Data Source id, console id), not by generation;
* sessions are dropped for four different reasons (request, eviction, idleness,
  death), which must respect operations and uncommitted transactions
  differently;
* cancellation races with being granted the serial gate, with the end of the
  statement it is meant for, with the registration of the task it is meant for
  and with the publication of the file it is meant to prevent;
* nothing commits to the database, the Keychain and the file system at once:
  the process may die between any two of them;
* checks (of references, groups, fingerprints, ports, targets) and the writes
  they are for are separate steps, with other threads, processes or programs in
  between.

What makes each component correct is stated in section 3.  The list of hazards
with their lines is `PROJECT.json`, `hazards`.

## 2. Modules

```
ConnectionManager          the session table, callers left open
  |-- ConnectCommands           connect/disconnect/update/delete + idle worker
  |-- ConsoleCommands           SQL Console commands and the real transaction
  |-- QueryCommands             batches and cancel_query on the primary session
  `-- MetadataOperations        operations that read metadata, sessions coming and going
        |-- MetadataCache              loads and invalidations
        `-- MetadataIndex              index walks, with TaskManager as their task table
TaskManager                the task table
TaskLifecycle              what a task promises; TaskManager under MetadataIndex implements it

QueryStream                one result through the bounded channel, with every limit
JdbcSidecar                a JDBC session and its bridge process
CsvExport, CsvImport       the tasks that write and read files
CsvPreviews                previews between panel, task table and command
Lifecycle, SshTunnel, DriverLibrary      services that owe their callers an answer
ConfigStore, MasterKey     passwords and the key they are encrypted with
Migrations, DataSourceGroups, Workspace, SqlFiles     what else is kept on disk
DriverReferences           what saved connections run on
ConnectionForms, ConnectionUrls, SqliteTargets        what a form means
CsvFormat, SqlAnalysis     how CSV and SQL text is read

MCConnectionManager, MCConnectCommands, MCConsoleCommands    symmetry sets
MCMetadataIndex, MCCommands, MCStores, MCServices, MCInputs  several components, one focus

ConnectionManagerProofs    the session table, and metadata operations over it
  |-- CommandsProofs            the parts of MCCommands, each and composed
  |-- ConsoleCommandsProofs     the console commands
  |-- MetadataIndexProofs       the index and its tasks
  `-- StoresProofs              the parts of MCStores, the cache first
ServicesProofs             the parts of MCServices
CsvProofs                  sequences and folds, and CSV files
  `-- InputsProofs              the parts of MCInputs
```

**Foci.**  The components that share no state are checked side by side: MCCommands,
MCStores, MCServices and MCInputs extend several modules and add a variable
`focus`, chosen at the start, which says whose steps a behaviour takes.  The
instances are thus explored one after the other and not as a product, and the
properties of a component speak of the behaviours that move it.  MCMetadataIndex
does the same with three instances of one module.  In MCCommands the connect
commands and the query commands move the same session table.

**ConnectionManager.**  One action per method, since each method runs under the
table's lock.  `live[s]` is the generation of the live connection of `s` (0:
none) and stands for the map entry; `pending` and `status` are the maps of the
same name.  A lease (`OperationLease`) is a record of source, generation and
query id; it belongs to the registry of its own generation, which is *open* iff
that generation is still live.  Thus dropping an entry closes the registry
and, in `Retire`, cancels all its tokens, exactly as `Drop for
ConnectionActivity`.  `queued`, `cancelled` and `permits` are the flag, the
token and the serial permit of a lease; a lease can hold a permit while it is
still queued, which is the window between `acquire_owned` and `activate`.
`older` is the order of the `last_used` instants: eviction picks a minimal
reclaimable source, idle reclaim a set closed downwards.  Which waiter gets a
released gate, and whether a newcomer that finds it free gets in first, is left
open: a waiter enters the semaphore's queue only when its future is polled.

**ConnectCommands.**  A connect command is a process with a program counter:
`waiting` for the cleanup gate, `pinging`, `admitting`, `opening`.  Each step
between two awaits is an action.  `saved` is the version of the saved
configuration, `openedWith` the version each generation was opened with, so
that an edit that fails to retire the session is visible.  Disconnect, update
and delete hold the table's lock to the end and are one action each.  `revoked`
and `strayed` are history variables: which attempts lost their pending mark to
another command, and which generations such an attempt installed.

**ConsoleCommands.**  A console command is a process that may open a session,
is admitted to it (`BeginConsoleOperation`), works on it and ends.  `txn` is what
the database session really holds, which the code never reads: the properties
relate it to the phase the table keeps.  Drivers answer nondeterministically; a
statement may settle the transaction itself, fail with or without affecting it,
and a commit that reports an error may or may not have taken effect.
`misreported` is a history variable: sessions whose phase was written by a
command of another physical session.

**QueryCommands.**  `Execute` takes the lease, `QueueStep` waits for the gate,
`BatchStep` goes through the statements; `CancelWaiting`, `FindDriver`,
`AskDriver` and `SignalArrives` are the steps of a cancel command, each of
which may be overtaken by the end of the query.  A signal that reaches the
server interrupts whatever the session then runs.  `requested` is the flag
under the query's id, which every statement resets; `asked` is history: the
current statement's cancellation was asked for while it ran.

**QueryStream.**  The driver's loop, the channel and the engine's loop are three
processes over one StreamControl; rows have sizes, and the limits of rows,
bytes, chunk rows, chunk bytes and channel places are constants.  `TakeChunk`
goes on after a limit, which is what lets the statement run to its end.

**JdbcSidecar.**  `process` is the bridge; `Accepts` and `PhasesAfter` decide what a
request may do in which process and what the console's command makes of its
answer or its loss.  A command is a row of requests: an execute selects the
database and schema where the product has a statement for it, begins the
transaction if the phase is idle, and then sends the statement (`due` is the
statement that has still to follow); EXPLAIN and the export of a query, each of
which sends several, are one request; COMMIT and ROLLBACK are one each.  Every one
of them may be the request that loses the process.  `BridgeAnswers`, `Succeeds`
and `Reaches` translate what `JdbcBridge.java` does with transactions and CANCEL;
external are only the database behind it (`autocommit`, `uncommitted` and
`durable`, to be compared with the phase the console shows) and what kills the
process.

**MetadataOperations.**  A metadata command or index task takes a lease from the
session table, waits for it (`waiting`), and from then on is `Underway` with the
driver it was given, whatever happens to its connection.  Sessions are opened
and ended around it by the table's own actions; a connect command clears the
caches of its source between admission and opening (`emptied` are the pending
sources for which it has).  `schema` is the version of what the databases hold:
one counter for all of them, since properties only compare what was read of a
source with what was cleared of the same source.

**MetadataCache.**  A load looks, fetches and stores in three steps, with the
cache's lock held in the first and the last only.  The ten maps are one
function `cached`; `order`, `fresh` and `sharing` are `insertion_order`, a
`loaded_at` younger than the TTL, and `pending`.  A token is the set of loads
that hold it, so that comparing tokens (`ptr_eq`) is membership and a token
whose holders are gone (`strong_count` 0) is the empty set.  `floor` is the
schema version at the last invalidation of a key; `late` are generations that
were retired before one of their loads looked into the cache: such a load was
activated in time and is entitled to go on, and the code has no way to know
that its connection is gone.

**MetadataIndex.**  A walk reserves a generation of its source, reads, and
commits if the generation is still the one it reserved.  The model keeps who
reserved last (`holder`) in place of the number.  A walk's reads are one action,
dated by the first of them, the oldest; how many objects it collects, up to
the capacity, is a free number.  Which source eviction picks next is left
open (the code iterates a `HashMap`); `Evicted` is every set that picking one by one
may lead to.  The task around the walk is an instance of **TaskManager**;
`KeepsLifecycle` shows that it implements **TaskLifecycle**, the specification
of a task as the task list sees it.

**CsvExport.**  A task, its worker and the file system: the worker sends chunks
through the bounded channel and shares the lease with the task, the task writes
a part file and publishes it by a hard link.  All exports want one destination,
and another program may make it first.  Removing a part may fail, and one that
stayed is removed by a later export.  **CsvImport** reads the file twice (check,
then insert) while others edit it: an edit may change the contents, the number of
rows and their widths in any way at any moment until the second pass has met the
end of the file, and a *silent* edit leaves length and time alone, as an edit
within the resolution of the clock does.  The second pass reads what the file has
become: it ends at the end it meets, skips rows of another width and looks at
length and time at the first row and every `CheckEvery` (100) rows only.  A file
*replaced* by another under the same name is noticed at the next look but never
read, since the reader keeps the open one; the model has it as one more edit.
Databases with savepoints recover from a bad row, the others may end the
transaction.  A rollback may fail, and then leaves the transaction open.
**CsvPreviews** keeps calls in flight as messages that arrive in any order.

**Lifecycle**, **SshTunnel**, **DriverLibrary.**  One process per caller, call and
download.  ssh, the programs that take a port, the user
and what makes the webview load its page again are external.
The idle worker of `lib.rs` is a process of Lifecycle: a tick (`BeginTick`), the
reclaim that may wait for the cleanup gate as long as somebody's ping does
(`ReclaimIdleSessions`), and its end when it sees that it is stopped.  The page of
the webview listens (`Listen`), says so (`ListenerReady`), shows the dialog and may
be loaded again at any time (`Reload`), which forgets an event or a dialog while
the bridge still counts the request as in flight (`closeLost`).  In DriverLibrary, imports
and deletions run on the main thread, downloads and saving connections beside it.

**ConfigStore** is the macOS build, where the secret is in the Keychain and the
database keeps a reference: create, update, delete and cleanup are processes
with the lock of SQLite (`cleanupTx`) between them, and `Crash` ends all of them.
`entrusted` is history: the secret a deleted connection had.
**MasterKey** has the four backends as the constant choice `backend`;
**Migrations** lets two launches race, each migration in a transaction with its
record; **DataSourceGroups** has the main thread and the asynchronous writers of
connections; **SqlFiles** has several documents of one file and foreign
editors; **Workspace** dates rows with a clock that may be set back.

**DriverReferences** resolves a saved connection to product, definition,
installation and adapter, and has the commands that check references and then
write as two steps.  **ConnectionForms** has one row and one form over small sets of values for
every field that decides something; **ConnectionUrls** the userinfo, query and
`;key=value` texts of a URL over a small alphabet; **SqliteTargets** commands
that look at a file and open it in different steps.

**CsvFormat** and **SqlAnalysis** are the pure algorithms: a state is a text that
grows symbol by symbol, so that every text of the bounded length is reached
through the incremental reader, and operators say what the code makes of
it.  A symbol stands for a class of characters, or for a word.

Definitions commented "Mutant" are variants of the next definition with a
plausible mistake.  They are used by no specification: substituting one must
make TLC refute the property it is paired with in `PROJECT.json`, which shows
that the property depends on the code's behaviour.

## 3. Properties and runs

Times are of four TLC workers.

| Run | Instance | Checks | Result |
|---|---|---|---|
| ConnectionManagerSessions | 3 sources, limit 1 or 2, 3 connections, 1 query, 1 console | `StatusMatchesRuntime`, `GenerationsIdentifyConnections`, `GrowsWithinLimit`, `OccupiedSessionsSurvive` | holds, 975 128 states, 1.2 min |
| ConnectCommandsRace | 2 connect commands, 2 sources, 1 slot, 2 configuration versions, 2 connections, 1 query | `PendingIsOwned`, `DeletedStaysOffline`, `RuntimeMatchesSaved`, `PingSparesOccupied`, `UsesTable` | holds, 500 430 states, 0.6 min |
| ConsoleCommandsReconnect | 2 commands on 1 console, 1 query, 2 successive connections | `OccupancyIsOwned`, `PhaseCoversUnlessMisreported`, `WorkIsSettledOrLostKnowingly`, `ConsoleTypeOK`, `UsesTable` | holds, 531 548 states, 0.5 min |
| MetadataIndexTasks | walks: 2 tasks on a serial source, 1 connection; sources: 1 task over 2 sources, 2 connections, capacity 2, total 3; schemas: 1 task, 2 schema versions, 2 connections | `ClearingIsBarrier`, `IndexSafety`, `IndexWithinTotal`, `KeepsLifecycle`, `EveryTaskEnds` | holds, 148 023 states, 0.7 min |
| CommandsOnOneSource | connects: 2 commands, 2 connections, 2 queries; queries: 2 batches of up to 2 statements on a serial session; stream: 3 rows, limits of 3 rows and 3 units, 1 channel place; sidecar: 2 statements, 2 processes | `OneQueryAtATime`, `CancellationReachesWaiters`, `NothingStartsAfterRetirement`, `AnswersAreTrue`, `TransactionsAreKept`, `EveryCommandIsAnswered`, `CommandsTypeOK` | holds, 143 047 states, 1.4 min |
| StoresOfLongOperations | cache: 2 loads, 2 keys, 1 place, 2 connections; passwords: 2 rows, 3 secrets; keys: 4 keys, 2 operations; migrations: 2 launches from versions 0, 8 and 12; groups: 2 connections, 2 groups, 1 writer; files: 2 documents of one file; drafts: 2 drafts, 3 entries | `InvalidationIsBarrier`, `ServesPresentConnection`, `SecretsAreKept`, `SavedStateIsTrue`, `StoresTypeOK` | holds, 705 712 states, 0.6 min |
| ServicesUnderFailure | closing: 3 callers, 2 requests; exports: 2 to one destination, 2 chunks, 1 channel place; library: 2 installations of 2 jars, 1 client; tunnels: 2 calls, 2 ports, 2 attempts | `ExportSafety`, `LibrarySafety`, `ServicesEndClean`, `EveryCallIsAnswered`, `ServicesTypeOK` | holds, 180 250 states, 1.4 min |
| UserInputs | csv: texts of 4 symbols, 2 columns; imports: 3 rows, batches of 2, looked at every 2 rows, 1 edit; previews: 2, with 2 cancellations; sql: 12 beginnings of scripts with up to 6 more symbols; urls, forms: every form over the values; targets: 2 files, 2 commands; references: 2 profiles, 3 commands | `ScriptsAreUnderstood`, `ImportsAreTrue`, `ConnectionsAreUnderstood`, `EditsLeaveConnectionsAlone` | holds, 770 871 states, 1.3 min |
| ConnectCommandsCancelled | 2 connect commands, 1 source | `CancelledAttemptInstallsNothing` | **violated** |
| ConsoleCommandsStalePhase | as Reconnect | `PhaseCoversTransaction` | **violated** |
| ConsoleCommandsDeadPrimary | 1 command, 1 query | `DeadPrimarySparesConsoles` | **violated** |
| JdbcSidecarImplicitCommit | 2 statements, 2 processes | `NoImplicitCommit` | **violated** |

A run checks a module's properties by name or, where several components share a
run, as conjunctions the MC module defines:

* `UsesTable` is the refinement: the commands, with all their program counters
  and history, implement `Spec` of ConnectionManager with the identity mapping
  of the shared variables, so that what holds of the open table holds of the
  table as the commands use it.
* `WorkIsSettledOrLostKnowingly` = `UncommittedWorkSurvives` (uncommitted work of
  a console is lost only with a session that was found closed) and
  `FailedStaysFailed` (a failed transaction is never taken up again).
* `AnswersAreTrue` = `CancelledWasAsked` (a batch says cancelled only of a
  statement that was asked to be cancelled while it ran), `StreamIsTrue` (a
  result reported as done is a prefix of the rows within the limits, marked
  truncated exactly when there were more) and `StatementRunsWhole` (a limit on
  the result does not cut the statement short).
* `TransactionsAreKept`: over the JDBC sidecar a commit makes the whole
  transaction durable or reports failure; a cancellation hits the stream it was
  for; and nothing becomes durable without a COMMIT except after a request that
  lost its process and left the transaction marked as active (disagreement 4).
* `IndexSafety` = `CancelledLeavesNothing` (a task shown as cancelled or failed
  has stored no index; a cancellation after the commit ends as success) and
  `IndexOfPresentConnection`; `IndexWithinTotal` bounds what all indexes hold.
* `SecretsAreKept` = `CredentialSafety` (the password of a saved connection can
  be read and that of a deleted one is gone or queued, wherever the process
  died) and `SecretsStayReadable` (what was encrypted can be decrypted with the
  key the next operation finds; only macOS and the development file, which
  create and never replace, keep that unconditionally).
* `SavedStateIsTrue` = `StoreOpensWhole`, `GroupsAgreeWithConnections`,
  `SavesReplaceWhatWasSeen`, `SavedDraftIsKept`.
* `ExportSafety` = a destination holds a whole export or none, a session is not
  given back while a worker may still use it, and by then a console whose query
  broke is marked, unless the export was cancelled or could not write its file
  (`commands/export.rs:463` marks database failures only); `LibrarySafety` = installations in the
  table have all their jars, and a cancelled download has published nothing.
* `ServicesEndClean` = the cleanup runs once and never beside an idle sweep, and
  a tunnel call that failed has left no process and no port.
* `ScriptsAreUnderstood` = `SqlIsUnderstood` (what is executed is what was analysed);
  `ImportsAreTrue` = `ImportSafety` (`ImportReportIsTrue`: an import commits exactly the
  rows it counts, or none; `RowsComeFromCheckedFile` and `NoRowIsDropped`: up to the
  row at which the file was last looked at, every row that was checked is inserted
  or reported and comes from the contents that were checked, and without an edit
  the whole report adds up), `PreviewsAreCurrent`, `ReaderAgreesWithParser` (a
  file cut into records while it is read gives the rows of the file parsed at once),
  `RoundTrip` (what is exported is imported again) and `PreviewAgreesWithImport` (a
  preview and an import of one file with the same options find the same rows valid
  and refuse alike).
* `ConnectionsAreUnderstood` = `CredentialsLeaveTheUrl`, `HostAndPortAreTakenApart`,
  `FormsAreHonoured`, `OnlyCreatingMakesFiles`.
* `EveryCommandIsAnswered`, `EveryCallIsAnswered`, `EveryTaskEnds`: the liveness
  properties; see fairness below.

The metadata properties in words.  `InvalidationIsBarrier`: once a key was
cleared or a refresh of it was forced, neither its value nor what a load in
flight may still store was read before; `ClearingIsBarrier` says the same of the
index.  `ServesPresentConnection` and `IndexOfPresentConnection`: a live source
is shown what its present connection reached, although eviction and the
retirement of dead sessions clear nothing, and an idle reclaim clears the two
caches one after the other after it has dropped the session (`lib.rs:266`): it is
the next connect that is sure to have cleared them.  The exception `late` is real:
a load that was activated, then overtaken by a disconnect *and* a reconnect, and
only then looked into the cache stores what it reads over the old connection.

Several properties name exceptions.  Each is a behaviour the code really has
and no document of the repository excludes (a write by another program between
the last look at a file and the rename; a connection saved between the check of
a command and its write; a clock that was set back); the property shows that
there is no other.  They are stated where the property is.

**Bounds.**  The limits and generation bounds are the smallest for which the
cases meet: two slots and three sources give a choice of victims; one slot in
Race makes every second connect evict; two generations are a session and its
successor, which is what a stale report needs.  `MaxGeneration` cuts behaviours
off (no further connection is installed); it is a bound of the model, the code
counts in 64 bits and saturates.  `MaxVersion` likewise bounds edits, and
`MaxSchema` schema changes: two versions are before and after an invalidation.
One place in the cache makes the second key evict the first; two loads are one
overtaken by the other.  A capacity of 2 and a total of 3 let one index fit
beside a small one but not beside a large one.  Two statements on a serial
gate are the one that is cancelled and the one the signal may hit instead; two
processes of the sidecar are the lost one and its replacement; three requests
open, work in and settle a transaction.  A stream of three rows with
`RowLimit` 3 and `ByteLimit` 3 meets each limit exactly, below and above; one
channel place makes the producer block.  Two jars make a half-filled set, two
ports and two tunnels make both the other's stranger, two attempts are a retry
and the last one.  Three secrets are an old, a new and another row's; four
keys are one per operation and per store.  `Olds` are stores before any, in
the middle and before the last of the migrations that move data.  Texts are as
long as the longest construct that can be half open when another begins:
dollar quotes need four more symbols, so those scripts have longer beginnings.
`MCCommands` bounds the leases that occupy sessions to two while connects move.
In MCMetadataIndex the interleaving of two walks, the choice between two sources
and the change of the schema under a walk are three foci, each with the other
bounds reduced.  In MCStores the cache sees a second schema or a second
connection, not both, and a path that may have become a link has at most one
document with a grant: the refusal of a link does not depend on the other one.
One edit of an imported file changes rows, widths and contents together; contents
once edited are never again those that were checked, so a second edit adds no case.
A destination that only a foreign program fills is tried with two exports of
results; the other kinds reach it by the same `PublishPart`, whose publication
may fail whatever the destination holds.
Two requests to close are one that is forgotten by a page and one after it.
The proofs of section 5 have none of these bounds.
Symmetry is used only in runs without liveness properties.

**Deadlock** is not checked (`CHECK_DEADLOCK FALSE`): with the generations, secrets
or commands used up a model stops, and an idle application may stop anywhere.
That nobody waits for ever where somebody should go on is what the liveness
properties say.

**Fairness.**  Nothing is ever assumed of users, other programs, servers that do not
answer or the operating system killing the process.  Assumed are:

* connect commands: weak fairness of their steps (the runtime polls a woken
  task, pings and opens return since drivers have connect timeouts) and strong
  fairness of `EnterGate` (a `tokio::sync::Mutex` serves its waiters in order);
* queries: a statement that runs returns, and strong fairness of the wait for
  the serial gate (a `tokio::sync::Semaphore` serves in order);
* index tasks: strong fairness of each task's own steps, for the same reasons;
* streams: weak fairness of the loop that polls driver and engine; exports: of
  the task's steps, not of the query, which may never answer.
  Not of the step of an export that awaits the database (selecting the schema or
  reading the columns, `commands/export.rs:442`, `555`), which nothing interrupts:
  a cancelled export is promised an end unless it is there;
* closing: a page that listens shows the dialog for an event it has received, the
  idle worker ends when stopped between two ticks, and the caller that stops
  it, is woken or has its result goes on.  Not assumed are the user's answer, the
  page being loaded, the end of a reclaim, which waits for a gate that is held
  across a ping (`lib.rs:259`, `commands/connection.rs:423`), and the closing of
  the sessions: whoever asks for the shutdown is answered *if* the cleanup does not
  wait for these two for ever (`CleanupWaits`);
* downloads and tunnels: weak fairness of the task's or call's own steps, which
  are bounded by deadlines.

Where a component can move in its first state, the fairness is asked of the
behaviours whose focus it is; otherwise the specification would demand steps
its next-state relation forbids and its liveness would hold of nothing.

## 4. Disagreements found

1. *A cancelled attempt may install its session.*  `finish_connect` asks only
   whether its source is pending.  After connect, disconnect, connect the first
   attempt finds the second one's mark: its driver is installed, opened with
   the configuration it had read, and the second attempt is told it was
   cancelled.  The test `disconnect_cancels_a_pending_connection_install`
   (`services/connection_manager.rs:1913`, "cancelled attempt must not be
   installed") covers the case without the second connect.  `RuntimeMatchesSaved`
   shows that this is the only way a live session disagrees with the saved
   configuration.
2. *A late console report changes another session's phase.*
   `set_console_phase` (`services/connection_manager.rs:795`) has no generation
   check.  If the connection is retired while a commit is running and the
   source is connected again, the commit's report marks the new console
   session idle even though its own transaction is open; idle is what permits
   disconnecting, evicting and closing it.  `PhaseCoversUnlessMisreported` shows
   that phase and transaction come apart in no other way.
3. *A dead primary session takes console transactions with it.*
   `retire_stale_connection` (`commands/query.rs:573`) does not make the
   preflight that `commands/connection.rs:451` calls for ("a dead primary session
   does not authorize dropping a separate live console transaction or its in-flight
   operation").  The property counts the work of consoles only: in the trace a
   console command has just been admitted to its own session when a query of the
   primary session finds that closed and retires the connection.
4. *A statement may commit by itself after a request that lost its sidecar.*  Of
   a console's requests in an open transaction, only the statement itself always
   marks the transaction as failed when its process stalls or dies.  Selecting the
   schema before a statement (`commands/query.rs:209`, `322`, `648`), COMMIT and
   ROLLBACK return early and leave the phase active; EXPLAIN does when its plan has
   been read, and an export when it was cancelled or could not write its file.  The
   next statement then sends no BEGIN; only COMMIT is refused in a lost session
   (`drivers/jdbc.rs:414`), so it is executed by a fresh bridge process, whose
   connection is in automatic mode, and commits by itself.  `docs/SUPPORT.md`
   says that transaction guards prevent implicit commits during recovery.
   `TransactionsAreKept` shows that there is no other way to one.

## 5. Proofs

Eight modules hold theorems; `PROJECT.json`, `theorems`, lists those to know.  Of
every run that passes, each safety property and each action property is stated
by one of them, but for `ScriptsAreUnderstood`.  Each theorem holds for
every value of the constants that satisfies the named assumptions: no bound of
section 3 is used.  The usual argument is an inductive invariant that `Init`
implies, that every action preserves (one step of the proof for each), and that
implies the property.

**`ConnectionManagerProofs`** proves, for every finite set of sources, every set of
queries and consoles, every set of limits and every bound (`SourceAssumption`,
`LimitsAssumption`, `GenerationAssumption`), that `Spec` implies its type
invariant and the seven properties of the session table that runs check.

* `TypeOK` is inductive as it stands; it is proved first and everything else is
  relative to it.
* `StatusMatchesRuntime` and `GenerationsIdentifyConnections` are inductive
  relative to `TypeOK`.
* `OneQueryAtATime` is not inductive: that a running lease is the only runner
  follows from exclusiveness of the gate among *all* leases that hold it,
  queued or running, and that every runner on a serial driver holds it.  The
  strengthening states these two facts.
* `CancellationReachesWaiters` needs that generations identify connections: a
  retired registry can never be open again, since no later connection gets its
  generation.
* The action properties follow from the invariants step by step; `LimitCorrect`
  uses that the sets of sources are finite to count sessions.

**`CommandsProofs`** is about the four parts of MCCommands.

*Connect commands*, for any number of commands, sources and configuration
versions (`AttemptAssumption`, `VersionAssumption`).  `ConnectUsesTable` comes
first, together with the types of both layers: a step of a command is one of
the table's methods or a stutter, so every theorem about the table is one about
the running commands.  `PendingIsOwned`, `DeletedStaysOffline` and
`PingSparesOccupied` are inductive relative to the types.  `RuntimeMatchesSaved`
is not: what a session was opened with is decided when its attempt is admitted.
`AttemptsAreCurrent` says that an attempt nobody has cancelled still has its
mark and read what is still saved; editing and deleting refuse a marked source.
The step that installs a session also needs that its generation is fresh
(`GenerationsIdentifyConnections`), and the one that retires a dead session that
it has no mark (`StatusMatchesRuntime`); both are taken over from the table.

*Queries*, for every number of statements (`StatementsAssumption`): executing and
cancelling implement the session table, and `BatchesAreSound` says that the flag
of a query is set only when its cancellation was asked for since its statement
started, and that a batch that reports cancelled is over.

*A result's stream*, for every size of row, chunk, channel and limit
(`StreamAssumption`).  `RowsInOrder` says that every row the driver has counted is
in one place (with the engine, in the channel, in the chunk being sent or in
the buffer) and that these hold consecutive rows in that order, cut where the
driver cut them (`Hold`); `LimitsAreKept` that what the engine holds is within the
limits; `ReasonsAreTrue` that who stops the stream has left a row out; and
`StepsAreTrue` how far driver and engine are.  Bytes are sums over rows and the
pieces of a chunk are built one row at a time.  Both are recursive functions, and
what they compute for every length is shown by looking at a *least* length at
which it would fail, which needs no induction principle: it is that of one it
holds for, and one row more.

*The sidecar* (`StatementAssumption`, `SidecarBoundAssumption`).
`TransactionsAreKept` follows from `AnsweredIsKept`: whatever was answered since
the BEGIN is in the open transaction of the process that lives, or durable.
That needs to know whose request a process is executing (`RequestOwnsProcess`),
that a cancel names a stream that was sent (`CancelsNameTheirStream`), where the
console's requests stand (`ConsoleKeepsPhase`) and, as long as no request has lost
its process and left the phase active (`unmarked`), that its connection is where
the console takes it to be (`PhaseIsTrue`).

*Composed*, every behaviour of `CommandsSpec` moves the table by its methods only
and leaves the parts alone that it does not move (`CommandsInv`); the run's
safety properties are corollaries.

**`ConsoleCommandsProofs`** proves all that ConsoleCommandsReconnect checks, for any
number of commands, consoles, sources and reconnects.

* `ConsolesUseTable` and the types come first, as above.
* `OccupancyIsOwned` is inductive relative to them: beginning an operation asks
  that the gate is free, ending one gives back the occupancy it recorded.
* `PhaseCoversUnlessMisreported` is not: while a command works, phase and
  transaction come apart on purpose.  `WorkIsCovered` says what each step of a
  command may rely on (`Relies`): an admitted command has read the present
  phase, one that has begun found the console idle, one that executes or fails
  has marked the session, one that has settled has ended the transaction.  That
  no other command disturbs this needs `OccupancyIsOwned`, and that a report by
  name reaches either the command's own session or makes the one in its place
  `misreported` (`ReportEffect`).  That a session which comes into being finds no
  command working on it needs `HeldIsPresent`, `OfflineHasNone` and, when a
  connection is installed, that no occupancy has the generation it gets.
* `WorkIsSettledOrLostKnowingly` follows step by step: each method of the table
  that retires a session asks whether it may be reclaimed, or records that it was
  found closed (`RetiringIsCareful`); and a command's report of a phase is about
  the session it works on, which it found idle before it began, so that it cannot
  revive a failed one, or misreports (`ReportedPhase`).

**`MetadataIndexProofs`** is about index walks over the session table, for any
number of tasks, sources, capacities and versions (`WalkAssumption`,
`CapacityAssumption`, `SchemaAssumption`).  The lemmas it shares with the cache,
on what waiting, ending and the surrounding steps do to leases and sessions, close
`ConnectionManagerProofs`.

* `ClearingIsBarrier` is inductive together with the fact that no clear lies in
  the future: what is read now is recent enough.
* `LifecycleCorrect` is the refinement: the tasks implement `TaskLifecycle`.
  `ReportsAreTrue` says what the list may show of a task at each step of its walk
  (`Report`), and from it `CancelledLeavesNothing` follows.
* `IndexOfPresentConnection` needs to speak of what may still be committed, and
  of sources that are connecting (`PresentInv`, with `MayKeep`).
* `IndexWithinTotal` sums over a set of sources with a fold.  That the fold is a sum
  (taking any source first makes no difference, an empty index does not count) is
  an induction over the finite set of sources, which is done by hand: among the
  sets for which a fact failed, one would be smallest (`SmallestExists`).  What a
  commit evicts is enough for its index to fit (`CommitFits`), and all else empties
  indexes.

**`StoresProofs`** is about the seven parts of MCStores.

*The cache*, for any number of loads, keys, places, sources and versions
(`EntriesAssumption`, `KeyAssumption` and those above).

* `CacheTypeOK` comes first.  It contains what the others lean on: an id belongs to
  one operation at a time, and a token of a key is held only by loads of that
  key that have looked and not returned.
* `InvalidationIsBarrier` is inductive together with two facts: no invalidation is
  dated in the future, and a load that has not read yet has nothing to store.  A
  clear takes the tokens of its keys away, which makes the second half of the
  property vacuous for them.
* `ServesPresentConnection` needs to speak of sources that are *not* live, too:
  nothing cached or storable for a pending source whose attempt has cleared the
  caches belongs to an earlier connection, since no operation can begin before
  the source is live and one that began earlier and looks now is `late`.
  Installing the new connection then finds the caches empty but for late loads.
  That a source is not live and pending at once is taken over from the table.
* `CacheInStep` needs that the order of use names every cached key once, and what
  removing keys from a sequence leaves: a recursive function again.

*Passwords* (`NoSecretAssumption`): each reference has one place, a row, a job, the
queue or none, a job's own secrets are nobody else's, and an open cleanup is
about a deleted connection (`StoreInv`).  A corollary is that the branch of the
cleanup that keeps a *shared* item is never taken: every save makes a reference
of its own.  *The master key* (`MasterKeyAssumption`): a key an operation goes on
with is the stored one, or one it will store or be refused, on each backend
(`KeyInv`).  *Migrations* (`MigrationAssumption`): the file is at one version, the
open transaction belongs to the launch that migrates and is as far as that is,
and what has still to be applied is due at the next one (`MigrationInv`).
*Groups* (`GroupAssumption`): what a command is about to write into a row agrees
with the groups, unless it is one of the stale writes (`WritersAgree`).  *SQL files*
(`SqlFileAssumption`): a document that is being saved is alone in the section the
mutex of the grants protects, so no other save comes between its last look at
the file and the move (`FilesInv`).  *Drafts* (`WorkspaceAssumption`): the draft
saved last is the latest until the table is pruned, if the clock was not set back
(`SavedIsLatest`), and the limits hold unless pruning is due or was cut short
(`WithinLimits`).  The composition follows, since no part moves another
(`EachPartIsItself`).

**`ServicesProofs`** is about the four parts of MCServices.  *Exports*
(`ExportAssumption`): chunks are neither lost nor counted twice (`ChunksAddUp`),
the destination is what it was, or a whole export (`TargetIsOwned`), a worker that
may run has its lease and leases of one session are apart (`WorkersAreLeased`,
`LeasesAreApart`), and where a query broke the task has an outcome that says so
(`BreaksAreTold`).  *The driver library* (`JarAssumption`): how whole a set is at
each stage (`SetsAreWhole`), that a deletion has in hand what was listed, and that
a report that denies the publication is final.  *Tunnels* (`AttemptsAssumption`,
`ListenerAssumption`): who listens on a port reserved it or forwards it, and what
runs at each stage of a call is the call's own.  *Closing*: that the cleanup has
one owner is stated without counting.

**`CsvProofs`** begins with lemmas on sequences and folds that InputsProofs needs as
well.  Its three theorems (`CsvAssumption`) hold for every text, whatever its length.

*A preview agrees with the import* (`PreviewAgreesWithImport`):

* The rows read are cells made of characters (`ReadsRows`), and a record that was cut
  off by a line end parses into at least one row (`ParsesIntoRows`), so that a first row
  is a header.
* The columns an import offers are distinct and writable (`ResolvesWell`): those found
  by a header since no two headers match one column, those a mapping names since it
  names each once.  Kept positions are counted (`AmongCounts`).
* `PreviewIs` and `ImportIs` say what each makes of the rows, and `RowsAgree` compares
  them.  A mapping may name two columns that differ only in case, a header may not: the
  first statement of the property said that of both, and the proof did not go through.

*The reader agrees with the parser* (`ReaderAgreesWithParser`).  A parse is followed
one character at a time: `ParseStep` on states `Amid(…)`, with a lemma for each kind of
character (`StepPlain` … `StepFails`), and `UpTo`, what a parse has made of a text
that goes on with a given character; the cutting likewise (`Taken`).  The inductive
invariant is `SideBySide`, over the texts that grow by one: as long as no record has
failed, the parse of the whole text is where the parse of the record being cut is,
with the rows of the finished records before it, and the parity of the quotes that
the reader counts says whether the parser is between quotes (`InShape`).  It needs
what comes next, since a quote before a quote does not end a cell and a line feed
after a carriage return ends no row; and once a record has failed, the whole has.
`ReaderAgrees` is what is left of it at the end of the text, for any delimiter.

*What is exported is imported again* (`RoundTrip`).  `Leads` says where a piece of text
takes a parse whatever came before; pieces compose (`LeadsOn`).  So a doubled cell,
a plain one, a row and a line break each lead where they should (`DoubledLeads`,
`PlainLeads`, `CellLeads`, `RowLeads`, `BreakLeads`), and that the text is what these
rows make (`IsWritten`) is the inductive invariant of an export: at its end the parser
stands at the end of the last row, with the rows before it as they were, and has
begun that row unless it is one empty cell.  `ReaderAgrees` carries this to the
reader.

**`InputsProofs`** is about the parts of MCInputs, but for SQL text.

*Imports* (`ImportAssumption`), for every number of rows and batch size and for every
number of edits, each of which may leave any number of rows of any width: a row is
in the batch, inserted or failed, and only there (`RowsHaveOnePlace`); each row that
was read from the contents that were checked is in one of these places, or was
reported as one of another width, and without an edit the second pass ends where
the first one did (`ShapeIsKnown`); what the import will answer is decided where it
leaves its transaction (`OutcomeIsDecided`), which until then holds what was
inserted (`TransactionHoldsRows`); and contents are never older than the stamp the
import compares (`FileIsWatched`).

*Previews* (`PreviewAssumption`): previews and cancellations are numbered, and what
is displayed has been answered (`PreviewsAreNumbered`); `PreviewsAreCurrent` is
inductive with that.  Since a start and a clear raise the generation, an answer
that bears it is the one waited for.

*References* (`ReferencesAssumption`), for any number of connections, definitions,
installations and commands: `EditsLeaveConnectionsAlone` needs that what the check
of a command of the main thread found still holds when it writes
(`CheckStillHolds`) of every connection that was not written in between.  It
survives because whatever else can move meanwhile adds definitions and
installations without changing those there are, but for the definition derived
for the connection being bound.

*Targets* (`TargetAssumption`), for any number of files and commands: what a command
that only opens has in hand was there when it looked (`OpensWhatItFound`).

*Forms* (`FormAssumption`, `RowAssumption`), whatever their values are: what a test and a
connect make of a form is compared case by case, and a session that is kept
through an edit was opened with what the row now says (`SessionIsOfRow`).

*URLs and hosts*, for texts of every length.  A host is trimmed and taken apart
at its only colon; putting the pieces together gives the text again.  For URLs
the reader is shown to undo the writer:
* the scan of the text, a fold, is a function from places to states (`Scans`), and
  is followed through the body of each property, outside braces, inside them and
  between two symbols of a doubled brace, so that the text splits into the bodies
  that were written (`SplitsIntoBodies`);
* a value decoded is the value meant (`CredentialsAsMeant`), what is no credential
  stays in its order (`OthersStay`), and joining undoes the split (`JoinsAgain`);
* from these, what cleaning makes of any form is computed (`CleaningIs`), and each
  promise of `CredentialsLeaveTheUrl` read off, that of cleaning twice by computing
  it again for what was left.

The induction over lengths is done by hand, over the places of one text or by
appending one pair (`FromTheLeft`, `GrowingSequences`), from the well-foundedness of the
natural numbers.

**What stays with TLC.**

* Liveness (`EveryCommandIsAnswered`, `EveryCallIsAnswered`, `EveryTaskEnds`): out of
  the prover's reach.
* `ScriptsAreUnderstood`: what is said of SQL is about scripts of the forms and
  lengths that `Scripts` names, with exemptions that were found for these, and is
  not claimed of every text.
* The four disagreements: a counterexample is their proof.

## 6. What is not modelled

Parts of modelled components are listed with the component in `PROJECT.json`.  In
general:

* I/O against databases: catalogue queries and value conversion of the native
  drivers.  What a driver may answer is a nondeterministic choice.
* Databases, ssh, DPAPI, the Keychain and the Secret Service, SQLite's locks and
  what the webview and its user decide are modelled from how the code uses them
  (`external` in the map).  Of the Java bridge, transactions and CANCEL are
  translated and the rest left out.
* Marking a console as failed takes the session table's lock, which the export's
  step `PublishPart` assumes to be given back.
* An imported driver configuration brings one definition, one installation and
  one connection on both; several of each, imported products and groups, and
  connections of the older form, bound as in `BindLegacy` and `BindOverriding` but in
  the import's transaction, are left out.
* `ShutdownAll` does not model that it waits for the drivers'
  `cancel_all_queries` while the table is locked.  The serial gate's queue order
  is left open.
* In the metadata modules an attempt finishes only after it has cleared the
  caches of its source: an attempt installed under a later one's mark
  (disagreement 1) is left to ConnectCommands.  Storing a result and dropping
  its operation are one step, and a load whose caller goes away in the middle is
  not modelled.
* Which objects an index walk finds, progress numbers, wording, log files,
  labels and colours, status revisions.
* Of the frontend, stores that mirror the backend and presentation; the build
  and release scripts.

Three hazards have no property.  A console session opened with a configuration
read before an edit, and DDL inside a manual transaction against the metadata
caches, need two of the larger modules composed (ConnectCommands with
ConsoleCommands, ConsoleCommands with MetadataCache), whose product is beyond
an exhaustive check with the bounds above.  A close request whose dialog is never
answered or whose page was loaded again stays in flight (`commands/lifecycle.rs:16`):
nothing in the code bounds that, so nothing can be promised.

Of two more the models have what happens and the properties stop where the code
does: the second pass of an import does not compare the rows after its last look
with those it counted (`commands/export.rs:1688`), and the error of its rollback is
ignored, so that the transaction may stay open (`commands/export.rs:1432`).

## 7. Order of the work and what is left

The order was: the session table and its theorems; the commands that change it;
metadata cache and index with their tasks; queries, streams and the JDBC
sidecar; the services that run beside; what is kept on disk; what users hand
in; then the proofs, in the same order.  What is left, in this order:

1. The two compositions named above, with the database's schema and the saved
   version reduced to two values and one command of each kind.
2. The DELIMITER directive in SqlAnalysis, single jars attached to a driver
   definition, the SQL text of table exports.
