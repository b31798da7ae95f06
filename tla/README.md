# Irodori Table: a TLA+ development

Irodori Table is a desktop database client. A Rust backend (`apps/desktop/src-tauri/src`) holds the
connections, runs statements, keeps results, metadata and extensions; a TypeScript window
(`apps/desktop/src`) calls it through Tauri commands and receives rows over channels.
This directory holds TLA+ modules for the parts where interleavings, failures, limits
and rules that are written down twice decide whether the program is right, TLC
configurations that check them on small instances, and TLAPS proofs of what matters most.

Paths below are relative to `apps/desktop/src-tauri/src` when they start with `db/` or
`extensions/`, and to `apps/desktop/src` otherwise, unless they start with `docs/`.
`PROJECT.json` gives, for every definition, the lines of code it stands for.

## 1. Inventory

### Backend

| Component | State | Operations | What is hard |
|---|---|---|---|
| Connection registry (`db/mod.rs`, `db/state.rs`) | `conns`, `read_only_connections`, `tunnels`, each behind its own async mutex | connect, disconnect, every lookup, `apply_edits` | several locks taken one after another, awaits in between; reconnect under the same id |
| Held session (`db/session.rs`) | one pooled connection per open database connection, behind a mutex | begin, finish, drop, close | runs dropped mid-statement by a cancel or a timeout; close racing a run; a lost connection |
| Metadata cache (`db/state.rs`, `db/metadata_manager.rs`) | `metadata_cache`, `metadata_generation`, refresh jobs | refresh, list objects, autocomplete, invalidate | stale snapshots stored after an invalidation; one generation for all connections |
| Result store (`db/spill.rs`) | per result: resident rows, a buffer, a temporary SQLite file | append, flush, finalize, window, close | limits and boundaries; a failed flush |
| Result stream (`db/runner.rs`, `db/stream.rs`, `db/commands.rs`) | two bounded channels, a store, a cancellation token | fetch, forward the page, append, answer | three futures at once, back-pressure, cancel, a window that goes |
| Result registry (`db/runner.rs`) | `results`, at most 16 stores with numbers | register, evict, page, release, disconnect | eviction and disconnect against a reader, or a run about to register |
| Extension store (`extensions/store.rs`) | the registry file, version directories, staging directories, what to delete at the next launch | install, update, batch update, uninstall, enable, disable, the cleanup of a launch | exits and failures between the steps; libraries in use; operations that overlap |
| Engines (`db/postgres.rs` and its siblings), transport | driver pools, sockets | run, stream, edit, metadata, close | driver-specific; seen here only as outcomes |
| Extension processes, connector host, AI, git, pty, indexing, secrets, crash reports, jobs | small records, files, child processes | I/O | little shared state |

### Window

| Component | State | Operations | What is hard |
|---|---|---|---|
| Query runner (`app/controllers/use-query-runner.ts`) | the lifecycle machine, the current run, the result shown, its handle in the backend | run, cancel, receive, restore from the history | a second run before the first ends; late answers and paints |
| Result paging (`features/results/result-window.ts`) | resident pages, pending requests | render, scroll, ingest, release | a page that arrives late, fails, or was streamed in part |
| Connections (`app/controllers/use-connection-actions.ts`) | profiles, the form, the rail, objects of each connection | add, save, connect, disconnect, delete, import, refresh | handlers that go on, after an await, with what was rendered before it |
| Editor tabs (`app/editor-tabs.ts`, `app/controllers/use-editor-groups.ts`) | a workspace of tabs per connection, in memory and in local storage | open, close, reopen, switch, save, exit | any order of them; exit or crash before a debounced save |
| Grid editing (`app/controllers/use-result-grid-editing.ts`) | staged edits by position, the undo stack | edit, undo, discard, save | the rows at the positions change meanwhile; the grid outlives a failed run, its tab and its connection |
| Result view (`features/results/result-view-model.ts`) | filters, sort rules, the selection | lay out, window, select, paste | positions of the view against positions of the data |
| Git panel (`features/git/git-store.ts`) | the path, the last status, selections, diffs | refresh, select, stage, discard, commit, and so on | answers of the repository before |
| Git graph (`features/git/git-graph.ts`) | the open lanes | draw a row | merges, roots, filtered commits |
| Keybindings (`core/keybindings.ts`, `app/controllers/use-keybinding-manager.ts`) | overrides, the pending sequence, a timer, a recording | press, record, reset, Vim plan, import | two paths of one key; timers against keys |
| SQL text (`sql/statements.ts`, `sql/read-only.ts`, `sql/linter.ts`, `sql/completion.ts`, `db/query.rs`) | none | split, guard, lint, find the caret's statement | six scanners, in two languages, of one text |
| SQL names (`sql/completion.ts`, `sql/metadata-inspection.ts`) | none | suggest relations, joins, columns; explain a name | two readers of one statement's relations and aliases |
| Settings, themes, translations, diagrams, charts, the AI panel | local stores | pure updates | little |

### How they interact

* A command looks its connection up in the registry, clones the handle and lets
  the lock go (`db/runner.rs` 68-75); connect and disconnect change the registry,
  the read-only set and the tunnels one lock at a time (`db/mod.rs` 156-320).
* The user's statements queue on the held session of the handle; metadata, grid
  edits and cancels go to the other sessions of its pool.
* A statement that may have changed the schema bumps the generation and empties
  the metadata cache of its connection, then starts a background refresh
  (`db/state.rs` 235-251).
* A run whose result is kept sends its rows through a channel to a consumer,
  which sends the first page through another to the window and puts every row
  in a store; the finished store goes to the registry, which the window pages
  from by handle. A disconnect releases the results of its connection.
* The window's query runner starts runs, shows their first page, keeps the handle of
  the result shown and releases the one before; the grid pages from it, and a run
  that was not the user's save resets the staged edits.
* Switching the connection switches the editor's workspace; connecting and the end
  of a run refresh the objects shown for a connection.
* The settings tab starts operations of the extension store; a connection that uses an
  extension keeps its library mapped, and so, on some systems, its directory.

### What makes each component correct

| Component | Properties |
|---|---|
| Connection registry | no open connection is lost; flag and tunnel agree with the connection once commands are done with it; a writer barred from a connection never writes through it; no circular wait |
| Held session | no session is reused mid-response; a late cancel hits only its own target; the user's transaction stays in the held session; queued runs are served |
| Metadata cache | no snapshot older than an acknowledged schema change; a caller sees its own change; a change is followed by a refresh |
| Result store | pages are exact across memory and file; memory is bounded; the cut is where the configuration says; the file goes with the store |
| Result stream | a run reported as done is complete and its page was shown first, in order; what is held is bounded; every run is answered |
| Result registry | what can be found is open; what is open can be found or will be closed; at most `MAX_RETAINED_RESULTS`; a disconnect leaves only results of runs still under way |
| Extension store | an entry has its files and files have an entry, whatever step is interrupted; staging directories are cleared |
| Query runner, paging | busy means in flight; a cancel and a paint are for a live run; the result shown is the one paged and no handle leaks; cells belong to their result and row; paging comes to rest |
| Connections (window) | the rail shows what is open; objects are those of the schema; loading ends |
| Editor, edits, view, graph | no text is hidden or lost; an edit stays with its row, and a save names it; undo leads back; the windowed view shows what the full one does; lanes lead to parents |
| Keybindings, git panel | a key has one effect and runs its command; a diff is of its selection; at rest the panel shows the repository |
| SQL text, SQL names | scanners agree on where statements and writes are; what completion inserts stands for what it suggested, for both readers |

## 2. Modules

| Module | Models | Builds on |
|---|---|---|
| `SchemaCache` | what the metadata cache promises, abstractly | |
| `MetadataRefresh` | the generation-gated refreshes, the callers, the statements | implements `SchemaCache` |
| `Session` | the held session against the driver's pool and the server | |
| `Connections` | connect, disconnect and writers over the three maps | |
| `ResultStore` | one store: operators for its methods, and a specification of the store by itself | |
| `PagedResult` | what the window is promised about the first page, abstractly | |
| `ResultStream` | fetch, consumer, forwarding loop and cancel around one store | extends `ResultStore`, implements `PagedResult` |
| `ResultRegistry` | runs that register, commands that page, release and disconnect | stores are opaque |
| `ExtensionStore` | operations on extensions, the tab that starts them, exits and launches | |
| `QueryRuns` | the window's side of a run | |
| `ResultPaging` | the pages of the result shown | |
| `WindowConnections` | profiles, form, rail and objects | |
| `Positions` | what `sort` does to numbers and `filter` to a sequence, by rank | used by `ResultStore`, `ResultPaging`, `WindowConnections`, `ResultView` and `GitGraph` |
| `Keybindings` | sequences, recording, the two paths of a key | |
| `GitPanel` | the panel against a repository that answers late | |
| `EditorWorkspaces` | tabs, workspaces, the save, exit and crash | |
| `GridEdits` | staging, undo and saving over results that change | |
| `ResultView` | the rows shown, the selection, a paste | |
| `GitGraph` | the lanes of the commit graph | |
| `SqlText` | six scanners of one document | |
| `SqlNames` | completion and the hover card over one statement | |
| `MC*` | constant values, symmetry sets, and the sums of section 3 | the above |
| `*Proofs` | theorems; `ResultsProofs` is about `ResultStore`, `ResultStream` and `ResultRegistry`, `WindowCallsProofs` about `QueryRuns`, `Keybindings`, `GitPanel`, `WindowConnections` and `ResultPaging`, `WindowDataProofs` about `GridEdits`, `EditorWorkspaces`, `ResultView` and `GitGraph`, `PositionsProofs` about `Positions` | the modules they extend |

Names follow the code where TLA+ allows it. In the backend's modules one action is one
stretch of the code between two points at which another task can run: an
`await`, or the taking or releasing of a lock. In the window's modules, where one
thread runs everything, one action is a handler up to its first `await`, what follows
an answer, or an effect; what a handler's closure remembers is in the record of its call.

**MetadataRefresh.** A schema is its version number. `tasks` are slots for
background refreshes, refresh jobs and `list_objects` calls; `runs` for
statements. `CloneForRefresh`, `FetchMetadata`, `CheckGeneration`,
`LockAndCheck` and `Upsert` are the steps of a refresh; `BumpGeneration`,
`InvalidateAfterRun` and `RefreshAfterRun` those after a statement. `floor` is
history: the newest change whose run has emptied the cache. The age limit of a
snapshot is a free choice (`SnapshotFresh`, `SnapshotStale`).

**Session.** `held` and `lock` are the slot and its mutex. `place` says who has
each server session; the pool's operations (`CheckOut`, `LeavePool`,
`ReturnToPool`, `EvictDead`) are external and modelled from how `session.rs`
relies on them: bounded, tested before use, closed only when all is back. A
dropped guard discards its session and leaves a cancel behind in `cancels`.

**Connections.** `conns`, `readOnly` and `tunnels` are the three maps, `profile`
and `phase` describe each opened handle, `pc` and its companions the commands.
`Remove` keeps the registry locked until `CloseRemoved`, because the guard of the
`if let` lives to the end of its block. Commands of one id overlap freely; `crossed` is
history: the ids whose registry entry was last changed while another command of the id was
between its change of the registry and its last change of a map. `CloseSession` is
`close()` up to the closing of the pool, which may leave the handle in `hung`: a queued run
has taken a session that comes back only when it is dropped or lost, so `CloseOld` and
`CloseRemoved` may wait forever. `CloseEnds` says whether `close()` ends a connection
others still hold (the sqlx engines); `Watched` names the commands whose end is asked for.

**ResultStore.** Rows are numbered, so that "the right row at the right place"
can be said. `FlushFails` distinguishes the three places a flush can fail, which
leave three different stores: no file, a file whose `CREATE TABLE` failed and which
stays, or a file without the rows of the buffer. `Discard` is `close` and `drop`; the removal
of the file may fail, which the code passes over. `given` counts what `append` was handed, so that a
cut can be compared with what is said of it.

**ResultStream.** The store is the one of `ResultStore`, driven by the consumer.
A channel event is a sequence of rows and the header is the empty sequence; an
empty batch is never sent. A dropped fetch (`FetchFails`, `FetchCancelled`)
loses its unsent batch; its sender is dropped only when `FetchReturns`.

**ResultRegistry.** A store stands for the run that fills it too. The number is
drawn (`Number`) before the registry is locked (`Register`,
`RegisterAndEvict`), so they need not come in the same order. Stores are closed
by whoever took them out, under the store's own mutex.

**ExtensionStore.** `registry`, `pending_removal`, `dirs` and `staging` are on disk and
survive `Exit`; `op` says of every slot where its operation is, `install_lock` who
installs. `TaskNext` is the next step of one operation: each removal, rename and
registry write is a step of its own and may fail. `shown`, `refreshing` and
`operationId` are the tab's. `broken` and `littered` are history: the extensions whose
installed version was about to be removed, and those with files nobody names, when
an operation did not run alone, failed, or was cut short.

**QueryRuns.** `machine` is the lifecycle machine, `runningId` and `spill` the two refs,
`retained` the results the backend keeps, `paints` the publishes waiting for a frame.
`ExecuteQuery` is the handler to its await, `Answers`, `StreamEnds` and `Fails` what
follows it with its `finally`. `overlapped` is history.

**ResultPaging.** `Render` is the effect that asks for the missing pages and touches those
in sight; `PageArrives` and `FetchFails` are the answers, in the closure of the
result they were asked for; `FinalizeSpillRun` shows a new result, whose streamed
first part is already there. A cell is its result and its row.

**WindowConnections.** Each handler is its part before the await and its part after
(`Connect`, `BackendConnects`, `Connected`, `ConnectFails`; `Disconnect`, `Disconnected`;
`DeleteProfiles`, `TargetClosed`, `Deleted`), with the closure's values in the call's record.
`AutoRefresh` is the effect that asks for missing objects; `RefreshEnds` drops answers
that were overtaken.

**Keybindings.** A key is pressed at a place: in the editor, the grid, an edited cell of it, another field,
elsewhere, or on no element, where the scope stays what it was. The clipboard chords are left to an edited cell.
`KeyRecorded` and `KeyResolved` are the manager's listener; `AppClaims` is what the editor
asks before it. `last` keeps what the last press did on either path, so that a key
with two effects, or none, can be seen.

**GitPanel.** A call keeps the path it was sent with and is answered later, with what
git read in between; `Answer` is what each handler does with it. A repository is its
changed files and the number of its commits.

**EditorWorkspaces.** `workspaces` are React's, `stored` the local storage's;
`seed` and `adopters` follow the first-run tabs. Every operation on a workspace is an operator
on groups (`CloseTab`, `CloseOtherTabs`, `ReopenTab`, ...), applied to the workspace on
screen and followed by the arming of the timer. `Exit` saves, `Crash` does not, and both are
followed by a launch that reads the storage back.

**GridEdits.** The result on screen is a list of keyed rows; `draft` names rows by
position. The grid is one for all tabs and connections: `lastRunSql` and `tableView` change when a run starts,
the rows when it answers, so a run that fails, or a tab opened on a closed connection, leaves rows of another
statement under them; `here` is the active connection, and a switch leaves everything else as it is.
`CanEdit` is `canEditActiveResult`: it looks at the statement, the table and the columns, whatever
the rows are of. Several runs and saves may be under way. `Execute` is `executeQuery` up to its call,
`RowsShown` an answer or a part of one, `RestoreHistoryResult` rows of an earlier run. `CommitEdits` fixes keys,
values and connection at the time of the click, `AnswerDialog`, `Applied` and `ApplyFails` are what follows, the re-run
included. `crossed` is history: something was staged while a run was in flight.

**ResultView.** The rows are laid out one by one, or, for a large result without filters and sort
rules, computed by `WindowedRowAt` from a position, with the code's search over
deleted rows (`Windowed`: a threshold of rows, or one of cells); sorting and filtering are operators. A paste is compared with what is
shown after it.

**GitGraph.** One action draws a row and moves the lanes, or leaves a filtered commit out.

**SqlText.** A document grows by tokens of an alphabet. Each scanner is a function from a
position to the end of the element there, with its own idea of quotes, comments and
dollar quotes; statements, writes, warnings and the caret's statement are derived from it.
Completion sees the window of the document around the caret that `Scanned` gives
(`MaxScanChars`, 6000 in the code), which may begin inside a string or a comment.

**SqlNames.** A statement grows by phrases. `resolveRelationRefs` of completion and the
reader of the hover card are two operators over its tokens; accepting a suggestion
gives the statement that is read back.

## 3. Runs

Where models share no variable, one run checks several of them: its MC module adds a
variable `part` that never changes, a behaviour takes the steps of one part, and the
others stay in an initial state. Nothing is composed by this; it is a way of running several
small checks at once. Every run finishes within four minutes on two workers.

| Run | Parts and bounds | Shows |
|---|---|---|
| `backend_safety` | metadata: 1 connection, 2 tasks, 2 runs, 2 schema changes, any read may fail; extensions: 2 extensions with version 1 installed and 2 in the catalog, 2 slots, 2 operations, 2 events, libraries lock their files | `Fresh`, `ReadYourChange`, `ImplementsSchemaCache`; `ExtensionsAreSound` |
| `metadata_live` | 1 connection, 2 tasks, 1 run, reads of listings may fail | `MutationRefreshes` |
| `statements` | session: 2 runs, 1 pool user, 2 sessions, a close; text: documents of up to 6 characters over five alphabets, a completion window of 4; names: up to 4 of 12 phrases over 3 relations in 2 schemas | `OneStatementAtATime`, `CancelHitsItsTarget`, `TransactionIsHeld`, `RunsAreServed`; `TextIsReadAlike`; `NamesAreReadAlike` |
| `connections` | 1 id with 3 commands and 1 handle, or 2 commands and 2 handles; commands overlap freely, `close()` may hang | `NothingLeaks`, `MapsAgree`, `BarredWritersNeverWrite`, `CommandsEnd` |
| `results` | store: budgets 1-3, ceilings 1-6, flush at 2; stream: pages of 1 and 3 rows, ceilings 13 and 5, up to 14 rows, batches of 2, channels of 1; registry: 2 connections, 2 stores, 2 commands, 1 retained | `WindowsAreExact`, `StoreIsSound`; `StreamIsSound`, `HeldRowsAreBounded`, `KeepsPagePromise`, `RunIsAnswered`; `RegistryIsSound`, `TakenStoresClose` |
| `window_data` | editor: 1 profile and no connection, 3 SQL tabs, 1 table tab, 3 edits, 2 launches; edits: 2 connections, 2 keys, 2 changes, 2 runs and saves under way, 1 of them a save, 1 undo; view: 4 rows of 2 columns, windowed from 4 rows or 7 cells, 4 settings of filters and sort rules, 2 steps; graph: 4 commits, 1 beyond the log, 2 parents | `EditorIsSound`, `SavedWhenIdle`, `ExitKeepsEveryWorkspace`, `BackgroundTextIsKept`; `EditsAreSound`, `UndoLeadsBack`; `ViewIsSound`, `PasteFillsWhatIsShown`; `GraphIsSound` |
| `window_calls` | runs: 3, of which 2 in flight; paging: 9 rows, pages of 2, 2 of them resident, 4 scrolls, 2 results; connections: 3 ids, 3 commands, 2 steps of the form; keys: 3 commands, 4 chords, 3 presses; git: 2 repositories, 1 file, 2 steps, 3 commits | `RunsAreSound`; `PagingIsSound`, `PagingComesToRest`; `ConnectionsAreSound`, `ObjectsArrive`; `KeysAreSound`, `KeysRunTheirCommand`; `PanelIsSound` |
| `session_close`, `connections_readonly`, `paging_stream`, `git_discard`, `extensions_launch` | the smallest instances that show it | a statement of the repository that does not hold: section 4 |

A property that ends in `Sound`, `Alike`, `Agree` or `Leaks` is a conjunction of named parts,
each with a comment of its own:

| Property | Its parts |
|---|---|
| `NothingLeaks` | `NoHandleLeaks`, `NoForwarderLeaks` |
| `MapsAgree` | `FlagFollowsConnection`, `TunnelFollowsConnection` |
| `StoreIsSound` | `RowsInPlace`, `MemoryIsBounded`, `CutIsReported`, `FileGoesWithStore` |
| `StreamIsSound` | `StreamTypeOK`, `NothingIsRefused`, `DoneMeansComplete` |
| `RegistryIsSound` | `RetainedAreOpen`, `NoStoreLeaks`, `RetainedAreBounded`, `OnlyLateResultsRemain` |
| `ExtensionsAreSound` | `FilesFollowEntries`, `StagingIsCleared` |
| `EditorIsSound` | `EditorTypeOK`, `AnOpenTabIsActive`, `NoSqlIsParked`, `SeedIsTakenOnce` |
| `EditsAreSound` | `GridTypeOK`, `DeletedRowsHaveNoEdits`, `EditsStayWithTheirRows`, `SavesNameTheirRows` |
| `ViewIsSound` | `ViewTypeOK`, `WindowedShowsTheSame`, `EditedMeansChanged` |
| `GraphIsSound` | `LanesLeadToParents`, `EdgesAreDrawn` |
| `RunsAreSound` | `RunTypeOK`, `BusyMeansInFlight`, `CancelsAreForLiveRuns`, `PaintsAreOfLiveRuns`, `OneAtATimeLeaksNothing`, `OneAtATimePagesWhatItShows` |
| `PagingIsSound` | `PagingTypeOK`, `RowsAreTheirOwn`, `HolesAreInOnePage`, `WhatIsInSightIsResident` |
| `ConnectionsAreSound` | `WindowTypeOK`, `RailIsWhatIsOpen`, `AddReplacesNoProfile`, `LoadingIsRefreshing`, `ObjectsAreUpToDate` |
| `KeysAreSound` | `KeyTypeOK`, `TimersGuard`, `OneEffectPerKey` |
| `PanelIsSound` | `PanelTypeOK`, `SelectionIsListed`, `CommitDiffIsOfItsSelection`, `AtRestItIsUpToDate` |
| `TextIsReadAlike` | `SplitsAgree`, `LinterSplitsAlike`, `GuardsAgree`, `CaretRunsOneStatement`, `WarningsAreLocal`, `SilentWhereQuoted` |
| `NamesAreReadAlike` | `RelationsAreFound`, `JoinsMeanTheirColumns`, `ColumnsMeanThemselves`, `ReadersAgree` |

The types of `MetadataRefresh`, `Session` and `Connections` are proved and not run.

Why the bounds are enough. Two tasks and two runs give every order of "read the
catalog, change the schema, invalidate, store" that involves two writers of the
cache. Two sessions are the held one and the pool's other; a lost one is never
reused, so one remains. Three commands on one id are every
pair of connect, disconnect and write with a third one in the way; with two handles one connection replaces
another. A second id adds only a wait for the registry's lock, which a command of the same id adds as well. The sizes of the store
put budget, ceiling and flush on either side of each other; the stream has more
batches than the channels hold, so every sender waits; one retained result and two
stores make every registration after the first evict. Two slots and two operations are
every pair of operations on extensions, a third one shows only what a launch
deletes. Two runs in flight and a third are a run before, beside and after another; two resident
pages and four scrolls evict a page that is asked for again. Three presses are a
sequence and the key after it. Three edits and two launches close, reopen and lose a
tab on either side of a restart; the two keys of the grid are a row that is edited and one that
takes its place, the two connections one that has the table's rows and one that has not, and two calls under way
a save or a run beside another run. The alphabets have what only some scanners read, each with a delimiter, in
documents long enough for a region that is opened, closed and followed by a statement, and longer than the
window of completion, so that it begins anywhere in them.
For the modules with proofs section 5 says which results hold beyond the bounds.

Symmetry is used only in runs without liveness properties, and only over
sets whose members nothing distinguishes. Deadlock is checked in
`metadata_live`. In the others the system may really stop: a store or a run
is over, a connection is closed or its `close()` hangs, the user does nothing, or the bound on what the user does is used up.

### Fairness

* `MetadataRefresh`: strong fairness of each task and of what follows each run.
  They are futures the runtime drives, and tokio's mutexes are fair queues.
  Statements, foreign changes and disconnects are not fair: nobody must make them.
* `Session`: the steps of runs, of the pool and of close, for the same reason;
  the server answers or the session is lost; a run is not obliged to be dropped.
* `Connections`: strong fairness of each command under way. A statement ends or
  times out; a user who sets no time limit and a server that never answers are
  outside this assumption. It does not make `close()` end: a handle in `hung` stays there
  unless a statement on it is dropped, and `CommandsEnd` says that a command ends or waits for such a close.
* `ResultStream`: weak fairness of "some future of the run goes on". Failure of
  the statement, cancel and a window that goes are not fair.
* `ResultRegistry`: strong fairness of closing an evicted store and of each
  command under way, as the mutex of a store serves its waiters in turn.
* `ResultPaging`: weak fairness of the render that React owes a changed state, and
  of the answers. Scrolling and new results are the user's.
* `WindowConnections`: weak fairness of the effect that refreshes, and of the answers of
  refreshes, connects and disconnects. `BackendConnects` is the backend's and not
  fair: a connect may also fail.

## 4. Findings

Five runs show a statement of the repository that its code does not keep.

* **The read-only flag comes after the connection** (`connections_readonly`,
  `db/mod.rs` 197-208). A write that arrives between the registration of a
  read-only connection and the setting of its flag is carried out; the window is
  wide when an old connection has to be closed in between.
* **`close()` may never return** (`session_close`, `db/session.rs` 75): a queued
  run can take a session out between the release of the held one and the
  closing of the pool.
* **A page that was streamed in part stays in part** (`paging_stream`,
  `features/results/result-window.ts` 136): a page of which one row is there counts as present.
* **A discard goes to another repository than the one listed** (`git_discard`,
  `features/git/git-store.ts` 457), when a refresh of the repository before is answered
  after the path was changed.
* **A launch deletes files that are installed** (`extensions_launch`,
  `extensions/store.rs` 631), when a superseded version was installed again.

What follows was met while modelling. It is in the models where it concerns
their state, the properties except it by name (`crossed` of `Connections`, of `WindowConnections` and
of `GridEdits`, `overlapped`, `raced`, `broken`, `littered`, `late`, `dropped`, a condition on the text), and no
run is about it.

*Connections and metadata (backend).*
A refresh is thrown away for another connection's statement, since one generation
serves all (`db/state.rs` 244). A disconnect that overlaps a connect of its id clears
the flag and the tunnel of the new connection (`db/mod.rs` 303), which is then not read-only any more until
it is connected again; and it waits for the
running statement with the whole registry locked (297), forever where that `close()` hangs. A reconnect without a
tunnel leaves the tunnel of the connection before (210). `docs/connections.md`
143 says a `DELETE` typed in the editor is not stopped on a read-only connection, while
`ensure_connection_can_run_sql` stops it. A run that fails after it changed the
schema leaves the metadata as it was (`db/runner.rs` 345).

*Results (backend).*
A result registered after the disconnect of its connection stays (`db/runner.rs` 478).
The number that eviction goes by is drawn before the registry is locked (498), so a
later result may be evicted first. A cancel that comes before the run has registered its
token is answered `false` and forgotten (311), one that races the end of a run `true` though
the run ends by itself (343). When the window's channel fails, the command reports that,
whatever became of its statement (`db/commands.rs` 452). The comment at `db/spill.rs` 11-13 says that the file is removed when the store is closed or dropped; one whose
`CREATE TABLE` failed (213) is never given to the store and stays, and a removal that fails is passed over (293).

*Extension store.*
Installing the very version that is installed removes its files first (`extensions/store.rs`
402). Uninstall does not take `install_lock` (231). A failing second registry update of an
uninstall loses what was deferred. An update enables a disabled extension (433). The tab has
one `operationId`, which the first operation to end clears, so that "Any in-flight operation disables
the batch" (`features/settings/tabs/ExtensionsTab.tsx` 199-206) does not hold; and its refresh
may show a list that was read before an operation (403-415).

*Runs, paging and history (window).*
Of two runs that overlap, the older one's answer replaces the newer one's, and a handle
is lost (`app/controllers/use-query-runner.ts` 506); the end of either clears
`runningQueryIdRef` (650). A full local storage makes the append to the history throw
(`query-history-store.ts` 404): a run that succeeded is reported as failed (462), or the
window stays busy (576). Loading an item of the history of another connection writes its SQL into the
workspace that was on screen (`use-history-actions.ts` 66).

*Connections (window).*
A deleted profile's id may stay the active one and be used again
(`use-connection-actions.ts` 300). Overlapping disconnects compute the rail from what was
rendered before (537). A failed seeding of the sample leaves its connection open and off the rail (429).
A snapshot of the workspace that arrives late replaces the active connection
(`use-workbench-connections.ts` 120).

*Editor and grid (window).*
The first-run tabs are pending again at every launch until a workspace takes them
(`use-editor-groups.ts` 182), and `isBlankWorkspace` is never true of a workspace, whose
second group always has an open tab (88). The save's debounce is cleared and armed again at every
change (230-245), so a crash loses whatever was typed since the last pause of 400 ms, however long ago that was.
After a failed run, a switch of the connection, or the opening of a table on a connection that is not open, the
rows of the statement before stay in the grid. Where the new statement is of the new table and the old columns have its key,
`canEditActiveResult` holds, and the old rows are edited and saved into the table and the connection of then
(`use-query-runner.ts` 299-310, 620-642). `edit.commit` has no guard, so a second save may start while one is
under way. A save re-runs the statement under the cursor, whichever it is
(`use-result-grid-editing.ts` 690), and drops what was staged while it was awaited (688). A run that asks for parameters is
made on the connection of the render before they were asked for. What is staged while a run is in flight stays
staged at the same positions of the rows it brings.
Dropping a new row changes the keys of those after it (323). Without a selection the
keys act on the first row (456). A result that was offloaded is shown without its staged edits
(`use-result-grid-model.ts` 278).

*Keybindings and git panel (window).*
A recorded sequence such as `g Mod+K` takes the `g` from typing (`core/keybindings.ts` 481). A command whose
whole sequence begins another's is never run, and no conflict is reported. An Escape
that closes an overlay may also be acted on by the editor (`use-keybinding-manager.ts` 275).
`commitDiffLoading` stays set when the path changes under a diff (`git-store.ts` 186); a
late diff of a file is shown for another (340); the message of a commit is cleared though it
was changed meanwhile (354).

*SQL text.*
With the caret right before a bare `;`, or between two, a run sends `;` (`sql/statements.ts` 123-126), although the
comments at 92-100 and 128 say that empty statements are walked back over; `CaretRunsOneStatement` excepts that caret
(`BeforeBareCut`) and asks there only that no two statements are run. Completion sees 6000
characters around the caret (`sql/completion.ts` 58, 247-260). When they begin inside a string or a comment it takes
outside for inside and is silent, or suggests inside: `SilentWhereQuoted` holds where they do not. The names are read from
documents shorter than that. The linter never resets its parenthesis depth between
statements. The linter and the write guard take a backslash for an escape, the delimiters and the
backend do not; tags of dollar quotes that begin with a digit, and dollar quotes that never end,
are cut differently in the backend; a `$` is a part of a word for some; `\r` ends a
comment only for the backend's words.

*SQL names.*
The hover card ignores comma lists behind FROM and the default schema, and reads
`table`. Of two relations with one name it shows `s.t`'s column for `t.c`; an alias that is
also a relation's name misleads it. A comma behind a JOIN suggests relations that are then
not read. Where no relation is read, every column is offered by its bare name.

*AI panel (not modelled).*
Clearing the chat mid-stream does not cancel the request; a cancel before `register_chat`, or between the
check at `ai/chat.rs` 233 and the registration of the token, does nothing, although
`AiChatPanel.tsx` 160 and `ai/chat.rs` 16-19 promise otherwise; Regenerate repeats the
user's message.

## 5. Proofs

Checked by TLAPS, for every value of the constants that satisfies the modules'
named assumptions: these say that a size is a natural number, that a "nobody" is not
somebody, that the rows of a result are equally long,
that a setting sorts by no column twice, and that the defaults of a configuration have the type the code gives them.

| Module | Theorems |
|---|---|
| `MetadataRefreshProofs` | `TypeCorrect`, `CacheIsFresh`, `CallersReadTheirChange`, `Refinement` (of `SchemaCache`) |
| `SessionProofs` | `TypeCorrect`, `StatementsDoNotOverlap`, `CancelsHitTheirTarget`, `TransactionsStayHeld` |
| `ConnectionsProofs` | `TypeCorrect`, `HandlesDoNotLeak`, `ForwardersDoNotLeak`, `NothingIsLeaked`, `FlagsFollowConnections`, `TunnelsFollowConnections`, `MapsStayInStep`, `BarredWritersStayOut` |
| `PositionsProofs` | no theorem of a specification: the lemmas about `Ascending` and `Picked`, folds over numbers and elements put among others, that the proofs of pages, of the graph and of the view cite |
| `ResultsProofs` | of a store: `TypeCorrect`, `RowsStayInPlace`, `PagesAreExact`, `MemoryStaysBounded`, `CutsAreReported`, `FilesGoWithStores`, `StoresAreSound`; of a stream: `StreamsStaySound`, `HeldRowsStayBounded`, `PagePromiseIsKept` (of `PagedResult`); of the registry: `RegistryTypeCorrect`, `RetainedStayOpen`, `StoresDoNotLeak`, `OnlyLateRunsRemain`, `RetainedStayBounded`, `RegistriesAreSound` |
| `ExtensionStoreProofs` | `ExtensionsStaySound` |
| `WindowCallsProofs` | `RunsStaySound`, `KeysStaySound`, `KeysAlwaysRunTheirCommand`, `PanelsStaySound`, `ConnectionsStaySound`, `PagingStaysSound` |
| `WindowDataProofs` | `EditsStaySound`, `UndoAlwaysLeadsBack`, `EditorsStaySound`, `IdleIsSaved`, `ExitsKeepWorkspaces`, `BackgroundTextStays`, `GraphsStaySound`, `ViewsStaySound`, `PastesFillWhatIsShown` |

Each proof has an inductive invariant, a lemma that it holds initially, a lemma that
every action keeps it, with a step per action, and the theorem, which combines them.
The arguments:

* *MetadataRefresh.* `Fresh` alone is not inductive: a task that has passed its
  generation check holds a snapshot that may be stored. `IInv` adds that a
  task whose generation is current read the catalog after every bump, and
  that an invalidation follows its bump, so the second check, made under the lock,
  refuses whatever the invalidation would miss.
* *Session.* A session is in one place at a time; what a dropped run leaves
  executing is only in sessions that were discarded; and a cancel only aims at those.
* *Connections.* A handle has one owner at a time, and a close that hangs is its owner's (`OwnerInv`, `PlaceInv`).
  Commands of an id overlap as they like. Of an id that is not in `crossed` at most one command is between
  its change of the registry and its last change of a map, and it finds the registry as it left it (`SerialInv`): a
  second one would have put the id in `crossed`, which the next command that changes the registry alone takes it out of.
  So the flag is right except between registering and flagging (`FlagInv`), the tunnel registered is
  that of the connection or of one before (`TunnelInv`), and the connection a
  writer is barred from is flagged for as long as a write can reach it (`BarredInv`). That nothing leaks needs no `crossed`.
  TLC has checked these invariants with three commands on one id and three handles, and with two ids and two
  handles, for both values of `CloseEnds`.
* *ResultStore.* A store has a file to remove exactly while it is open, so what is left when it is gone was lost by a failed
  `CREATE TABLE` or a failed removal; `given` and `total` part at the cap, where `truncated` is set. `RowsInPlace`: the rows accepted are memory, then file, then
  buffer, each a run of consecutive indexes that begins where the other ends.
  `FlushExtends` carries it over a flush. A page is taken from memory up to the boundary and from
  the file after it: the indexes of the file's rows that lie in the page are an interval, ascending
  they are its numbers one by one (`AscendingInterval`), so the two parts joined are the
  rows accepted (`PageIsExact`); once the file is gone a page is that or an error (`PagesAreExact`).
* *ResultStream.* Rows leave the fetch numbered without gaps, and what is under way is a
  chain: from the store's `total` through the event in hand and the channel to the unsent
  batch (`RowsInv`), and from what is shown through the window's channel to the
  event being forwarded (`PageInv`). `Linked` says that a sequence of events is a piece of
  that chain, `Follows` that a sequence of rows continues at an index. `PhaseInv`
  ties the consumer's state to the fetch's and `HeaderInv` keeps the header before the rows.
  A run that is done has an empty chain, so its store has every row (`DoneMeansComplete`), and nothing was
  refused because fetch and store cut at the same row. Every step that shows rows shows the next ones,
  which is a step of `PagedResult`; every other step is a stutter of it. No batch, event or message is
  longer than a batch (`SizesInv`), and the rows under way to the window are numbered without gaps up to an
  index within the page, which bounds `HeldRowsAreBounded` (`RowsOfShortEvents`, `RowsOfChain`).
* *ResultRegistry.* `PlaceInv`: a store is registered, or in flight, or in
  exactly the hands that took it; `LateInv` ties a result of a gone connection to
  a disconnect that has yet to release it, or to the history `late`.
* *ExtensionStore.* `EntryInv` and `LitterInv` say what a directory and an entry are while
  an operation is between two of its steps, for extensions that are neither broken nor littered. `LockInv`:
  at most one installing operation is past the lock; `AloneInv` and `AloneFindsInv`: an operation that
  began alone still is, and finds the entry and the directories as it left them,
  unless it has lost that history. Staging directories belong to the operation that holds
  the lock, so a launch, or the end of the operation, clears them.
* *QueryRuns.* Only `OneAtATimeLeaksNothing` and `OneAtATimePagesWhatItShows` are not
  inductive: `OneRunInv` adds that without overlap a run in flight is alone and nothing
  is retained meanwhile, because the run released the result before it.
* *Keybindings.* The keymap's typing carries `TimersGuard` and `OneEffectPerKey`, which
  compares the editor's rule with the manager's on the same state. That keys run their command is a
  fact about every keymap: among the candidates for a complete sequence the first in the
  catalog is taken, there is one by the well-foundedness of the naturals, and another one in its place
  would have been reported as a conflict.
* *GitPanel.* `CallsInv` says of each call what the panel showed when it was sent;
  `OneCallInv` that without overlap the repository has not changed since the only main call's reading,
  so that its answer is up to date.
* *WindowConnections.* `UserInv`: saved profiles have distinct ids, and a new form has an id of
  its own, which there always is, because fewer ids are saved than counted (`OneIsFree`).
  `Uncrossed`: as long as no two commands of the window crossed, what is open is the rail, less
  what a delete has closed already, plus what has opened and the window was not yet told of; at
  rest the two agree. `FreshInv`: unless a refresh of an id raced another one, at most one is under
  way, and what was read or is shown is the schema (`IsUpToDate`), or a refresh will follow.
* *ResultPaging.* A page is known by its first row (`RowLiesIn`, `LiesInOne`), so the rows it is
  asked for with are all of its rows (`RequestIsThePage`) and an answer leaves no hole; the
  streamed rows leave holes only in the page of the last of them (`HolesInv`).
  `SightInv`: from a run of the effect until the next rendering every page in sight is there or will be asked
  for. `Touched` and `Keeps` keep every resident page in the order exactly once.
  Selecting and sorting are defined by rank (`Positions`), which is
  what makes the last two provable: what the folds of the community modules
  compute needs an induction over data.
* *GridEdits.* `DraftsInv`: unless something was staged while a run was in flight
  (`crossed`), nothing is staged while one is, and every draft of the undo
  stack, like the one staged, names rows of the result on screen, deletes no row it edits
  and changes the values it edits; so undo may put any of them back. Whatever puts other rows on screen either resets what is staged
  or comes of a run in flight. A save takes its keys from those rows at the click, and nothing changes it
  after that (`SavesNameTheirRows`).
* *EditorWorkspaces.* `WorkspacesInv`: every workspace, on screen, stored or blank, is in
  `SoundWorkspaces`; `SeedInv`: the seed is gone once a workspace has adopted it; `IdleStored`: with
  a storage that works and no timer, what is stored is what is on screen. Reading a sound workspace back changes nothing
  (`LoadedAsStored`), which makes `SavedWhenIdle` of it and gives `ExitsKeepWorkspaces`. `BackgroundTextStays` is argued for one
  step of one group (`GroupStep`) and lifted to the workspaces.
* *ResultView.* `ViewIInv`: the draft deletes no row it edits and changes the values it edits
  (`SoundDrafts`), no column is sorted by twice, and a selected cell has a key that a row can have.
  The rows laid out are the rows kept, by rank (`RowsLaidOut`). The windowed view's search
  counts the deleted rows up to a guess and goes on from there: it ends at the row with
  as many kept rows before it as the position says, as the guess never passes that row and grows until it is
  there (`SearchFinds`); so both ways show the same row at a position and find its key there (`WindowedIsLaidOut`). Sorting is a fold of
  insertions, each of which keeps the rows there were and their keys (`InsertionKeeps`, `SortedIs`), so what is shown has
  no key twice and a block has one row at most for each. Pasting is a fold too: after `k` rows of the
  block, what the first `k` reach is filled, the other cells are the draft's, and the rows below the last are
  new (`BlockIsPasted`); for the whole block that is the property. An order among the
  rows is not claimed: the property holds for whatever order the sort leaves.
* *GitGraph.* The lanes are distinct and lead to what is awaited. Drawing a row puts the commit's
  parents in its lane and beside it and drops a lane that leads where an earlier one does: what
  remains are the same commits, each once (`DedupedLanes`), so below the row the lanes lead to
  the parents instead of the commit (`LanesBelow`) and each edge has one lane to end
  in. A child is drawn before its parents, so no lane ever leads to a commit that was drawn.

Only model-checked:

* liveness (`MutationRefreshes`, `RunsAreServed`, `CommandsEnd`, `RunIsAnswered`,
  `TakenStoresClose`, `PagingComesToRest`, `ObjectsArrive`), which the provers cannot do;
* `TextIsReadAlike` and `NamesAreReadAlike`, which compare scanners that are recursive
  functions over a document: that two of them agree in every document is an induction over
  documents. The library's induction theorems cannot be given such a predicate, and the argument from a least
  counterexample that the folds of `ResultView` are proved with (`StepByStep`) would have to be made for each
  state of each of the scanners.

## 6. Not modelled

* The engines' protocols, drivers and pools, except what the callers rely on; the
  catalogue of engines and the profiles' fields; SSH tunnels and proxies.
* Text that no property is about: binding and quoting, grid edits as SQL, plans,
  formatting, keywords, ranking, and parameters of queries.
* In the result stream: further result sets of one run, the plain streaming
  command, the fetch loops of engines that are not sqlx.
* In the metadata cache: invalidation of one schema or object, what a snapshot holds.
* In the query runner: the parameter dialog but for what it delays, magic commands, explain, several result sets.
* In grid editing: several result sets of one run, read-only connections, a table whose key differs between
  connections, edits of a row the table has beside the modelled keys.
* Of the keybindings: the shortcuts that extensions' tools bring, and whether the storage keeps the overrides.
* In the grid: ranges, copying, column widths, summaries, most filter operators.
* Extension processes and the connector host: requests and responses over the pipes of
  a child process. The archive, its checks and the catalog's signature are a
  failure that may happen.
* The commands themselves and the audit log: each is one call of a modelled function.
* AI, the git program, terminals, indexing, secrets, crash reports, jobs, packaging:
  I/O around small records. Settings, themes, translations, diagrams, charts, the AI panel: presentation.

## 7. Plan

Done: the backend's core, the extension store, and the window's components of section 2.

1. *Proofs.* That `Sorted` returns the rows in order, once a property of a run says so. Every
   safety property of a passing run that does not compare scanners is proved.
2. *Extension processes* (`extensions/process.rs`): requests, responses and time limits over one child.
   Property: a response is given to the request it answers, also after a time limit.
3. *Composition.* `QueryRuns` with the token map of `db/runner.rs`: which cancels come before
   their token. `WindowConnections` with `Connections`: which commands of one id the window
   lets cross.
4. *Failing runs that change the schema*, in `MetadataRefresh`.
5. *AI chat*: the cancellation tokens against a stream that begins.
