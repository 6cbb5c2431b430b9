# Flowser in TLA+

Flowser is a local development tool for the Flow blockchain: an Electron application (and, with fewer features, a web application) that runs the Flow emulator of a project, indexes its chain, manages accounts and snapshots, and shows all of that in a user interface. This directory holds TLA+ models of the parts of it that keep state across asynchronous steps, the TLC runs that check them, and TLAPS proofs about ten of them.

Paths below are relative to the repository; `PROJECT.json` maps every definition of the modules to the lines it models, and lists the runs, the hazards and the theorems.

- [The system](#the-system): components, state, operations, interaction, what is hard
- [The modules](#the-modules): which module models what, and how
- [The runs](#the-runs): what is checked, with which bounds and fairness
- [The proofs](#the-proofs)
- [What the checks show](#what-the-checks-show): what holds, what does not
- [Not modelled](#not-modelled) and [Plan](#plan)

To check everything by hand: `tlc -config <run>.cfg <module>.tla` for the runs of the table below, `tlapm <module>.tla` for each of the modules whose name ends with `_proofs`.

## The system

All services of the desktop application run in one JavaScript thread, the Electron main process (`apps/electron/src/services`, built on `packages/nodejs` and `packages/core`). There is no parallelism, but nearly every operation awaits something (an HTTP request to the emulator, a child process, a file) and any other event may be handled meanwhile. No lock, queue or transaction exists anywhere in the code: what protects a piece of state is only that the code between two `await`s is atomic. Most of the models are therefore about what happens between two awaits.

| Component | State | Operations | Interacts with | Hard behaviours | What makes it correct |
|---|---|---|---|---|---|
| **Polling scheduler** `packages/nodejs/src/async-interval-scheduler.ts` | `isRunning`, the last timer, suspended loops | `start`, `stop`, the loop | runs the block indexer; started and stopped by the application service | a stop and start while the function is pending leaves two loops | a running scheduler polls on; no loop of it begins early; a stopped one drains |
| **Process table** `packages/nodejs/src/processes` | id → `ManagedProcess`, its state and child | `start`, `runUntilTermination`, `stop`, `remove`, `restart`, `stopAll` | emulator, dev wallet, CLI commands; quit handler | starts, stops, exits, spawn errors and timeouts of one id interleave | what is reported as running runs; nothing that runs is unknown; calls return |
| **Quit handler** `apps/electron/src/main/main.ts` | is clean-up complete, listeners of signals | `before-quit`, SIGINT, SIGTERM | process table | quit events and signals repeat, clean-up can time out | the application exits unless a child refuses to, and an exit that it decides leaves no child |
| **Block indexer** `packages/core/src/flow-indexer.service.ts` | block index | `processBlockchain`, `processBlock`, `clear` | gateway (HTTP), scheduler, subscriptions, roll back | stale heights, failing requests, clear in the middle of a poll, overlapping polls | no gaps, no foreign blocks, in order, once, catches up |
| **Transaction index** same file, 301-358 | status per transaction | `processTransaction`, status subscription | access node subscription, block index, web application | callbacks overtake each other, several calls index the same transaction | the status never goes back and ends at SEALED |
| **Account, key and contract index** same file, 160-450 | accounts, keys, contracts | the handlers of events, well-known accounts | gateway | events handled in parallel against the latest state | after a poll the index agrees with the chain |
| **Application service** `apps/electron/src/services/flowser-app.service.ts` | which workspace the emulator, scheduler and files are for | `onWorkspaceOpen`, `-Close`, `-Update`, roll back, jump | all of the above | handlers nobody awaits, two of them at every save; crashes between their steps | the open workspace is the one served |
| **Workspace service** `workspace.service.ts` | list of workspaces, open ids | `open`, `close`, `create`, `update`, `remove` | emits events to the application service | read-modify-write of a file | one open workspace, no lost update |
| **Wallet** `packages/nodejs/src/wallet.service.ts` | key pairs in a file per workspace | `createAccount`, `synchronizeIndex`, send | file storage, CLI, gateway | list read and written back around awaits, crash in a write | no key pair of an account is lost |
| **Snapshots** `packages/core/src/flow-snapshots.service.ts` | snapshots in a file per workspace | `create`, `synchronizeIndex`, jump, roll back | file storage, emulator | file and emulator answer in either order | what is listed can be jumped to |
| **File storage** `file-storage.service.ts` | one file name, files | `setFileName`, `read`, `write` | wallet, snapshots, workspaces | `writeFile` is not atomic | (used by the services) |
| **In-memory index** `packages/core/src/in-memory-index.ts` | entries by id | `create`, `upsert`, `update`, `delete`, `clear`, `findAll` | all indexers | `create` throws for an existing id | (used by the indexers) |
| **Flow configuration** `packages/nodejs/src/flow-config.service.ts` | parsed flow.json, directory, watcher | `configure`, `load`, `attachListeners`, `cleanup` | application service, gateway | loads that overlap, a watcher that outlives its workspace | the configuration is that of the open workspace, and one file is watched |
| **Gateway** `packages/core/src/flow-gateway.service.ts` | what FCL is configured with | `configure`, requests | emulator (HTTP) | requests fail or are late | it talks to the emulator of the open workspace |
| **IPC and index cache** `renderer/ipc-index-cache.ts`, `main/ipc` | copy of every index in the window | poll every 500 ms, `findAll`, `findOne` | indexes of the main process | requests do not wait for each other; nothing tells the window that an index was cleared | the copy follows the index and never goes back |
| **Pages** `packages/ui/src`, `renderer/router.tsx` | route, tab, answers of the query hooks | the hooks, links and tabs of every page | index cache | a page is made of copies of different moments | every page settles on what the main process holds |
| **Workspaces in the window** `packages/ui/src/workspaces` | list, settings form, dialog, page | open, close, save, remove | workspace service over IPC | a save calls update and open; the listeners run at the same time | what is shown is what is open |
| **Interactions** `packages/ui/src/interactions` | tabs, focus, snippets, outcomes, executions | open, close, save, rename, edit, execute | local storage, FLIX, parser | one component for all tabs; caches by id; answers that come after a change of tab | no work is lost, form and outcome belong to the tab that is shown |
| **Parameter form** `ParamBuilder`, `ValueBuilder` | values per parameter, signers | one builder per type, effects that give first values | parser, accounts | the effects of a render compete for one definition | effects end, what is sent encodes |
| **Cadence parsing** `packages/nodejs/src/go-bindings.service.ts`, `internal/misc` | none | kinds, types and parameters of a program | parser of Cadence | | the form fits the program |
| HTTP, storage script, names, CLI arguments, dev wallet | none | requests, conversions | emulator, CLI, network | they fail | answers are inputs of the modules |
| Menus, updates, analytics, styles | none relevant | | | | |

The calls, from the top: the window asks `WorkspaceService` over IPC to open a workspace; that emits an event; `FlowserAppService` handles it, reads `flow.json`, points the file storages to the workspace, starts the emulator through the process table, clears the indexes, starts the scheduler, and synchronizes wallet and snapshots. The scheduler runs `processBlockchain`, which fills the block index and through it the indexes of transactions, accounts, keys, contracts and events. Transactions also have subscriptions of their own that outlive a poll. Roll back and jump change the chain and clear the index. On quit, the main process stops everything that is in the process table.

## The modules

Names of actions and variables are those of the source where there is one. Every module that has variables and actions has a type invariant, `TypeOK` (`SyncTypeOK` in IndexSync, `TransactionTypeOK` in TransactionIndex, whose other standard names have the same prefix, so that one module can prove about the indexes of transactions and of accounts). Definitions whose comment begins with *Mutant of* are plausible wrong versions of the definition they stand in front of; they are used only to see that a property notices them. Variables described as *history* record what happened for the properties and restrict no action.

**AsyncIntervalScheduler.** `Loops` gives an identity to each suspended `pollExecutionIfRunning`. `start()` enters an idle loop, `stop()` clears the one timer that `runningTimeoutId` names, `FnSettles` is the return from `await functionToExecute()` (resolved or rejected) with the computation of the remaining time, `TimerFires` the end of the sleep. Time is in ticks and `elapsed` saturates at the interval, since the code asks only whether the interval is over.

**ProcessManager.** `processLookupById` is the table, `state` and `childProcess` are the fields of a `ManagedProcess`, `child` and `owner` are the operating-system side: what a child does and whose listeners it has. An asynchronous call is a member of `Calls`, with a program counter for what it awaits. Order in the event loop is kept: a call whose promise is resolved (`ready`) runs before any macrotask, and `spawn` is announced on the next tick; everything else requires `Quiet`. `BeforeQuit` and `Quit` model `main.ts`. `Terminate` is a signal with its listener, which is registered once (`listening`); `Kill` is a signal that nobody listens for any more and that ends the application wherever its calls are (`app = "killed"`). `childProcess = None` also stands for a child that is gone, because the code uses the field only to signal a child and to listen to it.

**BlockIndexer.** The emulator is a chain of blocks, each with the fork it was produced on, so that a block of the same height after a roll back is another block. A poll is a program counter with what the code read at the time (`height`, `latest`, `block`); the answer to a request is computed when the emulator answers (`GetBlockByHeight`) and used later (`ProcessBlock`). `detached` is a `processBlock` that no poll awaits any more because the storage of an account failed (`Promise.all` rejects with the first rejection). `status` is the subscription of the transactions of a block, which may request and index the block by itself. The contents of a block are one step, because the handlers inside are in AccountIndex and TransactionIndex.

**TransactionIndex.** One transaction, since entries of different transactions share nothing but blocks. `Readers` are calls that look the transaction up, fetch it, process it and subscribe. `callback[r]` holds the statuses whose callback awaits a block. The desktop application is the case `block = TRUE` initially (the poll indexes the block first), the web application the other one.

**AccountIndex.** One account, since ids contain the address. `chain` is a sequence of blocks with their events and the account after each; `handlers` are the `processEvent` calls under way, which get the account as of the *latest* block. Handlers are named as in the source. `create` on an existing entry throws and the others of the `Promise.all` go on; `Create` is that operator. Code and balance are represented by the height that set them.

**FlowserApp** extends `ProcessManager`, in which a handler is the member of `Calls` it makes its calls with, so that several handlers run at a time, and adds the requests of the user (`Open`, `Close`, `Save`), the handlers of `FlowserAppService` with a step per await, the REST API of the emulator (`reachable`), the options a process was made with, the scheduler's flag, and the file name. `Resumed`, `StopTimedOut`, `EmulatorSpawned`, `EmulatorFailed` and `EmulatorExited` are the steps of ProcessManager together with what they do to a handler; names that both modules would have begin with `App` here. A save emits `UPDATE` and returns; the open that the form asks for next (`opening`) finds the update's handler still under way, or done. `tainted` and `collided` are history, see *What the checks show*. Only `Emulator` is ever in the table; the dev wallet, started and stopped next to it, is left out.

**FileStorage** has no behaviour of its own: variables and operators for one storage object, used by **Wallet** and **Snapshots**. A write is two steps, `Truncate` and `Overwrite`, as `fs.writeFile` does it; what is between is not JSON. Each of the two modules has the calls of its service, step by step, and the environment: opening a workspace, the emulator coming up (with or without its old state) and going down, roll back, crashes of the application. **Keyring** is the abstract specification of the wallet: a set of key pairs per workspace that changes by adding one key pair or by retaining some; `Wallet` is checked to implement it with `keys` being the file contents, or the list being written while a write is under way.

**Resources** is what the services exchange: the answers of the access node, the entities the indexer makes of them, the identifiers that relate them, and the index with `create`, `upsert`, `update`, `delete`, `findAll` and `findOneById` as sets of entries. An entry carries the moment it was written (`updatedAt`), which is what *older* means below.

**Pages** describes every page of the desktop application by its data: a component is the set of hooks it keeps asking and of links it shows, given what the hooks above it have been answered. A page that is still loading (`FullScreenLoading`) shows nothing. So the order in which a page asks, and what it asks under which condition, are those of the source.

**IndexSync** extends the scheduler and `Pages`: the polls of the indexer write entities of `Resources` into the indexes of the main process, each copy in the window asks for its whole index every 500 ms, and the hooks of the page that is open ask the copies. `GetAll` answers in the order of the requests, because its handler awaits nothing but `findAll`. `Navigate` follows the links that are shown.

**Desktop** is the workspaces of the desktop application from the click to the configuration of FCL: list, form and dialog of the window, `WorkspaceService` with its file (an instance of `FileStorage`) and temporary workspaces, the listeners of `FlowserAppService` (several at a time), `FlowConfigService` with its watchers, and `configure` of the gateway. A request and a listener are records with a program counter. `saved` is the list that calls one after the other would leave; `raced`, `disturbed`, `mixed`, `doubled` and `unwatched` record that something happened for which the code promises nothing.

**FclValues**, **ParameterForm**, **CadenceTypes** and **ValueBuilders** are one form. `FclValues` has its values and the tests that tell them apart (`fcl-value.ts`). `CadenceTypes` is the parsing of declarations to FCL types (`internal/misc`), as recursive operators over the nodes of the parser, and `Encodes`, which values FCL takes for a type. `ValueBuilders` is one operator per builder component: what it shows, the first value its effect sets, and the edits a user can make, including that the builders of arrays and dictionaries write into the object they were rendered with. `ParameterForm` is the life of one open interaction: `ChangeCode`, `Answer` of the parser, `EditValue`, `SelectSigner`, and `Flush`, which runs the effects of a render; every effect spreads the definition of its render, so the last one wins. What the parser answers, what the fields do and what FCL takes are operators among its constants (`ParserAnswer`, `FieldEffects`, `FieldInPlace`, `FieldEdits`, `HasFclType`, `IsEncoded`): the life of the form does not depend on them, and they are recursive, which its proofs cannot reach. `parameters.cfg` gives them the operators of `CadenceTypes` and `ValueBuilders`. `FieldValues` are the values that the effects and the user can make; for the run they are computed from the operators, so that the assumptions on them are checked.

**Interactions** is the registry of tabs, the snippets of local storage, the templates and the history of transactions, executions and the outcome that is shown. All tabs share one content component, whose state stays when another tab is shown. `parsed` is the cache of the parser per id, with the hook that was mounted first for an id (`snippetFirst`).

`MC…` modules extend these with symmetry and constraints for TLC, where a run needs them; the `.cfg` files give constants their values.

## The runs

Every run passes. The type invariants were checked with the same instances; they are proved where there are proofs.

| Run | Instance | Distinct states (about) | Checked |
|---|---|---|---|
| `scheduler` | 3 loops, interval 2; or an index or two with their pages, see below | 99 500 | `RateLimited`, `StopDrains`, `KeepsPolling`, `ShownNeverRegresses`, `ShownSettles` |
| `process_manager` | 1 id, 2 objects, 3 children, 2 concurrent calls; no remove | 4 900 | `RunningHasChild`, `NothingLost`, `CallsReturn` |
| `process_manager_seq` | 2 ids, 2 objects, 3 children, 1 call at a time, all operations | 9 400 | `Tracked`, `ExitLeavesNoChild`, `CleanupEnds` |
| `block_indexer` | heights 0-2, 1 roll back, 2 failures, 1 subscription | 594 000 | `NoGap`, `InOrder`, `ProcessedOnce`, `CatchesUp` |
| `transaction_index` | 3 readers | 46 800 | `NeverRegresses`, `EndsSealed` |
| `account_index` | 1 contract, 1 key, 3 blocks, 2 changes a block | 309 000 | `UpToDateAfterPoll`, `Settles` |
| `app` | 2 workspaces, 2 handlers at a time, 1 save each, 2 objects, 3 children | 31 200 | `ServesWorkspace`, `ClosedIsQuiet`, `HandlersEnd` |
| `wallet` | 2 workspaces, 3 key pairs, 2 calls | 24 600 | `KeysKept`, `ImplementsKeyring` |
| `snapshots` | 2 workspaces, 3 snapshots, 2 calls | 382 000 | `ListedIsStored`, `CreatedIsListed` |
| `desktop` | 2 workspaces and a temporary one, 2 directories, 2 requests, 3 listeners, 2 watchers | 1 395 000 | `GatewayFollowsFile`, `OneWatcher`, `ListAsSaved`, `OpenIsShown` |
| `parameters` | 3 programs, 2 parameter names, 1 change of the accounts | 65 900 | `ParsedIsCurrent`, `ArgumentsEncode`, `AddKeepsEntries`, `EffectsEnd` |
| `interactions` | 4 ids, 3 sources, 2 tabs, 2 snippets or 2 executions, 2 published templates | 295 000 | `TabShown`, `OutcomeOfShown`, `ParsedIsOwn`, `ClosedWorkStays` |

### Bounds, and why they are enough

- *scheduler*: ten alternatives (`MCLimits`), one per question. The first has no index and three loops; the second one loop whose polls write an index that is shown; in the others the indexer may write at any time, two entities and sometimes a clear, and the user visits the pages that show these indexes one after the other. One entity of a kind is enough: what a copy or a page does to an entity does not depend on others. Two requests ahead of an answer are what reordering takes. `ShownNeverRegresses` is proved without bounds on entities, requests and visits.
- *scheduler*, the loops: a loop is left behind when stop and start happen inside one execution. Three loops are two such restarts, one more than the code's single timer id can lose track of; an interval of 2 has executions that are shorter than, as long as, and longer than it. The proofs have no bound.
- *process_manager*: with two calls, every pair of operations on one process is interleaved in every way, and three children let each call replace a child while a third is still exiting. One id, because ids share nothing but `stopAll`; `process_manager_seq` has two ids for that and for the quit handler. A bound on children needs `RoomForChild`: a call that may still spawn keeps one free, so that no behaviour is cut off in the middle of a call. `RunningHasChild`, `NothingLost`, `Tracked` and `ExitLeavesNoChild` are proved without bounds.
- *block_indexer*: three heights are a first, a middle and a latest block, one roll back gives two blocks of the same height, two failures can hit two requests of one poll or of two; `NoGap` is proved without bounds and with overlapping polls, `InOrder` and `ProcessedOnce` without bounds and with one.
- *transaction_index*: two calls can race for one entry, the third races a subscription that exists; the statuses are those whose handling differs (pending has no block, sealed ends the subscription, one between). `NeverRegresses` is proved for any number of calls.
- *account_index*: three blocks: the genesis, one that is processed and one that is mined while it is. Two changes and both kinds of account event in a block are handled in parallel. `UpToDateAfterPoll` is proved for any number of contracts, keys, blocks and changes.
- *app*: two workspaces are needed to see options or files of another workspace, one change of settings to see stale ones, two objects to replace one, two handlers for the update and the open of a save, and three children, as each of the two may spawn one while a third is exiting. `RequestBound` keeps the states few: no request comes after calls of two handlers have collided, and once a handler has failed or a request came early, only the open of a save comes early until all is closed. The proofs of `ServesWorkspace` and `ClosedIsQuiet` do not use it, and hold for any number of workspaces, handlers, savings, objects and children.
- *wallet*, *snapshots*: two calls overlap; three items, because the shorter of two lists that overwrite each other leaves a tail. The runs stop (`CONSTRAINT Undisturbed`) at the first state in which calls disturbed each other; see below what that means. Both are proved without bounds, the refinement of `wallet` included.
- *desktop*: five alternatives: two things the user does at the same time, with two workspaces; two one after the other; one after a start with a workspace on the command line; one with two edits of `flow.json`; two one after the other with an edit, which brings the listeners of `UPDATE`, `OPEN` and `FLOW_JSON_UPDATE` together, for which there are three listeners. The four invariants are proved without bounds.
- *parameters*: a dictionary (entries are found by key), an optional array of paths of fixed size under the same parameter name, an address, and a transaction: values entered for one program meet the builders of another one. The first two have elements, whose builders write into the object of their parent. `ParsedIsCurrent` is proved for any parser and fields, `ArgumentsEncode` for any that satisfy `RestEncodes`, and `AddKeepsEntries` for any that satisfy `AddsSettle`; the run evaluates both for all 91 values its fields can have.
- *interactions*: four ids, as a tab, its snippet, and another tab with its own; the empty source, which makes a tab discardable, and two that differ in kind; either snippets or executions, which share nothing but the tabs. Ids are symmetric, as they are drawn at random. The four properties are proved without bounds.

### Fairness

The scheduler: time passes, timers fire, and the function settles (it awaits HTTP requests, which answer or fail). The process table: Node delivers the event of a spawn and resumes ready calls (WF); the timer of `stop()` fires, the user closes the error dialog, and windows close (SF: these wait for the thread to be idle, which other tasks may interrupt again and again but not for ever prevent). No exit of a child is owed, whether it was signalled or not, and no call is ever owed: a user may do nothing. What a child that ignores SIGTERM does is therefore part of the properties: `CallsReturn` and `HandlersEnd` hold with it, because `stop()` times out; the clean-up before a quit comes back with its dialog every time, and `CleanupEnds` says that it goes on like that only if some child ignores its signal for ever. The block indexer: polls begin and are answered, and the application clears the index after a roll back; failures are bounded by `MaxFailures`, as otherwise every request could fail for ever. Transactions: requests settle, and the access node reaches SEALED. Accounts: polls go on and requests settle. The application: the thread gets round to every task; nothing is owed of the user or of a REST API. The window: the timers of the copies fire, messages arrive, and mounted hooks are asked again. In `ParameterForm` React runs the effects of a render (WF), and a request to parse is answered between renders (SF: an answer has to wait for pending effects); that effects end is claimed only for a user who stops to type. Wallet, snapshots, desktop and interactions have safety properties only.

Deadlock is checked for the scheduler, the block indexer, the parameter form and the interactions, which can always go on. The others may stop: everything can be idle, and the bounds can be used up.

## The proofs

TLAPS checks eight proof modules. Theorems hold for every value of the constants, from the named assumptions in the modules (`IntervalAssumption`, `NoTimeoutAssumption`, `NoneAssumption`, `OpsAssumption`, `BoundsAssumption`, `FilesAssumption`, `StorageAssumption`, `WorkspacesAssumption`, `LimitsAssumption`, `CodesAssumption`, `PageAssumption`, `IdsAssumption`, `ChainAssumption`, `AppAssumption`, `TableAssumption`, `FormAssumption`, `FieldsAssumption`), which only say that bounds are natural numbers and a chain has a block, that model values differ, that a list in a file is finite, which names and items the wallet's files have, that whatever can be opened as a tab is a source, that an answer of the parser has a list of parameters and the accounts are addresses, that effects and edits make values of fields, and that random ids are not used up by the tabs and snippets there are. What a theorem needs besides is in its statement.

| Module | Theorem | Argument |
|---|---|---|
| `IndexSync_proofs` | `TypeCorrect`: `Spec => []TypeOK` (of the scheduler) | inductive as it stands |
| | `RunningIsAlive`: `[]AliveWhileRunning` | inductive as it stands: a loop leaves only when `isRunning` is false, and `stop()` resets the flag in the step in which it kills a loop |
| | `PollingRate`: `RateLimited` | from `TypeOK`, by cases over the actions |
| | `SchedulerInside`: `SyncSpec => Init /\ [][Next]_vars`, `SyncPollingRate`: `SyncSpec => RateLimited` | the scheduler that fills the indexes is the scheduler: a step of the composition is one of its steps or leaves it alone |
| | `NothingShownRegresses`: `ShownNeverRegresses` | needs `SyncInv`, see below |
| `FlowserApp_proofs` | `TypeCorrect`: `[]TypeOK` | needs `TypeInv`: every child that is alive has an owner (`OwnedChildren`), whose state and current child its events read and write, and a call that is going to start a process holds one (`CallsHoldProcess`) |
| | `RunningIsAlive`: `[]RunningHasChild` | from `TypeInv` in each step |
| | `NothingEscapes`: `[]NothingLost`, if `remove` is not among the operations | needs `Kept`: not only who is alive, but also who is going to be started by a call under way, is in the table |
| | `NothingOutOfReach`: `[]Tracked`, `QuitLeavesNothing`: `[]ExitLeavesNoChild` (an exit by the quit handler or by the listener of a signal), both for one call at a time | needs `SeqInv`, see below |
| | `ManagerInside`: `AppSpec => Spec`, `AppTypeCorrect`: `AppSpec => []AppTypeOK` | the application uses the process table by its operations only: a step of it is one of the table or leaves the table alone |
| | `OpenIsServed`: `AppSpec => []ServesWorkspace`, `ClosedLeavesNothing`: `AppSpec => []ClosedIsQuiet`, for any number of handlers at a time | from `WorkspaceInvariant`, see below |
| `BlockIndexer_proofs` | `TypeCorrect`: `[]TypeOK` | needs `PollInRange`: a poll in its loop is not above the latest block it read, or the height would leave its range |
| | `IndexHasNoGap`: `[]NoGap` | see below |
| | `ContentsInOrder`: `[]InOrder`, `BlocksProcessedOnce`: `ProcessedOnce`, both for one poll at a time | needs `OrderInv`, see below |
| `FlowIndexer_proofs` | `TransactionTypeCorrect`: `[]TransactionTypeOK` | part of `TransactionInv`, see below |
| | `StatusNeverRegresses`: `NeverRegresses` | see below |
| | `Invariant`: `[](Base /\ (~lost => Sound))`, `TypeCorrect`: `[]TypeOK` (of AccountIndex) | see below |
| | `IndexUpToDate`: `[]UpToDateAfterPoll` | from `Invariant` and what the end of a poll reads |
| `Wallet_proofs` | `TypeCorrect`: `[]TypeOK` | needs `NewKeysNamed`: a call that read the list to add a key pair has one |
| | `NoKeyIsLost`: `[]KeysKept`, `KeyringIsImplemented`: `ImplementsKeyring` | from `WalletInvariant`, see below |
| `Snapshots_proofs` | `TypeCorrect`: `[]TypeOK` | needs `SnapshotsNamed`: a call of `create` under way has a name |
| | `ListedCanBeReached`: `[]ListedIsStored`, `NoSnapshotIsLost`: `[]CreatedIsListed` | from `SnapshotsInvariant`, see below |
| `Desktop_proofs` | `TypeCorrect`: `[]TypeOK` | needs `TypeInv`: whatever reads `flow.json` has a directory, and the form is the one of its page |
| | `WatchersReplaced`: `[]OneWatcher /\ [][ReloadsOverlap]_vars`, `ListKept`: `[]ListAsSaved`, `OnlyShownIsOpen`: `[]OpenIsShown` | from `WatchInv`, `ListInv` and `OpenInv`, see below |
| | `GatewayKeepsUp`: `[]GatewayFollowsFile /\ [][Exclusions]_vars` | from `GatewayInv` and what it rests on, see below |
| `Interactions_proofs` | `TypeCorrect`: `[]TypeOK` | needs `Inv`, see below |
| | `AlwaysATab`: `[]TabShown`, `OutcomeBelongs`: `[]OutcomeOfShown /\ [][LateArrives]_vars`, `FormBelongs`: `[]ParsedIsOwn /\ [][SharedByEntering]_vars`, `ClosedCodeStays`: `[]ClosedWorkStays` | the parts of `Inv` |
| | `FormTypeCorrect`: `FormSpec => []FormTypeOK` | part of `FormInv`, see below |
| | `AnswerIsCurrent`: `FormSpec => []ParsedIsCurrent /\ [][BackToCached]_formVars` | from `AnswerInv`, see below |
| | `EffectsRest`: `FormSpec => []FormAtRest`; `EncodedArguments`: `FormSpec => []ArgumentsEncode`, if `RestEncodes` | see below |
| | `EntriesKept`: `FormSpec => []AddKeepsEntries`, if `UniqueNames` and `AddsSettle` | from `KeptInv`, see below |

*RunningHasChild* is not plain, although the event handlers are short: `state` belongs to the object and listeners to a child, so an object with two children (two starts before the first spawn event) has two sources of events. It holds because an exit of *any* child of the object resets the state; the price is that the object may be NOT_RUNNING while a second child lives, which is what `Tracked` is about and why it is checked and proved for one call at a time only.

*Tracked* and *ExitLeavesNoChild* hold for one call at a time (`OneCall`), for any number of processes, objects and children, and with every event that comes between: exits nobody asked for, spawn errors, timeouts of `stop()`, quits and signals. *Exit* means one that the application decides, by its quit handler or in the listener of a signal; a second signal of the same kind kills it (`Kill`), and nothing is claimed of the children then. `SeqInv` says, besides types: every child that is alive is the current child of its owner, the owner is in the table, and is reported as running unless the call is just spawning it (`AllTracked`); a current child is a child of that object (`CurrentIsOwn`); what the call knows of its object fits its program counter (`CallsSound`); and the clean-up of a quit is done only if nothing is alive (`ClosedIsDone`). `AllTracked` is what two calls break.

*ServesWorkspace* and *ClosedIsQuiet* speak of moments at which the handlers are done, so their invariant says what each handler has to expect on its way. As the application is a user of the process table (`ManagerInside`), `TypeInv` holds of it. `CallInv` ties the three parts together, however the handlers come upon each other: a call under way is the start or the stop that its handler awaits (`AwaitsCall`), a stop that came back has emptied the entry (`StopRemoves`), which steps are those of which event (`FollowsEvent`), and what answers under the port of the emulator is a child that runs (`ServedByRunning`). `SafeInv` says that until two handlers had calls in the process table at once (`collided`) the table was used by one call at a time, so that `SeqInv` holds as it does of one call; what answers the probe is then a child of the entry (`ServedIsEntry`), which is the case of an update that finds an old emulator still answering.

`WorkspaceInv` says of untainted states that the handlers are in order (`InOrder`). `Together`: handlers under way at the same time are one that opens a workspace and one that follows a change of the settings of the same workspace. `Proceeds`, of each handler: the workspace it is for is the one that is or will be open, and, unless the update is still about to remove the emulator (`Removing`), the table has no emulator that was made for other settings (`NothingStale`); from the start on there is one made for the settings as they are (`Made`), unless the update is still about to make it (`Remaking`). `Rests`: what a handler leaves to the workspace when it is done. What is said of the emulator is said until calls collide; what is said of the poll and the file name is not, which is why `ServesWorkspace` promises these of every save. Neither proof uses the bound on requests of the run. TLC checked the invariants on the instance of the run before they were proved.

*NoGap* is not inductive: it says nothing of what a poll is about to index. `NoGapInv` adds, as long as the index is settled: the index is whole (`IndexWhole`: each block of it is on the chain and covered below, where *covered* means indexed or given up); a poll that is at height `h` has everything below `h` covered, and a block it was answered with is the block of the chain at `h` (`PollsAhead`); blocks that are processed detached, or have a subscription, are in the index already, so that a subscription never requests one (`OthersIndexed`). Each action preserves this, because forks change only by a roll back, which makes the index unsettled, and `clear()` makes it settled again only if nothing was in flight. Nothing in the proof bounds the number of polls: overlapping polls, which the scheduler permits, do no harm to the block index.

*InOrder* and *ProcessedOnce* are about contents, and overlapping polls break both: a second poll resumes above a block whose contents the first one is still processing. With one poll at a time (`OneLoop`) `OrderInv` is inductive on top of `NoGapInv`: contents are only those of indexed blocks; below an indexed block everything is *done* (its contents were processed, or a request for them failed), and the block itself is done or in hand of the poll (`BlocksDone`); and a poll has done everything below its height, with nothing of the index above it (`OrderOf`). The step that needs `OneLoop` is the one that reads the height to resume at: no other poll can have the highest block in hand.

*NeverRegresses* needs `TransactionInv`: whoever can write a status holds one that is no newer than the chain's (`NotNewer`), a call that is parsing holds a real status (`GotStatus`), only subscribed calls have callbacks and by then the transaction exists (`Subscribed`), and, while nothing raced, at most one callback waits and its status is not older than the indexed one (`OneWaits`).

*The account index.* `UpToDateAfterPoll` says nothing of the middle of a poll, where handlers write states that are newer than the block they are for. The invariant is about `Versions`, the states of the account from the last processed block on. `Base` holds always: later blocks never make a key active again once it is gone, every handler under way is for an event of the block in hand (or for the well-known account), and what it was answered is one of `Versions`. `Sound` holds while no request was lost: the balance and every contract are those of *some* version, and an entry that is not one of the versions has the handler of its event waiting; a contract that is not in the index is one that some version lacks; an active key is known unless its handler waits, and a key that the index has as revoked is gone at the latest. When the next block is processed, the versions become fewer, and what drops out is what an event of that block is about, so that its handler waits (`ContractEffects`, `KeyEffects`, `AccountEffects`, which follow the events of a block to the account after it). At the end of a poll that has caught up there is one version and no handler.

*The copies in the window.* An entity passes through a row of stages: index, answers under way from the last to the first, copy, what a hook shows. `SyncInv` says of each stage that every entity of it has a date that is not after the clock, and of any two stages that an entity is never newer in the later one (`Before`); the four parts of it are the four kinds of stage. A write to the index is dated now, which no stage exceeds (`Writes`, with a lemma for each operation of the index); a request copies the index behind all that is under way (`Appended`); an answer moves the first to the copy (`FirstTaken`); a hook takes the copy. `ShownNeverRegresses` is then what a step does to the last stage. A cleared index is an empty stage, of which nothing has to be said.

*The wallet.* Neither property is inductive. `Inv` says of every state that the workspace that is open is that of the emulator, if one answers (`OwnEmulator`), and that accounts are on the chain they were created on (`AccountsHome`). Of undisturbed states it says (`Sound`): at most one call is between its read and the end of its write (`OneSection`); a file that does not parse has a writer (`AllParse`); a call with a key pair runs for the open workspace, what it read is still in the file, and what it writes is that plus its own key pair, or without those it dropped (`CallsSound`); and every key pair that was used is on its way to its file, in it, or dropped (`UsedKept`). No locks are involved: the argument is that a call that sees no other one between read and write is alone, so a read is current when it is written back. The refinement maps the keyring to the files, with the list that is being written in place of an empty file; the start of a write is then the step of the keyring (`Add` or `Retain`), everything else stutters, and the first disturbance ends the promise (`Disturb`).

*The snapshots.* The shape is that of the wallet: `Inv` says of every state that a workspace that is open is that of the emulator, and of undisturbed states (`Sound`) that one call at most is between its first read and the end of its write; that what `create` returned for is on the emulator, and in the file unless that is being written (`EmulatorSound`, `FileSound`); and, per call, that what it has read still is the file, that what it will write contains everything that was created, and, for a synchronization, nothing the emulator does not have (`CallSound`). The two answers of `Promise.all` come in either order, and both orders lead to the same claim: the list that was read is met with what the emulator had when it was asked, and the emulator only gains snapshots meanwhile.

*The desktop.* Each of the first three properties has its own invariant on top of the types. `WatchInv`: while no reloads overlap, one listener at most is between the read of `flow.json` and the attachment of its watcher, and no watcher lives meanwhile; a watcher that lives is the one that is known, so `Detach` reaches it. `ListInv`: while no writers race, one request at most is between its read and the end of its write, what it read is the list that calls in sequence give (`saved`), and what it writes is that list with its own change; temporary workspaces are split off on the way. `OpenInv`: while requests come one at a time and none fails, what is open follows from the page and from where the one request is. The other parts of the program, `handler` and `watcher` for the lists and `request` for the watchers, are dealt with by one lemma each (`ListenersLeave`, `RequestsLeave`, `WindowLeaves`).

*The gateway.* `GatewayFollowsFile` speaks of moments at which nothing happens, so its invariant has to say of all others what is still going to happen. `GatewayInv`, in states that are `Calm` (no listeners of two workspaces, no overlapping reloads, no racing writers), says `OneSubject`, that the listeners under way are about one workspace, which is the open one if there is one; and `Sound` of every workspace of the list. A workspace is sound if a listener is about to find nothing and end the calm (`Doomed`), or a request has saved its settings and is about to tell so (`Saving`), or the listeners have its settings (`Agreed`; of a new project there may be none yet, `Creating`) and, if it is open, it is `Served`: a request is about to emit `OPEN`, a listener is about to load its flow.json, or it is `Configured`, which is to say that the file's contents are in the configuration or on the way there (`Seen`) and from there in FCL or about to be put there (`Notified`). Every action moves one workspace along this row and leaves the others; `GatewayKept` says once what such a step must keep, and `RequestMoves` and `ConfigurationMoves` apply it to the two halves of the program. The second conjunct of `GatewayKeepsUp`, `Exclusions`, says by what steps the excluded cases arise, and that there are no others: an event that comes while the listener of another workspace, of other settings or of an open runs, or a listener that does not find its workspace (`ListenersMix`); a reload that begins before another load has ended (`ReloadsOverlap`, also the second conjunct of `WatchersReplaced`); a call that writes the list before the writing of another one has ended (`WritersOverlap`); an edit of a `flow.json` that no watcher watches (`EditUnseen`). Four smaller invariants are needed: `LoadInv` (what a reload or a watcher has read is what is in the file, or there is an event for it), `ListenerInv`, `CreateInv` (the form of a new project is the only request, and ids are unique in the list), and `TemporaryInv` (nothing is about a temporary workspace before there is one). That a read of the list is fresh comes from `ListInv`, and that there is one watcher from `WatchInv`. TLC checked all of them on the instance of the run before they were proved, and found the need for `raced`. `doubled` is in `Calm` because a reload that overlaps another one may bring the older contents last.

*The interactions page.* Every event renders the page again, so there is one lemma about all of them (`Steps`): a step renders good tabs (`Rendering`), or it leaves the tabs alone, or it is one of a page that is entered, left or loaded. Tabs are good (`GoodTabs`) if no two definitions have the same id and the id that is current, or the one that was when the page was entered, is among them. That takes an argument about random ids: a tab is opened only while there is room, so that what refers to ids does not exhaust them (`FreshIsNew`), and what refers to them is known only from `ExecutionInv`: an outcome and an execution belong to the tab that is shown, to none, or are late; `LateArrives`, the second conjunct of `OutcomeBelongs`, says that an execution becomes late only if the definition that is shown changes while it is under way, and that its answer is the only other outcome a tab ever shows. `ParsingInv` then follows the parse hooks: a tab that is not shared was never mounted behind its snippet, as a new tab has an id that no snippet has, and a snippet that gets the id of a tab is mounted after it; that a tab becomes shared only when the page is entered with both is `SharedByEntering`, the second conjunct of `FormBelongs`. `ClosedInv` needs what `filter` leaves of the snippets. It is the recursive function `Keep` of the model, and what it computes is proved (`KeepSound`) by looking at a least counterexample (`Least`): the well-foundedness of Nat is a theorem that can be cited without an operator.

*The form of an interaction.* `ParsedIsCurrent` speaks of states in which no request is under way; `AnswerInv` says of the others that, unless the code changed back, the request is the one of the last code whose effects have run, and that once the effects have run this is the code of the definition. An answer that belongs to a code in between cannot be the cached one then, because the request that it answers has been replaced. `BackToCached`, the second conjunct of `AnswerIsCurrent`, says when the code changes back: it becomes the cached one while a request is under way. That *the effects come to rest only where every field keeps its value* (`FormAtRest`) is not obvious of effects that overwrite each other: a round ends the effects only if the definition that the last of them set is the one that was rendered. `NothingSet` shows that then none of them had anything to set: a default account for an authorizer, the payer or the proposer would be an address where there was none; and the last parameter whose effect has another value (`LastParameter`, `ActingLast`) would have changed the value of its name. `FormInv` supplies that effects are due only of fields that are shown. `ArgumentsEncode` follows as far as it is a matter of order: that FCL encodes a value which its field leaves as it is (`RestEncodes`) is a statement about recursive data, is the hypothesis of the theorem, and is evaluated by TLC. In the same way `AddKeepsEntries` rests on `AddsSettle`: two rounds of effects settle a dictionary with a new entry, and what they pass by has the old entries. What the theorem adds is that nothing else gets in between. `KeptInv` says of every dictionary that is followed that its value is among some that are closed under its effects and have the entries; `EffectsSafe` that a round leaves it there, whichever of the effects wins; and `UpdateSafe` that an edit elsewhere does, whether or not it is overwritten. It needs names of parameters that differ (`UniqueNames`), as otherwise a field of another type writes to the same value.

Only model-checked: everything about liveness (`StopDrains`, `KeepsPolling`, `CallsReturn`, `CleanupEnds`, `CatchesUp`, `EndsSealed`, `Settles`, `HandlersEnd`, `ShownSettles`, `EffectsEnd`), which TLAPS does not prove under fairness; the types of Cadence and the builders of their values, which are recursive operators: that what they leave encodes (`RestEncodes`), and that they settle an entry that is added beside the others (`AddsSettle`). These two are hypotheses of theorems and TLC evaluates them for the values of the run `parameters`; every safety property of the runs is stated by a theorem.

## What the checks show

What holds is often more than one would expect of code without locks. Leftover loops of the scheduler each keep the interval, and end once it is stopped; together two of them poll twice as often, or overlap. Polling recovers from every failed request and reaches the latest block, because the next poll resumes above the highest block it finds; the block whose request failed is not requested again and stays missing. Account handlers that read a state newer than their event still leave the index right at the end of a poll. The status of a transaction is right even if three calls index it at a time.

The window never shows an older version of an entity after a newer one, and every page settles although nothing tells it of changes: on what the main process holds, or, for an entity that is gone there, on the error of its request, while the hook keeps showing the old data. Competing effects of the form come to an end, and what is then executed encodes. No tab of the interactions page is ever missing, and a tab that is closed without a question leaves its code in a snippet, until a snippet of that name is deleted.

The properties that pass state under which conditions they do; the conditions are themselves observations about the code:

- `Settled` (BlockIndexer): a roll back or restart of the emulator clears the index whatever the poll is doing. A block that was requested before and arrives after the clear makes the index wrong until the next clear.
- `raced` (TransactionIndex): a status that arrives while a callback awaits its block.
- `disturbed` (Wallet, Snapshots): a call read or wrote while another one was between its read and the end of its write, or the workspace changed or the application died during the call. Then key pairs or snapshots can be lost, or a file no longer parses; nothing in the code prevents that. Until then nothing is lost, in particular for calls that overlap before they read, which is where `createAccount` spends nearly all of its time.
- `tainted` (FlowserApp): since everything was last closed, a handler failed with a dialog, a second workspace was opened without closing the first, or a request came before the handlers of earlier ones were done, the open of a save excepted. The user interface opens one workspace at a time, but nothing makes it wait for the handlers.
- `collided` (FlowserApp): two handlers had a call in the process table at the same time. The parts of `ServesWorkspace` and `ClosedIsQuiet` about the emulator exclude it: a start that comes upon the remove of the update's handler loses the emulator or keeps the one with the old settings. The parts about the poll and the files do not.
- `mixed`, `doubled`, `unwatched`, `disturbed`, `raced` (Desktop): listeners of two workspaces ran at the same time; two reloads of `flow.json` overlapped; `flow.json` was changed when no watcher could see it; requests overlapped or failed; two calls that write the list overlapped. `GatewayFollowsFile` excludes all but `disturbed`: with `raced`, a lost update takes the settings in the file back to the ones before, of which nothing tells the gateway; with `doubled`, the later load may be the older one, and no later event corrects it.
- `changedBack` (ParameterForm): the code went back to the cached source before the request for the code in between was answered. `ParsedIsCurrent` excludes it: no request is sent then, and the answer replaces the right parameters by those of the code in between until the window gets the focus.
- `shared` (Interactions): the page was entered with a tab and a snippet of the same id; the parse hook of the snippet then answers for the tab.
- `LateOutcome` (Interactions): an execution is answered after the user went to another tab or changed the definition; its outcome is shown there.
- `lost` (AccountIndex): a request for an account failed; the event is not handled again.
- `killed` (ProcessManager): a second signal of the same kind ended the application; `ExitLeavesNoChild` is about the other ends.

### Disagreements

Where the code does something else than a comment of the repository or its own intention says. The models have these behaviours; the properties above are stated around them.

Processes and indexes:

- A start that overtakes a remove of the same process loses the child: `remove()` (`process-manager.service.ts:140-145`, "Stops the process and removes it from the process table.") deletes whatever is under the id after awaiting `stop()`; a start meanwhile found the entry and starts the object again; the quit handler no longer sees the child. `NothingLost` is therefore checked without `remove`.
- The listeners of SIGINT and SIGTERM are registered once (`process-manager.service.ts:35-38`, "Gracefully shutdown child process in case parent receives a kill signal"): a clean-up that times out leaves the application running, and the second signal of the kind kills it and leaves its children.
- Saving the settings of a workspace has its update and its open handled at the same time (`WorkspaceSettings.tsx:64-83`, `flowser-app.service.ts:180`). If `start()` of one handler finds the entry that `remove()` of the other is about to delete, the emulator that ends up running has the old settings and is not in the table.
- SEALED is overwritten: `flow-indexer.service.ts:328-358` says "Once transaction is sealed, status won't change anymore.", but the callback of an earlier status that had to request its block ends after the one of SEALED and writes the earlier status.
- A workspace is synchronized with the files of another one: `onWorkspaceUpdate` (`flowser-app.service.ts:264-270`) does not set the file names that `onWorkspaceOpen` sets, so saving the settings of a workspace that was not opened last synchronizes wallet and snapshots of the one that was.
- `async-interval-scheduler.ts:11` says the scheduler "Waits for promise completion until rerunning interval."; after a stop and a start during an execution two executions overlap.
- `flow-indexer.service.ts:68-70` says blocks are processed one after the other; after a failure to read a storage the next one is processed while the last one is.
- `runUntilTermination` (`process-manager.service.ts:104`) of an id that is already in the table awaits the exit of an object that was never started, and does not return. `CallsReturn` leaves `run` out for that reason, and because a command may run for ever. Every command leaves its entry and its logs in the table (`flow-cli.service.ts:177`).
- `maybeProcessWellKnownAccounts` filters with a promise instead of a value, so it processes all well-known accounts at every poll. `Settles` shows that it does no harm except to keys that were removed, which come back as revoked. A public key that was removed and added again is found at its first, revoked, index (line 274).

Workspaces and configuration:

- `workspace.service.ts:28` says there is one open workspace; `open()` does not close the other one. Removing a workspace that is open leaves it open and leads to the list of projects; removing a temporary one does nothing.
- Errors of `load` are swallowed: a workspace without a `flow.json` keeps the configuration of the one before. A `flow.json` that changes between its read and the start of its watcher, or is created later, is not seen. Reloads that overlap leak watchers, and a late load replaces a newer configuration. `FlowConfigService.cleanup` is never called.
- While `workspaces.json` is being written it does not parse, and everything that reads the list fails.
- The dialog that removes a workspace stays open over the page that is navigated to, and a confirmation that ends later hides whatever dialog is then shown.
- Quitting during a save of the settings can leave the page of a workspace that is not open any more.
- `snapshots.context` takes the latest block of a new snapshot from the list it has cached. The dev wallet keeps the REST address that it was made with.

Pages:

- The link of a storage card has the focus id `<address>/storage/<path>`, and cards have ids `<address>.<path>`: no card is ever focused by it.
- The link to the block of a transaction that has none keeps asking for an undefined id, which is always an error.
- Pages of an entity keep showing it after it is gone from the index; only the outcome of a transaction reports that. Storage items that are removed on the chain are never removed from the index.
- The events of a contract are those whose type starts with its name, thus also those of a contract with a longer name.

Interactions:

- Deleting a snippet deletes all snippets of that name. Renaming a snippet of the old format, which has no id, leaves a copy.
- `WorkspaceTemplateInfo` compares ids of two kinds and is never shown. The result of a script stays hidden in a display that has shown an error. The error branch of `TransactionOutcomeDisplay` needs data that is not there in case of an error.
- `create()` of a tab that is already open (dedupe) drops the arguments and the outcome of the transaction it was opened for.
- A published template counts as available if *some* dependency is on the network; its source takes *all* of them.
- In a dictionary the new entry has the default key of its type: if there is an entry with that key its value is overwritten and the new entry removed as a duplicate. `AddKeepsEntries` excludes that case.

## Not modelled

- Contents without behaviour: wording, formatting, styles, logs, menus, updates, analytics, error reports. What a text is made of matters only where two texts are compared; there it is a tuple of its parts.
- The parser of Cadence, FCL, React and the query library, the file system, the emulator, the Flow CLI: external, modelled by how the code uses them, as inputs and in the order the code waits for them.
- The dev wallet: it would double the states of FlowserApp for the same code path as the emulator. The CLI's arguments and the dependency manager keep no state.
- FLIX 1.0 and the requests for templates and names; the storage script; the request to parse the script of a transaction.
- The web application but for `getTransactionIndex` and what its interaction page loads from FLIX: prompts, routing and social images.
- The menu of snapshots: opening it, its list and its dialogs have no state that outlives them but the list, which is in Snapshots.
- Time in milliseconds, except in the scheduler.
- Simplifications of the form: address fields inside containers are not combined with the wallet's own accounts; the check for duplicate keys runs after each commit of a key; passive effects run before the next answer is rendered; a request to parse that fails leaves everything as it is until SWR asks again (`Revalidate`), its error is not shown; names of types that FCL has no type for (`NotInFcl`) have no encoding; the editor replaces the code as a whole. What a user enters between a render and its effects can be overwritten by them (`definition.context.tsx:50`); that is in the model and no property excludes it.
- Simplifications of the wallet: the creation of an account on the chain and the return of the CLI that made it are one step (`CliDone`), so that an application which dies between the two, and leaves an account without a key pair, is left out.
- Simplifications of the pages: changes of tabs are bounded like visits; the drawer of the logs, whose first size is that of its first render, has no data.

## Plan

The order follows what matters most to a user: that the chain is shown as it is, that processes are under control, that nothing is lost. Written so far, in this order: AsyncIntervalScheduler, ProcessManager, BlockIndexer, TransactionIndex (each with proofs; the two indexes of transactions and accounts share `FlowIndexer_proofs`), FlowserApp (composes ProcessManager), FileStorage, Wallet with its abstract specification Keyring (and proofs), Snapshots (and proofs), AccountIndex (and proofs); then the window: FclValues, ParameterForm, CadenceTypes and ValueBuilders, Interactions (the proofs of the last and of ParameterForm share `Interactions_proofs`), Desktop (composes FileStorage, workspace, application and configuration service with the window), Resources, Pages and IndexSync (composes the scheduler, the indexes and the pages).

What is left of proofs: the recursive operators of the form (`RestEncodes`, `AddsSettle`) and everything about liveness, which stay with TLC.

What is left of models: the dev wallet next to the emulator in FlowserApp; roll backs requested by the window, composed with BlockIndexer; the web application's pages; two updates of the list of tabs in one render.
