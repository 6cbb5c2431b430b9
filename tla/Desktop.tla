------------------------------ MODULE Desktop ------------------------------
(***************************************************************************)
(* The workspaces of the desktop application: the list of projects, the    *)
(* settings form, the dialog that removes one and the pages               *)
(* (packages/ui, apps/electron/src/renderer), WorkspaceService with its    *)
(* file, the listeners of FlowserAppService, FlowConfigService with its    *)
(* watchers of flow.json, and the configuration of the gateway.            *)
(*                                                                         *)
(* Everything that reads the list of workspaces awaits the file first: a   *)
(* read is made when it is asked for, and its answer used later.  The      *)
(* emulator and the dev wallet are in FlowserApp: here a listener awaits   *)
(* them, or fails.  The settings of a workspace are reduced to its path.   *)
(***************************************************************************)
EXTENDS Integers, FiniteSets

CONSTANTS
    Saved,          \* ids of workspaces made with the settings form
    Temporary,      \* id of the workspace given on the command line
    Paths,          \* project directories
    Requests,       \* things the user does at the same time
    Handlers,       \* listeners under way at the same time
    Watchers,       \* watchers of flow.json there ever are at the same time
    Limits,         \* bounds: [actions, edits, parallel, startup, ids, path], that
                    \* is how often the user acts and edits flow.json, if at the
                    \* same time, if with a command line, on which workspaces, and
                    \* the first directory
    None, Broken

ListFile == "flowser-workspaces.json"

(* The id on the command line is none of those that forms make up, None    *)
(* is neither a name nor a directory nor a configuration, and flow.json is *)
(* edited at most four times.                                              *)
ASSUME WorkspacesAssumption == Temporary \notin Saved /\ None # ListFile

ASSUME NoneAssumption == None \notin Paths /\ None \notin [path : Paths, version : 1..5]

ASSUME LimitsAssumption ==
    Limits \subseteq [actions : Nat, edits : 0..4, parallel : BOOLEAN, startup : BOOLEAN,
                      ids : SUBSET Saved, path : Paths]

Ids == Saved \cup {Temporary}
Entries == [id : Saved, path : Paths]

VARIABLES
    files,                      \* of the FileStorageService
    temporaryWorkspaceLookup, openWorkspaceIds,
    workingDirectoryPath, config, fileListenerController, watcher,
    fcl,                        \* what the gateway is configured with
    handler,                    \* the listeners
    page, projects, form, dialog, request,
    flowJson,                   \* what is in flow.json, by directory
    left,                       \* of the bounds
    saved, raced,               \* history: the list that calls in sequence give, unless they raced
    disturbed,                  \* history: requests overlapped or failed
    mixed, unwatched, doubled   \* history: listeners of two workspaces, edits
                                \* that no watcher could see, reloads at the same time

service == <<files, temporaryWorkspaceLookup, openWorkspaceIds>>
configuration == <<workingDirectoryPath, config, fileListenerController, watcher>>
window == <<page, projects, form, dialog, request>>
history == <<saved, raced, disturbed, mixed, unwatched, doubled>>
vars == <<service, configuration, fcl, handler, window, flowJson, left, history>>

List == INSTANCE FileStorage WITH Names <- {ListFile}, Items <- Entries, fileName <- ListFile

---------------------------------------------------------------------------
(* WorkspaceService *)

(* What storage.read and JSON.parse give, now.                             *)
Read == [ok |-> List!Parses, list |-> List!Parsed]

NotRead == [ok |-> FALSE, list |-> {}]

TemporaryWorkspaces ==
    IF temporaryWorkspaceLookup = None THEN {}
    ELSE {[id |-> Temporary, path |-> temporaryWorkspaceLookup]}

(* findAll and findById, once the file was read.                           *)
FindAll(read) == read.list \cup TemporaryWorkspaces
FindById(read, id) == {w \in FindAll(read) : read.ok /\ w.id = id}

\* Mutant of Persistable: temporary workspaces are not told from others.
PersistableOrOpen(list) == {w \in list : w.id # Temporary \/ w.id \in openWorkspaceIds}

(* saveAll: what is written; temporary workspaces go to the lookup.        *)
Persistable(list) == {w \in list : w.id # Temporary \/ temporaryWorkspaceLookup = None}

SetTemporary(list) ==
    temporaryWorkspaceLookup' =
        IF temporaryWorkspaceLookup # None /\ \E w \in list : w.id = Temporary
        THEN (CHOOSE w \in list : w.id = Temporary).path
        ELSE temporaryWorkspaceLookup

(* create, update and remove: the new list.                                *)
Changed(op, w, list) ==
    CASE op = "create" -> list \cup {w}
      [] op = "update" -> {IF e.id = w.id THEN w ELSE e : e \in list}
      [] op = "remove" -> {e \in list : e.id # w.id}

---------------------------------------------------------------------------
(* State *)

Workspace == [id : Ids, path : Paths]

AnyWorkspace == [id |-> Temporary, path |-> CHOOSE p \in Paths : TRUE]

ReadType == [ok : BOOLEAN, list : SUBSET Entries]

IdleRequest == [pc |-> "idle", op |-> "open", w |-> AnyWorkspace, read |-> NotRead]
IdleHandler == [pc |-> "idle", event |-> "OPEN", id |-> Temporary, path |-> None,
                read |-> NotRead, content |-> None]
ClosedForm == [pc |-> "closed", w |-> AnyWorkspace, read |-> NotRead]
NoWatcher == [path |-> None, live |-> FALSE, event |-> FALSE, loading |-> FALSE,
              from |-> None, content |-> None]

Contents == {None, Broken} \cup 1..5        \* None: there is no such file
ConfigType == [path : Paths, version : 1..5] \cup {None}

TypeOK ==
    /\ files \in [{ListFile} -> [list : SUBSET Entries, whole : BOOLEAN]]
    /\ temporaryWorkspaceLookup \in Paths \cup {None}
    /\ openWorkspaceIds \subseteq Ids
    /\ workingDirectoryPath \in Paths \cup {None}
    /\ config \in ConfigType
    /\ fileListenerController \in Watchers \cup {None}
    /\ \A x \in Watchers : watcher[x].path \in Paths \cup {None} /\ watcher[x].live \in BOOLEAN
    /\ fcl \in [flowJSON : ConfigType, api : Paths \cup {None}]
    /\ \A h \in Handlers : handler[h].pc \in {"idle", "find", "load", "stop", "start"}
    /\ page \in [name : {"projects", "create", "settings", "workspace"}, id : Ids]
    /\ projects \in (SUBSET Workspace) \cup {None}
    /\ form.pc \in {"closed", "loading", "editing", "submitting"} /\ form.w \in Workspace
    /\ dialog \in [id : Ids \cup {None}, loading : BOOLEAN]
    /\ \A r \in Requests : /\ request[r].pc \in {"idle", "find", "write", "written", "refetch"}
                           /\ request[r].op \in {"open", "close", "create", "update", "remove", "startup"}
                           /\ request[r].w \in Workspace
    /\ flowJson \in [Paths -> Contents]
    /\ saved \subseteq Entries
    /\ unwatched \subseteq Paths

NoDialog == [id |-> None, loading |-> FALSE]
ProjectsPage == [name |-> "projects", id |-> Temporary]
WorkspacePage(id) == [name |-> "workspace", id |-> id]
SettingsPage(id) == [name |-> "settings", id |-> id]

Init ==
    /\ left \in Limits
    /\ \E list \in {{}} \cup {{w} : w \in {e \in Entries : e.path = left.path /\ e.id \in left.ids}} :
        /\ files = [n \in {ListFile} |-> List!FileOf(list)]
        /\ saved = list
    /\ temporaryWorkspaceLookup = None
    /\ openWorkspaceIds = {}
    /\ workingDirectoryPath = None
    /\ config = None
    /\ fileListenerController = None
    /\ watcher = [x \in Watchers |-> NoWatcher]
    /\ fcl = [flowJSON |-> None, api |-> None]
    /\ handler = [h \in Handlers |-> IdleHandler]
    /\ page = ProjectsPage
    /\ projects = {}
    /\ form = ClosedForm
    /\ dialog = NoDialog
    /\ request = [r \in Requests |-> IdleRequest]
    /\ flowJson \in {f \in [Paths -> {None, 1}] : f[left.path] = 1}
    /\ raced = FALSE /\ disturbed = FALSE
    /\ mixed = FALSE /\ unwatched = {} /\ doubled = FALSE

---------------------------------------------------------------------------
(* Events: emit calls the listener, which starts with a read of the list.  *)

Running(h) == handler[h].pc # "idle"
Finish(h) == handler' = [handler EXCEPT ![h] = IdleHandler]

Configures(h) == Running(h) /\ handler[h].event \in {"OPEN", "UPDATE"}

(* What a listener that configures something will have found.              *)
Settings(h) ==
    IF handler[h].pc = "find" THEN FindById(handler[h].read, handler[h].id)
    ELSE {[id |-> handler[h].id, path |-> handler[h].path]}

(* Does a listener of another workspace, or of other settings, run, or one *)
(* that reads flow.json?                                                   *)
Conflicts(w) ==
    \/ openWorkspaceIds \ {w.id} # {}
    \/ \E h \in Handlers : Configures(h) /\ (handler[h].event = "OPEN" \/ Settings(h) # {w})

Emit(event, w) ==
    /\ \E h \in {CHOOSE h \in Handlers : ~Running(h)} :
        handler' = [handler EXCEPT ![h] =
            [IdleHandler EXCEPT !.pc = IF event = "CLOSE" THEN "stop" ELSE "find",
                                !.event = event, !.id = w.id, !.read = Read]]
    /\ mixed' = CASE event = "CLOSE" -> mixed
                  [] event = "OPEN" /\ openWorkspaceIds \subseteq {w.id}
                                    /\ \A h \in Handlers : ~Configures(h) -> FALSE
                  [] OTHER -> mixed \/ Conflicts(w)

CanEmit == \E h \in Handlers : ~Running(h)

---------------------------------------------------------------------------
(* FlowConfigService *)

\* Mutant of Detach: the watcher is not aborted.
DetachNothing == watcher

(* detachListeners: of several watchers only the last one is known.        *)
Detach ==
    [x \in Watchers |-> IF x = fileListenerController
                        THEN [watcher[x] EXCEPT !.live = FALSE, !.event = FALSE]
                        ELSE watcher[x]]

(* load, once the file was read: errors are logged.                        *)
Loaded(path, content) ==
    IF content \in {None, Broken} THEN config ELSE [path |-> path, version |-> content]

(* The iterator of an aborted watcher is gone once its last load is done.  *)
Free(x) == ~watcher[x].live /\ ~watcher[x].loading

(* attachListeners: watch() fails if there is no file.                     *)
Attach ==
    \E x \in {CHOOSE x \in Watchers : Free(x)} :
        /\ fileListenerController' = x
        /\ watcher' = [watcher EXCEPT ![x] =
              [NoWatcher EXCEPT !.path = workingDirectoryPath,
                                !.live = flowJson[workingDirectoryPath] # None]]

CanAttach == \E x \in Watchers : Free(x)

(* A watcher takes an event from its queue and loads the configuration of  *)
(* the current directory.                                                  *)
WatcherLoads(x) ==
    /\ watcher[x].live /\ watcher[x].event /\ ~watcher[x].loading
    /\ watcher' = [watcher EXCEPT ![x] =
          [@ EXCEPT !.event = FALSE, !.loading = TRUE, !.from = workingDirectoryPath,
                    !.content = flowJson[workingDirectoryPath]]]
    /\ unwatched' = unwatched \ {workingDirectoryPath}
    /\ UNCHANGED <<service, workingDirectoryPath, config, fileListenerController, fcl, handler,
                   window, flowJson, left, saved, raced, disturbed, mixed, doubled>>

\* Mutant of WatcherLoaded: nobody is told.
WatcherLoadedQuietly(x) ==
    /\ watcher[x].loading
    /\ CanEmit
    /\ config' = Loaded(watcher[x].from, watcher[x].content)
    /\ watcher' = [watcher EXCEPT ![x] = [@ EXCEPT !.loading = FALSE, !.from = None, !.content = None]]
    /\ UNCHANGED <<service, workingDirectoryPath, fileListenerController, fcl, handler, window, flowJson,
                   left, history>>

(* ... and emits FLOW_JSON_UPDATE.                                         *)
WatcherLoaded(x) ==
    /\ watcher[x].loading
    /\ CanEmit
    /\ config' = Loaded(watcher[x].from, watcher[x].content)
    /\ watcher' = [watcher EXCEPT ![x] = [@ EXCEPT !.loading = FALSE, !.from = None, !.content = None]]
    /\ \E h \in {CHOOSE h \in Handlers : ~Running(h)} :
        handler' = [handler EXCEPT ![h] = [IdleHandler EXCEPT !.pc = "find", !.event = "JSON", !.read = Read]]
    /\ UNCHANGED <<service, workingDirectoryPath, fileListenerController, fcl, window, flowJson,
                   left, history>>

(* Somebody saves flow.json.                                               *)
EditFlowJson(p) ==
    /\ left.edits > 0
    /\ left' = [left EXCEPT !.edits = @ - 1]
    /\ \E content \in {Broken, 1 + left.edits} : flowJson' = [flowJson EXCEPT ![p] = content]
    /\ watcher' = [x \in Watchers |->
          IF watcher[x].live /\ watcher[x].path = p THEN [watcher[x] EXCEPT !.event = TRUE]
          ELSE watcher[x]]
    /\ unwatched' = IF \E x \in Watchers : watcher[x].live /\ watcher[x].path = p
                    THEN unwatched ELSE unwatched \cup {p}
    /\ UNCHANGED <<service, workingDirectoryPath, config, fileListenerController, fcl, handler,
                   window, saved, raced, disturbed, mixed, doubled>>

---------------------------------------------------------------------------
(* The listeners of FlowserAppService *)

(* FlowGatewayService.configure: what was loaded into fcl stays if there   *)
(* is no flow.json.                                                        *)
Configure(flowJSON, api) ==
    fcl' = [flowJSON |-> IF flowJSON = None THEN fcl.flowJSON ELSE flowJSON, api |-> api]

(* findByIdOrThrow of onWorkspaceOpen and onWorkspaceUpdate; configure     *)
(* and reload as far as the read of flow.json, or the stop of the emulator.*)
Found(h) ==
    /\ handler[h].pc = "find" /\ handler[h].event \in {"OPEN", "UPDATE"}
    /\ \E w \in FindById(handler[h].read, handler[h].id) :
        IF handler[h].event = "OPEN"
        THEN /\ handler' = [handler EXCEPT ![h] =
                    [@ EXCEPT !.pc = "load", !.path = w.path, !.content = flowJson[w.path], !.read = NotRead]]
             /\ workingDirectoryPath' = w.path
             /\ watcher' = Detach
             /\ unwatched' = unwatched \ {w.path}
             /\ LET overlaps == \/ \E g \in Handlers : handler[g].pc = "load"
                                \/ \E x \in Watchers : watcher[x].loading
                IN  doubled' = (doubled \/ overlaps)
             /\ UNCHANGED <<config, fileListenerController, mixed>>
        ELSE /\ handler' = [handler EXCEPT ![h] = [@ EXCEPT !.pc = "stop", !.path = w.path, !.read = NotRead]]
             /\ UNCHANGED <<configuration, mixed, unwatched, doubled>>
    /\ UNCHANGED <<service, fcl, window, flowJson, left, saved, raced, disturbed>>

(* The list does not parse, or the workspace is gone: a dialog is shown.   *)
NotFound(h) ==
    /\ handler[h].pc = "find" /\ handler[h].event \in {"OPEN", "UPDATE"}
    /\ FindById(handler[h].read, handler[h].id) = {}
    /\ Finish(h)
    /\ mixed' = TRUE
    /\ UNCHANGED <<service, configuration, fcl, window, flowJson, left, saved, raced, disturbed, unwatched,
                   doubled>>

(* flow.json was read: the rest of onWorkspaceOpen, as far as the first    *)
(* request of startAndReindexEmulator.                                     *)
ConfigLoaded(h) ==
    /\ handler[h].pc = "load"
    /\ CanAttach
    /\ config' = Loaded(handler[h].path, handler[h].content)
    /\ Attach
    /\ Configure(config', handler[h].path)
    /\ handler' = [handler EXCEPT ![h] = [@ EXCEPT !.pc = "start", !.content = None]]
    /\ UNCHANGED <<service, workingDirectoryPath, window, flowJson, left, history>>

(* The emulator and the dev wallet have stopped.                           *)
Stopped(h) ==
    /\ handler[h].pc = "stop"
    /\ IF handler[h].event = "CLOSE"
       THEN Finish(h) /\ UNCHANGED fcl
       ELSE /\ handler' = [handler EXCEPT ![h] = [@ EXCEPT !.pc = "start"]]
            /\ Configure(config, handler[h].path)
    /\ UNCHANGED <<service, configuration, window, flowJson, left, history>>

(* They do not stop in time: the rest of the listener is skipped.          *)
StopFails(h) ==
    /\ handler[h].pc = "stop"
    /\ Finish(h)
    /\ UNCHANGED <<service, configuration, fcl, window, flowJson, left, history>>

(* The emulator and the dev wallet are started and the wallet and the      *)
(* snapshots synchronized, or one of them fails.                           *)
Started(h) ==
    /\ handler[h].pc = "start"
    /\ Finish(h)
    /\ UNCHANGED <<service, configuration, fcl, window, flowJson, left, history>>

(* onFlowJsonUpdate; the dialog of a list that does not parse.             *)
FlowJsonUpdate(h) ==
    /\ handler[h].pc = "find" /\ handler[h].event = "JSON"
    /\ Finish(h)
    /\ LET read == handler[h].read
           isOpen == read.ok /\ \E w \in FindAll(read) : w.id \in openWorkspaceIds
       IN  /\ fcl' = IF isOpen THEN [fcl EXCEPT !.flowJSON = config] ELSE fcl
           /\ mixed' = (mixed \/ ~read.ok)
    /\ UNCHANGED <<service, configuration, window, flowJson, left, saved, raced, disturbed, unwatched,
                   doubled>>

---------------------------------------------------------------------------
(* The window: requests to the main process *)

Idle(r) == request[r].pc = "idle"
InFlow(r, pc) == request[r].pc = pc
Other(r) == \E q \in Requests \ {r} : ~Idle(q)

(* The settings form shows a loader while it is submitted.                 *)
Submitting == form.pc = "submitting"

Go(r, pc) == request' = [request EXCEPT ![r].pc = pc]
EndRequest(r) == request' = [request EXCEPT ![r] = IdleRequest]

(* The form of a settings page is loaded when the page is entered.         *)
FormOf(p) == CASE p.name = "settings" -> [pc |-> "loading", w |-> AnyWorkspace, read |-> Read]
               [] OTHER -> ClosedForm

Navigate(p) ==
    /\ page' = p
    /\ form' = IF p = page THEN form ELSE FormOf(p)

(* Of two calls that read the list and write it back at the same time.     *)
Writes(op) == op \in {"create", "update", "remove"}
Races(r) == \E q \in Requests \ {r} : Writes(request[q].op) /\ request[q].pc \in {"find", "write"}

(* Every request of the user takes one of the actions that are left.       *)
Ask(r, op, w, pc) ==
    /\ Idle(r) /\ r = CHOOSE q \in Requests : Idle(q)
    /\ left.actions > 0
    /\ left' = [left EXCEPT !.actions = @ - 1]
    /\ left.parallel \/ ~Other(r)
    /\ request' = [request EXCEPT ![r] = [pc |-> pc, op |-> op, w |-> w, read |-> Read]]
    /\ raced' = (raced \/ (Writes(op) /\ Races(r)))
    /\ disturbed' = \/ Other(r)
                    \/ op = "remove" /\ openWorkspaceIds # {}
                    \/ disturbed /\ ~(page = ProjectsPage /\ openWorkspaceIds = {})

(* A click on a project of the list.                                       *)
OpenWorkspace(r, w) ==
    /\ page = ProjectsPage /\ dialog = NoDialog
    /\ projects # None /\ w \in projects
    /\ Ask(r, "open", w, "find")
    /\ UNCHANGED <<service, configuration, fcl, handler, page, projects, form, dialog, flowJson, saved,
                   mixed, unwatched, doubled>>

(* openTemporaryWorkspace, when the application starts.                    *)
OpenTemporaryWorkspace(r, p) ==
    /\ left.startup
    /\ page = ProjectsPage /\ openWorkspaceIds = {}
    /\ \A q \in Requests : Idle(q)
    /\ r = CHOOSE q \in Requests : TRUE
    /\ left' = [left EXCEPT !.startup = FALSE]
    /\ temporaryWorkspaceLookup' = p
    /\ request' = [request EXCEPT ![r] =
          [pc |-> "find", op |-> "startup", w |-> [id |-> Temporary, path |-> p], read |-> Read]]
    /\ disturbed' = Other(r)
    /\ UNCHANGED <<files, openWorkspaceIds, configuration, fcl, handler, page, projects, form, dialog,
                   flowJson, saved, raced, mixed, unwatched, doubled>>

\* Mutant of Opened: the event is emitted, but the id is not recorded.
OpenedUnrecorded(r) ==
    /\ InFlow(r, "find") /\ request[r].op \in {"open", "startup"}
    /\ \E w \in FindById(request[r].read, request[r].w.id) : Emit("OPEN", w)
    /\ Go(r, "refetch")
    /\ UNCHANGED <<service, configuration, fcl, page, projects, form, dialog, flowJson, left, saved, raced,
                   disturbed, unwatched, doubled>>

(* open of the service, once the list was read.                            *)
Opened(r) ==
    /\ InFlow(r, "find") /\ request[r].op \in {"open", "startup"}
    /\ CanEmit
    /\ \E w \in FindById(request[r].read, request[r].w.id) :
        /\ openWorkspaceIds' = openWorkspaceIds \cup {w.id}
        /\ Emit("OPEN", w)
    /\ Go(r, "refetch")
    /\ UNCHANGED <<files, temporaryWorkspaceLookup, configuration, fcl, page, projects, form, dialog,
                   flowJson, left, saved, raced, disturbed, unwatched, doubled>>

(* It throws: the window shows the settings of the workspace.  A form that *)
(* is shown already stays, and has been submitted.                         *)
OpenFails(r) ==
    /\ InFlow(r, "find") /\ request[r].op \in {"open", "startup"}
    /\ FindById(request[r].read, request[r].w.id) = {}
    /\ EndRequest(r)
    /\ CASE request[r].op = "startup" -> UNCHANGED <<page, form>>
         [] page = SettingsPage(request[r].w.id) /\ Submitting ->
                form' = [form EXCEPT !.pc = "editing"] /\ UNCHANGED page
         [] OTHER -> Navigate(SettingsPage(request[r].w.id))
    /\ disturbed' = TRUE
    /\ UNCHANGED <<service, configuration, fcl, handler, projects, dialog, flowJson, left, saved, raced,
                   mixed, unwatched, doubled>>

(* The exit of the side navigation.                                        *)
CloseWorkspace(r) ==
    /\ page.name \in {"workspace", "settings"} /\ dialog = NoDialog
    /\ CanEmit
    /\ openWorkspaceIds' = openWorkspaceIds \ {page.id}
    /\ Emit("CLOSE", [id |-> page.id, path |-> None])
    /\ Ask(r, "close", [AnyWorkspace EXCEPT !.id = page.id], "refetch")
    /\ UNCHANGED <<files, temporaryWorkspaceLookup, configuration, fcl, page, projects, form, dialog,
                   flowJson, saved, unwatched, doubled>>

(* SAVE & RUN.                                                             *)
SaveWorkspace(r) ==
    /\ form.pc = "editing" /\ dialog = NoDialog
    /\ Ask(r, IF page.name = "create" THEN "create" ELSE "update", form.w, "find")
    /\ form' = [form EXCEPT !.pc = "submitting"]
    /\ UNCHANGED <<service, configuration, fcl, handler, page, projects, dialog, flowJson, saved,
                   mixed, unwatched, doubled>>

(* removeWorkspace, from the list or from the settings form.               *)
RemoveWorkspace(id) ==
    /\ dialog = NoDialog
    /\ \/ page = ProjectsPage /\ projects # None /\ \E w \in projects : w.id = id
       \/ page.name = "settings" /\ form.pc = "editing" /\ form.w.id = id
    /\ dialog' = [id |-> id, loading |-> FALSE]
    /\ UNCHANGED <<service, configuration, fcl, handler, page, projects, form, request, flowJson, left,
                   history>>

CancelDialog ==
    /\ dialog # NoDialog
    /\ dialog' = NoDialog
    /\ UNCHANGED <<service, configuration, fcl, handler, page, projects, form, request, flowJson, left,
                   history>>

(* confirmWorkspaceRemove; the button has a loader then.                   *)
ConfirmRemove(r) ==
    /\ dialog # NoDialog /\ ~dialog.loading
    /\ Ask(r, "remove", [AnyWorkspace EXCEPT !.id = dialog.id], "find")
    /\ dialog' = [dialog EXCEPT !.loading = TRUE]
    /\ UNCHANGED <<service, configuration, fcl, handler, page, projects, form, flowJson, saved,
                   mixed, unwatched, doubled>>

(* The list was read; the new one is being written.                        *)
SaveAll(r) ==
    /\ InFlow(r, "find") /\ Writes(request[r].op) /\ request[r].read.ok
    /\ LET list == Changed(request[r].op, request[r].w, FindAll(request[r].read))
       IN  /\ SetTemporary(list)
           /\ request' = [request EXCEPT ![r] =
                [@ EXCEPT !.pc = "write", !.read = [ok |-> TRUE, list |-> Persistable(list)]]]
    /\ List!Truncate(ListFile)
    /\ UNCHANGED <<openWorkspaceIds, configuration, fcl, handler, page, projects, form, dialog, flowJson, left,
                   history>>

(* handleConfirm and confirmWorkspaceRemove hide whatever dialog there is. *)
HideDialog(r) == dialog' = IF request[r].op = "remove" THEN NoDialog ELSE dialog

(* The list that was read does not parse: a toast is shown.                *)
SaveFails(r) ==
    /\ InFlow(r, "find") /\ Writes(request[r].op) /\ ~request[r].read.ok
    /\ EndRequest(r)
    /\ HideDialog(r)
    /\ form' = IF request[r].op # "remove" /\ Submitting THEN [form EXCEPT !.pc = "editing"] ELSE form
    /\ disturbed' = TRUE
    /\ UNCHANGED <<service, configuration, fcl, handler, page, projects, flowJson, left, saved, raced,
                   mixed, unwatched, doubled>>

(* The list is written.                                                    *)
Written(r) ==
    /\ InFlow(r, "write")
    /\ List!Overwrite(ListFile, request[r].read.list)
    /\ saved' = {w \in Changed(request[r].op, request[r].w, saved) : w.id # Temporary}
    /\ Go(r, "written")
    /\ UNCHANGED <<temporaryWorkspaceLookup, openWorkspaceIds, configuration, fcl, handler, page, projects,
                   form, dialog, flowJson, left, raced, disturbed, mixed, unwatched, doubled>>

(* update emits its event; the form then opens the workspace.              *)
Returned(r) ==
    /\ InFlow(r, "written")
    /\ request' = [request EXCEPT ![r] =
          IF @.op = "remove" THEN [@ EXCEPT !.pc = "refetch", !.read = NotRead]
          ELSE [@ EXCEPT !.pc = "find", !.op = "open", !.read = Read]]
    /\ IF request[r].op = "update" THEN CanEmit /\ Emit("UPDATE", request[r].w)
       ELSE UNCHANGED <<handler, mixed>>
    /\ UNCHANGED <<service, configuration, fcl, page, projects, form, dialog, flowJson, left, saved, raced,
                   disturbed, unwatched, doubled>>

(* The current workspace was fetched again, and the next page is shown.    *)
Refetched(r) ==
    /\ InFlow(r, "refetch")
    /\ Navigate(IF request[r].op \in {"open", "startup"} THEN WorkspacePage(request[r].w.id)
                ELSE ProjectsPage)
    /\ HideDialog(r)
    /\ EndRequest(r)
    /\ UNCHANGED <<service, configuration, fcl, handler, projects, flowJson, left, history>>

---------------------------------------------------------------------------
(* The window: pages *)

(* The list of projects is fetched every indexSyncIntervalInMs.            *)
FetchProjects ==
    /\ page = ProjectsPage
    /\ projects' = IF Read.ok THEN FindAll(Read) ELSE None
    /\ UNCHANGED <<service, configuration, fcl, handler, page, form, dialog, request, flowJson, left, history>>

(* NEW PROJECT: the default settings have an id of their own.              *)
NewProject(w) ==
    /\ page = ProjectsPage /\ dialog = NoDialog
    /\ left.actions > 0
    /\ w.id \in left.ids \ openWorkspaceIds
    /\ \A e \in saved \cup (IF projects = None THEN {} ELSE projects) : e.id # w.id
    /\ \A r \in Requests : Idle(r)
    /\ page' = [name |-> "create", id |-> w.id]
    /\ form' = [pc |-> "editing", w |-> w, read |-> NotRead]
    /\ UNCHANGED <<service, configuration, fcl, handler, projects, dialog, request, flowJson, left, history>>

(* The settings and the other pages of a workspace.                        *)
Visit(name) ==
    /\ page.name \in {"workspace", "settings"} \ {name}
    /\ dialog = NoDialog
    /\ Navigate([page EXCEPT !.name = name])
    /\ UNCHANGED <<service, configuration, fcl, handler, projects, dialog, request, flowJson, left, history>>

(* loadExistingWorkspace; without a workspace there is nothing to save.    *)
FormLoaded ==
    /\ form.pc = "loading"
    /\ form' = LET found == FindById(form.read, page.id)
               IN  IF found = {} THEN ClosedForm
                   ELSE [pc |-> "editing", w |-> CHOOSE w \in found : TRUE, read |-> NotRead]
    /\ UNCHANGED <<service, configuration, fcl, handler, page, projects, dialog, request, flowJson, left,
                   history>>

(* A field of the form.                                                    *)
EditForm(p) ==
    /\ form.pc = "editing" /\ dialog = NoDialog
    /\ form' = [form EXCEPT !.w.path = p]
    /\ UNCHANGED <<service, configuration, fcl, handler, page, projects, dialog, request, flowJson, left,
                   history>>

---------------------------------------------------------------------------

Proceed(r) ==
    \/ Opened(r) \/ OpenFails(r) \/ SaveAll(r) \/ SaveFails(r) \/ Written(r) \/ Returned(r) \/ Refetched(r)

Listen(h) ==
    Found(h) \/ NotFound(h) \/ ConfigLoaded(h) \/ Stopped(h) \/ StopFails(h) \/ Started(h) \/ FlowJsonUpdate(h)

Watch(x) == WatcherLoads(x) \/ WatcherLoaded(x)

Next ==
    \/ \E r \in Requests : \/ Proceed(r) \/ CloseWorkspace(r) \/ SaveWorkspace(r) \/ ConfirmRemove(r)
                           \/ \E w \in Workspace : OpenWorkspace(r, w)
                           \/ \E p \in Paths : OpenTemporaryWorkspace(r, p)
    \/ \E h \in Handlers : Listen(h)
    \/ \E x \in Watchers : Watch(x)
    \/ \E p \in Paths : EditFlowJson(p) \/ EditForm(p)
    \/ \E id \in Ids : RemoveWorkspace(id)
    \/ \E w \in Entries : NewProject(w)
    \/ \E name \in {"workspace", "settings"} : Visit(name)
    \/ CancelDialog \/ FetchProjects \/ FormLoaded

Spec == Init /\ [][Next]_vars

---------------------------------------------------------------------------

AllIdle == \A r \in Requests : Idle(r)

Quiet ==
    /\ AllIdle
    /\ \A h \in Handlers : ~Running(h)
    /\ \A x \in Watchers : ~watcher[x].event /\ ~watcher[x].loading

(* Once everything is quiet, the gateway works with the flow.json and the  *)
(* settings of the workspace that is open, as they are now, in whatever    *)
(* order the listeners of UPDATE, OPEN and FLOW_JSON_UPDATE came to        *)
(* configure it (flowser-app.service.ts:249-306).  Provided that flow.json *)
(* parses and was not changed before a watcher was attached (unwatched),   *)
(* that the listeners of two workspaces, or of other settings, did not run *)
(* at the same time (mixed), that two reloads did not overlap: the later   *)
(* load may then be the older one, flow-config.service.ts:214 (doubled);   *)
(* and that no two writers of the list raced: a lost update takes the      *)
(* settings back behind the gateway (raced).                               *)
GatewayFollowsFile ==
    (Quiet /\ ~mixed /\ ~doubled /\ ~raced) =>
        \A w \in FindAll(Read) :
            (openWorkspaceIds = {w.id} /\ flowJson[w.path] \notin {None, Broken} /\ w.path \notin unwatched) =>
                fcl = [flowJSON |-> [path |-> w.path, version |-> flowJson[w.path]], api |-> w.path]

(* A reload aborts the watcher of the one before (flow-config.service.ts   *)
(* :118-122): however many workspaces were opened one after the other, one *)
(* flow.json is watched at most, the one of the current directory.         *)
OneWatcher ==
    (~doubled /\ \A h \in Handlers : handler[h].pc # "load") =>
        \A x \in Watchers : watcher[x].live => x = fileListenerController /\ watcher[x].path = workingDirectoryPath

(* create, update and remove read the list, await and write it back        *)
(* (workspace.service.ts:72-90, 116-133): unless two of them race, the     *)
(* file holds what they make of it one after the other, and never a        *)
(* temporary workspace ("Temporary workspaces are not persisted to disk.", *)
(* :67).                                                                   *)
ListAsSaved ==
    (~raced /\ \A r \in Requests : request[r].pc # "write") => files[ListFile] = List!FileOf(saved)

(* "There will be only 1 open workspace for now." (workspace.service.ts    *)
(* :28): with one request at a time, none of which fails, the workspace    *)
(* whose pages are shown is open and no other one is.  (Removing one while *)
(* one is open leads to the list of projects, and closes nothing.)         *)
OpenIsShown ==
    (AllIdle /\ ~disturbed) =>
        openWorkspaceIds = IF page.name \in {"workspace", "settings"} THEN {page.id} ELSE {}

===========================================================================
