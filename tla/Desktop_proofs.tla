---------------------------- MODULE Desktop_proofs ----------------------------
(***************************************************************************)
(* Safety of Desktop for any number of workspaces, directories, requests,  *)
(* listeners and watchers.                                                 *)
(***************************************************************************)
EXTENDS Desktop, FiniteSetTheorems, TLAPS

---------------------------------------------------------------------------
(* Types *)

RequestType ==
    [pc : {"idle", "find", "write", "written", "refetch"},
     op : {"open", "close", "create", "update", "remove", "startup"},
     w : Workspace, read : ReadType]

HandlerType ==
    [pc : {"idle", "find", "load", "stop", "start"},
     event : {"OPEN", "CLOSE", "UPDATE", "JSON"},
     id : Ids, path : Paths \cup {None}, read : ReadType, content : Contents]

WatcherType ==
    [path : Paths \cup {None}, live : BOOLEAN, event : BOOLEAN, loading : BOOLEAN,
     from : Paths \cup {None}, content : Contents]

FormType == [pc : {"closed", "loading", "editing", "submitting"}, w : Workspace, read : ReadType]

(* The list, and the requests: only the form of a new project creates one. *)
ServiceInv ==
    /\ files \in [{ListFile} -> [list : SUBSET Entries, whole : BOOLEAN]]
    /\ temporaryWorkspaceLookup \in Paths \cup {None}
    /\ openWorkspaceIds \in SUBSET Ids
    /\ request \in [Requests -> RequestType]
    /\ saved \in SUBSET Entries
    /\ \A r \in Requests : /\ request[r].op = "create" => request[r].w \in Entries
                           /\ request[r].pc \in {"write", "written"} => Writes(request[r].op)

(* The pages; the form is the one of the page.                             *)
WindowInv ==
    /\ page \in [name : {"projects", "create", "settings", "workspace"}, id : Ids]
    /\ projects \in (SUBSET Workspace) \cup {None}
    /\ form \in FormType
    /\ dialog \in [id : Ids, loading : BOOLEAN] \cup {NoDialog}
    /\ form.pc # "closed" => page.name \in {"create", "settings"}
    /\ form.pc = "loading" => page.name = "settings"
    /\ form.pc \in {"editing", "submitting"} => form.w.id = page.id
    /\ page.name = "create" => page.id \in Saved

(* What reads flow.json has a directory.                                   *)
ConfigurationInv ==
    /\ workingDirectoryPath \in Paths \cup {None}
    /\ config \in ConfigType
    /\ fileListenerController \in Watchers \cup {None}
    /\ watcher \in [Watchers -> WatcherType]
    /\ fcl \in [flowJSON : ConfigType, api : Paths \cup {None}]
    /\ handler \in [Handlers -> HandlerType]
    /\ flowJson \in [Paths -> Contents]
    /\ unwatched \in SUBSET Paths
    /\ \A x \in Watchers : /\ watcher[x].live => workingDirectoryPath \in Paths
                           /\ watcher[x].loading => watcher[x].from \in Paths
    /\ \A h \in Handlers : handler[h].pc = "load" =>
                              handler[h].path \in Paths /\ workingDirectoryPath \in Paths

LeftInv == left \in [actions : Nat, edits : 0..4, parallel : BOOLEAN, startup : BOOLEAN,
                     ids : SUBSET Saved, path : Paths]

HistoryInv == {raced, disturbed, mixed, doubled} \subseteq BOOLEAN

TypeInv == ServiceInv /\ WindowInv /\ ConfigurationInv /\ LeftInv /\ HistoryInv

---------------------------------------------------------------------------
(* What the actions of one part leave alone. *)

LEMMA ListenersLeave ==
    ASSUME \/ \E h \in Handlers : Listen(h)
           \/ \E x \in Watchers : Watch(x)
           \/ \E p \in Paths : EditFlowJson(p)
    PROVE  UNCHANGED <<service, window, saved, raced, disturbed>>
BY DEF Listen, Watch, EditFlowJson, Found, NotFound, ConfigLoaded, Stopped, StopFails, Started,
       FlowJsonUpdate, WatcherLoads, WatcherLoaded, history

WindowStep ==
    \/ \E p \in Paths : EditForm(p)
    \/ \E id \in Ids : RemoveWorkspace(id)
    \/ \E w \in Entries : NewProject(w)
    \/ \E name \in {"workspace", "settings"} : Visit(name)
    \/ CancelDialog \/ FetchProjects \/ FormLoaded

LEMMA WindowLeaves ==
    ASSUME WindowStep
    PROVE  UNCHANGED <<service, configuration, fcl, handler, request, flowJson, left, history>>
BY DEF WindowStep, EditForm, RemoveWorkspace, NewProject, Visit, CancelDialog, FetchProjects, FormLoaded

Asks(r) ==
    \/ CloseWorkspace(r) \/ SaveWorkspace(r) \/ ConfirmRemove(r)
    \/ \E w \in Workspace : OpenWorkspace(r, w)
    \/ \E p \in Paths : OpenTemporaryWorkspace(r, p)

LEMMA RequestsLeave ==
    ASSUME \E r \in Requests : Proceed(r) \/ Asks(r)
    PROVE  UNCHANGED <<configuration, fcl, flowJson, unwatched, doubled, projects>>
BY DEF Proceed, Asks, CloseWorkspace, SaveWorkspace, ConfirmRemove, OpenWorkspace, OpenTemporaryWorkspace,
       Opened, OpenFails, SaveAll, SaveFails, Written, Returned, Refetched, window, history, configuration

LEMMA NextParts ==
    Next => \/ \E r \in Requests : Proceed(r) \/ Asks(r)
            \/ \E h \in Handlers : Listen(h)
            \/ \E x \in Watchers : Watch(x)
            \/ \E p \in Paths : EditFlowJson(p)
            \/ WindowStep
BY DEF Next, Asks, WindowStep

---------------------------------------------------------------------------
(* Typing of what the actions share. *)

LEMMA PathsExist == LeftInv => AnyWorkspace \in Workspace
BY DEF LeftInv, AnyWorkspace, Workspace, Ids

LEMMA ReadTyped == ServiceInv => Read \in ReadType /\ NotRead \in ReadType
BY WorkspacesAssumption DEF ServiceInv, Read, NotRead, ReadType, List!Parses, List!Parsed

LEMMA FoundTyped ==
    ASSUME ServiceInv, NEW read \in ReadType
    PROVE  FindAll(read) \in SUBSET Workspace
BY DEF ServiceInv, FindAll, TemporaryWorkspaces, Workspace, Entries, Ids, ReadType

(* What is written has no temporary workspace.                             *)
LEMMA PersistableTyped ==
    ASSUME ServiceInv, NEW read \in ReadType, NEW op \in {"create", "update", "remove"},
           NEW w \in Workspace, op = "create" => w \in Entries
    PROVE  /\ Changed(op, w, FindAll(read)) \in SUBSET Workspace
           /\ Persistable(Changed(op, w, FindAll(read))) \in SUBSET Entries
<1>1. FindAll(read) \in SUBSET Workspace
  BY FoundTyped
<1>2. Changed(op, w, FindAll(read)) \in SUBSET Workspace
  BY <1>1 DEF Changed, Entries, Workspace, Ids
<1>3. CASE temporaryWorkspaceLookup = None
  <2>1. FindAll(read) \in SUBSET Entries
    BY <1>3 DEF FindAll, TemporaryWorkspaces, ReadType
  <2>2. Changed(op, w, FindAll(read)) \in SUBSET Entries
    BY <2>1 DEF Changed, Entries, Workspace
  <2> QED
    BY <1>2, <2>2 DEF Persistable
<1>4. CASE temporaryWorkspaceLookup # None
  BY <1>2, <1>4 DEF Persistable, Workspace, Entries, Ids
<1> QED
  BY <1>2, <1>3, <1>4

LEMMA IdleTyped ==
    ASSUME LeftInv, ServiceInv
    PROVE  IdleRequest \in RequestType /\ IdleHandler \in HandlerType /\ ClosedForm \in FormType
BY PathsExist, ReadTyped DEF IdleRequest, IdleHandler, ClosedForm, RequestType, HandlerType, FormType,
   Contents, Ids

LEMMA AskTyped ==
    ASSUME LeftInv, ServiceInv, HistoryInv, NEW r \in Requests, NEW w \in Workspace,
           NEW op \in {"open", "close", "create", "update", "remove", "startup"},
           NEW pc \in {"find", "refetch"}, Ask(r, op, w, pc),
           op = "create" => w \in Entries
    PROVE  /\ request' \in [Requests -> RequestType]
           /\ \A q \in Requests : /\ request'[q].op = "create" => request'[q].w \in Entries
                                  /\ request'[q].pc \in {"write", "written"} => Writes(request'[q].op)
           /\ LeftInv'
           /\ {raced', disturbed'} \subseteq BOOLEAN
<1>1. request' \in [Requests -> RequestType]
  BY ReadTyped DEF Ask, ServiceInv, RequestType
<1>2. \A q \in Requests : /\ request'[q].op = "create" => request'[q].w \in Entries
                          /\ request'[q].pc \in {"write", "written"} => Writes(request'[q].op)
  BY DEF Ask, ServiceInv
<1>3. LeftInv'
  BY DEF Ask, LeftInv
<1>4. raced' \in BOOLEAN
  BY Zenon DEF Ask
<1>5. disturbed' \in BOOLEAN
  BY Zenon DEF Ask
<1> QED
  BY <1>1, <1>2, <1>3, <1>4, <1>5

LEMMA EmitTyped ==
    ASSUME LeftInv, ServiceInv, ConfigurationInv, HistoryInv, CanEmit,
           NEW event \in {"OPEN", "CLOSE", "UPDATE"}, NEW w, w.id \in Ids, Emit(event, w)
    PROVE  /\ handler' \in [Handlers -> HandlerType]
           /\ \A h \in Handlers : handler'[h].pc = "load" => handler[h].pc = "load" /\ handler'[h] = handler[h]
           /\ mixed' \in BOOLEAN
<1> DEFINE h == CHOOSE g \in Handlers : ~Running(g)
           rec == [IdleHandler EXCEPT !.pc = IF event = "CLOSE" THEN "stop" ELSE "find",
                                      !.event = event, !.id = w.id, !.read = Read]
<1>1. h \in Handlers
  BY DEF CanEmit
<1>2. handler' = [handler EXCEPT ![h] = rec]
  BY DEF Emit
<1>3. rec \in HandlerType /\ rec.pc # "load"
  BY IdleTyped, ReadTyped DEF HandlerType, IdleHandler
<1> HIDE DEF h, rec
<1>4. handler' \in [Handlers -> HandlerType]
  BY <1>1, <1>2, <1>3 DEF ConfigurationInv
<1>5. \A g \in Handlers : handler'[g].pc = "load" => handler[g].pc = "load" /\ handler'[g] = handler[g]
  BY <1>1, <1>2, <1>3 DEF ConfigurationInv
<1>6. mixed' \in BOOLEAN
  <2>1. CASE event = "CLOSE"
    BY <2>1 DEF Emit, HistoryInv
  <2>2. CASE event # "CLOSE"
    <3>1. mixed' \in {FALSE, mixed \/ Conflicts(w)}
      BY <2>2 DEF Emit
    <3> QED
      BY <3>1, Zenon
  <2> QED
    BY <2>1, <2>2
<1> QED
  BY <1>4, <1>5, <1>6

---------------------------------------------------------------------------
(* The type invariant. *)

LEMMA InitTyped == Init => TypeInv
<1> SUFFICES ASSUME Init PROVE TypeInv
  OBVIOUS
<1>1. LeftInv
  BY LimitsAssumption DEF Init, LeftInv
<1>2. NotRead \in ReadType
  BY DEF NotRead, ReadType
<1>3. ServiceInv
  BY <1>1, <1>2, PathsExist DEF Init, ServiceInv, RequestType, IdleRequest, List!FileOf
<1>4. WindowInv
  BY <1>1, <1>3, IdleTyped DEF Init, WindowInv, NoDialog, ProjectsPage, ClosedForm, Ids
<1>5. ConfigurationInv
  <2>1. watcher \in [Watchers -> WatcherType]
    BY DEF Init, WatcherType, NoWatcher, Contents
  <2>2. handler \in [Handlers -> HandlerType]
    BY <1>1, <1>3, IdleTyped DEF Init
  <2>3. flowJson \in [Paths -> Contents]
    BY DEF Init, Contents
  <2> QED
    BY <2>1, <2>2, <2>3 DEF Init, ConfigurationInv, ConfigType, NoWatcher, IdleHandler
<1> QED
  BY <1>1, <1>3, <1>4, <1>5 DEF Init, TypeInv, HistoryInv

LEMMA ServiceStep == TypeInv /\ [Next]_vars => ServiceInv'
<1> SUFFICES ASSUME TypeInv, [Next]_vars
             PROVE  ServiceInv'
  OBVIOUS
<1> USE DEF TypeInv
<1>1. CASE UNCHANGED <<service, request, saved>>
  BY <1>1 DEF ServiceInv, service
<1>2. ASSUME NEW r \in Requests, Opened(r)
      PROVE  ServiceInv'
  <2>1. \A w \in FindById(request[r].read, request[r].w.id) : w.id \in Ids
    BY <1>2 DEF ServiceInv, FindById, RequestType, Workspace
  <2> QED
    BY <1>2, <2>1 DEF Opened, Go, ServiceInv, RequestType
<1>3. ASSUME NEW r \in Requests, OpenFails(r) \/ SaveFails(r) \/ Refetched(r)
      PROVE  ServiceInv'
  BY <1>3, IdleTyped DEF OpenFails, SaveFails, Refetched, EndRequest, ServiceInv, RequestType, service, history,
     IdleRequest
<1>4. ASSUME NEW r \in Requests, SaveAll(r)
      PROVE  ServiceInv'
  <2> DEFINE list == Changed(request[r].op, request[r].w, FindAll(request[r].read))
  <2>1. /\ request[r].read \in ReadType /\ request[r].w \in Workspace
        /\ request[r].op \in {"create", "update", "remove"}
        /\ request[r].op = "create" => request[r].w \in Entries
    BY <1>4 DEF SaveAll, Writes, ServiceInv, RequestType
  <2>2. list \in SUBSET Workspace /\ Persistable(list) \in SUBSET Entries
    BY <2>1, PersistableTyped
  <2> HIDE DEF list
  <2>3. /\ SetTemporary(list)
        /\ request' = [request EXCEPT ![r] =
              [@ EXCEPT !.pc = "write", !.read = [ok |-> TRUE, list |-> Persistable(list)]]]
        /\ List!Truncate(ListFile)
        /\ UNCHANGED <<openWorkspaceIds, saved>>
    BY <1>4 DEF SaveAll, list, history
  <2>4. temporaryWorkspaceLookup' \in Paths \cup {None}
    BY <2>2, <2>3 DEF SetTemporary, Workspace, ServiceInv
  <2>5. request' \in [Requests -> RequestType]
    BY <2>2, <2>3 DEF ServiceInv, RequestType, ReadType
  <2>6. \A q \in Requests : /\ request'[q].op = "create" => request'[q].w \in Entries
                            /\ request'[q].pc \in {"write", "written"} => Writes(request'[q].op)
    BY <2>1, <2>3 DEF ServiceInv, RequestType, Writes
  <2>7. files' \in [{ListFile} -> [list : SUBSET Entries, whole : BOOLEAN]]
    BY <2>3 DEF List!Truncate, ServiceInv
  <2> QED
    BY <2>3, <2>4, <2>5, <2>6, <2>7 DEF ServiceInv
<1>5. ASSUME NEW r \in Requests, Written(r)
      PROVE  ServiceInv'
  <2>1. files' \in [{ListFile} -> [list : SUBSET Entries, whole : BOOLEAN]]
    BY <1>5 DEF Written, List!Overwrite, List!FileOf, ServiceInv, RequestType, ReadType
  <2>2. request[r].op \in {"create", "update", "remove"} /\ request[r].w \in Workspace
    BY <1>5 DEF Written, InFlow, ServiceInv, Writes, RequestType
  <2>3. saved' \in SUBSET Entries
    BY <1>5, <2>2 DEF Written, ServiceInv, Workspace, Entries, Ids, Changed
  <2> QED
    BY <1>5, <2>1, <2>3 DEF Written, InFlow, Go, ServiceInv, RequestType
<1>6. ASSUME NEW r \in Requests, Returned(r)
      PROVE  ServiceInv'
  BY <1>6, ReadTyped DEF Returned, ServiceInv, RequestType, service, Writes
<1>7. ASSUME NEW r \in Requests, Asks(r)
      PROVE  ServiceInv'
  <2>1. CASE \E w \in Workspace : OpenWorkspace(r, w)
    BY <2>1, <1>7, AskTyped DEF OpenWorkspace, ServiceInv, service
  <2>2. CASE SaveWorkspace(r)
    <3>1. form.w \in Workspace /\ (page.name = "create" => form.w \in Entries)
      BY <2>2 DEF SaveWorkspace, WindowInv, FormType, Workspace, Entries
    <3> DEFINE op == IF page.name = "create" THEN "create" ELSE "update"
    <3>2. Ask(r, op, form.w, "find") /\ UNCHANGED <<service, saved>>
      BY <2>2 DEF SaveWorkspace
    <3>3. op \in {"create", "update"} /\ (op = "create" => form.w \in Entries)
      BY <3>1
    <3> HIDE DEF op
    <3> QED
      BY <3>1, <3>2, <3>3, AskTyped DEF ServiceInv, service
  <2>3. CASE CloseWorkspace(r) \/ ConfirmRemove(r)
    <3>1. \A id \in Ids : [AnyWorkspace EXCEPT !.id = id] \in Workspace
      BY PathsExist DEF Workspace
    <3>2. CASE CloseWorkspace(r)
      BY <3>1, <3>2, AskTyped DEF CloseWorkspace, ServiceInv, WindowInv
    <3>3. CASE ConfirmRemove(r)
      BY <3>1, <3>3, AskTyped DEF ConfirmRemove, ServiceInv, WindowInv, service
    <3> QED
      BY <2>3, <3>2, <3>3
  <2>4. ASSUME NEW p \in Paths, OpenTemporaryWorkspace(r, p)
        PROVE  ServiceInv'
    BY <2>4, ReadTyped DEF OpenTemporaryWorkspace, ServiceInv, RequestType, Workspace, Ids
  <2> QED
    BY <1>7, <2>1, <2>2, <2>3, <2>4 DEF Asks
<1> QED
  BY <1>1, <1>2, <1>3, <1>4, <1>5, <1>6, <1>7, NextParts, ListenersLeave, WindowLeaves
  DEF vars, window, history, Proceed

LEMMA WindowStepTyped == TypeInv /\ [Next]_vars => WindowInv'
<1> SUFFICES ASSUME TypeInv, [Next]_vars
             PROVE  WindowInv'
  OBVIOUS
<1> USE DEF TypeInv
<1>1. CASE UNCHANGED <<page, projects, form, dialog>>
  BY <1>1 DEF WindowInv
(* Another page has another form.                                          *)
<1>2. ASSUME NEW p \in [name : {"projects", "settings", "workspace"}, id : Ids], Navigate(p)
      PROVE  /\ page' \in [name : {"projects", "create", "settings", "workspace"}, id : Ids]
             /\ form' \in FormType
             /\ form'.pc # "closed" => page'.name \in {"create", "settings"}
             /\ form'.pc = "loading" => page'.name = "settings"
             /\ form'.pc \in {"editing", "submitting"} => form'.w.id = page'.id
             /\ page'.name = "create" => page'.id \in Saved
  <2>1. CASE p = page
    BY <1>2, <2>1 DEF Navigate, WindowInv
  <2>2. CASE p # page
    BY <1>2, <2>2, ReadTyped, PathsExist, IdleTyped DEF Navigate, WindowInv, FormOf, FormType, ClosedForm
  <2> QED
    BY <2>1, <2>2
<1>3. ASSUME NEW r \in Requests, SaveWorkspace(r) \/ ConfirmRemove(r)
      PROVE  WindowInv'
  BY <1>3 DEF SaveWorkspace, ConfirmRemove, WindowInv, FormType, NoDialog
<1>4. ASSUME NEW r \in Requests, OpenFails(r)
      PROVE  WindowInv'
  <2> DEFINE p == SettingsPage(request[r].w.id)
  <2>1. UNCHANGED <<projects, dialog>>
    BY <1>4 DEF OpenFails
  <2>2. p \in [name : {"projects", "settings", "workspace"}, id : Ids]
    BY DEF SettingsPage, ServiceInv, RequestType, Workspace
  <2>3. \/ UNCHANGED <<page, form>>
        \/ form.pc = "submitting" /\ form' = [form EXCEPT !.pc = "editing"] /\ UNCHANGED page
        \/ Navigate(p)
    BY <1>4 DEF OpenFails, Submitting
  <2> HIDE DEF p
  <2>4. CASE UNCHANGED <<page, form>>
    BY <2>1, <2>4 DEF WindowInv
  <2>5. CASE form.pc = "submitting" /\ form' = [form EXCEPT !.pc = "editing"] /\ UNCHANGED page
    BY <2>1, <2>5 DEF WindowInv, FormType
  <2>6. CASE Navigate(p)
    BY <1>2, <2>1, <2>2, <2>6 DEF WindowInv
  <2> QED
    BY <2>3, <2>4, <2>5, <2>6
<1>5. ASSUME NEW r \in Requests, SaveFails(r)
      PROVE  WindowInv'
  BY <1>5 DEF SaveFails, HideDialog, Submitting, WindowInv, FormType
<1>6. ASSUME NEW r \in Requests, Refetched(r)
      PROVE  WindowInv'
  <2> DEFINE p == IF request[r].op \in {"open", "startup"} THEN WorkspacePage(request[r].w.id)
                  ELSE ProjectsPage
  <2>1. p \in [name : {"projects", "settings", "workspace"}, id : Ids]
    BY DEF WorkspacePage, ProjectsPage, ServiceInv, RequestType, Workspace, Ids
  <2>2. Navigate(p)
    BY <1>6 DEF Refetched
  <2> HIDE DEF p
  <2> QED
    BY <1>2, <1>6, <2>1, <2>2 DEF Refetched, HideDialog, WindowInv
<1>7. ASSUME NEW w \in Entries, NewProject(w)
      PROVE  WindowInv'
  BY <1>7, ReadTyped DEF NewProject, WindowInv, FormType, Workspace, Entries, Ids
<1>8. ASSUME NEW name \in {"workspace", "settings"}, Visit(name)
      PROVE  WindowInv'
  <2>1. [page EXCEPT !.name = name] \in [name : {"projects", "settings", "workspace"}, id : Ids]
    BY DEF WindowInv
  <2> QED
    BY <1>2, <1>8, <2>1 DEF Visit, WindowInv
<1>9. CASE FormLoaded
  <2> DEFINE found == FindById(form.read, page.id)
  <2>1. \A w \in found : w \in Workspace /\ w.id = page.id
    BY FoundTyped DEF WindowInv, FormType, FindById
  <2>2. form' = IF found = {} THEN ClosedForm
                ELSE [pc |-> "editing", w |-> CHOOSE w \in found : TRUE, read |-> NotRead]
    BY <1>9 DEF FormLoaded
  <2>3. page.name = "settings" /\ UNCHANGED <<page, projects, dialog>>
    BY <1>9 DEF FormLoaded, WindowInv
  <2>4. CASE found = {}
    BY <2>2, <2>3, <2>4, IdleTyped DEF WindowInv, ClosedForm
  <2>5. CASE found # {}
    <3>1. PICK w \in found : form' = [pc |-> "editing", w |-> w, read |-> NotRead]
      BY <2>2, <2>5
    <3>2. form' \in FormType
      BY <2>1, <3>1, ReadTyped DEF FormType
    <3> QED
      BY <2>1, <2>3, <3>1, <3>2 DEF WindowInv
  <2> QED
    BY <2>4, <2>5
<1>10. CASE \/ CancelDialog \/ FetchProjects
            \/ \E id \in Ids : RemoveWorkspace(id)
            \/ \E p \in Paths : EditForm(p)
  <2>1. CASE CancelDialog \/ \E id \in Ids : RemoveWorkspace(id)
    <3>1. \A id \in Ids : [id |-> id, loading |-> FALSE] \in [id : Ids, loading : BOOLEAN]
      OBVIOUS
    <3>2. dialog' \in [id : Ids, loading : BOOLEAN] \cup {NoDialog}
      BY <2>1, <3>1, Zenon DEF CancelDialog, RemoveWorkspace
    <3>3. UNCHANGED <<page, projects, form>>
      BY <2>1 DEF CancelDialog, RemoveWorkspace
    <3> QED
      BY <3>2, <3>3 DEF WindowInv, NoDialog
  <2>2. CASE FetchProjects
    BY <2>2, ReadTyped, FoundTyped DEF FetchProjects, WindowInv
  <2>3. ASSUME NEW p \in Paths, EditForm(p)
        PROVE  WindowInv'
    <3>1. form' = [form EXCEPT !.w = [form.w EXCEPT !.path = p]]
      BY <2>3 DEF EditForm, WindowInv, FormType
    <3>2. [form.w EXCEPT !.path = p] \in Workspace /\ [form.w EXCEPT !.path = p].id = form.w.id
      BY DEF WindowInv, FormType, Workspace
    <3> QED
      BY <2>3, <3>1, <3>2 DEF EditForm, WindowInv, FormType
  <2> QED
    BY <1>10, <2>1, <2>2, <2>3
<1>11. ASSUME NEW r \in Requests,
              \/ Opened(r) \/ SaveAll(r) \/ Written(r) \/ Returned(r) \/ CloseWorkspace(r)
              \/ \E w \in Workspace : OpenWorkspace(r, w)
              \/ \E p \in Paths : OpenTemporaryWorkspace(r, p)
       PROVE  WindowInv'
  BY <1>1, <1>11 DEF Opened, SaveAll, Written, Returned, CloseWorkspace, OpenWorkspace, OpenTemporaryWorkspace
<1>12. CASE WindowStep
  BY <1>7, <1>8, <1>9, <1>10, <1>12 DEF WindowStep
<1>13. ASSUME NEW r \in Requests, Proceed(r) \/ Asks(r)
       PROVE  WindowInv'
  BY <1>3, <1>4, <1>5, <1>6, <1>11, <1>13 DEF Proceed, Asks
<1> QED
  BY <1>1, <1>12, <1>13, NextParts, ListenersLeave DEF vars, window

(* A listener that does not reload.                                        *)
LEMMA HandlerMoved ==
    ASSUME ConfigurationInv, NEW h \in Handlers, NEW rec \in HandlerType, rec.pc # "load",
           handler' = [handler EXCEPT ![h] = rec]
    PROVE  /\ handler' \in [Handlers -> HandlerType]
           /\ \A g \in Handlers : handler'[g].pc = "load" => handler[g].pc = "load" /\ handler'[g] = handler[g]
BY DEF ConfigurationInv

(* detachListeners takes nothing but events and what is live.              *)
LEMMA Detached ==
    ASSUME ConfigurationInv
    PROVE  /\ Detach \in [Watchers -> WatcherType]
           /\ \A x \in Watchers : /\ Detach[x].live => watcher[x].live /\ x # fileListenerController
                                  /\ Detach[x].path = watcher[x].path
                                  /\ Detach[x].loading = watcher[x].loading
                                  /\ Detach[x].from = watcher[x].from
<1>1. \A x \in Watchers :
        /\ [watcher[x] EXCEPT !.live = FALSE, !.event = FALSE] \in WatcherType
        /\ ~[watcher[x] EXCEPT !.live = FALSE, !.event = FALSE].live
        /\ [watcher[x] EXCEPT !.live = FALSE, !.event = FALSE].path = watcher[x].path
        /\ [watcher[x] EXCEPT !.live = FALSE, !.event = FALSE].loading = watcher[x].loading
        /\ [watcher[x] EXCEPT !.live = FALSE, !.event = FALSE].from = watcher[x].from
  BY DEF ConfigurationInv, WatcherType
<1> QED
  BY <1>1 DEF Detach, ConfigurationInv

LEMMA ConfigurationStep == TypeInv /\ [Next]_vars => ConfigurationInv'
<1> SUFFICES ASSUME TypeInv, [Next]_vars
             PROVE  ConfigurationInv'
  OBVIOUS
<1> USE DEF TypeInv
<1>1. CASE UNCHANGED <<configuration, fcl, handler, flowJson, unwatched>>
  BY <1>1 DEF ConfigurationInv, configuration
<1>2. ASSUME UNCHANGED <<configuration, fcl, flowJson, unwatched>>,
             handler' \in [Handlers -> HandlerType],
             \A h \in Handlers : handler'[h].pc = "load" => handler[h].pc = "load" /\ handler'[h] = handler[h]
      PROVE  ConfigurationInv'
  BY <1>2 DEF ConfigurationInv, configuration
<1>3. ASSUME NEW r \in Requests, Proceed(r) \/ Asks(r)
      PROVE  ConfigurationInv'
  <2>1. UNCHANGED <<configuration, fcl, flowJson, unwatched>>
    BY <1>3, RequestsLeave
  <2>2. CASE Opened(r)
    <3>1. PICK w \in FindById(request[r].read, request[r].w.id) : Emit("OPEN", w)
      BY <2>2 DEF Opened
    <3>2. w.id \in Ids /\ CanEmit
      BY <2>2 DEF Opened, FindById, ServiceInv, RequestType, Workspace
    <3> QED
      BY <1>2, <2>1, <3>1, <3>2, EmitTyped
  <2>3. CASE Returned(r)
    <3>1. CASE request[r].op = "update"
      <4>1. CanEmit /\ Emit("UPDATE", request[r].w) /\ request[r].w.id \in Ids
        BY <2>3, <3>1 DEF Returned, ServiceInv, RequestType, Workspace
      <4> QED
        BY <1>2, <2>1, <4>1, EmitTyped
    <3>2. CASE request[r].op # "update"
      BY <1>1, <2>1, <2>3, <3>2 DEF Returned
    <3> QED
      BY <3>1, <3>2
  <2>4. CASE CloseWorkspace(r)
    <3>1. CanEmit /\ Emit("CLOSE", [id |-> page.id, path |-> None]) /\ page.id \in Ids
      BY <2>4 DEF CloseWorkspace, WindowInv
    <3> QED
      BY <1>2, <2>1, <3>1, EmitTyped
  <2>5. CASE UNCHANGED handler
    BY <1>1, <2>1, <2>5
  <2> QED
    BY <1>3, <2>2, <2>3, <2>4, <2>5
    DEF Proceed, Asks, OpenFails, SaveAll, SaveFails, Written, Refetched, SaveWorkspace, ConfirmRemove,
        OpenWorkspace, OpenTemporaryWorkspace
<1>4. ASSUME NEW h \in Handlers, NotFound(h) \/ StopFails(h) \/ Started(h)
      PROVE  ConfigurationInv'
  <2>1. handler' = [handler EXCEPT ![h] = IdleHandler] /\ UNCHANGED <<configuration, fcl, flowJson, unwatched>>
    BY <1>4 DEF NotFound, StopFails, Started, Finish, history
  <2>2. IdleHandler \in HandlerType /\ IdleHandler.pc # "load"
    BY IdleTyped DEF IdleHandler
  <2> QED
    BY <1>2, <2>1, <2>2, HandlerMoved
<1>5. ASSUME NEW h \in Handlers, Found(h)
      PROVE  ConfigurationInv'
  <2>1. PICK w \in FindById(handler[h].read, handler[h].id) :
          IF handler[h].event = "OPEN"
          THEN /\ handler' = [handler EXCEPT ![h] =
                    [@ EXCEPT !.pc = "load", !.path = w.path, !.content = flowJson[w.path], !.read = NotRead]]
               /\ workingDirectoryPath' = w.path
               /\ watcher' = Detach
               /\ unwatched' = unwatched \ {w.path}
               /\ UNCHANGED <<config, fileListenerController, mixed>>
          ELSE /\ handler' = [handler EXCEPT ![h] = [@ EXCEPT !.pc = "stop", !.path = w.path, !.read = NotRead]]
               /\ UNCHANGED <<configuration, mixed, unwatched, doubled>>
    BY <1>5 DEF Found
  <2>2. w.path \in Paths
    BY FoundTyped DEF FindById, ConfigurationInv, HandlerType, Workspace
  <2>3. UNCHANGED <<fcl, flowJson>>
    BY <1>5 DEF Found
  <2>4. CASE handler[h].event = "OPEN"
    <3> DEFINE rec == [handler[h] EXCEPT !.pc = "load", !.path = w.path, !.content = flowJson[w.path],
                                         !.read = NotRead]
    <3>1. /\ handler' = [handler EXCEPT ![h] = rec]
          /\ workingDirectoryPath' = w.path
          /\ watcher' = Detach
          /\ unwatched' = unwatched \ {w.path}
          /\ UNCHANGED <<config, fileListenerController>>
      BY <2>1, <2>4
    <3>2. rec \in HandlerType /\ rec.path \in Paths
      BY <2>2, ReadTyped DEF ConfigurationInv, HandlerType
    <3> HIDE DEF rec
    <3>3. /\ handler' \in [Handlers -> HandlerType]
          /\ \A g \in Handlers : handler'[g].pc = "load" => handler'[g].path \in Paths
      BY <3>1, <3>2 DEF ConfigurationInv
    <3> QED
      BY <2>2, <2>3, <3>1, <3>3, Detached DEF ConfigurationInv
  <2>5. CASE handler[h].event # "OPEN"
    <3> DEFINE rec == [handler[h] EXCEPT !.pc = "stop", !.path = w.path, !.read = NotRead]
    <3>1. rec \in HandlerType /\ rec.pc # "load"
      BY <2>2, ReadTyped DEF ConfigurationInv, HandlerType
    <3>2. handler' = [handler EXCEPT ![h] = rec]
      BY <2>1, <2>5
    <3> HIDE DEF rec
    <3> QED
      BY <1>2, <2>1, <2>3, <2>5, <3>1, <3>2, HandlerMoved
  <2> QED
    BY <2>4, <2>5
<1>6. ASSUME NEW h \in Handlers, ConfigLoaded(h)
      PROVE  ConfigurationInv'
  <2>1. handler[h].path \in Paths /\ workingDirectoryPath \in Paths /\ handler[h].content \in Contents
    BY <1>6 DEF ConfigLoaded, ConfigurationInv, HandlerType
  <2>2. config' \in ConfigType
    BY <1>6, <2>1 DEF ConfigLoaded, Loaded, ConfigurationInv, ConfigType, Contents
  <2>3. fcl' \in [flowJSON : ConfigType, api : Paths \cup {None}]
    BY <1>6, <2>1, <2>2 DEF ConfigLoaded, Configure, ConfigurationInv
  <2>4. PICK x \in Watchers :
          /\ fileListenerController' = x
          /\ watcher' = [watcher EXCEPT ![x] =
                [NoWatcher EXCEPT !.path = workingDirectoryPath,
                                  !.live = flowJson[workingDirectoryPath] # None]]
    BY <1>6 DEF ConfigLoaded, CanAttach, Attach
  <2>5. [NoWatcher EXCEPT !.path = workingDirectoryPath, !.live = flowJson[workingDirectoryPath] # None]
           \in WatcherType
    BY <2>1 DEF NoWatcher, WatcherType, Contents
  <2>6. watcher' \in [Watchers -> WatcherType]
    BY <2>4, <2>5 DEF ConfigurationInv
  <2>7. \A y \in Watchers : watcher'[y].loading => watcher'[y].from \in Paths
    BY <2>4 DEF ConfigurationInv, NoWatcher
  <2>8. [handler[h] EXCEPT !.pc = "start", !.content = None] \in HandlerType
    BY DEF ConfigurationInv, HandlerType, Contents
  <2>9. /\ handler' \in [Handlers -> HandlerType]
        /\ \A g \in Handlers : handler'[g].pc = "load" => handler[g].pc = "load" /\ handler'[g] = handler[g]
    <3> DEFINE rec == [handler[h] EXCEPT !.pc = "start", !.content = None]
    <3>1. rec \in HandlerType /\ rec.pc # "load" /\ handler' = [handler EXCEPT ![h] = rec]
      BY <1>6, <2>8 DEF ConfigLoaded, ConfigurationInv, HandlerType
    <3> HIDE DEF rec
    <3> QED
      BY <3>1, HandlerMoved
  <2> QED
    BY <1>6, <2>1, <2>2, <2>3, <2>4, <2>6, <2>7, <2>9 DEF ConfigLoaded, ConfigurationInv, history
<1>7. ASSUME NEW h \in Handlers, Stopped(h)
      PROVE  ConfigurationInv'
  <2>1. CASE handler[h].event = "CLOSE"
    BY <1>2, <1>7, <2>1, IdleTyped, HandlerMoved DEF Stopped, Finish, IdleHandler, history
  <2>2. CASE handler[h].event # "CLOSE"
    <3> DEFINE rec == [handler[h] EXCEPT !.pc = "start"]
    <3>1. rec \in HandlerType /\ rec.pc # "load"
      BY DEF ConfigurationInv, HandlerType
    <3>2. handler' = [handler EXCEPT ![h] = rec] /\ Configure(config, handler[h].path)
      BY <1>7, <2>2 DEF Stopped
    <3> HIDE DEF rec
    <3>3. fcl' \in [flowJSON : ConfigType, api : Paths \cup {None}]
      BY <3>2 DEF Configure, ConfigurationInv, HandlerType
    <3>4. UNCHANGED <<configuration, flowJson, unwatched>>
      BY <1>7 DEF Stopped, history
    <3> QED
      BY <3>1, <3>2, <3>3, <3>4, HandlerMoved DEF ConfigurationInv, configuration
  <2> QED
    BY <2>1, <2>2
<1>8. ASSUME NEW h \in Handlers, FlowJsonUpdate(h)
      PROVE  ConfigurationInv'
  <2>1. fcl' \in {fcl, [fcl EXCEPT !.flowJSON = config]}
    BY <1>8 DEF FlowJsonUpdate
  <2>2. fcl' \in [flowJSON : ConfigType, api : Paths \cup {None}]
    BY <2>1 DEF ConfigurationInv
  <2>3. /\ handler' \in [Handlers -> HandlerType]
        /\ \A g \in Handlers : handler'[g].pc = "load" => handler[g].pc = "load" /\ handler'[g] = handler[g]
    BY <1>8, IdleTyped, HandlerMoved DEF FlowJsonUpdate, Finish, IdleHandler
  <2>4. UNCHANGED <<configuration, flowJson, unwatched>>
    BY <1>8 DEF FlowJsonUpdate
  <2> QED
    BY <2>2, <2>3, <2>4 DEF ConfigurationInv, configuration
<1>9. ASSUME NEW x \in Watchers, WatcherLoads(x)
      PROVE  ConfigurationInv'
  <2> DEFINE rec == [watcher[x] EXCEPT !.event = FALSE, !.loading = TRUE, !.from = workingDirectoryPath,
                                       !.content = flowJson[workingDirectoryPath]]
  <2>1. workingDirectoryPath \in Paths
    BY <1>9 DEF WatcherLoads, ConfigurationInv
  <2>2. rec \in WatcherType /\ rec.from \in Paths /\ rec.live = watcher[x].live
    BY <2>1 DEF ConfigurationInv, WatcherType
  <2>3. watcher' = [watcher EXCEPT ![x] = rec]
    BY <1>9 DEF WatcherLoads
  <2> HIDE DEF rec
  <2>4. /\ watcher' \in [Watchers -> WatcherType]
        /\ \A y \in Watchers : watcher'[y].loading => watcher'[y].from \in Paths
    BY <2>2, <2>3 DEF ConfigurationInv
  <2> QED
    BY <1>9, <2>1, <2>4 DEF WatcherLoads, ConfigurationInv
<1>10. ASSUME NEW x \in Watchers, WatcherLoaded(x)
       PROVE  ConfigurationInv'
  <2> DEFINE rec == [watcher[x] EXCEPT !.loading = FALSE, !.from = None, !.content = None]
             h == CHOOSE g \in Handlers : ~Running(g)
             new == [IdleHandler EXCEPT !.pc = "find", !.event = "JSON", !.read = Read]
  <2>1. watcher[x].from \in Paths /\ watcher[x].content \in Contents
    BY <1>10 DEF WatcherLoaded, ConfigurationInv, WatcherType
  <2>2. config' \in ConfigType
    BY <1>10, <2>1 DEF WatcherLoaded, Loaded, ConfigurationInv, ConfigType, Contents
  <2>3. rec \in WatcherType /\ ~rec.loading /\ rec.live = watcher[x].live
    BY DEF ConfigurationInv, WatcherType, Contents
  <2>4. watcher' = [watcher EXCEPT ![x] = rec]
    BY <1>10 DEF WatcherLoaded
  <2>5. h \in Handlers /\ handler' = [handler EXCEPT ![h] = new]
    BY <1>10 DEF WatcherLoaded, CanEmit
  <2>6. new \in HandlerType /\ new.pc # "load"
    BY IdleTyped, ReadTyped DEF HandlerType, IdleHandler
  <2> HIDE DEF rec, h, new
  <2>7. /\ handler' \in [Handlers -> HandlerType]
        /\ \A g \in Handlers : handler'[g].pc = "load" => handler[g].pc = "load" /\ handler'[g] = handler[g]
    BY <2>5, <2>6, HandlerMoved
  <2>8. /\ watcher' \in [Watchers -> WatcherType]
        /\ \A y \in Watchers : /\ watcher'[y].live => watcher[y].live
                               /\ watcher'[y].loading => watcher'[y].from \in Paths
    BY <2>3, <2>4 DEF ConfigurationInv
  <2> QED
    BY <1>10, <2>2, <2>7, <2>8 DEF WatcherLoaded, ConfigurationInv, history
<1>11. ASSUME NEW p \in Paths, EditFlowJson(p)
       PROVE  ConfigurationInv'
  <2>1. /\ watcher' \in [Watchers -> WatcherType]
        /\ \A y \in Watchers : /\ watcher'[y].live => watcher[y].live
                               /\ watcher'[y].loading => watcher[y].loading /\ watcher'[y].from = watcher[y].from
    <3>1. \A y \in Watchers : watcher'[y] \in {watcher[y], [watcher[y] EXCEPT !.event = TRUE]}
      BY <1>11 DEF EditFlowJson
    <3>2. \A y \in Watchers : [watcher[y] EXCEPT !.event = TRUE] \in WatcherType
      BY DEF ConfigurationInv, WatcherType
    <3>3. \A y \in Watchers : /\ [watcher[y] EXCEPT !.event = TRUE].live = watcher[y].live
                              /\ [watcher[y] EXCEPT !.event = TRUE].loading = watcher[y].loading
                              /\ [watcher[y] EXCEPT !.event = TRUE].from = watcher[y].from
      BY DEF ConfigurationInv, WatcherType
    <3>4. watcher' = [y \in Watchers |-> watcher'[y]]
      BY <1>11 DEF EditFlowJson
    <3> QED
      BY <3>1, <3>2, <3>3, <3>4 DEF ConfigurationInv
  <2>2. flowJson' \in [Paths -> Contents]
    BY <1>11 DEF EditFlowJson, ConfigurationInv, LeftInv, Contents
  <2>3. unwatched' \in SUBSET Paths
    BY <1>11 DEF EditFlowJson, ConfigurationInv
  <2> QED
    BY <1>11, <2>1, <2>2, <2>3 DEF EditFlowJson, ConfigurationInv
<1>12. CASE WindowStep
  BY <1>1, <1>12, WindowLeaves DEF history
<1>13. ASSUME NEW h \in Handlers, Listen(h)
       PROVE  ConfigurationInv'
  BY <1>4, <1>5, <1>6, <1>7, <1>8, <1>13 DEF Listen
<1>14. ASSUME NEW x \in Watchers, Watch(x)
       PROVE  ConfigurationInv'
  BY <1>9, <1>10, <1>14 DEF Watch
<1>15. CASE UNCHANGED vars
  BY <1>1, <1>15 DEF vars, history
<1> QED
  BY <1>3, <1>11, <1>12, <1>13, <1>14, <1>15, NextParts

LEMMA LeftAndHistoryStep == TypeInv /\ [Next]_vars => LeftInv' /\ HistoryInv'
<1> SUFFICES ASSUME TypeInv, [Next]_vars
             PROVE  LeftInv' /\ HistoryInv'
  OBVIOUS
<1> USE DEF TypeInv
<1>1. CASE UNCHANGED <<left, raced, disturbed, mixed, doubled>>
  BY <1>1 DEF LeftInv, HistoryInv
<1>2. ASSUME NEW p \in Paths, EditFlowJson(p)
      PROVE  LeftInv' /\ HistoryInv'
  BY <1>2 DEF EditFlowJson, LeftInv, HistoryInv
<1>3. ASSUME NEW h \in Handlers, Listen(h)
      PROVE  LeftInv' /\ HistoryInv'
  <2>1. UNCHANGED <<left, raced, disturbed>>
    BY <1>3 DEF Listen, Found, NotFound, ConfigLoaded, Stopped, StopFails, Started, FlowJsonUpdate, history
  <2>2. CASE Found(h)
    <3>1. mixed' = mixed
      BY <2>2 DEF Found
    <3> DEFINE overlaps == \/ \E g \in Handlers : handler[g].pc = "load"
                           \/ \E x \in Watchers : watcher[x].loading
    <3>2. doubled' \in {doubled, doubled \/ overlaps}
      BY <2>2 DEF Found
    <3>3. doubled' \in BOOLEAN
      BY <3>2, Zenon DEF HistoryInv
    <3> QED
      BY <2>1, <3>1, <3>3 DEF LeftInv, HistoryInv
  <2>3. CASE FlowJsonUpdate(h)
    <3>1. mixed' \in {mixed \/ ~handler[h].read.ok}
      BY <2>3 DEF FlowJsonUpdate
    <3>2. mixed' \in BOOLEAN
      BY <3>1, Zenon
    <3> QED
      BY <2>1, <2>3, <3>2 DEF FlowJsonUpdate, LeftInv, HistoryInv
  <2>4. CASE NotFound(h) \/ ConfigLoaded(h) \/ Stopped(h) \/ StopFails(h) \/ Started(h)
    BY <2>1, <2>4 DEF NotFound, ConfigLoaded, Stopped, StopFails, Started, LeftInv, HistoryInv, history
  <2> QED
    BY <1>3, <2>2, <2>3, <2>4 DEF Listen
<1>4. ASSUME NEW x \in Watchers, Watch(x)
      PROVE  LeftInv' /\ HistoryInv'
  BY <1>1, <1>4 DEF Watch, WatcherLoads, WatcherLoaded, history
<1>5. ASSUME NEW r \in Requests, Asks(r)
      PROVE  LeftInv' /\ HistoryInv'
  <2>1. doubled' = doubled
    BY <1>5, RequestsLeave
  <2>2. ASSUME NEW op \in {"open", "close", "create", "update", "remove", "startup"}, NEW w, NEW pc, Ask(r, op, w, pc)
        PROVE  LeftInv' /\ {raced', disturbed'} \subseteq BOOLEAN
    <3>1. LeftInv'
      BY <2>2 DEF Ask, LeftInv
    <3>2. raced' \in BOOLEAN
      BY <2>2, Zenon DEF Ask
    <3>3. disturbed' \in BOOLEAN
      BY <2>2, Zenon DEF Ask
    <3> QED
      BY <3>1, <3>2, <3>3
  <2>3. CASE CloseWorkspace(r)
    <3>1. mixed' \in BOOLEAN
      BY <2>3, EmitTyped DEF CloseWorkspace, WindowInv
    <3> QED
      BY <2>1, <2>2, <2>3, <3>1 DEF CloseWorkspace, HistoryInv
  <2>4. CASE SaveWorkspace(r)
    BY <2>1, <2>2, <2>4 DEF SaveWorkspace, HistoryInv
  <2>5. CASE ConfirmRemove(r)
    BY <2>1, <2>2, <2>5 DEF ConfirmRemove, HistoryInv
  <2>6. CASE \E w \in Workspace : OpenWorkspace(r, w)
    BY <2>1, <2>2, <2>6 DEF OpenWorkspace, HistoryInv
  <2>7. ASSUME NEW p \in Paths, OpenTemporaryWorkspace(r, p)
        PROVE  LeftInv' /\ HistoryInv'
    <3>1. disturbed' \in BOOLEAN
      BY <2>7, Zenon DEF OpenTemporaryWorkspace, Other
    <3> QED
      BY <2>1, <2>7, <3>1 DEF OpenTemporaryWorkspace, HistoryInv, LeftInv
  <2> QED
    BY <1>5, <2>3, <2>4, <2>5, <2>6, <2>7 DEF Asks
<1>6. ASSUME NEW r \in Requests, Proceed(r)
      PROVE  LeftInv' /\ HistoryInv'
  <2>1. UNCHANGED <<left, doubled, raced>> /\ disturbed' \in {disturbed, TRUE}
    BY <1>6 DEF Proceed, Opened, OpenFails, SaveAll, SaveFails, Written, Returned, Refetched, history
  <2>2. mixed' \in BOOLEAN
    <3>1. CASE mixed' = mixed
      BY <3>1 DEF HistoryInv
    <3>2. CASE Opened(r)
      BY <3>2, EmitTyped DEF Opened, FindById, ServiceInv, RequestType, Workspace
    <3>3. CASE Returned(r) /\ request[r].op = "update"
      BY <3>3, EmitTyped DEF Returned, ServiceInv, RequestType, Workspace
    <3> QED
      BY <1>6, <3>1, <3>2, <3>3 DEF Proceed, OpenFails, SaveAll, SaveFails, Written, Returned, Refetched, history
  <2> QED
    BY <2>1, <2>2 DEF LeftInv, HistoryInv
<1> QED
  BY <1>1, <1>2, <1>3, <1>4, <1>5, <1>6, NextParts, WindowLeaves DEF vars, history

(* Every variable has its type: only the form of a new project creates a   *)
(* workspace, no temporary one reaches the file, and what reads flow.json  *)
(* has a directory (workspace.service.ts:62-70, flow-config.service.ts).   *)
THEOREM TypeInvariant == Spec => []TypeInv
<1>1. TypeInv /\ [Next]_vars => TypeInv'
  BY ServiceStep, WindowStepTyped, ConfigurationStep, LeftAndHistoryStep DEF TypeInv
<1> QED
  BY <1>1, InitTyped, PTL DEF Spec

THEOREM TypeCorrect == Spec => []TypeOK
<1>1. TypeInv => TypeOK
  <2> SUFFICES ASSUME TypeInv PROVE TypeOK
    OBVIOUS
  <2>1. \A x \in Watchers : watcher[x].path \in Paths \cup {None} /\ watcher[x].live \in BOOLEAN
    BY DEF TypeInv, ConfigurationInv, WatcherType
  <2>2. \A h \in Handlers : handler[h].pc \in {"idle", "find", "load", "stop", "start"}
    BY DEF TypeInv, ConfigurationInv, HandlerType
  <2>3. form.pc \in {"closed", "loading", "editing", "submitting"} /\ form.w \in Workspace
    BY DEF TypeInv, WindowInv, FormType
  <2>4. \A r \in Requests : /\ request[r].pc \in {"idle", "find", "write", "written", "refetch"}
                            /\ request[r].op \in {"open", "close", "create", "update", "remove", "startup"}
                            /\ request[r].w \in Workspace
    BY DEF TypeInv, ServiceInv, RequestType
  <2>5. dialog \in [id : Ids \cup {None}, loading : BOOLEAN]
    <3>1. NoDialog \in [id : Ids \cup {None}, loading : BOOLEAN]
      BY DEF NoDialog
    <3>2. \A d \in [id : Ids, loading : BOOLEAN] : d \in [id : Ids \cup {None}, loading : BOOLEAN]
      OBVIOUS
    <3>3. dialog \in [id : Ids, loading : BOOLEAN] \cup {NoDialog}
      BY DEF TypeInv, WindowInv
    <3> QED
      BY <3>1, <3>2, <3>3
  <2> QED
    BY <2>1, <2>2, <2>3, <2>4, <2>5 DEF TypeInv, ServiceInv, WindowInv, ConfigurationInv, TypeOK
<1> QED
  BY <1>1, TypeInvariant, PTL

---------------------------------------------------------------------------
(* How what the properties exclude comes about. *)

(* A reload begins before the load of another one, or of a watcher, ended. *)
ReloadsOverlap ==
    ~doubled /\ doubled' =>
        (\E h \in Handlers : handler[h].pc = "load") \/ (\E x \in Watchers : watcher[x].loading)

(* A call that writes the list is made before the writing of another ended.*)
WritersOverlap ==
    ~raced /\ raced' =>
        \E r, q \in Requests : /\ q # r /\ Writes(request'[r].op) /\ Idle(r)
                              /\ Writes(request[q].op) /\ request[q].pc \in {"find", "write"}

(* An event comes while the listener of another workspace, of other        *)
(* settings or of an open runs, or another workspace is open, or a         *)
(* listener does not find its workspace in the list.                       *)
ListenersMix ==
    ~mixed /\ mixed' =>
        \/ \E w : Conflicts(w)
        \/ \E h \in Handlers : handler[h].pc = "find" /\
              (FindById(handler[h].read, handler[h].id) = {} \/ ~handler[h].read.ok)

(* A flow.json is saved that no watcher watches.                           *)
EditUnseen ==
    \A p \in unwatched' \ unwatched :
        EditFlowJson(p) /\ \A x \in Watchers : ~(watcher[x].live /\ watcher[x].path = p)

Exclusions == ReloadsOverlap /\ WritersOverlap /\ ListenersMix /\ EditUnseen

LEMMA ExclusionsArise == TypeInv /\ Next => Exclusions
<1> SUFFICES ASSUME TypeInv, Next PROVE Exclusions
  OBVIOUS
<1>1. ASSUME UNCHANGED history PROVE Exclusions
  BY <1>1 DEF history, Exclusions, ReloadsOverlap, WritersOverlap, ListenersMix, EditUnseen
<1>2. ASSUME NEW event, NEW w, Emit(event, w) PROVE ListenersMix
  <2>1. mixed' \in {FALSE, mixed, mixed \/ Conflicts(w)}
    BY <1>2 DEF Emit
  <2>2. CASE mixed' = FALSE \/ mixed' = mixed
    BY <2>2 DEF ListenersMix
  <2>3. CASE mixed' = (mixed \/ Conflicts(w))
    BY <2>3, Zenon DEF ListenersMix
  <2> QED
    BY <2>1, <2>2, <2>3
<1>3. ASSUME NEW r \in Requests, NEW op, NEW w, NEW pc, Ask(r, op, w, pc) PROVE WritersOverlap
  <2>1. request'[r].op = op /\ Idle(r)
    BY <1>3 DEF Ask, TypeInv, ServiceInv
  <2>2. raced' = (raced \/ (Writes(op) /\ Races(r)))
    BY <1>3 DEF Ask
  <2>3. ~raced /\ raced' => Writes(op) /\ Races(r)
    BY <2>2, Zenon
  <2> QED
    BY <2>1, <2>3 DEF WritersOverlap, Races
<1>4. ASSUME NEW r \in Requests, Proceed(r) \/ Asks(r) PROVE Exclusions
  <2>1. ReloadsOverlap /\ EditUnseen
    BY <1>4, RequestsLeave DEF ReloadsOverlap, EditUnseen
  <2>2. WritersOverlap
    <3>1. CASE Proceed(r)
      <4>1. UNCHANGED raced
        BY <3>1 DEF Proceed, Opened, OpenFails, SaveAll, SaveFails, Written, Returned, Refetched, history
      <4> QED
        BY <4>1 DEF WritersOverlap
    <3>2. CASE \E p \in Paths : OpenTemporaryWorkspace(r, p)
      BY <3>2 DEF OpenTemporaryWorkspace, WritersOverlap
    <3> QED
      BY <1>3, <1>4, <3>1, <3>2
      DEF Asks, CloseWorkspace, SaveWorkspace, ConfirmRemove, OpenWorkspace
  <2>3. ListenersMix
    <3>1. ASSUME UNCHANGED mixed PROVE ListenersMix
      BY <3>1 DEF ListenersMix
    <3> QED
      BY <1>2, <1>4, <3>1
      DEF Proceed, Asks, Opened, OpenFails, SaveAll, SaveFails, Written, Returned, Refetched, history,
          CloseWorkspace, SaveWorkspace, ConfirmRemove, OpenWorkspace, OpenTemporaryWorkspace
  <2> QED
    BY <2>1, <2>2, <2>3 DEF Exclusions
<1>5. ASSUME NEW h \in Handlers, Listen(h) PROVE Exclusions
  <2>1. WritersOverlap
    BY <1>5, ListenersLeave DEF WritersOverlap
  <2>2. EditUnseen
    BY <1>5 DEF Listen, Found, NotFound, ConfigLoaded, Stopped, StopFails, Started, FlowJsonUpdate, history,
                EditUnseen
  <2>3. ReloadsOverlap
    <3>1. ASSUME UNCHANGED doubled PROVE ReloadsOverlap
      BY <3>1 DEF ReloadsOverlap
    <3>2. CASE Found(h) /\ handler[h].event = "OPEN"
      BY <3>2 DEF Found, ReloadsOverlap
    <3> QED
      BY <1>5, <3>1, <3>2
      DEF Listen, Found, NotFound, ConfigLoaded, Stopped, StopFails, Started, FlowJsonUpdate, history
  <2>4. ListenersMix
    <3>1. ASSUME UNCHANGED mixed PROVE ListenersMix
      BY <3>1 DEF ListenersMix
    <3>2. CASE NotFound(h)
      BY <3>2 DEF NotFound, ListenersMix
    <3>3. CASE FlowJsonUpdate(h)
      <4>1. mixed' = (mixed \/ ~handler[h].read.ok) /\ handler[h].pc = "find"
        BY <3>3 DEF FlowJsonUpdate
      <4>2. ~mixed /\ mixed' => ~handler[h].read.ok
        BY <4>1, Zenon
      <4> QED
        BY <4>1, <4>2 DEF ListenersMix
    <3> QED
      BY <1>5, <3>1, <3>2, <3>3 DEF Listen, Found, ConfigLoaded, Stopped, StopFails, Started, history
  <2> QED
    BY <2>1, <2>2, <2>3, <2>4 DEF Exclusions
<1>6. ASSUME NEW x \in Watchers, Watch(x) PROVE Exclusions
  BY <1>6
  DEF Watch, WatcherLoads, WatcherLoaded, history, Exclusions, ReloadsOverlap, WritersOverlap, ListenersMix,
      EditUnseen
<1>7. ASSUME NEW p \in Paths, EditFlowJson(p) PROVE Exclusions
  <2>1. UNCHANGED <<raced, mixed, doubled>>
        /\ unwatched' = IF \E x \in Watchers : watcher[x].live /\ watcher[x].path = p
                        THEN unwatched ELSE unwatched \cup {p}
    BY <1>7 DEF EditFlowJson
  <2> QED
    BY <1>7, <2>1 DEF Exclusions, ReloadsOverlap, WritersOverlap, ListenersMix, EditUnseen
<1> QED
  BY <1>1, <1>4, <1>5, <1>6, <1>7, NextParts, WindowLeaves

---------------------------------------------------------------------------
(* OneWatcher *)

(* Unless reloads overlapped: one listener reloads at most, no watcher is  *)
(* live meanwhile, and the one that is live otherwise is the last.         *)
WatchInv ==
    ~doubled =>
        /\ \A g, h \in Handlers : handler[g].pc = "load" /\ handler[h].pc = "load" => g = h
        /\ \A x \in Watchers : watcher[x].live =>
              /\ x = fileListenerController /\ watcher[x].path = workingDirectoryPath
              /\ \A h \in Handlers : handler[h].pc # "load"
LEMMA WatchStep == TypeInv /\ WatchInv /\ [Next]_vars => WatchInv'
<1> SUFFICES ASSUME TypeInv, WatchInv, [Next]_vars
             PROVE  WatchInv'
  OBVIOUS
<1> USE DEF TypeInv
(* What neither reloads nor watches.                                       *)
<1>1. ASSUME UNCHANGED <<workingDirectoryPath, fileListenerController, doubled>>,
             \A x \in Watchers : watcher'[x].live = watcher[x].live /\ watcher'[x].path = watcher[x].path,
             \A h \in Handlers : handler'[h].pc = "load" => handler[h].pc = "load"
      PROVE  WatchInv'
  BY <1>1 DEF WatchInv
<1>2. ASSUME NEW r \in Requests, Proceed(r) \/ Asks(r)
      PROVE  WatchInv'
  <2>1. UNCHANGED <<configuration, doubled>>
    BY <1>2, RequestsLeave
  <2>2. CASE Opened(r)
    BY <1>1, <2>1, <2>2, EmitTyped DEF Opened, FindById, ServiceInv, RequestType, Workspace, configuration
  <2>3. CASE Returned(r) /\ request[r].op = "update"
    BY <1>1, <2>1, <2>3, EmitTyped DEF Returned, ServiceInv, RequestType, Workspace, configuration
  <2>4. CASE CloseWorkspace(r)
    BY <1>1, <2>1, <2>4, EmitTyped DEF CloseWorkspace, WindowInv, configuration
  <2>5. CASE UNCHANGED handler
    BY <1>1, <2>1, <2>5 DEF configuration
  <2> QED
    BY <1>2, <2>2, <2>3, <2>4, <2>5
    DEF Proceed, Asks, OpenFails, SaveAll, SaveFails, Written, Returned, Refetched, SaveWorkspace,
        ConfirmRemove, OpenWorkspace, OpenTemporaryWorkspace
<1>3. ASSUME NEW h \in Handlers,
             NotFound(h) \/ StopFails(h) \/ Started(h) \/ Stopped(h) \/ FlowJsonUpdate(h)
      PROVE  WatchInv'
  <2>1. UNCHANGED <<configuration, doubled>>
    BY <1>3 DEF NotFound, StopFails, Started, Stopped, FlowJsonUpdate, history
  <2>2. \A g \in Handlers : handler'[g].pc = "load" => handler[g].pc = "load"
    BY <1>3 DEF NotFound, StopFails, Started, Stopped, FlowJsonUpdate, Finish, IdleHandler,
                ConfigurationInv, HandlerType
  <2> QED
    BY <1>1, <2>1, <2>2 DEF configuration
<1>4. ASSUME NEW h \in Handlers, Found(h)
      PROVE  WatchInv'
  <2>1. CASE handler[h].event # "OPEN"
    <3>1. UNCHANGED <<configuration, doubled>>
      BY <1>4, <2>1 DEF Found
    <3>2. \A g \in Handlers : handler'[g].pc = "load" => handler[g].pc = "load"
      BY <1>4, <2>1 DEF Found, ConfigurationInv, HandlerType
    <3> QED
      BY <1>1, <3>1, <3>2 DEF configuration
  <2>2. CASE handler[h].event = "OPEN"
    <3> SUFFICES ASSUME ~doubled' PROVE WatchInv'
      BY DEF WatchInv
    <3>1. /\ doubled' = (doubled \/ (\/ \E g \in Handlers : handler[g].pc = "load"
                                     \/ \E x \in Watchers : watcher[x].loading))
          /\ watcher' = Detach
          /\ fileListenerController' = fileListenerController
      BY <1>4, <2>2 DEF Found
    <3>2. ~doubled /\ \A g \in Handlers : handler[g].pc # "load"
      BY <3>1
    <3>3. \A x \in Watchers : ~watcher'[x].live
      BY <3>1, <3>2, Detached DEF WatchInv
    <3>4. \A g \in Handlers : handler'[g].pc = "load" => g = h
      BY <1>4, <2>2, <3>2 DEF Found, ConfigurationInv
    <3> QED
      BY <3>3, <3>4 DEF WatchInv
  <2> QED
    BY <2>1, <2>2
<1>5. ASSUME NEW h \in Handlers, ConfigLoaded(h)
      PROVE  WatchInv'
  <2> SUFFICES ASSUME ~doubled' PROVE WatchInv'
    BY DEF WatchInv
  <2>1. ~doubled /\ handler[h].pc = "load" /\ workingDirectoryPath' = workingDirectoryPath
    BY <1>5 DEF ConfigLoaded, history
  <2>2. PICK x \in Watchers :
          /\ fileListenerController' = x
          /\ watcher' = [watcher EXCEPT ![x] =
                [NoWatcher EXCEPT !.path = workingDirectoryPath,
                                  !.live = flowJson[workingDirectoryPath] # None]]
    BY <1>5 DEF ConfigLoaded, CanAttach, Attach
  <2>3. \A g \in Handlers : handler'[g].pc # "load"
    BY <1>5, <2>1 DEF ConfigLoaded, WatchInv, ConfigurationInv, HandlerType
  <2>4. \A y \in Watchers : watcher'[y].live =>
            y = x /\ watcher'[y].path = workingDirectoryPath
    BY <2>1, <2>2 DEF WatchInv, ConfigurationInv, NoWatcher
  <2> QED
    BY <2>1, <2>2, <2>3, <2>4 DEF WatchInv
<1>6. ASSUME NEW x \in Watchers, WatcherLoads(x)
      PROVE  WatchInv'
  <2>1. \A y \in Watchers : watcher'[y].live = watcher[y].live /\ watcher'[y].path = watcher[y].path
    BY <1>6 DEF WatcherLoads, ConfigurationInv, WatcherType
  <2> QED
    BY <1>1, <1>6, <2>1 DEF WatcherLoads
<1>7. ASSUME NEW x \in Watchers, WatcherLoaded(x)
      PROVE  WatchInv'
  <2>1. \A y \in Watchers : watcher'[y].live = watcher[y].live /\ watcher'[y].path = watcher[y].path
    BY <1>7 DEF WatcherLoaded, ConfigurationInv, WatcherType
  <2>2. \A h \in Handlers : handler'[h].pc = "load" => handler[h].pc = "load"
    BY <1>7 DEF WatcherLoaded, ConfigurationInv, IdleHandler
  <2> QED
    BY <1>1, <1>7, <2>1, <2>2 DEF WatcherLoaded, history
<1>8. ASSUME NEW p \in Paths, EditFlowJson(p)
      PROVE  WatchInv'
  <2>1. \A y \in Watchers : watcher'[y] \in {watcher[y], [watcher[y] EXCEPT !.event = TRUE]}
    BY <1>8 DEF EditFlowJson
  <2>2. \A y \in Watchers : watcher'[y].live = watcher[y].live /\ watcher'[y].path = watcher[y].path
    BY <2>1 DEF ConfigurationInv, WatcherType
  <2> QED
    BY <1>1, <1>8, <2>2 DEF EditFlowJson
<1>9. CASE UNCHANGED <<configuration, handler, doubled>>
  BY <1>1, <1>9 DEF configuration
<1> QED
  BY <1>2, <1>3, <1>4, <1>5, <1>6, <1>7, <1>8, <1>9, NextParts, WindowLeaves
  DEF Listen, Watch, vars, history

(* Reloads that did not overlap leave one watcher at most, which is the    *)
(* last one and watches the flow.json of the current directory, for any    *)
(* number of listeners and watchers (flow-config.service.ts:118-122); and  *)
(* they overlap only when a workspace is opened while another listener, or *)
(* a watcher, is loading its flow.json.                                    *)
THEOREM WatchersReplaced == Spec => []OneWatcher /\ [][ReloadsOverlap]_vars
<1>1. Init => WatchInv
  BY DEF Init, WatchInv, NoWatcher, IdleHandler
<1>2. WatchInv => OneWatcher
  BY DEF WatchInv, OneWatcher
<1>3. TypeInv /\ [Next]_vars => [ReloadsOverlap]_vars
  BY ExclusionsArise DEF Exclusions
<1> QED
  BY <1>1, <1>2, <1>3, WatchStep, TypeInvariant, PTL DEF Spec

---------------------------------------------------------------------------
(* ListAsSaved *)

Writing(r) == Writes(request[r].op) /\ request[r].pc \in {"find", "write"}

(* What a request makes of the list.                                       *)
Outcome(d) == {e \in Changed(d.op, d.w, saved) : e.id # Temporary}

(* Unless two requests raced, one at most is between its read and the end  *)
(* of its write: it has read the list that was saved last, and writes what *)
(* it makes of that one to the file that it has emptied.                   *)
WriterInv ==
    ~raced =>
        /\ \A r, q \in Requests : Writing(r) /\ Writing(q) => r = q
        /\ (\A r \in Requests : request[r].pc # "write") => files[ListFile] = List!FileOf(saved)
        /\ \A r \in Requests : Writing(r) /\ request[r].pc = "find" =>
              request[r].read = [ok |-> TRUE, list |-> saved]
        /\ \A r \in Requests : request[r].pc = "write" =>
              /\ files[ListFile] = [list |-> {}, whole |-> FALSE]
              /\ request[r].read.list = Outcome(request[r])

ListInv == WriterInv /\ IsFiniteSet(saved)

LEMMA SameCardinality == ASSUME NEW S PROVE List!Cardinality(S) = Cardinality(S)
BY Zenon DEF List!Cardinality, Cardinality

LEMMA ChangedFinite ==
    ASSUME NEW op \in {"create", "update", "remove"}, NEW w, NEW list, IsFiniteSet(list)
    PROVE  IsFiniteSet(Changed(op, w, list))
<1>1. CASE op = "create"
  BY <1>1, FS_AddElement DEF Changed
<1>2. CASE op = "update"
  <2> DEFINE f == [e \in list |-> IF e.id = w.id THEN w ELSE e]
  <2>1. f \in Surjection(list, {f[e] : e \in list})
    BY DEF Surjection
  <2>2. IsFiniteSet({f[e] : e \in list})
    BY <2>1, FS_Surjection
  <2>3. {f[e] : e \in list} = {IF e.id = w.id THEN w ELSE e : e \in list}
    OBVIOUS
  <2> QED
    BY <1>2, <2>2, <2>3 DEF Changed
<1>3. CASE op = "remove"
  BY <1>3, FS_Subset DEF Changed
<1> QED
  BY <1>1, <1>2, <1>3

LEMMA OutcomeKept ==
    ASSUME NEW q \in Requests, request'[q] = request[q], saved' = saved
    PROVE  Outcome(request[q])' = Outcome(request[q])
BY Zenon DEF Outcome, Changed

(* Of a list with the temporary workspace as of one without it, the same   *)
(* is written.                                                             *)
LEMMA PersistableIsOutcome ==
    ASSUME ServiceInv, NEW d \in RequestType, Writes(d.op), d.op = "create" => d.w \in Entries,
           d.read.list = saved
    PROVE  Persistable(Changed(d.op, d.w, FindAll(d.read))) = Outcome(d)
<1>1. saved \in SUBSET Entries /\ d.w \in Workspace
  BY DEF ServiceInv, RequestType
<1>2. \A e \in Entries : e.id # Temporary
  BY WorkspacesAssumption DEF Entries
<1>3. CASE temporaryWorkspaceLookup = None
  <2>1. FindAll(d.read) = saved
    BY <1>3 DEF FindAll, TemporaryWorkspaces
  <2>2. \A e \in Changed(d.op, d.w, saved) : e.id # Temporary
    BY <1>1, <1>2 DEF Changed, Writes
  <2> QED
    BY <1>3, <2>1, <2>2 DEF Persistable, Outcome
<1>4. CASE temporaryWorkspaceLookup # None
  <2> DEFINE t == [id |-> Temporary, path |-> temporaryWorkspaceLookup]
  <2>1. FindAll(d.read) = saved \cup {t}
    BY <1>4 DEF FindAll, TemporaryWorkspaces
  <2>2. t.id = Temporary
    OBVIOUS
  <2> HIDE DEF t
  <2>3. ASSUME NEW e, e.id # Temporary
        PROVE  e \in Changed(d.op, d.w, saved \cup {t}) <=> e \in Changed(d.op, d.w, saved)
    <3>1. CASE d.op = "create"
      BY <2>2, <2>3, <3>1 DEF Changed
    <3>2. CASE d.op = "remove"
      BY <2>2, <2>3, <3>2 DEF Changed
    <3>3. CASE d.op = "update"
      BY <2>2, <2>3, <3>3 DEF Changed
    <3> QED
      BY <3>1, <3>2, <3>3 DEF Writes
  <2> QED
    BY <1>4, <2>1, <2>3 DEF Persistable, Outcome
<1> QED
  BY <1>3, <1>4

LEMMA ListStep == TypeInv /\ ListInv /\ [Next]_vars => ListInv'
<1> SUFFICES ASSUME TypeInv, ListInv, [Next]_vars
             PROVE  ListInv'
  OBVIOUS
<1> USE DEF TypeInv
(* Others do not notice what one request does, unless it writes.           *)
<1>1. ASSUME NEW Others \in SUBSET Requests, \A q \in Others : request'[q] = request[q],
             saved' = saved, files' = files, ~raced
      PROVE  \A q \in Others : request'[q].pc = "write" =>
              /\ files'[ListFile] = [list |-> {}, whole |-> FALSE]
              /\ request'[q].read.list = Outcome(request[q])'
  BY <1>1, OutcomeKept DEF ListInv, WriterInv
<1>2. CASE UNCHANGED <<files, saved, raced, request>>
  <2>1. ~raced => \A q \in Requests : request'[q].pc = "write" =>
              /\ files'[ListFile] = [list |-> {}, whole |-> FALSE]
              /\ request'[q].read.list = Outcome(request[q])'
    BY <1>1, <1>2
  <2> QED
    BY <1>2, <2>1 DEF ListInv, WriterInv, Writing, List!FileOf, Writes
(* A request that is not, or no longer, about to write.                    *)
<1>3. ASSUME NEW r \in Requests, NEW d, request' = [request EXCEPT ![r] = d],
             request[r].pc # "write", d.pc # "write", ~(Writes(d.op) /\ d.pc = "find"),
             UNCHANGED <<files, saved, raced>>
      PROVE  ListInv'
  <2>1. request'[r] = d /\ \A q \in Requests \ {r} : request'[q] = request[q]
    BY <1>3 DEF ServiceInv
  <2>2. CASE raced
    BY <1>3, <2>2 DEF ListInv, WriterInv
  <2>3. CASE ~raced
    <3>1. \A q, s \in Requests : Writing(q)' /\ Writing(s)' => q = s
      BY <1>3, <2>1, <2>3 DEF ListInv, WriterInv, Writing, Writes
    <3>2. (\A q \in Requests : request'[q].pc # "write") => files'[ListFile] = List!FileOf(saved')
      BY <1>3, <2>1, <2>3 DEF ListInv, WriterInv
    <3>3. \A q \in Requests : Writing(q)' /\ request'[q].pc = "find" =>
              request'[q].read = [ok |-> TRUE, list |-> saved']
      BY <1>3, <2>1, <2>3 DEF ListInv, WriterInv, Writing, Writes
    <3>4. \A q \in Requests : request'[q].pc = "write" =>
              /\ files'[ListFile] = [list |-> {}, whole |-> FALSE]
              /\ request'[q].read.list = Outcome(request[q])'
      BY <1>1, <1>3, <2>1, <2>3
    <3> QED
      BY <1>3, <3>1, <3>2, <3>3, <3>4 DEF ListInv, WriterInv, List!FileOf
  <2> QED
    BY <2>2, <2>3 DEF HistoryInv
<1>4. ASSUME NEW r \in Requests, OpenFails(r) \/ SaveFails(r) \/ Refetched(r)
      PROVE  ListInv'
  <2>1. request' = [request EXCEPT ![r] = IdleRequest] /\ request[r].pc # "write"
        /\ UNCHANGED <<files, saved, raced>>
    BY <1>4 DEF OpenFails, SaveFails, Refetched, EndRequest, InFlow, service, history
  <2>2. IdleRequest.pc = "idle"
    BY DEF IdleRequest
  <2> QED
    BY <1>3, <2>1, <2>2
<1>5. ASSUME NEW r \in Requests, Opened(r)
      PROVE  ListInv'
  <2>1. request' = [request EXCEPT ![r] = [request[r] EXCEPT !.pc = "refetch"]]
        /\ request[r].pc # "write" /\ UNCHANGED <<files, saved, raced>>
    BY <1>5 DEF Opened, Go, InFlow, ServiceInv
  <2>2. [request[r] EXCEPT !.pc = "refetch"].pc = "refetch"
    BY DEF ServiceInv, RequestType
  <2> QED
    BY <1>3, <2>1, <2>2
<1>6. ASSUME NEW r \in Requests, Returned(r)
      PROVE  ListInv'
  <2> DEFINE d == IF request[r].op = "remove" THEN [request[r] EXCEPT !.pc = "refetch", !.read = NotRead]
                  ELSE [request[r] EXCEPT !.pc = "find", !.op = "open", !.read = Read]
  <2>1. request' = [request EXCEPT ![r] = d] /\ request[r].pc # "write" /\ UNCHANGED <<files, saved, raced>>
    BY <1>6 DEF Returned, InFlow, ServiceInv, service
  <2>2. d.pc = "refetch" \/ (d.pc = "find" /\ d.op = "open")
    BY DEF ServiceInv, RequestType
  <2> HIDE DEF d
  <2> QED
    BY <1>3, <2>1, <2>2 DEF Writes
<1>7. ASSUME NEW r \in Requests, SaveAll(r)
      PROVE  ListInv'
  <2> DEFINE list == Persistable(Changed(request[r].op, request[r].w, FindAll(request[r].read)))
             d == [request[r] EXCEPT !.pc = "write", !.read = [ok |-> TRUE, list |-> list]]
  <2>1. /\ request' = [request EXCEPT ![r] = d]
        /\ files' = [files EXCEPT ![ListFile] = [list |-> {}, whole |-> FALSE]]
        /\ UNCHANGED <<saved, raced>>
        /\ Writing(r) /\ request[r].pc = "find"
    BY <1>7 DEF SaveAll, List!Truncate, history, Writing, InFlow, ServiceInv
  <2>2. CASE raced
    BY <2>1, <2>2 DEF ListInv, WriterInv
  <2>3. CASE ~raced
    <3>1. request[r].read.list = saved /\ \A q \in Requests \ {r} : ~Writing(q)
      BY <2>1, <2>3 DEF ListInv, WriterInv
    <3>2. list = Outcome(request[r])
      BY <2>1, <3>1, PersistableIsOutcome DEF ServiceInv, Writing
    <3>3. d.pc = "write" /\ d.op = request[r].op /\ d.w = request[r].w /\ d.read.list = list
      BY DEF ServiceInv, RequestType
    <3> HIDE DEF d, list
    <3>4. request'[r] = d /\ \A q \in Requests \ {r} : request'[q] = request[q] /\ request[q].pc # "write"
      BY <2>1, <3>1 DEF ServiceInv, Writing
    <3>5. Outcome(request[r])' = Outcome(request[r])
      BY <2>1, <3>3, <3>4, Zenon DEF Outcome, Changed
    <3>6. \A q \in Requests : Writing(q)' => q = r
      BY <3>1, <3>4 DEF Writing, Writes
    <3>7. files'[ListFile] = [list |-> {}, whole |-> FALSE]
      BY <2>1 DEF ServiceInv
    <3>8. \A q \in Requests : request'[q].pc = "write" => q = r
      BY <3>4
    <3> QED
      BY <2>1, <3>2, <3>3, <3>4, <3>5, <3>6, <3>7, <3>8 DEF ListInv, WriterInv
  <2> QED
    BY <2>2, <2>3 DEF HistoryInv
<1>8. ASSUME NEW r \in Requests, Written(r)
      PROVE  ListInv'
  <2>1. request[r].op \in {"create", "update", "remove"} /\ request[r].pc = "write"
    BY <1>8 DEF Written, InFlow, ServiceInv, Writes
  <2>2. saved' = Outcome(request[r])
    BY <1>8 DEF Written, Outcome
  <2>3. IsFiniteSet(saved')
    <3>1. IsFiniteSet(Changed(request[r].op, request[r].w, saved))
      BY <2>1, ChangedFinite DEF ListInv
    <3>2. saved' \in SUBSET Changed(request[r].op, request[r].w, saved)
      BY <2>2 DEF Outcome
    <3> QED
      BY <3>1, <3>2, FS_Subset
  <2>4. CASE raced
    BY <1>8, <2>3, <2>4 DEF Written, ListInv, WriterInv
  <2>5. CASE ~raced
    <3>1. /\ files[ListFile] = [list |-> {}, whole |-> FALSE]
          /\ request[r].read.list = saved'
      BY <2>1, <2>2, <2>5 DEF ListInv, WriterInv
    <3>2. Cardinality(saved') >= Cardinality({})
      BY <2>3, FS_CardinalityType, FS_EmptySet
    <3>3. files'[ListFile] = List!FileOf(saved')
      <4>1. List!Overwrite(ListFile, saved')
        BY <1>8, <3>1 DEF Written
      <4>2. files' = [files EXCEPT ![ListFile] =
                        IF Cardinality(saved') >= Cardinality(files[ListFile].list)
                        THEN List!FileOf(saved') ELSE [files[ListFile] EXCEPT !.whole = FALSE]]
        BY <4>1, SameCardinality, Zenon DEF List!Overwrite
      <4>3. Cardinality(saved') >= Cardinality(files[ListFile].list)
        BY <3>1, <3>2
      <4>4. files' = [files EXCEPT ![ListFile] = List!FileOf(saved')]
        BY <4>2, <4>3
      <4> QED
        BY <4>4 DEF ServiceInv
    <3>4. request'[r].pc = "written" /\ \A q \in Requests \ {r} : request'[q] = request[q]
      BY <1>8 DEF Written, Go, ServiceInv, RequestType
    <3>5. \A q \in Requests : ~Writing(q)' /\ request'[q].pc # "write"
      BY <2>1, <2>5, <3>4 DEF ListInv, WriterInv, Writing, Writes, ServiceInv
    <3> QED
      BY <2>3, <3>3, <3>5 DEF ListInv, WriterInv, List!FileOf
  <2> QED
    BY <2>4, <2>5 DEF HistoryInv
(* Of requests that write, the first is alone, or they race.               *)
<1>9. ASSUME NEW r \in Requests, NEW op \in {"open", "close", "create", "update", "remove", "startup"},
             NEW w, NEW pc \in {"find", "refetch"}, Ask(r, op, w, pc), UNCHANGED <<files, saved>>
      PROVE  ListInv'
  <2> DEFINE d == [pc |-> pc, op |-> op, w |-> w, read |-> Read]
  <2>1. request' = [request EXCEPT ![r] = d] /\ request[r].pc = "idle"
    BY <1>9 DEF Ask, Idle
  <2>2. raced' = (raced \/ (Writes(op) /\ Races(r)))
    BY <1>9 DEF Ask
  <2>3. CASE ~Writes(op) \/ pc # "find"
    <3>1. CASE ~raced'
      <4>1. raced' = raced
        BY <2>2, <3>1 DEF HistoryInv
      <4>2. d.pc # "write" /\ ~(Writes(d.op) /\ d.pc = "find")
        BY <2>3
      <4> HIDE DEF d
      <4> QED
        BY <1>3, <1>9, <2>1, <4>1, <4>2
    <3>2. CASE raced'
      BY <1>9, <3>2 DEF ListInv, WriterInv
    <3> QED
      BY <3>1, <3>2
  <2>4. CASE raced'
    BY <1>9, <2>4 DEF ListInv, WriterInv
  <2>5. CASE ~raced' /\ Writes(op) /\ pc = "find"
    <3>1. ~raced /\ ~Races(r)
      BY <2>2, <2>5
    <3>2. \A q \in Requests : ~Writing(q) /\ request[q].pc # "write"
      BY <2>1, <3>1 DEF Races, Writing, ServiceInv
    <3>3. files[ListFile] = List!FileOf(saved) /\ files'[ListFile] = List!FileOf(saved')
      BY <1>9, <3>1, <3>2 DEF ListInv, WriterInv
    <3>4. Read = [ok |-> TRUE, list |-> saved]
      <4>1. List!Parses = TRUE
        BY <3>3, WorkspacesAssumption DEF List!Parses, List!FileOf
      <4>2. List!Parsed = saved
        BY <3>3, WorkspacesAssumption DEF List!Parsed, List!FileOf
      <4> QED
        BY <4>1, <4>2, Zenon DEF Read
    <3>5. d.read = [ok |-> TRUE, list |-> saved'] /\ d.pc = "find"
      BY <1>9, <2>5, <3>4
    <3> HIDE DEF d
    <3>6. request'[r] = d /\ \A q \in Requests \ {r} : request'[q] = request[q]
      BY <2>1 DEF ServiceInv
    <3>7. \A q \in Requests : /\ request'[q].pc # "write"
                              /\ Writing(q)' => q = r
      BY <2>5, <3>2, <3>5, <3>6 DEF Writing, Writes
    <3> QED
      BY <1>9, <3>3, <3>5, <3>6, <3>7 DEF ListInv, WriterInv
  <2> QED
    BY <2>3, <2>4, <2>5
<1>10. ASSUME NEW r \in Requests, Asks(r)
       PROVE  ListInv'
  <2>1. CASE \E w \in Workspace : OpenWorkspace(r, w)
    BY <1>9, <2>1 DEF OpenWorkspace, service
  <2>2. CASE CloseWorkspace(r)
    BY <1>9, <2>2 DEF CloseWorkspace
  <2>3. CASE SaveWorkspace(r)
    BY <1>9, <2>3 DEF SaveWorkspace, service
  <2>4. CASE ConfirmRemove(r)
    BY <1>9, <2>4 DEF ConfirmRemove, service
  <2>5. ASSUME NEW p \in Paths, OpenTemporaryWorkspace(r, p)
        PROVE  ListInv'
    <3> DEFINE d == [pc |-> "find", op |-> "startup", w |-> [id |-> Temporary, path |-> p], read |-> Read]
    <3>1. request' = [request EXCEPT ![r] = d] /\ UNCHANGED <<files, saved, raced>> /\ request[r].pc = "idle"
      BY <2>5 DEF OpenTemporaryWorkspace, Idle
    <3>2. d.pc = "find" /\ ~Writes(d.op)
      BY DEF Writes
    <3> HIDE DEF d
    <3> QED
      BY <1>3, <3>1, <3>2
  <2> QED
    BY <1>10, <2>1, <2>2, <2>3, <2>4, <2>5 DEF Asks
<1> QED
  BY <1>2, <1>4, <1>5, <1>6, <1>7, <1>8, <1>10, NextParts, ListenersLeave, WindowLeaves
  DEF Proceed, vars, window, history, service

LEMMA InitList == Init => ListInv
<1> SUFFICES ASSUME Init PROVE ListInv
  OBVIOUS
<1>1. IsFiniteSet(saved)
  <2>1. saved = {} \/ \E e : saved = {e}
    BY DEF Init
  <2> QED
    BY <2>1, FS_EmptySet, FS_Singleton
<1>2. files[ListFile] = List!FileOf(saved)
  BY DEF Init
<1> QED
  BY <1>1, <1>2 DEF Init, ListInv, WriterInv, IdleRequest, Writing, Writes

(* The file holds what the user's changes make of the list one after the   *)
(* other, unless two of them race, for any number of requests: no temporary*)
(* workspace is written, whatever was given on the command line, and       *)
(* neither is any other change lost (workspace.service.ts:72-90, 116-133). *)
THEOREM ListKept == Spec => []ListAsSaved
<1>1. ListInv => ListAsSaved
  BY DEF ListInv, WriterInv, ListAsSaved
<1> QED
  BY <1>1, InitList, ListStep, TypeInvariant, PTL DEF Spec

---------------------------------------------------------------------------
(* OpenIsShown *)

ShownIds == IF page.name \in {"workspace", "settings"} THEN {page.id} ELSE {}

(* What is open while a request is under way: its own workspace at most,   *)
(* and none when it has closed that or removes another one.                *)
OpenDuring(d, open) ==
    /\ d.op \in {"close", "remove"} => open = {}
    /\ open \in SUBSET {d.w.id}
    /\ d.pc = "refetch" => /\ d.op \in {"open", "startup", "close", "remove"}
                           /\ d.op \in {"open", "startup"} => open = {d.w.id}

(* Undisturbed, one request is under way at most.                          *)
OpenInv ==
    ~disturbed =>
        /\ \A r, q \in Requests : ~Idle(r) /\ ~Idle(q) => r = q
        /\ AllIdle => openWorkspaceIds = ShownIds
        /\ \A r \in Requests : ~Idle(r) => OpenDuring(request[r], openWorkspaceIds)

LEMMA OpenStep == TypeInv /\ OpenInv /\ [Next]_vars => OpenInv'
<1> SUFFICES ASSUME TypeInv, OpenInv, [Next]_vars, ~disturbed'
             PROVE  OpenInv'
  BY DEF OpenInv
<1> USE DEF TypeInv
<1>1. ASSUME UNCHANGED <<openWorkspaceIds, request, disturbed>>, AllIdle => ShownIds' = ShownIds
      PROVE  OpenInv'
  BY <1>1 DEF OpenInv, AllIdle, Idle, OpenDuring
(* The only request goes on.                                               *)
<1>2. ASSUME NEW r \in Requests, NEW d, ~Idle(r), d.pc # "idle",
             request' = [request EXCEPT ![r] = d], disturbed' = disturbed,
             OpenDuring(d, openWorkspaceIds')
      PROVE  OpenInv'
  <2>1. request'[r] = d /\ \A q \in Requests \ {r} : request'[q] = request[q] /\ Idle(q)
    BY <1>2 DEF ServiceInv, OpenInv
  <2> QED
    BY <1>2, <2>1 DEF OpenInv, AllIdle, Idle, OpenDuring
(* A request begins while there is no other.                               *)
<1>3. ASSUME NEW r \in Requests, NEW d, \A q \in Requests \ {r} : Idle(q), d.pc # "idle",
             request' = [request EXCEPT ![r] = d],
             OpenDuring(d, openWorkspaceIds')
      PROVE  OpenInv'
  <2>1. request'[r] = d /\ \A q \in Requests \ {r} : request'[q] = request[q]
    BY <1>3 DEF ServiceInv
  <2> QED
    BY <1>3, <2>1 DEF OpenInv, AllIdle, Idle, OpenDuring
<1>4. ASSUME NEW r \in Requests, Opened(r)
      PROVE  OpenInv'
  <2> DEFINE d == [request[r] EXCEPT !.pc = "refetch"]
  <2>1. PICK w \in FindById(request[r].read, request[r].w.id) :
          openWorkspaceIds' = openWorkspaceIds \cup {w.id}
    BY <1>4 DEF Opened
  <2>2. w.id = request[r].w.id
    BY DEF FindById
  <2>3. /\ request' = [request EXCEPT ![r] = d] /\ disturbed' = disturbed /\ ~Idle(r)
        /\ request[r].op \in {"open", "startup"}
    BY <1>4 DEF Opened, Go, ServiceInv, Idle, InFlow
  <2>4. d.pc = "refetch" /\ d.op = request[r].op /\ d.w = request[r].w
    BY DEF ServiceInv, RequestType
  <2>5. openWorkspaceIds \in SUBSET {request[r].w.id}
    BY <2>3 DEF OpenInv, OpenDuring
  <2> HIDE DEF d
  <2>6. OpenDuring(d, openWorkspaceIds')
    BY <2>1, <2>2, <2>3, <2>4, <2>5 DEF OpenDuring
  <2> QED
    BY <1>2, <2>3, <2>4, <2>6
<1>5. ASSUME NEW r \in Requests, SaveAll(r) \/ Written(r)
      PROVE  OpenInv'
  <2>1. PICK d \in RequestType :
          /\ request' = [request EXCEPT ![r] = d]
          /\ d.pc \in {"write", "written"} /\ d.op = request[r].op /\ d.w = request[r].w
    <3>1. request'[r] \in RequestType /\ request' = [request EXCEPT ![r] = request'[r]]
      BY <1>5, ServiceStep DEF SaveAll, Written, Go, ServiceInv
    <3>2. /\ request'[r].pc \in {"write", "written"}
          /\ request'[r].op = request[r].op /\ request'[r].w = request[r].w
      <4>1. CASE Written(r)
        BY <4>1 DEF Written, Go, ServiceInv, RequestType
      <4>2. ASSUME NEW read, request' = [request EXCEPT ![r] = [@ EXCEPT !.pc = "write", !.read = read]]
            PROVE  /\ request'[r].pc = "write"
                   /\ request'[r].op = request[r].op /\ request'[r].w = request[r].w
        BY <4>2 DEF ServiceInv, RequestType
      <4>3. CASE SaveAll(r)
        BY <4>2, <4>3 DEF SaveAll
      <4> QED
        BY <1>5, <4>1, <4>3
    <3> QED
      BY <3>1, <3>2
  <2>2. ~Idle(r) /\ UNCHANGED <<openWorkspaceIds, disturbed>>
    BY <1>5 DEF SaveAll, Written, Idle, InFlow, history
  <2> QED
    BY <1>2, <2>1, <2>2 DEF OpenInv, OpenDuring
<1>6. ASSUME NEW r \in Requests, Returned(r)
      PROVE  OpenInv'
  <2> DEFINE d == IF request[r].op = "remove" THEN [request[r] EXCEPT !.pc = "refetch", !.read = NotRead]
                  ELSE [request[r] EXCEPT !.pc = "find", !.op = "open", !.read = Read]
  <2>1. /\ request' = [request EXCEPT ![r] = d] /\ ~Idle(r) /\ Writes(request[r].op)
        /\ UNCHANGED <<openWorkspaceIds, disturbed>>
    BY <1>6 DEF Returned, InFlow, ServiceInv, service, Idle
  <2>2. /\ d.w = request[r].w
        /\ \/ d.op = "remove" /\ request[r].op = "remove" /\ d.pc = "refetch"
           \/ d.op = "open" /\ d.pc = "find"
    BY DEF ServiceInv, RequestType
  <2> HIDE DEF d
  <2>3. OpenDuring(d, openWorkspaceIds')
    BY <2>1, <2>2 DEF OpenInv, OpenDuring
  <2> QED
    BY <1>2, <2>1, <2>2, <2>3
<1>7. ASSUME NEW r \in Requests, Refetched(r)
      PROVE  OpenInv'
  <2>1. /\ request' = [request EXCEPT ![r] = IdleRequest] /\ ~Idle(r) /\ request[r].pc = "refetch"
        /\ UNCHANGED <<openWorkspaceIds, disturbed>>
        /\ page' = IF request[r].op \in {"open", "startup"} THEN WorkspacePage(request[r].w.id) ELSE ProjectsPage
    BY <1>7 DEF Refetched, Navigate, EndRequest, InFlow, Idle, service, history
  <2>2. \A q \in Requests : Idle(q)'
    BY <2>1 DEF OpenInv, ServiceInv, Idle, IdleRequest
  <2>3. openWorkspaceIds' = ShownIds'
    BY <2>1 DEF OpenInv, OpenDuring, ShownIds, WorkspacePage, ProjectsPage
  <2> QED
    BY <2>2, <2>3 DEF OpenInv, Idle
<1>8. ASSUME NEW r \in Requests, OpenFails(r) \/ SaveFails(r)
      PROVE  FALSE
  BY <1>8 DEF OpenFails, SaveFails
(* What is asked for comes after the page is what is open, or with nothing *)
(* open.                                                                   *)
<1>9. ASSUME NEW r \in Requests, NEW op, NEW w, NEW pc, Ask(r, op, w, pc)
      PROVE  /\ \A q \in Requests : Idle(q)
             /\ request' = [request EXCEPT ![r] = [pc |-> pc, op |-> op, w |-> w, read |-> Read]]
             /\ openWorkspaceIds = ShownIds
             /\ op = "remove" => openWorkspaceIds = {}
  <2>1. /\ Idle(r) /\ ~Other(r) /\ (op = "remove" => openWorkspaceIds = {})
        /\ ~disturbed \/ (page = ProjectsPage /\ openWorkspaceIds = {})
    BY <1>9 DEF Ask
  <2>2. \A q \in Requests : Idle(q)
    BY <2>1 DEF Other
  <2>3. openWorkspaceIds = ShownIds
    BY <2>1, <2>2 DEF OpenInv, AllIdle, ShownIds, ProjectsPage
  <2> QED
    BY <1>9, <2>1, <2>2, <2>3 DEF Ask
<1>10. ASSUME NEW r \in Requests, NEW w \in Workspace, OpenWorkspace(r, w)
       PROVE  OpenInv'
  <2> DEFINE d == [pc |-> "find", op |-> "open", w |-> w, read |-> Read]
  <2>1. /\ request' = [request EXCEPT ![r] = d] /\ \A q \in Requests : Idle(q)
        /\ openWorkspaceIds' = {}
    BY <1>9, <1>10 DEF OpenWorkspace, service, ShownIds, ProjectsPage
  <2>2. OpenDuring(d, openWorkspaceIds') /\ d.pc # "idle"
    BY <2>1 DEF OpenDuring
  <2> HIDE DEF d
  <2> QED
    BY <1>3, <2>1, <2>2
<1>11. ASSUME NEW r \in Requests, NEW p \in Paths, OpenTemporaryWorkspace(r, p)
       PROVE  OpenInv'
  <2> DEFINE d == [pc |-> "find", op |-> "startup", w |-> [id |-> Temporary, path |-> p], read |-> Read]
  <2>1. /\ request' = [request EXCEPT ![r] = d] /\ \A q \in Requests : Idle(q)
        /\ openWorkspaceIds' = {}
    BY <1>11 DEF OpenTemporaryWorkspace
  <2>2. OpenDuring(d, openWorkspaceIds') /\ d.pc # "idle"
    BY <2>1 DEF OpenDuring
  <2> HIDE DEF d
  <2> QED
    BY <1>3, <2>1, <2>2
<1>12. ASSUME NEW r \in Requests, CloseWorkspace(r)
       PROVE  OpenInv'
  <2> DEFINE d == [pc |-> "refetch", op |-> "close", w |-> [AnyWorkspace EXCEPT !.id = page.id], read |-> Read]
  <2>1. /\ request' = [request EXCEPT ![r] = d] /\ \A q \in Requests : Idle(q)
        /\ openWorkspaceIds' = {}
    BY <1>9, <1>12 DEF CloseWorkspace, ShownIds
  <2>2. OpenDuring(d, openWorkspaceIds') /\ d.pc # "idle"
    BY <2>1 DEF OpenDuring
  <2> HIDE DEF d
  <2> QED
    BY <1>3, <2>1, <2>2
<1>13. ASSUME NEW r \in Requests, SaveWorkspace(r)
       PROVE  OpenInv'
  <2> DEFINE d == [pc |-> "find", op |-> IF page.name = "create" THEN "create" ELSE "update", w |-> form.w,
                   read |-> Read]
  <2>1. /\ request' = [request EXCEPT ![r] = d] /\ \A q \in Requests : Idle(q)
        /\ openWorkspaceIds' = ShownIds
    BY <1>9, <1>13 DEF SaveWorkspace, service
  <2>2. form.w.id = page.id
    BY <1>13 DEF SaveWorkspace, WindowInv
  <2>3. OpenDuring(d, openWorkspaceIds') /\ d.pc # "idle"
    BY <2>1, <2>2 DEF OpenDuring, ShownIds
  <2> HIDE DEF d
  <2> QED
    BY <1>3, <2>1, <2>3
<1>14. ASSUME NEW r \in Requests, ConfirmRemove(r)
       PROVE  OpenInv'
  <2> DEFINE d == [pc |-> "find", op |-> "remove", w |-> [AnyWorkspace EXCEPT !.id = dialog.id], read |-> Read]
  <2>1. /\ request' = [request EXCEPT ![r] = d] /\ \A q \in Requests : Idle(q)
        /\ openWorkspaceIds' = {}
    BY <1>9, <1>14 DEF ConfirmRemove, service
  <2>2. OpenDuring(d, openWorkspaceIds') /\ d.pc # "idle"
    BY <2>1 DEF OpenDuring
  <2> HIDE DEF d
  <2> QED
    BY <1>3, <2>1, <2>2
<1>15. CASE WindowStep
  <2>1. UNCHANGED <<openWorkspaceIds, request, disturbed>>
    BY <1>15, WindowLeaves DEF service, history
  <2>2. ShownIds' = ShownIds
    <3>1. CASE page' = page
      BY <3>1 DEF ShownIds
    <3>2. CASE \E w \in Entries : NewProject(w)
      BY <3>2 DEF NewProject, ShownIds, ProjectsPage
    <3>3. CASE \E name \in {"workspace", "settings"} : Visit(name)
      BY <3>3 DEF Visit, Navigate, ShownIds, WindowInv
    <3> QED
      BY <1>15, <3>1, <3>2, <3>3
      DEF WindowStep, EditForm, RemoveWorkspace, CancelDialog, FetchProjects, FormLoaded
  <2> QED
    BY <1>1, <2>1, <2>2
<1>16. CASE UNCHANGED <<service, window, disturbed>>
  BY <1>1, <1>16 DEF service, window, ShownIds
<1> QED
  BY <1>4, <1>5, <1>6, <1>7, <1>8, <1>10, <1>11, <1>12, <1>13, <1>14, <1>15, <1>16, NextParts, ListenersLeave
  DEF Proceed, Asks, vars, history

(* "There will be only 1 open workspace for now.": it is the one whose     *)
(* pages are shown, whatever is opened, closed, saved and removed, as long *)
(* as requests do not overlap or fail (workspace.service.ts:28).           *)
THEOREM OnlyShownIsOpen == Spec => []OpenIsShown
<1>1. Init => OpenInv
  BY DEF Init, OpenInv, AllIdle, Idle, IdleRequest, ShownIds, ProjectsPage
<1>2. OpenInv => OpenIsShown
  BY DEF OpenInv, OpenIsShown, ShownIds
<1> QED
  BY <1>1, <1>2, OpenStep, TypeInvariant, PTL DEF Spec

---------------------------------------------------------------------------
(* GatewayFollowsFile *)

(* The list as requests that do not race make it: the file, once written.  *)
Current == saved \cup TemporaryWorkspaces

IdsOf(list) == {e.id : e \in list}

(* Before a start with a workspace on the command line nothing is about a  *)
(* temporary one.                                                          *)
NothingTemporary ==
    /\ Temporary \notin openWorkspaceIds
    /\ \A h \in Handlers : Configures(h) => handler[h].id # Temporary
    /\ page.name \in {"workspace", "settings"} => page.id # Temporary
    /\ projects # None => Temporary \notin IdsOf(projects)
    /\ \A r \in Requests : ~Idle(r) /\ request[r].op # "remove" => request[r].w.id # Temporary

TemporaryInv ==
    /\ left.startup => temporaryWorkspaceLookup = None
    /\ temporaryWorkspaceLookup = None => NothingTemporary

(* A new project is saved by the only request there is, which opens it.    *)
Creates(r) ==
    LET q == request[r] IN
    /\ q.w.id = page.id
    /\ \/ q.op = "create" /\ q.pc \in {"find", "write"} /\ page.id \notin IdsOf(saved)
       \/ q.op = "create" /\ q.pc = "written"
       \/ q.op = "open" /\ q.pc = "find" /\ (~raced => q.read = [ok |-> TRUE, list |-> saved])
       \/ q.op = "open" /\ q.pc = "refetch"
    /\ page.id \in openWorkspaceIds <=> q.pc = "refetch"

CreateInv ==
    /\ \A e, f \in saved : e.id = f.id => e = f
    /\ \A r \in Requests : ~Idle(r) /\ request[r].op = "create" => page.name = "create"
    /\ page.name = "create" =>
          /\ dialog = NoDialog
          /\ \/ /\ form.pc = "editing" /\ AllIdle
                /\ page.id \notin IdsOf(saved) \cup openWorkspaceIds
             \/ /\ form.pc = "submitting"
                /\ \E r \in Requests : ~Idle(r) /\ Creates(r) /\ \A q \in Requests \ {r} : Idle(q)

(* What the listeners of an event do.                                      *)
ListenerInv ==
    \A h \in Handlers : /\ handler[h].pc = "load" => handler[h].event = "OPEN"
                        /\ handler[h].pc \in {"stop", "start"} => handler[h].event # "JSON"

(* Reloads that do not overlap: what is loading is the last watcher, whose *)
(* directory is the current one, and has read what is in the file.         *)
LoadInv ==
    ~doubled =>
        /\ \A h \in Handlers : handler[h].pc = "load" =>
              /\ handler[h].path = workingDirectoryPath
              /\ \A x \in Watchers : ~watcher[x].loading
              /\ handler[h].path \notin unwatched => handler[h].content = flowJson[handler[h].path]
        /\ \A x \in Watchers : watcher[x].loading =>
              /\ watcher[x].live /\ watcher[x].from = workingDirectoryPath
              /\ watcher[x].event \/ watcher[x].content = flowJson[workingDirectoryPath]

(* A listener that will find nothing, and then show a dialog.              *)
Doomed == \E h \in Handlers : Configures(h) /\ Settings(h) = {}

(* The settings w were saved, which the listeners have not been told yet.  *)
Saves(q, w) ==
    /\ q.op = "update" /\ q.w = w
    /\ q.pc = "written" \/ (q.pc = "write" /\ w.id = Temporary)

Saving(w) == \E r \in Requests : Saves(request[r], w)

Creating(w) == page.name = "create" /\ page.id = w.id /\ w.id \notin openWorkspaceIds

Agreed(w) == \A h \in Handlers : Configures(h) /\ handler[h].id = w.id => Settings(h) = {w}

Opens(q, w) ==
    /\ q.op \in {"open", "startup"} /\ q.pc = "find" /\ q.w.id = w.id
    /\ FindById(q.read, w.id) # {}

Opening(w) == \E r \in Requests : Opens(request[r], w)

Reloading(w) ==
    \E h \in Handlers : /\ handler[h].event = "OPEN" /\ handler[h].id = w.id
                        /\ handler[h].pc \in {"find", "load"}

(* FLOW_JSON_UPDATE was emitted after w was in the list.                   *)
Notified(w) ==
    \E h \in Handlers : /\ handler[h].event = "JSON" /\ handler[h].pc = "find"
                        /\ handler[h].read.ok => w.id \in IdsOf(FindAll(handler[h].read))

Following(p) == config = [path |-> p, version |-> flowJson[p]]

(* What is in flow.json has been loaded, or will be.                       *)
Seen(w) ==
    \/ \E x \in Watchers : watcher[x].live /\ watcher[x].event
    \/ \E x \in Watchers : watcher[x].loading /\ watcher[x].content = flowJson[w.path]
    \/ /\ \A x \in Watchers : ~watcher[x].loading
       /\ Following(w.path)
       /\ fcl.flowJSON = config \/ Notified(w)

Configured(w) ==
    /\ fcl.api = w.path
    /\ workingDirectoryPath = w.path
    /\ (flowJson[w.path] \notin {None, Broken} /\ w.path \notin unwatched) => Seen(w)

Served(w) == Opening(w) \/ Reloading(w) \/ Configured(w)

(* Listeners are about one workspace, and have its settings unless these   *)
(* were just saved; the one that is open is or will be configured.         *)
OneSubject ==
    /\ \A a, b \in openWorkspaceIds : a = b
    /\ \A h \in Handlers : Configures(h) => openWorkspaceIds \subseteq {handler[h].id}
    /\ \A g, h \in Handlers : Configures(g) /\ Configures(h) => handler[g].id = handler[h].id

Sound(w) ==
    \/ Doomed \/ Saving(w)
    \/ (Creating(w) \/ Agreed(w)) /\ (openWorkspaceIds = {w.id} => Served(w))

Calm == ~mixed /\ ~doubled /\ ~raced

GatewaySound == OneSubject /\ \A w \in Current : Sound(w)

GatewayInv == Calm => GatewaySound

---------------------------------------------------------------------------
(* How a listener is started. *)

LEMMA Emitted ==
    ASSUME ConfigurationInv, CanEmit, NEW event, NEW w, Emit(event, w)
    PROVE  \E h \in Handlers :
              /\ ~Running(h)
              /\ handler'[h].pc = IF event = "CLOSE" THEN "stop" ELSE "find"
              /\ handler'[h].event = event /\ handler'[h].id = w.id /\ handler'[h].read = Read
              /\ \A g \in Handlers \ {h} : handler'[g] = handler[g]
<1> DEFINE h == CHOOSE g \in Handlers : ~Running(g)
           pc == IF event = "CLOSE" THEN "stop" ELSE "find"
           rec == [IdleHandler EXCEPT !.pc = pc, !.event = event, !.id = w.id, !.read = Read]
<1>1. h \in Handlers /\ ~Running(h)
  BY DEF CanEmit
<1>2. handler' = [handler EXCEPT ![h] = rec]
  BY DEF Emit
<1> HIDE DEF pc
<1>3. rec.pc = pc /\ rec.event = event /\ rec.id = w.id /\ rec.read = Read
  BY DEF IdleHandler
<1> HIDE DEF h, rec
<1>4. handler'[h] = rec /\ \A g \in Handlers \ {h} : handler'[g] = handler[g]
  BY <1>1, <1>2 DEF ConfigurationInv
<1> QED
  BY <1>1, <1>3, <1>4 DEF pc

(* Of a listener that is left alone.                                       *)
LEMMA SameListener ==
    ASSUME UNCHANGED temporaryWorkspaceLookup, NEW h, handler'[h] = handler[h]
    PROVE  /\ Configures(h)' <=> Configures(h)
           /\ Settings(h)' = Settings(h)
BY DEF Configures, Running, Settings, FindById, FindAll, TemporaryWorkspaces

(* What a listener that found its workspace goes on with.                  *)
LEMMA FoundListener ==
    ASSUME ConfigurationInv, NEW h \in Handlers, Found(h)
    PROVE  /\ handler[h].pc = "find" /\ handler[h].event \in {"OPEN", "UPDATE"}
           /\ \A g \in Handlers \ {h} : handler'[g] = handler[g]
           /\ handler'[h].event = handler[h].event /\ handler'[h].id = handler[h].id
           /\ \E w \in FindById(handler[h].read, handler[h].id) :
                /\ handler'[h].path = w.path
                /\ IF handler[h].event = "OPEN"
                   THEN /\ handler'[h].pc = "load" /\ handler'[h].content = flowJson[w.path]
                        /\ workingDirectoryPath' = w.path /\ unwatched' = unwatched \ {w.path}
                   ELSE handler'[h].pc = "stop" /\ UNCHANGED <<configuration, mixed, unwatched, doubled>>
<1>1. handler[h].pc = "find" /\ handler[h].event \in {"OPEN", "UPDATE"}
  BY DEF Found
<1>2. CASE handler[h].event = "OPEN"
  <2>1. PICK w \in FindById(handler[h].read, handler[h].id) :
          /\ handler' = [handler EXCEPT ![h] =
                [handler[h] EXCEPT !.pc = "load", !.path = w.path, !.content = flowJson[w.path], !.read = NotRead]]
          /\ workingDirectoryPath' = w.path
          /\ unwatched' = unwatched \ {w.path}
    BY <1>2, Zenon DEF Found
  <2> DEFINE content == flowJson[w.path]
             path == w.path
             rec == [handler[h] EXCEPT !.pc = "load", !.path = path, !.content = content, !.read = NotRead]
  <2>2. handler' = [handler EXCEPT ![h] = rec]
    BY <2>1, Zenon
  <2> HIDE DEF content, path
  <2>3. rec.pc = "load" /\ rec.path = path /\ rec.content = content /\ rec.event = handler[h].event
        /\ rec.id = handler[h].id
    BY DEF ConfigurationInv, HandlerType
  <2> HIDE DEF rec
  <2>4. handler'[h] = rec /\ \A g \in Handlers \ {h} : handler'[g] = handler[g]
    BY <2>2 DEF ConfigurationInv
  <2> QED
    BY <1>1, <1>2, <2>1, <2>3, <2>4 DEF content, path
<1>3. CASE handler[h].event # "OPEN"
  <2>1. PICK w \in FindById(handler[h].read, handler[h].id) :
          /\ handler' = [handler EXCEPT ![h] = [handler[h] EXCEPT !.pc = "stop", !.path = w.path, !.read = NotRead]]
          /\ UNCHANGED <<configuration, mixed, unwatched, doubled>>
    BY <1>3, Zenon DEF Found
  <2> DEFINE path == w.path
             rec == [handler[h] EXCEPT !.pc = "stop", !.path = path, !.read = NotRead]
  <2>2. handler' = [handler EXCEPT ![h] = rec]
    BY <2>1, Zenon
  <2> HIDE DEF path
  <2>3. rec.pc = "stop" /\ rec.path = path /\ rec.event = handler[h].event /\ rec.id = handler[h].id
    BY DEF ConfigurationInv, HandlerType
  <2> HIDE DEF rec
  <2>4. handler'[h] = rec /\ \A g \in Handlers \ {h} : handler'[g] = handler[g]
    BY <2>2 DEF ConfigurationInv
  <2> QED
    BY <1>1, <1>3, <2>1, <2>3, <2>4 DEF path
<1> QED
  BY <1>2, <1>3

(* The temporary workspace keeps its id, when it has one.                  *)
LEMMA LookupKept ==
    ASSUME TypeInv, [Next]_vars,
           ~\E r \in Requests, p \in Paths : OpenTemporaryWorkspace(r, p)
    PROVE  temporaryWorkspaceLookup' = None <=> temporaryWorkspaceLookup = None
<1> USE DEF TypeInv
<1>1. ASSUME NEW r \in Requests, SaveAll(r)
      PROVE  temporaryWorkspaceLookup' = None <=> temporaryWorkspaceLookup = None
  <2> DEFINE list == Changed(request[r].op, request[r].w, FindAll(request[r].read))
  <2>1. list \in SUBSET Workspace
    BY <1>1, PersistableTyped DEF SaveAll, Writes, ServiceInv, RequestType
  <2>2. SetTemporary(list)
    BY <1>1 DEF SaveAll
  <2> HIDE DEF list
  <2> QED
    BY <2>1, <2>2, NoneAssumption DEF SetTemporary, Workspace
<1>2. ASSUME NEW r \in Requests, Proceed(r) \/ Asks(r)
      PROVE  UNCHANGED temporaryWorkspaceLookup \/ SaveAll(r)
  BY <1>2 DEF Proceed, Asks, Opened, OpenFails, SaveFails, Written, Returned, Refetched,
              CloseWorkspace, SaveWorkspace, ConfirmRemove, OpenWorkspace, service
<1> QED
  BY <1>1, <1>2, NextParts, ListenersLeave, WindowLeaves DEF vars, service

LEMMA StartupLeft ==
    ASSUME TypeInv, [Next]_vars
    PROVE  /\ left'.startup => left.startup
           /\ \A r \in Requests, p \in Paths : OpenTemporaryWorkspace(r, p) => ~left'.startup
<1> USE DEF TypeInv
<1>1. ASSUME NEW r \in Requests, Proceed(r) PROVE UNCHANGED left
  BY <1>1 DEF Proceed, Opened, OpenFails, SaveAll, SaveFails, Written, Returned, Refetched
<1>2. ASSUME NEW r \in Requests, Asks(r)
      PROVE  \/ left' = [left EXCEPT !.actions = left.actions - 1]
             \/ left' = [left EXCEPT !.startup = FALSE]
  BY <1>2 DEF Asks, CloseWorkspace, SaveWorkspace, ConfirmRemove, OpenWorkspace,
              OpenTemporaryWorkspace, Ask
<1>3. ASSUME NEW h \in Handlers, Listen(h) PROVE UNCHANGED left
  BY <1>3 DEF Listen, Found, NotFound, ConfigLoaded, Stopped, StopFails, Started, FlowJsonUpdate
<1>4. ASSUME NEW x \in Watchers, Watch(x) PROVE UNCHANGED left
  BY <1>4 DEF Watch, WatcherLoads, WatcherLoaded
<1>5. ASSUME NEW p \in Paths, EditFlowJson(p)
      PROVE  left' = [left EXCEPT !.edits = left.edits - 1]
  BY <1>5 DEF EditFlowJson
<1>6. \/ UNCHANGED left
      \/ left' = [left EXCEPT !.actions = left.actions - 1]
      \/ left' = [left EXCEPT !.edits = left.edits - 1]
      \/ left' = [left EXCEPT !.startup = FALSE]
  BY <1>1, <1>2, <1>3, <1>4, <1>5, NextParts, WindowLeaves DEF vars
<1>7. left'.startup => left.startup
  BY <1>6 DEF LeftInv
<1>8. \A r \in Requests, p \in Paths : OpenTemporaryWorkspace(r, p) => ~left'.startup
  BY DEF OpenTemporaryWorkspace, LeftInv
<1> QED
  BY <1>7, <1>8

LEMMA NothingTemporaryStep ==
    ASSUME TypeInv, [Next]_vars, NothingTemporary,
           temporaryWorkspaceLookup = None, temporaryWorkspaceLookup' = None
    PROVE  NothingTemporary'
<1> USE DEF TypeInv
<1>1. ASSUME NEW read \in ReadType, NEW w \in FindAll(read)
      PROVE  w.id # Temporary
  BY <1>1, WorkspacesAssumption DEF FindAll, TemporaryWorkspaces, ReadType, Entries
<1>2. \A r \in Requests, p \in Paths : ~OpenTemporaryWorkspace(r, p)
  BY NoneAssumption DEF OpenTemporaryWorkspace
<1>3. ASSUME NEW r \in Requests, Opened(r)
      PROVE  request[r].w.id # Temporary
  <2>1. PICK w \in FindById(request[r].read, request[r].w.id) : TRUE
    BY <1>3 DEF Opened
  <2> QED
    BY <2>1, <1>1 DEF FindById, ServiceInv, RequestType
<1>4. Temporary \notin openWorkspaceIds'
  <2>1. ASSUME NEW r \in Requests, Proceed(r) \/ Asks(r)
        PROVE  openWorkspaceIds' \subseteq openWorkspaceIds \/ Opened(r)
    BY <2>1 DEF Proceed, Asks, OpenFails, SaveAll, SaveFails, Written, Returned, Refetched,
                CloseWorkspace, SaveWorkspace, ConfirmRemove, OpenWorkspace, OpenTemporaryWorkspace, service
  <2>2. ASSUME NEW r \in Requests, Opened(r)
        PROVE  Temporary \notin openWorkspaceIds'
    BY <1>3, <2>2 DEF Opened, FindById, NothingTemporary
  <2> QED
    BY <2>1, <2>2, NextParts, ListenersLeave, WindowLeaves DEF vars, service, NothingTemporary
<1>5. \A h \in Handlers : Configures(h)' => handler'[h].id # Temporary
  <2>1. ASSUME NEW event \in {"OPEN", "UPDATE", "CLOSE"}, NEW w, CanEmit, Emit(event, w),
               event # "CLOSE" => w.id # Temporary
        PROVE  \A h \in Handlers : Configures(h)' => handler'[h].id # Temporary
    BY <2>1, Emitted DEF Configures, Running, NothingTemporary
  <2>2. ASSUME NEW r \in Requests, Opened(r)
        PROVE  \A h \in Handlers : Configures(h)' => handler'[h].id # Temporary
    BY <1>3, <2>1, <2>2 DEF Opened, FindById
  <2>3. ASSUME NEW r \in Requests, Returned(r), request[r].op = "update"
        PROVE  \A h \in Handlers : Configures(h)' => handler'[h].id # Temporary
    BY <2>1, <2>3 DEF Returned, InFlow, Idle, NothingTemporary
  <2>4. ASSUME NEW r \in Requests, CloseWorkspace(r)
        PROVE  \A h \in Handlers : Configures(h)' => handler'[h].id # Temporary
    BY <2>1, <2>4 DEF CloseWorkspace
  <2>5. ASSUME NEW r \in Requests, Proceed(r) \/ Asks(r)
        PROVE  UNCHANGED handler \/ Opened(r) \/ (Returned(r) /\ request[r].op = "update") \/ CloseWorkspace(r)
    BY <2>5 DEF Proceed, Asks, OpenFails, SaveAll, SaveFails, Written, Returned, Refetched,
                SaveWorkspace, ConfirmRemove, OpenWorkspace, OpenTemporaryWorkspace
  <2>6. CASE UNCHANGED handler
    BY <2>6 DEF Configures, Running, NothingTemporary
  <2>7. ASSUME NEW h \in Handlers, Listen(h), NEW g \in Handlers, Configures(g)'
        PROVE  Configures(g) /\ handler'[g].id = handler[g].id
    <3>1. CASE g # h
      BY <2>7, <3>1 DEF Listen, Found, NotFound, ConfigLoaded, Stopped, StopFails, Started, FlowJsonUpdate,
                        Finish, Configures, Running, ConfigurationInv
    <3>2. CASE g = h /\ handler' = [handler EXCEPT ![h] = IdleHandler]
      BY <2>7, <3>2 DEF Configures, Running, ConfigurationInv, IdleHandler
    <3>3. CASE g = h /\ Found(h)
      BY <2>7, <3>3, FoundListener DEF Configures, Running
    <3>4. CASE g = h /\ ConfigLoaded(h)
      BY <2>7, <3>4 DEF ConfigLoaded, Configures, Running, ConfigurationInv, HandlerType
    <3>5. CASE g = h /\ Stopped(h) /\ handler[h].event # "CLOSE"
      BY <2>7, <3>5 DEF Stopped, Configures, Running, ConfigurationInv, HandlerType
    <3> QED
      BY <2>7, <3>1, <3>2, <3>3, <3>4, <3>5
      DEF Listen, NotFound, Stopped, StopFails, Started, FlowJsonUpdate, Finish
  <2>8. ASSUME NEW x \in Watchers, Watch(x), NEW g \in Handlers, Configures(g)'
        PROVE  Configures(g) /\ handler'[g].id = handler[g].id
    <3> DEFINE rec == [IdleHandler EXCEPT !.pc = "find", !.event = "JSON", !.read = Read]
    <3>1. UNCHANGED handler \/ \E h \in Handlers : handler' = [handler EXCEPT ![h] = rec]
      <4>1. CASE WatcherLoaded(x)
        BY <4>1 DEF WatcherLoaded, CanEmit
      <4> QED
        BY <2>8, <4>1 DEF Watch, WatcherLoads
    <3>2. rec.event = "JSON"
      BY DEF IdleHandler
    <3> HIDE DEF rec
    <3> QED
      BY <2>8, <3>1, <3>2 DEF Configures, Running, ConfigurationInv
  <2> QED
    BY <2>2, <2>3, <2>4, <2>5, <2>6, <2>7, <2>8, NextParts, WindowLeaves DEF vars, EditFlowJson, NothingTemporary
<1>6. page'.name \in {"workspace", "settings"} => page'.id # Temporary
  <2>1. ASSUME NEW r \in Requests, OpenFails(r) \/ Refetched(r)
        PROVE  page'.name \in {"workspace", "settings"} => page'.id # Temporary
    BY <2>1 DEF OpenFails, Refetched, Navigate, WorkspacePage, SettingsPage, ProjectsPage,
                InFlow, Idle, NothingTemporary
  <2>2. ASSUME NEW r \in Requests, Proceed(r) \/ Asks(r)
        PROVE  UNCHANGED page \/ OpenFails(r) \/ Refetched(r)
    BY <2>2 DEF Proceed, Asks, Opened, SaveAll, SaveFails, Written, Returned,
                CloseWorkspace, SaveWorkspace, ConfirmRemove, OpenWorkspace, OpenTemporaryWorkspace
  <2>3. CASE WindowStep
    <3>1. CASE UNCHANGED page
      BY <3>1 DEF NothingTemporary
    <3>2. CASE \E w \in Entries : NewProject(w)
      BY <3>2 DEF NewProject
    <3>3. CASE \E name \in {"workspace", "settings"} : Visit(name)
      BY <3>3 DEF Visit, Navigate, WindowInv, NothingTemporary
    <3> QED
      BY <2>3, <3>1, <3>2, <3>3
      DEF WindowStep, EditForm, RemoveWorkspace, CancelDialog, FetchProjects, FormLoaded
  <2>4. CASE UNCHANGED page
    BY <2>4 DEF NothingTemporary
  <2> QED
    BY <2>1, <2>2, <2>3, <2>4, NextParts, ListenersLeave DEF vars, window
<1>7. projects' # None => Temporary \notin IdsOf(projects')
  <2>1. CASE FetchProjects
    BY <1>1, <2>1, ReadTyped DEF FetchProjects, IdsOf
  <2>2. CASE UNCHANGED projects
    BY <2>2 DEF NothingTemporary
  <2> QED
    BY <2>1, <2>2, NextParts, RequestsLeave, ListenersLeave
    DEF vars, window, WindowStep, EditForm, RemoveWorkspace, NewProject, Visit, CancelDialog, FormLoaded
<1>8. \A r \in Requests : ~Idle(r)' /\ request'[r].op # "remove" => request'[r].w.id # Temporary
  <2>1. ASSUME NEW r \in Requests, NEW d, request' = [request EXCEPT ![r] = d],
               d.pc # "idle" /\ d.op # "remove" => d.w.id # Temporary
        PROVE  \A q \in Requests : ~Idle(q)' /\ request'[q].op # "remove" => request'[q].w.id # Temporary
    BY <2>1 DEF Idle, ServiceInv, NothingTemporary
  <2>2. ASSUME NEW r \in Requests, NEW d, request' = [request EXCEPT ![r] = d], ~Idle(r),
               d.w = request[r].w, d.op # "remove" => request[r].op # "remove"
        PROVE  \A q \in Requests : ~Idle(q)' /\ request'[q].op # "remove" => request'[q].w.id # Temporary
    BY <2>1, <2>2 DEF NothingTemporary
  <2>3. ASSUME NEW r \in Requests, Proceed(r)
        PROVE  \A q \in Requests : ~Idle(q)' /\ request'[q].op # "remove" => request'[q].w.id # Temporary
    <3>1. CASE \E pc : Go(r, pc) /\ ~Idle(r)
      <4>1. PICK pc : request' = [request EXCEPT ![r] = [request[r] EXCEPT !.pc = pc]]
        BY <3>1 DEF Go
      <4>2. /\ [request[r] EXCEPT !.pc = pc].w = request[r].w
            /\ [request[r] EXCEPT !.pc = pc].op = request[r].op
        BY DEF ServiceInv, RequestType
      <4> QED
        BY <2>2, <3>1, <4>1, <4>2
    <3>2. CASE EndRequest(r)
      BY <2>1, <3>2 DEF EndRequest, IdleRequest
    <3>3. CASE SaveAll(r)
      <4>1. PICK read : request' = [request EXCEPT ![r] = [request[r] EXCEPT !.pc = "write", !.read = read]]
        BY <3>3 DEF SaveAll
      <4> DEFINE d == [request[r] EXCEPT !.pc = "write", !.read = read]
      <4>2. d.w = request[r].w /\ d.op = request[r].op
        BY DEF ServiceInv, RequestType
      <4>3. ~Idle(r) /\ request' = [request EXCEPT ![r] = d]
        BY <3>3, <4>1 DEF SaveAll, InFlow, Idle
      <4> HIDE DEF d
      <4> QED
        BY <2>2, <4>2, <4>3
    <3>4. CASE Returned(r)
      <4> DEFINE d == IF request[r].op = "remove" THEN [request[r] EXCEPT !.pc = "refetch", !.read = NotRead]
                      ELSE [request[r] EXCEPT !.pc = "find", !.op = "open", !.read = Read]
      <4>1. request' = [request EXCEPT ![r] = d] /\ ~Idle(r)
        BY <3>4 DEF Returned, InFlow, Idle, ServiceInv
      <4>2. d.w = request[r].w /\ (d.op # "remove" => request[r].op # "remove")
        BY DEF ServiceInv, RequestType
      <4> HIDE DEF d
      <4> QED
        BY <2>2, <4>1, <4>2
    <3>5. CASE Opened(r) \/ Written(r)
      BY <3>1, <3>5 DEF Opened, Written, InFlow, Idle
    <3> QED
      BY <2>3, <3>2, <3>3, <3>4, <3>5 DEF Proceed, OpenFails, SaveFails, Refetched
  <2>4. ASSUME NEW r \in Requests, NEW op, NEW w, NEW pc, Ask(r, op, w, pc), op # "remove" => w.id # Temporary
        PROVE  \A q \in Requests : ~Idle(q)' /\ request'[q].op # "remove" => request'[q].w.id # Temporary
    <3> DEFINE d == [pc |-> pc, op |-> op, w |-> w, read |-> Read]
    <3>1. request' = [request EXCEPT ![r] = d] /\ d.op = op /\ d.w = w
      BY <2>4 DEF Ask
    <3> HIDE DEF d
    <3> QED
      BY <2>1, <2>4, <3>1
  <2>5. ASSUME NEW r \in Requests, Asks(r)
        PROVE  \A q \in Requests : ~Idle(q)' /\ request'[q].op # "remove" => request'[q].w.id # Temporary
    <3>1. CASE CloseWorkspace(r)
      <4>1. [AnyWorkspace EXCEPT !.id = page.id].id # Temporary
        BY <3>1 DEF CloseWorkspace, NothingTemporary, AnyWorkspace
      <4> QED
        BY <2>4, <3>1, <4>1 DEF CloseWorkspace
    <3>2. CASE SaveWorkspace(r)
      <4>1. form.w.id # Temporary
        BY <3>2, WorkspacesAssumption DEF SaveWorkspace, WindowInv, NothingTemporary
      <4> QED
        BY <2>4, <3>2, <4>1 DEF SaveWorkspace
    <3>3. CASE ConfirmRemove(r)
      BY <2>4, <3>3 DEF ConfirmRemove
    <3>4. CASE \E w \in Workspace : OpenWorkspace(r, w)
      BY <2>4, <3>4 DEF OpenWorkspace, NothingTemporary, IdsOf
    <3> QED
      BY <1>2, <2>5, <3>1, <3>2, <3>3, <3>4 DEF Asks
  <2>6. CASE UNCHANGED request
    BY <2>6 DEF Idle, NothingTemporary
  <2> QED
    BY <2>3, <2>5, <2>6, NextParts, ListenersLeave, WindowLeaves DEF vars, window
<1> QED
  BY <1>4, <1>5, <1>6, <1>7, <1>8 DEF NothingTemporary

LEMMA TemporaryStep == TypeInv /\ TemporaryInv /\ [Next]_vars => TemporaryInv'
<1> SUFFICES ASSUME TypeInv, TemporaryInv, [Next]_vars
             PROVE  TemporaryInv'
  OBVIOUS
<1>1. CASE \E r \in Requests, p \in Paths : OpenTemporaryWorkspace(r, p)
  <2>1. ~left'.startup
    BY <1>1, StartupLeft
  <2>2. temporaryWorkspaceLookup' # None
    BY <1>1, NoneAssumption DEF OpenTemporaryWorkspace
  <2> QED
    BY <2>1, <2>2 DEF TemporaryInv
<1>2. CASE ~\E r \in Requests, p \in Paths : OpenTemporaryWorkspace(r, p)
  <2>1. temporaryWorkspaceLookup' = None <=> temporaryWorkspaceLookup = None
    BY <1>2, LookupKept
  <2> QED
    BY <2>1, StartupLeft, NothingTemporaryStep DEF TemporaryInv
<1> QED
  BY <1>1, <1>2

LEMMA ListenerStarts ==
    ASSUME ConfigurationInv, NEW h \in Handlers,
           ConfigLoaded(h) \/ (Stopped(h) /\ handler[h].event # "CLOSE")
    PROVE  /\ \A g \in Handlers \ {h} : handler'[g] = handler[g]
           /\ handler'[h].pc = "start" /\ handler'[h].event = handler[h].event
           /\ handler'[h].id = handler[h].id /\ handler'[h].path = handler[h].path
<1>1. CASE ConfigLoaded(h)
  BY <1>1 DEF ConfigLoaded, ConfigurationInv, HandlerType
<1>2. CASE Stopped(h) /\ handler[h].event # "CLOSE"
  BY <1>2 DEF Stopped, ConfigurationInv, HandlerType
<1> QED
  BY <1>1, <1>2

LEMMA ListenerEnds ==
    ASSUME ConfigurationInv, NEW h \in Handlers,
           NotFound(h) \/ StopFails(h) \/ Started(h) \/ FlowJsonUpdate(h) \/ (Stopped(h) /\ handler[h].event = "CLOSE")
    PROVE  /\ \A g \in Handlers \ {h} : handler'[g] = handler[g]
           /\ handler'[h] = IdleHandler
BY DEF NotFound, StopFails, Started, FlowJsonUpdate, Stopped, Finish, ConfigurationInv

LEMMA WatcherTells ==
    ASSUME ConfigurationInv, NEW x \in Watchers, WatcherLoaded(x)
    PROVE  \E h \in Handlers :
              /\ ~Running(h)
              /\ handler'[h].pc = "find" /\ handler'[h].event = "JSON" /\ handler'[h].read = Read
              /\ \A g \in Handlers \ {h} : handler'[g] = handler[g]
<1> DEFINE h == CHOOSE g \in Handlers : ~Running(g)
           rec == [IdleHandler EXCEPT !.pc = "find", !.event = "JSON", !.read = Read]
<1>1. h \in Handlers /\ ~Running(h)
  BY DEF WatcherLoaded, CanEmit
<1>2. handler' = [handler EXCEPT ![h] = rec]
  BY DEF WatcherLoaded
<1>3. rec.pc = "find" /\ rec.event = "JSON" /\ rec.read = Read
  BY DEF IdleHandler
<1> HIDE DEF h, rec
<1> QED
  BY <1>1, <1>2, <1>3 DEF ConfigurationInv

LEMMA RequestsTell ==
    ASSUME ConfigurationInv, NEW r \in Requests, Proceed(r) \/ Asks(r)
    PROVE  \/ UNCHANGED handler
           \/ \E h \in Handlers :
                /\ ~Running(h)
                /\ handler'[h].pc \in {"find", "stop"} /\ handler'[h].event \in {"OPEN", "UPDATE", "CLOSE"}
                /\ \A g \in Handlers \ {h} : handler'[g] = handler[g]
<1>1. ASSUME NEW event \in {"OPEN", "UPDATE", "CLOSE"}, NEW w, CanEmit, Emit(event, w)
      PROVE  \E h \in Handlers :
                /\ ~Running(h)
                /\ handler'[h].pc \in {"find", "stop"} /\ handler'[h].event \in {"OPEN", "UPDATE", "CLOSE"}
                /\ \A g \in Handlers \ {h} : handler'[g] = handler[g]
  BY <1>1, Emitted
<1>2. CASE Opened(r)
  BY <1>1, <1>2 DEF Opened
<1>3. CASE Returned(r)
  BY <1>1, <1>3 DEF Returned
<1>4. CASE CloseWorkspace(r)
  BY <1>1, <1>4 DEF CloseWorkspace
<1> QED
  BY <1>2, <1>3, <1>4
  DEF Proceed, Asks, OpenFails, SaveAll, SaveFails, Written, Refetched, SaveWorkspace, ConfirmRemove,
      OpenWorkspace, OpenTemporaryWorkspace

LEMMA ListenerStep == TypeInv /\ ListenerInv /\ [Next]_vars => ListenerInv'
<1> SUFFICES ASSUME TypeInv, ListenerInv, [Next]_vars
             PROVE  ListenerInv'
  OBVIOUS
<1> USE DEF TypeInv
<1> DEFINE Fits(d) == /\ d.pc = "load" => d.event = "OPEN"
                      /\ d.pc \in {"stop", "start"} => d.event # "JSON"
<1>1. ASSUME NEW h \in Handlers, Fits(handler'[h]), \A g \in Handlers \ {h} : handler'[g] = handler[g]
      PROVE  ListenerInv'
  BY <1>1 DEF ListenerInv
<1>2. ASSUME NEW h \in Handlers, Listen(h)
      PROVE  ListenerInv'
  <2>1. CASE Found(h)
    BY <1>1, <2>1, FoundListener
  <2>2. CASE ConfigLoaded(h) \/ (Stopped(h) /\ handler[h].event # "CLOSE")
    BY <1>1, <2>2, ListenerStarts DEF ConfigLoaded, Stopped, ListenerInv
  <2>3. CASE NotFound(h) \/ StopFails(h) \/ Started(h) \/ FlowJsonUpdate(h) \/ (Stopped(h) /\ handler[h].event = "CLOSE")
    BY <1>1, <2>3, ListenerEnds DEF IdleHandler
  <2> QED
    BY <1>2, <2>1, <2>2, <2>3 DEF Listen
<1>3. ASSUME NEW r \in Requests, Proceed(r) \/ Asks(r)
      PROVE  ListenerInv'
  BY <1>1, <1>3, RequestsTell DEF ListenerInv
<1>4. ASSUME NEW x \in Watchers, Watch(x)
      PROVE  ListenerInv'
  <2>1. CASE WatcherLoaded(x)
    BY <1>1, <2>1, WatcherTells
  <2>2. CASE WatcherLoads(x)
    BY <2>2 DEF WatcherLoads, ListenerInv
  <2> QED
    BY <1>4, <2>1, <2>2 DEF Watch
<1>5. CASE UNCHANGED handler
  BY <1>5 DEF ListenerInv
<1> QED
  BY <1>2, <1>3, <1>4, <1>5, NextParts, WindowLeaves DEF vars, EditFlowJson

---------------------------------------------------------------------------
(* Loading flow.json. *)

LEMMA LoadStep == TypeInv /\ WatchInv /\ LoadInv /\ [Next]_vars => LoadInv'
<1> SUFFICES ASSUME TypeInv, WatchInv, LoadInv, [Next]_vars, ~doubled'
             PROVE  LoadInv'
  BY DEF LoadInv
<1> USE DEF TypeInv
<1>1. ASSUME UNCHANGED <<workingDirectoryPath, watcher, flowJson, unwatched, doubled>>,
             \A h \in Handlers : handler'[h].pc = "load" => handler'[h] = handler[h]
      PROVE  LoadInv'
  BY <1>1 DEF LoadInv
<1>2. ASSUME NEW r \in Requests, Proceed(r) \/ Asks(r)
      PROVE  LoadInv'
  <2>1. UNCHANGED <<workingDirectoryPath, watcher, flowJson, unwatched, doubled>>
    BY <1>2, RequestsLeave DEF configuration
  <2>2. \A h \in Handlers : handler'[h].pc = "load" => handler'[h] = handler[h]
    BY <1>2, RequestsTell
  <2> QED
    BY <1>1, <2>1, <2>2
<1>3. ASSUME NEW h \in Handlers,
             NotFound(h) \/ StopFails(h) \/ Started(h) \/ Stopped(h) \/ FlowJsonUpdate(h)
      PROVE  LoadInv'
  <2>1. UNCHANGED <<workingDirectoryPath, watcher, flowJson, unwatched, doubled>>
    BY <1>3 DEF NotFound, StopFails, Started, Stopped, FlowJsonUpdate, history, configuration
  <2>2. \A g \in Handlers : handler'[g].pc = "load" => handler'[g] = handler[g]
    BY <1>3, ListenerEnds, ListenerStarts DEF IdleHandler
  <2> QED
    BY <1>1, <2>1, <2>2
<1>4. ASSUME NEW h \in Handlers, Found(h)
      PROVE  LoadInv'
  <2>1. CASE handler[h].event # "OPEN"
    <3>1. UNCHANGED <<workingDirectoryPath, watcher, flowJson, unwatched, doubled>>
      BY <1>4, <2>1, FoundListener DEF configuration, Found
    <3>2. \A g \in Handlers : handler'[g].pc = "load" => handler'[g] = handler[g]
      BY <1>4, <2>1, FoundListener
    <3> QED
      BY <1>1, <3>1, <3>2
  <2>2. CASE handler[h].event = "OPEN"
    <3>1. /\ doubled' = (doubled \/ (\/ \E g \in Handlers : handler[g].pc = "load"
                                     \/ \E x \in Watchers : watcher[x].loading))
          /\ watcher' = Detach
          /\ flowJson' = flowJson
      BY <1>4, <2>2 DEF Found
    <3>2. \A x \in Watchers : ~watcher'[x].loading
      BY <3>1, Detached
    <3>3. \A g \in Handlers : handler'[g].pc = "load" => g = h
      <4>1. \A g \in Handlers : handler[g].pc # "load"
        BY <3>1
      <4> QED
        BY <1>4, <4>1, FoundListener
    <3>4. handler'[h].path = workingDirectoryPath' /\ handler'[h].content = flowJson[handler'[h].path]
      BY <1>4, <2>2, FoundListener
    <3> QED
      BY <3>1, <3>2, <3>3, <3>4 DEF LoadInv
  <2> QED
    BY <2>1, <2>2
<1>5. ASSUME NEW h \in Handlers, ConfigLoaded(h)
      PROVE  LoadInv'
  <2>1. ~doubled /\ handler[h].pc = "load" /\ UNCHANGED <<workingDirectoryPath, flowJson>>
    BY <1>5 DEF ConfigLoaded, history
  <2>2. PICK x \in Watchers :
          watcher' = [watcher EXCEPT ![x] =
                [NoWatcher EXCEPT !.path = workingDirectoryPath,
                                  !.live = flowJson[workingDirectoryPath] # None]]
    BY <1>5 DEF ConfigLoaded, CanAttach, Attach
  <2>3. \A g \in Handlers : handler'[g].pc # "load"
    BY <1>5, <2>1, ListenerStarts DEF WatchInv
  <2>4. \A y \in Watchers : ~watcher'[y].loading
    BY <2>1, <2>2 DEF LoadInv, ConfigurationInv, NoWatcher
  <2> QED
    BY <2>3, <2>4 DEF LoadInv
<1>6. ASSUME NEW x \in Watchers, WatcherLoads(x)
      PROVE  LoadInv'
  <2> DEFINE content == flowJson[workingDirectoryPath]
             rec == [watcher[x] EXCEPT !.event = FALSE, !.loading = TRUE, !.from = workingDirectoryPath,
                                       !.content = content]
  <2>1. /\ ~doubled /\ watcher[x].live
        /\ watcher' = [watcher EXCEPT ![x] = rec]
        /\ UNCHANGED <<workingDirectoryPath, flowJson, handler>>
    BY <1>6 DEF WatcherLoads
  <2> HIDE DEF content
  <2>2. rec.live /\ rec.from = workingDirectoryPath /\ rec.content = content
    BY <2>1 DEF ConfigurationInv, WatcherType
  <2> HIDE DEF rec
  <2>3. \A g \in Handlers : handler'[g].pc # "load"
    BY <2>1 DEF WatchInv
  <2>4. \A y \in Watchers : watcher'[y] = IF y = x THEN rec ELSE watcher[y]
    BY <2>1 DEF ConfigurationInv
  <2> QED
    BY <2>1, <2>2, <2>3, <2>4 DEF LoadInv, content
<1>7. ASSUME NEW x \in Watchers, WatcherLoaded(x)
      PROVE  LoadInv'
  <2> DEFINE rec == [watcher[x] EXCEPT !.loading = FALSE, !.from = None, !.content = None]
  <2>1. /\ ~doubled /\ watcher[x].loading
        /\ watcher' = [watcher EXCEPT ![x] = rec]
        /\ UNCHANGED <<workingDirectoryPath, flowJson, unwatched>>
    BY <1>7 DEF WatcherLoaded, history
  <2>2. ~rec.loading
    BY DEF ConfigurationInv, WatcherType
  <2> HIDE DEF rec
  <2>3. \A g \in Handlers : handler'[g].pc # "load"
    BY <1>7, <2>1, WatcherTells DEF LoadInv
  <2>4. \A y \in Watchers : watcher'[y] = IF y = x THEN rec ELSE watcher[y]
    BY <2>1 DEF ConfigurationInv
  <2> QED
    BY <2>1, <2>2, <2>3, <2>4 DEF LoadInv
<1>8. ASSUME NEW p \in Paths, EditFlowJson(p)
      PROVE  LoadInv'
  <2>1. /\ ~doubled /\ UNCHANGED <<workingDirectoryPath, handler>>
        /\ \A q \in Paths \ {p} : flowJson'[q] = flowJson[q]
        /\ unwatched' = IF \E x \in Watchers : watcher[x].live /\ watcher[x].path = p
                        THEN unwatched ELSE unwatched \cup {p}
        /\ watcher' = [x \in Watchers |->
              IF watcher[x].live /\ watcher[x].path = p THEN [watcher[x] EXCEPT !.event = TRUE]
              ELSE watcher[x]]
    BY <1>8 DEF EditFlowJson, ConfigurationInv
  <2>2. \A y \in Watchers :
          /\ watcher'[y].live = watcher[y].live /\ watcher'[y].loading = watcher[y].loading
          /\ watcher'[y].from = watcher[y].from /\ watcher'[y].content = watcher[y].content
          /\ watcher[y].event => watcher'[y].event
          /\ watcher[y].live /\ watcher[y].path = p => watcher'[y].event
    BY <2>1 DEF ConfigurationInv, WatcherType
  <2>3. ASSUME NEW h \in Handlers, handler[h].pc = "load", handler[h].path \notin unwatched'
        PROVE  handler[h].content = flowJson'[handler[h].path]
    <3>1. handler[h].path \in Paths
      BY <2>3 DEF ConfigurationInv
    <3>2. handler[h].path # p
      BY <2>1, <2>3 DEF WatchInv
    <3> QED
      BY <2>1, <2>3, <3>1, <3>2 DEF LoadInv
  <2>4. ASSUME NEW y \in Watchers, watcher[y].loading
        PROVE  watcher'[y].event \/ watcher'[y].content = flowJson'[workingDirectoryPath]
    <3>1. /\ watcher[y].live /\ watcher[y].path = workingDirectoryPath /\ workingDirectoryPath \in Paths
          /\ watcher[y].event \/ watcher[y].content = flowJson[workingDirectoryPath]
      BY <2>1, <2>4 DEF LoadInv, WatchInv, ConfigurationInv
    <3> QED
      BY <2>1, <2>2, <3>1
  <2> QED
    BY <2>1, <2>2, <2>3, <2>4 DEF LoadInv
<1>9. CASE UNCHANGED <<workingDirectoryPath, watcher, flowJson, unwatched, doubled, handler>>
  BY <1>1, <1>9
<1> QED
  BY <1>2, <1>3, <1>4, <1>5, <1>6, <1>7, <1>8, <1>9, NextParts, WindowLeaves
  DEF Listen, Watch, vars, history, configuration

---------------------------------------------------------------------------
(* The list and the new project. *)

(* A read gives the list that was saved, unless it is being written.       *)
LEMMA FreshRead ==
    ASSUME TypeInv, ListInv, ~raced
    PROVE  /\ Read.ok => Read = [ok |-> TRUE, list |-> saved]
           /\ (\A r \in Requests : request[r].pc # "write") => Read.ok
<1>1. CASE \A r \in Requests : request[r].pc # "write"
  <2>1. files[ListFile] = List!FileOf(saved)
    BY <1>1 DEF ListInv, WriterInv
  <2>2. List!Parses = TRUE
    BY <2>1, WorkspacesAssumption DEF List!Parses, List!FileOf
  <2>3. List!Parsed = saved
    BY <2>1, WorkspacesAssumption DEF List!Parsed, List!FileOf
  <2>4. Read = [ok |-> TRUE, list |-> saved]
    BY <2>2, <2>3, Zenon DEF Read
  <2> QED
    BY <2>4
<1>2. CASE \E r \in Requests : request[r].pc = "write"
  <2>1. files[ListFile] = [list |-> {}, whole |-> FALSE]
    BY <1>2 DEF ListInv, WriterInv
  <2>2. ~List!Parses
    BY <2>1, WorkspacesAssumption DEF List!Parses
  <2> QED
    BY <1>2, <2>2 DEF Read
<1> QED
  BY <1>1, <1>2

LEMMA CreateStep == TypeInv /\ ListInv /\ CreateInv /\ [Next]_vars => CreateInv'
<1> SUFFICES ASSUME TypeInv, ListInv, CreateInv, [Next]_vars
             PROVE  CreateInv'
  OBVIOUS
<1> USE DEF TypeInv
(* On the page of the new project there is one request at most.            *)
<1>1. ASSUME page.name = "create", NEW r \in Requests, ~Idle(r)
      PROVE  /\ form.pc = "submitting" /\ dialog = NoDialog
             /\ Creates(r) /\ \A q \in Requests \ {r} : Idle(q)
  BY <1>1 DEF CreateInv, AllIdle
<1>2. ASSUME UNCHANGED <<service, window, saved, raced>>
      PROVE  CreateInv'
  BY <1>2 DEF service, window, CreateInv, Creates, IdsOf, AllIdle, Idle
<1>3. CASE WindowStep
  <2>1. UNCHANGED <<openWorkspaceIds, request, saved, raced>>
    BY <1>3, WindowLeaves DEF service, history
  <2>2. ASSUME page' = page, page.name = "create" => UNCHANGED <<dialog, form.pc>>
        PROVE  CreateInv'
    BY <2>1, <2>2 DEF CreateInv, Creates, IdsOf, AllIdle, Idle
  <2>3. CASE \E w \in Entries : NewProject(w)
    <3>1. PICK w \in Entries : NewProject(w)
      BY <2>3
    <3>2. /\ page'.name = "create" /\ page'.id = w.id /\ form'.pc = "editing" /\ dialog' = NoDialog
          /\ \A r \in Requests : Idle(r)'
          /\ w.id \notin IdsOf(saved') \cup openWorkspaceIds'
      BY <2>1, <3>1 DEF NewProject, Idle, IdsOf
    <3> QED
      BY <2>1, <3>2 DEF CreateInv, AllIdle
  <2>4. CASE \E name \in {"workspace", "settings"} : Visit(name)
    <3>1. page.name # "create" /\ page'.name # "create"
      BY <2>4 DEF Visit, Navigate, WindowInv
    <3> QED
      BY <2>1, <3>1 DEF CreateInv, Idle
  <2>5. CASE \E p \in Paths : EditForm(p)
    BY <2>2, <2>5 DEF EditForm, WindowInv, FormType
  <2>6. CASE \E id \in Ids : RemoveWorkspace(id)
    BY <2>2, <2>6 DEF RemoveWorkspace, ProjectsPage
  <2>7. CASE CancelDialog \/ FetchProjects
    BY <2>2, <2>7 DEF CancelDialog, FetchProjects, CreateInv
  <2>8. CASE FormLoaded
    BY <2>2, <2>8 DEF FormLoaded, WindowInv
  <2> QED
    BY <1>3, <2>3, <2>4, <2>5, <2>6, <2>7, <2>8 DEF WindowStep
(* Requests of other pages.                                                *)
<1>4. ASSUME NEW r \in Requests, NEW d, request' = [request EXCEPT ![r] = d],
             page.name # "create", page'.name # "create", d.pc = "idle" \/ d.op # "create",
             saved' = saved
      PROVE  CreateInv'
  BY <1>4 DEF CreateInv, Idle, ServiceInv
<1>5. ASSUME NEW r \in Requests, Asks(r)
      PROVE  CreateInv'
  <2>1. ASSUME NEW op, NEW w, NEW pc, Ask(r, op, w, pc), op # "create", page.name # "create",
               page' = page, saved' = saved
        PROVE  CreateInv'
    <3> DEFINE d == [pc |-> pc, op |-> op, w |-> w, read |-> Read]
    <3>1. request' = [request EXCEPT ![r] = d] /\ d.op = op
      BY <2>1 DEF Ask
    <3> HIDE DEF d
    <3> QED
      BY <1>4, <2>1, <3>1
  <2>2. CASE CloseWorkspace(r)
    BY <2>1, <2>2 DEF CloseWorkspace
  <2>3. CASE ConfirmRemove(r)
    BY <2>1, <2>3 DEF ConfirmRemove, CreateInv
  <2>4. CASE \E w \in Workspace : OpenWorkspace(r, w)
    BY <2>1, <2>4 DEF OpenWorkspace, ProjectsPage
  <2>5. ASSUME NEW p \in Paths, OpenTemporaryWorkspace(r, p)
        PROVE  CreateInv'
    <3> DEFINE d == [pc |-> "find", op |-> "startup", w |-> [id |-> Temporary, path |-> p], read |-> Read]
    <3>1. request' = [request EXCEPT ![r] = d] /\ d.op = "startup" /\ UNCHANGED <<page, saved>>
      BY <2>5 DEF OpenTemporaryWorkspace
    <3>2. page.name # "create"
      BY <2>5 DEF OpenTemporaryWorkspace, ProjectsPage
    <3> HIDE DEF d
    <3> QED
      BY <1>4, <3>1, <3>2
  <2>6. CASE SaveWorkspace(r) /\ page.name # "create"
    BY <2>1, <2>6 DEF SaveWorkspace
  <2>7. CASE SaveWorkspace(r) /\ page.name = "create"
    <3> DEFINE d == [pc |-> "find", op |-> "create", w |-> form.w, read |-> Read]
    <3>1. /\ request' = [request EXCEPT ![r] = d]
          /\ UNCHANGED <<page, saved, openWorkspaceIds, dialog>>
          /\ form.pc = "editing" /\ form'.pc = "submitting"
      BY <2>7 DEF SaveWorkspace, Ask, service, WindowInv, FormType
    <3>2. d.pc = "find" /\ d.op = "create" /\ d.w.id = page.id
      BY <3>1 DEF WindowInv
    <3> HIDE DEF d
    <3>3. /\ \A q \in Requests \ {r} : Idle(q)'
          /\ request'[r] = d
          /\ page.id \notin IdsOf(saved) \cup openWorkspaceIds /\ dialog = NoDialog
      BY <2>7, <3>1 DEF CreateInv, AllIdle, Idle, ServiceInv
    <3>4. Creates(r)' /\ ~Idle(r)'
      BY <3>1, <3>2, <3>3 DEF Creates, IdsOf, Idle
    <3> QED
      BY <2>7, <3>1, <3>3, <3>4 DEF CreateInv
  <2> QED
    BY <1>5, <2>2, <2>3, <2>4, <2>5, <2>6, <2>7 DEF Asks
(* The request of the new project goes on.                                 *)
<1>6. ASSUME NEW r \in Requests, NEW d, ~Idle(r), request' = [request EXCEPT ![r] = d],
             page.name = "create", d.pc # "idle", Creates(r)' ,
             UNCHANGED <<page, form, dialog>>,
             \A e, f \in saved' : e.id = f.id => e = f
      PROVE  CreateInv'
  <2>1. /\ form.pc = "submitting" /\ dialog = NoDialog
        /\ ~Idle(r)'
        /\ \A q \in Requests \ {r} : Idle(q)'
    BY <1>1, <1>6 DEF Idle, ServiceInv
  <2> QED
    BY <1>6, <2>1 DEF CreateInv
<1>7. ASSUME NEW r \in Requests, Opened(r)
      PROVE  CreateInv'
  <2> DEFINE d == [request[r] EXCEPT !.pc = "refetch"]
  <2>1. /\ request' = [request EXCEPT ![r] = d] /\ UNCHANGED <<page, form, dialog, saved>>
        /\ ~Idle(r) /\ request[r].op # "create"
        /\ openWorkspaceIds' = openWorkspaceIds \cup {request[r].w.id}
    BY <1>7 DEF Opened, Go, Idle, InFlow, FindById
  <2>2. d.pc = "refetch" /\ d.op = request[r].op /\ d.w = request[r].w
    BY DEF ServiceInv, RequestType
  <2> HIDE DEF d
  <2>3. CASE page.name # "create"
    BY <1>4, <2>1, <2>2, <2>3
  <2>4. CASE page.name = "create"
    <3>1. request'[r] = d
      BY <2>1 DEF ServiceInv
    <3>2. Creates(r)
      BY <1>1, <2>1, <2>4
    <3>3. Creates(r)'
      BY <2>1, <2>2, <3>1, <3>2 DEF Creates
    <3> QED
      BY <1>6, <2>1, <2>2, <2>4, <3>3 DEF CreateInv
  <2> QED
    BY <2>3, <2>4
<1>8. ASSUME NEW r \in Requests, OpenFails(r) \/ Refetched(r)
      PROVE  CreateInv'
  <2>1. request' = [request EXCEPT ![r] = IdleRequest] /\ ~Idle(r) /\ saved' = saved
    BY <1>8 DEF OpenFails, Refetched, EndRequest, InFlow, Idle, history
  <2>2. page'.name # "create"
    <3>1. CASE page.name # "create"
      BY <1>8, <3>1 DEF OpenFails, Refetched, Navigate, SettingsPage, WorkspacePage, ProjectsPage
    <3>2. CASE page.name = "create"
      <4>1. Creates(r)
        BY <1>1, <2>1, <3>2
      <4>2. CASE OpenFails(r)
        BY <4>1, <4>2 DEF OpenFails, InFlow, Creates, Navigate, SettingsPage
      <4>3. CASE Refetched(r)
        BY <4>3 DEF Refetched, Navigate, WorkspacePage, ProjectsPage
      <4> QED
        BY <1>8, <4>2, <4>3
    <3> QED
      BY <3>1, <3>2
  <2>3. \A q \in Requests : ~Idle(q)' => request'[q].op # "create"
    <3>1. \A q \in Requests \ {r} : ~Idle(q) => request[q].op # "create"
      <4>1. CASE page.name = "create"
        BY <1>1, <2>1, <4>1
      <4> QED
        BY <4>1 DEF CreateInv
    <3> QED
      BY <2>1, <3>1 DEF Idle, IdleRequest, ServiceInv
  <2> QED
    BY <2>1, <2>2, <2>3 DEF CreateInv
<1>9. ASSUME NEW r \in Requests, SaveAll(r)
      PROVE  CreateInv'
  <2>1. PICK read : request' = [request EXCEPT ![r] = [request[r] EXCEPT !.pc = "write", !.read = read]]
    BY <1>9 DEF SaveAll
  <2> DEFINE d == [request[r] EXCEPT !.pc = "write", !.read = read]
  <2>2. /\ request' = [request EXCEPT ![r] = d] /\ UNCHANGED <<page, form, dialog, saved, openWorkspaceIds>>
        /\ ~Idle(r) /\ request[r].pc = "find" /\ Writes(request[r].op)
    BY <1>9, <2>1 DEF SaveAll, InFlow, Idle, history
  <2>3. d.pc = "write" /\ d.op = request[r].op /\ d.w = request[r].w
    BY DEF ServiceInv, RequestType
  <2> HIDE DEF d
  <2>4. CASE page.name # "create"
    <3>1. request[r].op # "create"
      BY <2>2, <2>4 DEF CreateInv
    <3> QED
      BY <1>4, <2>2, <2>3, <2>4, <3>1
  <2>5. CASE page.name = "create"
    <3>1. request'[r] = d
      BY <2>2 DEF ServiceInv
    <3>2. Creates(r)
      BY <1>1, <2>2, <2>5
    <3>3. Creates(r)'
      BY <2>2, <2>3, <3>1, <3>2 DEF Creates, Writes, IdsOf
    <3> QED
      BY <1>6, <2>2, <2>3, <2>5, <3>3 DEF CreateInv
  <2> QED
    BY <2>4, <2>5
<1>10. ASSUME NEW r \in Requests, SaveFails(r)
       PROVE  CreateInv'
  <2>1. /\ request' = [request EXCEPT ![r] = IdleRequest] /\ UNCHANGED <<page, saved, openWorkspaceIds>>
        /\ ~Idle(r) /\ request[r].pc = "find" /\ Writes(request[r].op)
    BY <1>10 DEF SaveFails, EndRequest, InFlow, Idle, service
  <2>2. CASE page.name # "create"
    BY <1>4, <2>1, <2>2 DEF IdleRequest
  <2>3. CASE page.name = "create"
    <3>1. /\ Creates(r) /\ form.pc = "submitting" /\ dialog = NoDialog
          /\ \A q \in Requests \ {r} : Idle(q)
      BY <1>1, <2>1, <2>3
    <3>2. request[r].op = "create" /\ page.id \notin IdsOf(saved) \cup openWorkspaceIds
      BY <2>1, <3>1 DEF Creates, Writes
    <3>3. dialog' = NoDialog /\ form'.pc = "editing"
      BY <1>10, <3>1, <3>2 DEF SaveFails, HideDialog, Submitting, WindowInv, FormType
    <3>4. \A q \in Requests : Idle(q)'
      BY <2>1, <3>1 DEF Idle, IdleRequest, ServiceInv
    <3> QED
      BY <2>1, <3>2, <3>3, <3>4 DEF CreateInv, AllIdle, IdsOf
  <2> QED
    BY <2>2, <2>3
<1>11. ASSUME NEW r \in Requests, Written(r)
       PROVE  CreateInv'
  <2> DEFINE d == [request[r] EXCEPT !.pc = "written"]
  <2>1. /\ request' = [request EXCEPT ![r] = d] /\ UNCHANGED <<page, form, dialog, openWorkspaceIds>>
        /\ saved' = {w \in Changed(request[r].op, request[r].w, saved) : w.id # Temporary}
        /\ ~Idle(r) /\ request[r].pc = "write" /\ Writes(request[r].op)
    BY <1>11 DEF Written, Go, InFlow, Idle, ServiceInv
  <2>2. d.pc = "written" /\ d.op = request[r].op /\ d.w = request[r].w
    BY DEF ServiceInv, RequestType
  <2> HIDE DEF d
  <2>3. request'[r] = d /\ \A q \in Requests \ {r} : request'[q] = request[q]
    BY <2>1 DEF ServiceInv
  <2>4. CASE request[r].op = "create"
    <3>1. page.name = "create" /\ Creates(r)
      BY <1>1, <2>1, <2>4 DEF CreateInv
    <3>2. page.id \notin IdsOf(saved) /\ request[r].w.id = page.id
      BY <2>1, <2>4, <3>1 DEF Creates
    <3>3. \A e, f \in saved' : e.id = f.id => e = f
      BY <2>1, <2>4, <3>2 DEF CreateInv, Changed, IdsOf
    <3>4. Creates(r)'
      BY <2>1, <2>2, <2>3, <2>4, <3>1 DEF Creates
    <3> QED
      BY <1>6, <2>1, <2>2, <3>1, <3>3, <3>4
  <2>5. CASE request[r].op # "create"
    <3>1. page.name # "create"
      BY <1>1, <2>1, <2>5 DEF Creates
    <3>2. \A e, f \in saved' : e.id = f.id => e = f
      BY <2>1, <2>5 DEF CreateInv, Changed, Writes
    <3>3. \A q \in Requests : ~Idle(q)' => request'[q].op # "create"
      BY <2>2, <2>3, <2>5, <3>1 DEF CreateInv, Idle
    <3> QED
      BY <2>1, <3>1, <3>2, <3>3 DEF CreateInv
  <2> QED
    BY <2>4, <2>5
<1>12. ASSUME NEW r \in Requests, Returned(r)
       PROVE  CreateInv'
  <2> DEFINE d == IF request[r].op = "remove" THEN [request[r] EXCEPT !.pc = "refetch", !.read = NotRead]
                  ELSE [request[r] EXCEPT !.pc = "find", !.op = "open", !.read = Read]
  <2>1. /\ request' = [request EXCEPT ![r] = d] /\ UNCHANGED <<page, form, dialog, openWorkspaceIds, saved, raced>>
        /\ ~Idle(r) /\ request[r].pc = "written" /\ Writes(request[r].op)
    BY <1>12 DEF Returned, InFlow, Idle, ServiceInv, service
  <2>2. /\ d.w = request[r].w /\ d.op \in {"remove", "open"} /\ d.pc # "idle"
        /\ request[r].op = "create" => d.op = "open" /\ d.pc = "find" /\ d.read = Read
    BY DEF ServiceInv, RequestType
  <2> HIDE DEF d
  <2>3. CASE page.name # "create"
    BY <1>4, <2>1, <2>2, <2>3
  <2>4. CASE page.name = "create"
    <3>1. Creates(r) /\ \A q \in Requests \ {r} : Idle(q)
      BY <1>1, <2>1, <2>4
    <3>2. request[r].op = "create"
      BY <2>1, <3>1 DEF Creates, Writes
    <3>3. ~raced => Read = [ok |-> TRUE, list |-> saved]
      BY <2>1, <3>1, FreshRead DEF Idle
    <3>4. request'[r] = d
      BY <2>1 DEF ServiceInv
    <3>5. Creates(r)'
      BY <2>1, <2>2, <3>1, <3>2, <3>3, <3>4 DEF Creates
    <3> QED
      BY <1>6, <2>1, <2>2, <2>4, <3>5 DEF CreateInv
  <2> QED
    BY <2>3, <2>4
<1>13. CASE UNCHANGED vars
  BY <1>2, <1>13 DEF vars, history
<1> QED
  BY <1>2, <1>3, <1>5, <1>7, <1>8, <1>9, <1>10, <1>11, <1>12, <1>13, NextParts, ListenersLeave DEF Proceed

---------------------------------------------------------------------------
(* The gateway: what keeps it sound. *)

LEMMA UniqueCurrent ==
    ASSUME TypeInv, CreateInv
    PROVE  \A e, f \in Current : e.id = f.id => e = f
BY WorkspacesAssumption DEF TypeInv, ServiceInv, CreateInv, Current, TemporaryWorkspaces, Entries

LEMMA FoundInCurrent ==
    ASSUME NEW read, read = [ok |-> TRUE, list |-> saved], NEW id
    PROVE  FindAll(read) = Current /\ FindById(read, id) = {e \in Current : e.id = id}
BY DEF FindAll, FindById, Current

(* What a step must not disturb.                                           *)
LEMMA GatewayKept ==
    ASSUME GatewaySound,
           openWorkspaceIds' \subseteq openWorkspaceIds,
           \A h \in Handlers : Configures(h)' => Configures(h) /\ handler'[h].id = handler[h].id,
           Doomed => Doomed',
           \A w \in Current' :
              \/ Saving(w)' \/ Creating(w)'
              \/ /\ w \in Current
                 /\ Saving(w) => Saving(w)'
                 /\ Creating(w) => Creating(w)'
                 /\ Agreed(w) => Agreed(w)'
                 /\ openWorkspaceIds = {w.id} /\ Agreed(w) /\ Served(w) => Served(w)'
    PROVE  GatewaySound'
<1>1. OneSubject'
  BY DEF GatewaySound, OneSubject
<1>2. ASSUME NEW w \in Current', w \in Current,
             Saving(w) => Saving(w)', Creating(w) => Creating(w)', Agreed(w) => Agreed(w)',
             openWorkspaceIds = {w.id} /\ Agreed(w) /\ Served(w) => Served(w)'
      PROVE  Sound(w)'
  <2>1. Sound(w)
    BY <1>2 DEF GatewaySound
  <2>2. CASE Doomed \/ Saving(w)
    BY <1>2, <2>2 DEF Sound
  <2>3. CASE /\ Creating(w) \/ Agreed(w)
             /\ openWorkspaceIds = {w.id} => Served(w)
    <3>1. Creating(w)' \/ Agreed(w)'
      BY <1>2, <2>3
    <3>2. ASSUME openWorkspaceIds' = {w.id} PROVE Served(w)'
      <4>1. openWorkspaceIds = {w.id}
        BY <3>2 DEF GatewaySound, OneSubject
      <4>2. ~Creating(w)
        BY <4>1 DEF Creating
      <4> QED
        BY <1>2, <2>3, <4>1, <4>2
    <3> QED
      BY <3>1, <3>2 DEF Sound
  <2> QED
    BY <2>1, <2>2, <2>3 DEF Sound
<1>3. ASSUME NEW w, Creating(w)' PROVE Sound(w)'
  BY <1>3 DEF Creating, Sound
<1>4. \A w \in Current' : Sound(w)'
  BY <1>2, <1>3 DEF Sound
<1> QED
  BY <1>1, <1>4 DEF GatewaySound

(* Listeners that configure nothing come and go.                           *)
LEMMA OthersKept ==
    ASSUME UNCHANGED temporaryWorkspaceLookup,
           \A h \in Handlers : handler'[h] = handler[h] \/ (~Running(h) /\ ~Configures(h)')
    PROVE  /\ \A h \in Handlers : Configures(h)' => Configures(h) /\ handler'[h].id = handler[h].id
           /\ Doomed => Doomed'
           /\ \A w : /\ Agreed(w) => Agreed(w)'
                     /\ Reloading(w) => Reloading(w)'
                     /\ Notified(w) => Notified(w)'
<1>1. \A h \in Handlers : handler'[h] = handler[h] =>
        (Configures(h)' <=> Configures(h)) /\ Settings(h)' = Settings(h)
  BY SameListener
<1>2. \A h \in Handlers : Configures(h)' \/ Configures(h) => handler'[h] = handler[h]
  BY DEF Configures
<1>3. Doomed => Doomed'
  BY <1>1, <1>2 DEF Doomed
<1>4. ASSUME NEW w, Agreed(w) PROVE Agreed(w)'
  BY <1>1, <1>2, <1>4 DEF Agreed
<1>5. ASSUME NEW w, Reloading(w) PROVE Reloading(w)'
  <2>1. PICK h \in Handlers : /\ handler[h].event = "OPEN" /\ handler[h].id = w.id
                              /\ handler[h].pc \in {"find", "load"}
    BY <1>5 DEF Reloading
  <2>2. handler'[h] = handler[h]
    BY <2>1 DEF Running
  <2> QED
    BY <2>1, <2>2 DEF Reloading
<1>6. ASSUME NEW w, Notified(w) PROVE Notified(w)'
  <2>1. PICK h \in Handlers : /\ handler[h].event = "JSON" /\ handler[h].pc = "find"
                              /\ handler[h].read.ok => w.id \in IdsOf(FindAll(handler[h].read))
    BY <1>6 DEF Notified
  <2>2. handler'[h] = handler[h]
    BY <2>1 DEF Running
  <2>3. FindAll(handler[h].read)' = FindAll(handler[h].read)
    BY <2>2 DEF FindAll, TemporaryWorkspaces
  <2> QED
    BY <2>1, <2>2, <2>3 DEF Notified, IdsOf
<1> QED
  BY <1>1, <1>2, <1>3, <1>4, <1>5, <1>6

(* Of the configuration it is only what has been loaded that counts.       *)
LEMMA ConfiguredKept ==
    ASSUME UNCHANGED <<configuration, fcl, flowJson, unwatched>>,
           NEW w, Configured(w), Notified(w) => Notified(w)'
    PROVE  Configured(w)'
BY DEF Configured, Seen, Following, configuration

(* A request goes on, or a listener of CLOSE starts.                       *)
LEMMA RequestMoves ==
    ASSUME GatewaySound, ServiceInv,
           UNCHANGED <<configuration, fcl, flowJson, unwatched, temporaryWorkspaceLookup>>,
           openWorkspaceIds' \subseteq openWorkspaceIds,
           \A h \in Handlers : handler'[h] = handler[h] \/ (~Running(h) /\ ~Configures(h)'),
           NEW r \in Requests, NEW d, request' = [request EXCEPT ![r] = d],
           \A w \in Current' :
              \/ Saves(d, w) \/ Creating(w)'
              \/ /\ w \in Current /\ ~Saves(request[r], w)
                 /\ Creating(w) => Creating(w)'
                 /\ Opens(request[r], w) => Opens(d, w)
    PROVE  GatewaySound'
<1>1. request'[r] = d /\ \A q \in Requests \ {r} : request'[q] = request[q]
  BY DEF ServiceInv
<1>2. ASSUME NEW q, NEW w PROVE Opens(q, w)' <=> Opens(q, w)
  BY DEF Opens, FindById, FindAll, TemporaryWorkspaces
<1>3. ASSUME NEW w \in Current'
      PROVE  \/ Saving(w)' \/ Creating(w)'
             \/ /\ w \in Current
                /\ Saving(w) => Saving(w)'
                /\ Creating(w) => Creating(w)'
                /\ Agreed(w) => Agreed(w)'
                /\ openWorkspaceIds = {w.id} /\ Agreed(w) /\ Served(w) => Served(w)'
  <2>1. CASE Saves(d, w)
    BY <1>1, <2>1 DEF Saving, Saves
  <2>2. CASE /\ w \in Current /\ ~Saves(request[r], w)
             /\ Creating(w) => Creating(w)'
             /\ Opens(request[r], w) => Opens(d, w)
    <3>1. Saving(w) => Saving(w)'
      BY <1>1, <2>2 DEF Saving, Saves
    <3>2. Opening(w) => Opening(w)'
      <4>1. ASSUME NEW q \in Requests, Opens(request[q], w) PROVE Opens(request'[q], w)
        BY <1>1, <2>2, <4>1
      <4>2. ASSUME NEW q \in Requests, Opens(request'[q], w)
            PROVE  Opening(w)'
        <5>1. Opens(request[q], w)'
          BY <4>2 DEF Opens, FindById, FindAll, TemporaryWorkspaces
        <5> QED
          BY <5>1, Zenon DEF Opening
      <4> QED
        BY <4>1, <4>2 DEF Opening
    <3>3. Served(w) => Served(w)'
      BY <3>2, OthersKept, ConfiguredKept DEF Served
    <3> QED
      BY <2>2, <3>1, <3>3, OthersKept
  <2> QED
    BY <1>3, <2>1, <2>2
<1> QED
  BY <1>3, OthersKept, GatewayKept

(* Listeners and watchers go on.                                           *)
LEMMA ConfigurationMoves ==
    ASSUME GatewaySound, UNCHANGED <<service, window, saved>>,
           \A h \in Handlers : Configures(h)' => Configures(h) /\ handler'[h].id = handler[h].id,
           Doomed => Doomed',
           \A w \in Current : Agreed(w) => Agreed(w)',
           \A w \in Current : openWorkspaceIds = {w.id} /\ Agreed(w) /\ (Reloading(w) \/ Configured(w)) =>
                                 Reloading(w)' \/ Configured(w)'
    PROVE  GatewaySound'
<1>1. Current' = Current
  BY DEF Current, TemporaryWorkspaces, service
<1>2. ASSUME NEW w PROVE (Saving(w) => Saving(w)') /\ (Creating(w) => Creating(w)')
  BY DEF Saving, Creating, Saves, service, window
<1>3. ASSUME NEW w, Opening(w) PROVE Opening(w)'
  BY <1>3 DEF Opening, Opens, FindById, FindAll, TemporaryWorkspaces, service, window
<1> QED
  BY <1>1, <1>2, <1>3, GatewayKept DEF Served, service

(* Pages.                                                                  *)
LEMMA WindowGateway ==
    ASSUME TypeInv, GatewaySound, WindowStep
    PROVE  GatewaySound'
<1> USE DEF TypeInv
<1>1. UNCHANGED <<service, configuration, fcl, handler, request, flowJson, unwatched, saved>>
  BY WindowLeaves DEF history
<1>2. page.name = "create" => page' = page
  BY DEF WindowStep, EditForm, RemoveWorkspace, NewProject, Visit, Navigate, CancelDialog, FetchProjects,
         FormLoaded, ProjectsPage
<1>3. Current' = Current
  BY <1>1 DEF Current, TemporaryWorkspaces, service
<1>4. ASSUME NEW w PROVE (Saving(w) => Saving(w)') /\ (Creating(w) => Creating(w)')
  BY <1>1, <1>2 DEF Saving, Saves, Creating, service
<1>5. ASSUME NEW w, Opening(w) PROVE Opening(w)'
  BY <1>1, <1>5 DEF Opening, Opens, FindById, FindAll, TemporaryWorkspaces, service
<1>6. \A h \in Handlers : handler'[h] = handler[h]
  BY <1>1
<1>7. ASSUME NEW w, Served(w) PROVE Served(w)'
  BY <1>1, <1>5, <1>6, <1>7, OthersKept, ConfiguredKept DEF Served, service
<1> QED
  BY <1>1, <1>3, <1>4, <1>6, <1>7, OthersKept, GatewayKept DEF service

(* What the user asks for.                                                 *)
LEMMA AsksGateway ==
    ASSUME TypeInv, TemporaryInv, GatewaySound, NEW r \in Requests, Asks(r)
    PROVE  GatewaySound'
<1> USE DEF TypeInv
<1>1. UNCHANGED <<configuration, fcl, flowJson, unwatched>> /\ Idle(r) /\ UNCHANGED <<page, saved>>
  BY RequestsLeave DEF Asks, CloseWorkspace, SaveWorkspace, ConfirmRemove, OpenWorkspace,
                       OpenTemporaryWorkspace, Ask
<1>2. \A w : ~Saves(request[r], w) /\ ~Opens(request[r], w)
  BY <1>1 DEF Idle, Saves, Opens
<1>3. ASSUME temporaryWorkspaceLookup' = temporaryWorkspaceLookup, openWorkspaceIds' \subseteq openWorkspaceIds,
             \A w : Creating(w) => Creating(w)',
             \A h \in Handlers : handler'[h] = handler[h] \/ (~Running(h) /\ ~Configures(h)'),
             NEW op, NEW w, NEW pc, Ask(r, op, w, pc)
      PROVE  GatewaySound'
  <2> DEFINE d == [pc |-> pc, op |-> op, w |-> w, read |-> Read]
  <2>1. request' = [request EXCEPT ![r] = d]
    BY <1>3 DEF Ask
  <2>2. Current' = Current
    BY <1>1, <1>3 DEF Current, TemporaryWorkspaces
  <2> HIDE DEF d
  <2> QED
    BY <1>1, <1>2, <1>3, <2>1, <2>2, RequestMoves
<1>4. ASSUME UNCHANGED <<service, handler>>, NEW op, NEW w, NEW pc, Ask(r, op, w, pc)
      PROVE  GatewaySound'
  <2>1. \A w1 : Creating(w1) => Creating(w1)'
    BY <1>1, <1>4 DEF Creating, service
  <2> QED
    BY <1>3, <1>4, <2>1 DEF service
<1>5. CASE CloseWorkspace(r)
  <2>1. \A w : ~Creating(w)
    BY <1>5 DEF CloseWorkspace, Creating
  <2>2. \A h \in Handlers : handler'[h] = handler[h] \/ (~Running(h) /\ ~Configures(h)')
    BY <1>5, Emitted DEF CloseWorkspace, Configures
  <2> QED
    BY <1>3, <1>5, <2>1, <2>2 DEF CloseWorkspace
<1>6. CASE SaveWorkspace(r)
  BY <1>4, <1>6 DEF SaveWorkspace
<1>7. CASE ConfirmRemove(r)
  BY <1>4, <1>7 DEF ConfirmRemove
<1>8. CASE \E w \in Workspace : OpenWorkspace(r, w)
  BY <1>4, <1>8 DEF OpenWorkspace
(* When the application starts nothing is about a temporary workspace.     *)
<1>9. ASSUME NEW p \in Paths, OpenTemporaryWorkspace(r, p)
      PROVE  GatewaySound'
  <2>1. /\ temporaryWorkspaceLookup' = p /\ p # None /\ temporaryWorkspaceLookup = None
        /\ UNCHANGED <<openWorkspaceIds, handler, page, saved>> /\ openWorkspaceIds = {}
        /\ \A h \in Handlers : Configures(h) => handler[h].id # Temporary
        /\ \A q \in Requests : Idle(q)
    BY <1>9, NoneAssumption DEF OpenTemporaryWorkspace, TemporaryInv, NothingTemporary
  <2>2. ASSUME NEW h \in Handlers
        PROVE  /\ Configures(h)' <=> Configures(h)
               /\ Configures(h) => Settings(h)' = Settings(h)
    <3>1. Configures(h)' <=> Configures(h)
      BY <2>1 DEF Configures, Running
    <3>2. ASSUME Configures(h) PROVE FindById(handler[h].read, handler[h].id)' = FindById(handler[h].read, handler[h].id)
      <4>1. TemporaryWorkspaces = {} /\ TemporaryWorkspaces' = {[id |-> Temporary, path |-> p]}
        BY <2>1 DEF TemporaryWorkspaces
      <4>2. handler'[h] = handler[h] /\ handler[h].id # Temporary
        BY <2>1, <3>2
      <4> QED
        BY <4>1, <4>2 DEF FindById, FindAll
    <3> QED
      BY <2>1, <3>1, <3>2 DEF Settings
  <2>3. Doomed => Doomed'
    BY <2>2 DEF Doomed
  <2>4. \A w : ~Saving(w)
    BY <2>1 DEF Saving, Saves, Idle
  <2>5. \A w : (Creating(w) => Creating(w)') /\ (Agreed(w) => Agreed(w)')
    BY <2>1, <2>2 DEF Creating, Agreed
  <2>6. ASSUME NEW w \in Current', w \notin Current PROVE Sound(w)'
    <3>1. w.id = Temporary
      BY <2>1, <2>6 DEF Current, TemporaryWorkspaces
    <3>2. Agreed(w)'
      BY <2>1, <2>2, <3>1 DEF Agreed
    <3> QED
      BY <2>1, <3>2 DEF Sound
  <2>7. ASSUME NEW w \in Current PROVE Sound(w)'
    <3>1. Doomed \/ Creating(w) \/ Agreed(w)
      BY <2>4 DEF GatewaySound, Sound
    <3> QED
      BY <2>1, <2>3, <2>5, <3>1 DEF Sound
  <2>8. OneSubject'
    BY <2>1, <2>2 DEF GatewaySound, OneSubject
  <2> QED
    BY <2>6, <2>7, <2>8 DEF GatewaySound
<1> QED
  BY <1>5, <1>6, <1>7, <1>8, <1>9 DEF Asks

(* Requests that end, and those that only read and write.                  *)
LEMMA EndsGateway ==
    ASSUME TypeInv, CreateInv, ~raced, GatewaySound, NEW r \in Requests,
           OpenFails(r) \/ SaveFails(r) \/ Refetched(r)
    PROVE  GatewaySound'
<1> USE DEF TypeInv
<1>1. /\ request' = [request EXCEPT ![r] = IdleRequest] /\ ~Idle(r)
      /\ UNCHANGED <<service, configuration, fcl, flowJson, unwatched, handler, saved>>
  BY DEF OpenFails, SaveFails, Refetched, EndRequest, InFlow, Idle, history
<1>2. Current' = Current
  BY <1>1 DEF Current, TemporaryWorkspaces, service
<1>3. \A w : ~Saves(request[r], w) /\ ~Opens(request[r], w)
  BY DEF OpenFails, SaveFails, Refetched, InFlow, Saves, Opens, Writes, FindById
<1>4. ASSUME NEW w \in Current, Creating(w) PROVE Creating(w)'
  <2>1. CASE SaveFails(r)
    BY <1>1, <1>4, <2>1 DEF SaveFails, Creating, service
  <2>2. Creates(r) /\ page.id = w.id /\ w.id \notin openWorkspaceIds
    BY <1>1, <1>4 DEF CreateInv, AllIdle, Creating
  <2>3. CASE Refetched(r)
    BY <2>2, <2>3 DEF Refetched, InFlow, Creates
  <2>4. CASE OpenFails(r)
    <3>1. request[r].read = [ok |-> TRUE, list |-> saved] /\ request[r].w.id = w.id
      BY <2>2, <2>4 DEF OpenFails, InFlow, Creates
    <3>2. w \in FindById(request[r].read, request[r].w.id)
      BY <3>1, FoundInCurrent
    <3> QED
      BY <2>4, <3>2 DEF OpenFails
  <2> QED
    BY <2>1, <2>3, <2>4
<1> QED
  BY <1>1, <1>2, <1>3, <1>4, RequestMoves DEF service

LEMMA WrittenGateway ==
    ASSUME TypeInv, CreateInv, GatewaySound, NEW r \in Requests, Written(r)
    PROVE  GatewaySound'
<1> USE DEF TypeInv
<1> DEFINE d == [request[r] EXCEPT !.pc = "written"]
<1>1. /\ request' = [request EXCEPT ![r] = d]
      /\ saved' = {e \in Changed(request[r].op, request[r].w, saved) : e.id # Temporary}
      /\ UNCHANGED <<temporaryWorkspaceLookup, openWorkspaceIds, configuration, fcl, flowJson, unwatched, handler, page>>
      /\ ~Idle(r) /\ request[r].pc = "write" /\ Writes(request[r].op)
  BY DEF Written, Go, InFlow, Idle, ServiceInv
<1>2. d.pc = "written" /\ d.op = request[r].op /\ d.w = request[r].w
  BY DEF ServiceInv, RequestType
<1> HIDE DEF d
<1>3. \A w : (Creating(w) => Creating(w)') /\ ~Opens(request[r], w)
  BY <1>1 DEF Creating, Opens
<1>4. Current' = saved' \cup TemporaryWorkspaces
  BY <1>1 DEF Current, TemporaryWorkspaces
<1>5. ASSUME NEW w \in Current'
      PROVE  Saves(d, w) \/ (w \in Current /\ ~Saves(request[r], w)) \/ Creating(w)
  <2>1. CASE request[r].op = "update"
    <3>1. w = request[r].w \/ w \in Current
      BY <1>1, <1>4, <2>1 DEF Current, Changed
    <3> QED
      BY <1>2, <2>1, <3>1 DEF Saves
  <2>2. CASE request[r].op = "remove"
    BY <1>1, <1>4, <2>2 DEF Current, Changed, Saves
  <2>3. CASE request[r].op = "create"
    <3>1. page.name = "create" /\ Creates(r)
      BY <1>1, <2>3 DEF CreateInv, AllIdle
    <3>2. page.id = request[r].w.id /\ page.id \notin openWorkspaceIds
      BY <1>1, <3>1 DEF Creates
    <3>3. w = request[r].w \/ w \in Current
      BY <1>1, <1>4, <2>3 DEF Current, Changed
    <3> QED
      BY <2>3, <3>1, <3>2, <3>3 DEF Saves, Creating
  <2> QED
    BY <1>1, <2>1, <2>2, <2>3 DEF Writes
<1> QED
  BY <1>1, <1>3, <1>5, RequestMoves

LEMMA RemovedGateway ==
    ASSUME TypeInv, GatewaySound, NEW r \in Requests, Returned(r), request[r].op # "update"
    PROVE  GatewaySound'
<1> USE DEF TypeInv
<1> DEFINE d == IF request[r].op = "remove" THEN [request[r] EXCEPT !.pc = "refetch", !.read = NotRead]
                ELSE [request[r] EXCEPT !.pc = "find", !.op = "open", !.read = Read]
<1>1. /\ request' = [request EXCEPT ![r] = d]
      /\ UNCHANGED <<service, configuration, fcl, flowJson, unwatched, handler, page, saved>>
      /\ request[r].pc = "written"
  BY DEF Returned, InFlow, ServiceInv
<1> HIDE DEF d
<1>2. \A w : (Creating(w) => Creating(w)') /\ ~Opens(request[r], w) /\ ~Saves(request[r], w)
  BY <1>1 DEF Creating, Opens, Saves, service
<1>3. Current' = Current
  BY <1>1 DEF Current, TemporaryWorkspaces, service
<1> QED
  BY <1>1, <1>2, <1>3, RequestMoves DEF service

(* The settings of the temporary workspace are changed before anything is  *)
(* written; whatever looks them up then finds the new ones.                *)
LEMMA TemporarySaved ==
    ASSUME TypeInv, NEW r \in Requests, SaveAll(r)
    PROVE  \/ UNCHANGED temporaryWorkspaceLookup
           \/ /\ request[r].op = "update" /\ request[r].w.id = Temporary
              /\ temporaryWorkspaceLookup # None /\ temporaryWorkspaceLookup' = request[r].w.path
<1> USE DEF TypeInv
<1> DEFINE all == FindAll(request[r].read)
           list == Changed(request[r].op, request[r].w, all)
<1>1. /\ request[r].read \in ReadType /\ request[r].w \in Workspace
      /\ request[r].op \in {"create", "update", "remove"}
      /\ request[r].op = "create" => request[r].w \in Entries
  BY DEF SaveAll, Writes, ServiceInv, RequestType
<1>2. CASE temporaryWorkspaceLookup = None
  BY <1>2 DEF SaveAll, SetTemporary
<1>3. CASE temporaryWorkspaceLookup # None
  <2>1. \A e \in all : e.id = Temporary => e = [id |-> Temporary, path |-> temporaryWorkspaceLookup]
    BY <1>1, <1>3, WorkspacesAssumption DEF FindAll, TemporaryWorkspaces, ReadType, Entries
  <2>2. temporaryWorkspaceLookup' = IF \E w \in list : w.id = Temporary
                                    THEN (CHOOSE w \in list : w.id = Temporary).path
                                    ELSE temporaryWorkspaceLookup
    BY <1>3 DEF SaveAll, SetTemporary
  <2> HIDE DEF all
  <2>3. CASE request[r].op = "update" /\ request[r].w.id = Temporary
    <3>1. \A w \in list : w.id = Temporary => w = request[r].w
      BY <2>3 DEF Changed
    <3> HIDE DEF list
    <3> QED
      BY <1>3, <2>2, <2>3, <3>1
  <2>4. CASE ~(request[r].op = "update" /\ request[r].w.id = Temporary)
    <3>1. \A w \in list : w.id = Temporary => w \in all
      BY <1>1, <2>4, WorkspacesAssumption DEF Changed, Entries
    <3> HIDE DEF list
    <3>2. \A w \in list : w.id = Temporary => w.path = temporaryWorkspaceLookup
      BY <2>1, <3>1
    <3> QED
      BY <2>2, <3>2
  <2> QED
    BY <2>3, <2>4
<1> QED
  BY <1>2, <1>3

LEMMA SaveAllGateway ==
    ASSUME TypeInv, GatewaySound, NEW r \in Requests, SaveAll(r)
    PROVE  GatewaySound'
<1> USE DEF TypeInv
<1>1. PICK read : request' = [request EXCEPT ![r] = [request[r] EXCEPT !.pc = "write", !.read = read]]
  BY DEF SaveAll
<1> DEFINE d == [request[r] EXCEPT !.pc = "write", !.read = read]
<1>2. /\ request' = [request EXCEPT ![r] = d] /\ request[r].pc = "find" /\ Writes(request[r].op)
      /\ UNCHANGED <<openWorkspaceIds, configuration, fcl, flowJson, unwatched, handler, page, saved>>
  BY <1>1 DEF SaveAll, InFlow, history
<1>3. d.pc = "write" /\ d.op = request[r].op /\ d.w = request[r].w
  BY DEF ServiceInv, RequestType
<1> HIDE DEF d
<1>4. \A w : (Creating(w) => Creating(w)') /\ ~Opens(request[r], w) /\ ~Saves(request[r], w)
  BY <1>2 DEF Creating, Opens, Saves, Writes
<1>5. CASE UNCHANGED temporaryWorkspaceLookup
  <2>1. Current' = Current
    BY <1>2, <1>5 DEF Current, TemporaryWorkspaces
  <2> QED
    BY <1>2, <1>4, <1>5, <2>1, RequestMoves
<1>6. CASE /\ request[r].op = "update" /\ request[r].w.id = Temporary
           /\ temporaryWorkspaceLookup # None /\ temporaryWorkspaceLookup' = request[r].w.path
  <2>0. PICK before, after : /\ before = [id |-> Temporary, path |-> temporaryWorkspaceLookup]
                             /\ after = [id |-> Temporary, path |-> temporaryWorkspaceLookup']
    OBVIOUS
  <2>1. request'[r] = d /\ \A q \in Requests \ {r} : request'[q] = request[q]
    BY <1>2 DEF ServiceInv
  <2>2. temporaryWorkspaceLookup' # None /\ request[r].w = after
    BY <1>6, <2>0, NoneAssumption DEF ServiceInv, RequestType, Workspace
  <2>3. TemporaryWorkspaces = {before} /\ TemporaryWorkspaces' = {after}
    BY <1>6, <2>0, <2>2 DEF TemporaryWorkspaces
  <2>4. before.id = Temporary /\ after.id = Temporary
    BY <2>0
  <2>5. Saves(d, after)
    BY <1>3, <1>6, <2>2, <2>4 DEF Saves
  <2>6. Saving(after)'
    BY <2>1, <2>5 DEF Saving, Saves
  <2>7. ASSUME NEW w \in Current', w # after
        PROVE  w \in Current /\ w.id # Temporary
    BY <1>2, <2>3, <2>7, WorkspacesAssumption DEF Current, ServiceInv, Entries
  <2>9. ASSUME NEW h \in Handlers
        PROVE  /\ Configures(h)' <=> Configures(h)
               /\ Settings(h)' = {} <=> Settings(h) = {}
               /\ handler[h].id # Temporary => Settings(h)' = Settings(h)
    <3>1. handler'[h] = handler[h]
      BY <1>2
    <3>2. Configures(h)' <=> Configures(h)
      BY <3>1 DEF Configures, Running
    <3>3. CASE handler[h].pc = "find"
      <4>1. Settings(h)' = FindById(handler[h].read, handler[h].id)'
        BY <3>1, <3>3 DEF Settings
      <4>2. Settings(h) = FindById(handler[h].read, handler[h].id)
        BY <3>3 DEF Settings
      <4>3. /\ FindById(handler[h].read, handler[h].id)' = {} <=> FindById(handler[h].read, handler[h].id) = {}
            /\ handler[h].id # Temporary =>
                  FindById(handler[h].read, handler[h].id)' = FindById(handler[h].read, handler[h].id)
        BY <2>3, <2>4, <3>1 DEF FindById, FindAll
      <4> QED
        BY <3>2, <4>1, <4>2, <4>3
    <3>4. CASE handler[h].pc # "find"
      BY <3>1, <3>2, <3>4 DEF Settings
    <3> QED
      BY <3>3, <3>4
  <2>10. Doomed => Doomed'
    BY <2>9 DEF Doomed
  <2>11. ASSUME NEW w, w.id # Temporary
         PROVE  Agreed(w) => Agreed(w)'
    BY <1>2, <2>9, <2>11 DEF Agreed
  <2>12. ASSUME NEW w
         PROVE  Saving(w) => Saving(w)'
    BY <1>4, <2>1 DEF Saving, Saves
  <2>13. ASSUME NEW w, w.id # Temporary, Opening(w)
         PROVE  Opening(w)'
    <3>1. PICK q \in Requests : Opens(request[q], w)
      BY <2>13 DEF Opening
    <3>2. request'[q] = request[q]
      BY <1>4, <2>1, <3>1
    <3>3. FindById(request[q].read, w.id)' = FindById(request[q].read, w.id)
      BY <2>3, <2>4, <2>13, <3>2 DEF FindById, FindAll
    <3>4. Opens(request[q], w)'
      BY <3>1, <3>2, <3>3 DEF Opens
    <3> QED
      BY <3>4, Zenon DEF Opening
  <2>14. ASSUME NEW w, Reloading(w)
         PROVE  Reloading(w)'
    BY <1>2, <2>14 DEF Reloading
  <2>15. ASSUME NEW w, Notified(w)
         PROVE  Notified(w)'
    <3>1. PICK h \in Handlers : /\ handler[h].event = "JSON" /\ handler[h].pc = "find"
                                /\ handler[h].read.ok => w.id \in IdsOf(FindAll(handler[h].read))
      BY <2>15 DEF Notified
    <3>2. handler'[h] = handler[h]
      BY <1>2
    <3>3. FindAll(handler[h].read)' = handler[h].read.list \cup {after}
      BY <2>3, <3>2 DEF FindAll
    <3>4. FindAll(handler[h].read) = handler[h].read.list \cup {before}
      BY <2>3 DEF FindAll
    <3>5. IdsOf(FindAll(handler[h].read))' = IdsOf(FindAll(handler[h].read))
      BY <2>4, <3>3, <3>4 DEF IdsOf
    <3> QED
      BY <3>1, <3>2, <3>5 DEF Notified
  <2>16. ASSUME NEW w \in Current', w # after
         PROVE  /\ w \in Current
                /\ Saving(w) => Saving(w)'
                /\ Creating(w) => Creating(w)'
                /\ Agreed(w) => Agreed(w)'
                /\ openWorkspaceIds = {w.id} /\ Agreed(w) /\ Served(w) => Served(w)'
    <3>1. w \in Current /\ w.id # Temporary
      BY <2>7, <2>16
    <3>2. Served(w) => Served(w)'
      BY <1>2, <2>13, <2>14, <2>15, <3>1, ConfiguredKept DEF Served
    <3> QED
      BY <1>4, <2>11, <2>12, <3>1, <3>2
  <2> QED
    BY <1>2, <2>6, <2>9, <2>10, <2>16, GatewayKept
<1> QED
  BY <1>5, <1>6, TemporarySaved

---------------------------------------------------------------------------
(* The gateway: events of a workspace that is opened or changed. *)

(* A listener finds the settings as they are now, unless the list is being *)
(* written.                                                                *)
LEMMA EmittedSettings ==
    ASSUME TypeInv, ListInv, ~raced, UNCHANGED <<saved, temporaryWorkspaceLookup>>, CanEmit,
           NEW event \in {"OPEN", "UPDATE"}, NEW w0, Emit(event, w0)
    PROVE  \E h \in Handlers :
              /\ ~Running(h) /\ Configures(h)'
              /\ handler'[h].pc = "find" /\ handler'[h].event = event /\ handler'[h].id = w0.id
              /\ \/ Settings(h)' = {}
                 \/ Read.ok /\ Settings(h)' = {e \in Current : e.id = w0.id}
              /\ \A g \in Handlers \ {h} : handler'[g] = handler[g]
<1>1. PICK h \in Handlers :
        /\ ~Running(h)
        /\ handler'[h].pc = "find" /\ handler'[h].event = event /\ handler'[h].id = w0.id /\ handler'[h].read = Read
        /\ \A g \in Handlers \ {h} : handler'[g] = handler[g]
  BY Emitted DEF TypeInv
<1>2. Configures(h)'
  BY <1>1 DEF Configures, Running
<1>3. Settings(h)' = {e \in Read.list \cup TemporaryWorkspaces : Read.ok /\ e.id = w0.id}
  BY <1>1 DEF Settings, FindById, FindAll, TemporaryWorkspaces
<1>4. CASE Read.ok
  <2>1. Read.list = saved
    BY <1>4, FreshRead
  <2>2. Settings(h)' = {e \in Current : e.id = w0.id}
    BY <1>3, <1>4, <2>1 DEF Current
  <2> QED
    BY <1>1, <1>2, <1>4, <2>2
<1>5. CASE ~Read.ok
  <2>1. Settings(h)' = {}
    BY <1>3, <1>5
  <2> QED
    BY <1>1, <1>2, <2>1
<1> QED
  BY <1>4, <1>5

LEMMA SettingsOf ==
    ASSUME NEW h, NEW w, Settings(h) = {w}
    PROVE  handler[h].id = w.id
<1>1. CASE handler[h].pc = "find"
  <2>1. w \in FindById(handler[h].read, handler[h].id)
    BY <1>1 DEF Settings
  <2> QED
    BY <2>1 DEF FindById
<1>2. CASE handler[h].pc # "find"
  <2>1. w = [id |-> handler[h].id, path |-> handler[h].path]
    BY <1>2 DEF Settings
  <2> QED
    BY <2>1
<1> QED
  BY <1>1, <1>2

(* An event that conflicts with none of the listeners.                     *)
LEMMA EmitGateway ==
    ASSUME TypeInv, ListInv, CreateInv, ~raced, GatewaySound,
           UNCHANGED <<saved, temporaryWorkspaceLookup>>, CanEmit,
           NEW event \in {"OPEN", "UPDATE"}, NEW w0, Emit(event, w0), ~Conflicts(w0),
           openWorkspaceIds' \subseteq openWorkspaceIds \cup {w0.id},
           \A v \in Current : v.id = w0.id => Saving(v)' \/ Agreed(v) \/ v = w0,
           event = "UPDATE" => \A v \in Current : v.id = w0.id /\ Read.ok => Opening(v)'
    PROVE  GatewaySound'
<1>1. PICK h \in Handlers :
        /\ ~Running(h) /\ Configures(h)'
        /\ handler'[h].pc = "find" /\ handler'[h].event = event /\ handler'[h].id = w0.id
        /\ \/ Settings(h)' = {}
           \/ Read.ok /\ Settings(h)' = {e \in Current : e.id = w0.id}
        /\ \A g \in Handlers \ {h} : handler'[g] = handler[g]
  BY EmittedSettings
<1>2. ASSUME NEW g \in Handlers, Configures(g)', g # h
      PROVE  Configures(g) /\ Settings(g) = {w0} /\ Settings(g)' = {w0} /\ handler'[g].id = w0.id
  <2>1. handler'[g] = handler[g] /\ (Configures(g)' <=> Configures(g)) /\ Settings(g)' = Settings(g)
    BY <1>1, <1>2, SameListener
  <2>2. Configures(g) /\ Settings(g) = {w0}
    BY <1>2, <2>1 DEF Conflicts
  <2> QED
    BY <2>1, <2>2, SettingsOf
<1>3. openWorkspaceIds' \subseteq {w0.id}
  BY DEF Conflicts
<1>4. \A g \in Handlers : Configures(g)' => handler'[g].id = w0.id
  BY <1>1, <1>2
<1>5. OneSubject'
  BY <1>3, <1>4 DEF OneSubject
<1>6. Current' = Current
  BY DEF Current, TemporaryWorkspaces
<1>7. ASSUME NEW v \in Current, v.id # w0.id PROVE Sound(v)'
  <2>1. Agreed(v)'
    BY <1>4, <1>7 DEF Agreed
  <2>2. openWorkspaceIds' # {v.id}
    BY <1>3, <1>7
  <2> QED
    BY <2>1, <2>2 DEF Sound
<1>8. ASSUME NEW v \in Current, v.id = w0.id, Settings(h)' # {}, ~Saving(v)'
      PROVE  Sound(v)'
  <2>1. Read.ok /\ Settings(h)' = {v}
    BY <1>1, <1>8, UniqueCurrent
  <2>2. Agreed(v)'
    <3>1. ASSUME NEW g \in Handlers, Configures(g)', g # h PROVE Settings(g)' = {v}
      <4>1. CASE v = w0
        BY <1>2, <3>1, <4>1
      <4>2. CASE Agreed(v)
        <5>1. Configures(g) /\ Settings(g) = {w0} /\ Settings(g)' = {w0} /\ handler[g].id = w0.id
          BY <1>2, <3>1, SettingsOf
        <5> QED
          BY <1>8, <4>2, <5>1 DEF Agreed
      <4> QED
        BY <1>8, <4>1, <4>2
    <3> QED
      BY <2>1, <3>1 DEF Agreed
  <2>3. Served(v)'
    <3>1. CASE event = "OPEN"
      <4>1. Reloading(v)'
        BY <1>1, <1>8, <3>1 DEF Reloading
      <4> QED
        BY <4>1 DEF Served
    <3>2. CASE event = "UPDATE"
      BY <1>8, <2>1, <3>2 DEF Served
    <3> QED
      BY <3>1, <3>2
  <2> QED
    BY <2>2, <2>3 DEF Sound
<1>9. ASSUME Settings(h)' = {} PROVE Doomed'
  BY <1>1, <1>9 DEF Doomed
<1>10. \A v \in Current' : Sound(v)'
  BY <1>6, <1>7, <1>8, <1>9 DEF Sound
<1> QED
  BY <1>5, <1>10 DEF GatewaySound

(* An OPEN of the only workspace, without other listeners.                 *)
LEMMA FirstOpenGateway ==
    ASSUME TypeInv, ListInv, CreateInv, ~raced,
           UNCHANGED <<saved, temporaryWorkspaceLookup>>, CanEmit,
           NEW w0, Emit("OPEN", w0), \A h \in Handlers : ~Configures(h),
           openWorkspaceIds' = {w0.id}
    PROVE  GatewaySound'
<1>1. PICK h \in Handlers :
        /\ ~Running(h) /\ Configures(h)'
        /\ handler'[h].pc = "find" /\ handler'[h].event = "OPEN" /\ handler'[h].id = w0.id
        /\ \/ Settings(h)' = {}
           \/ Read.ok /\ Settings(h)' = {e \in Current : e.id = w0.id}
        /\ \A g \in Handlers \ {h} : handler'[g] = handler[g]
  BY EmittedSettings
<1>2. \A g \in Handlers : Configures(g)' => g = h
  BY <1>1, SameListener
<1>3. OneSubject'
  BY <1>1, <1>2 DEF OneSubject
<1>4. Current' = Current
  BY DEF Current, TemporaryWorkspaces
<1>5. ASSUME NEW v \in Current, Settings(h)' # {}
      PROVE  Sound(v)'
  <2>1. CASE v.id = w0.id
    <3>1. Settings(h)' = {v}
      BY <1>1, <1>5, <2>1, UniqueCurrent
    <3>2. Agreed(v)'
      BY <1>2, <3>1 DEF Agreed
    <3>3. Reloading(v)'
      BY <1>1, <2>1 DEF Reloading
    <3> QED
      BY <3>2, <3>3 DEF Sound, Served
  <2>2. CASE v.id # w0.id
    <3>1. Agreed(v)'
      BY <1>1, <1>2, <2>2 DEF Agreed
    <3>2. openWorkspaceIds' # {v.id}
      BY <2>2
    <3> QED
      BY <3>1, <3>2 DEF Sound
  <2> QED
    BY <2>1, <2>2
<1>6. ASSUME Settings(h)' = {} PROVE Doomed'
  BY <1>1, <1>6 DEF Doomed
<1>7. \A v \in Current' : Sound(v)'
  BY <1>4, <1>5, <1>6 DEF Sound
<1> QED
  BY <1>3, <1>7 DEF GatewaySound

LEMMA OpenedGateway ==
    ASSUME TypeInv, ListInv, CreateInv, GatewayInv, NEW r \in Requests, Opened(r), Calm'
    PROVE  GatewaySound'
<1> USE DEF TypeInv
<1> DEFINE d == [request[r] EXCEPT !.pc = "refetch"]
<1>1. PICK w0 \in FindById(request[r].read, request[r].w.id) :
        openWorkspaceIds' = openWorkspaceIds \cup {w0.id} /\ Emit("OPEN", w0)
  BY DEF Opened
<1>2. /\ request' = [request EXCEPT ![r] = d] /\ CanEmit
      /\ UNCHANGED <<saved, temporaryWorkspaceLookup, page>> /\ ~raced /\ ~doubled
      /\ ~Idle(r) /\ request[r].pc = "find" /\ request[r].op \in {"open", "startup"}
  BY DEF Opened, Go, InFlow, Idle, Calm
<1> HIDE DEF d
<1>3. w0.id = request[r].w.id
  BY <1>1 DEF FindById
<1>4. CASE openWorkspaceIds \subseteq {w0.id} /\ \A h \in Handlers : ~Configures(h)
  <2>1. openWorkspaceIds' = {w0.id}
    BY <1>1, <1>4
  <2> QED
    BY <1>1, <1>2, <1>4, <2>1, FirstOpenGateway
<1>5. CASE ~(openWorkspaceIds \subseteq {w0.id} /\ \A h \in Handlers : ~Configures(h))
  <2>1. mixed' = (mixed \/ Conflicts(w0))
    BY <1>1, <1>5, Zenon DEF Emit
  <2>2. ~mixed /\ ~Conflicts(w0)
    BY <2>1 DEF Calm
  <2>3. GatewaySound
    BY <1>2, <2>2 DEF GatewayInv, Calm
  <2>4. PICK g \in Handlers : Configures(g) /\ Settings(g) = {w0}
    BY <1>5, <2>2 DEF Conflicts
  <2>5. handler[g].id = w0.id
    BY <2>4, SettingsOf
  <2>6. ~Doomed
    BY <2>2 DEF Conflicts, Doomed
  <2>7. ASSUME NEW v \in Current, v.id = w0.id
        PROVE  Saving(v)' \/ Agreed(v) \/ v = w0
    <3>1. CASE Saving(v)
      <4>1. PICK q \in Requests : Saves(request[q], v)
        BY <3>1 DEF Saving
      <4>2. q # r
        BY <1>2, <4>1 DEF Saves
      <4>3. request'[q] = request[q]
        BY <1>2, <4>2 DEF ServiceInv
      <4> QED
        BY <4>1, <4>3 DEF Saving, Saves
    <3>2. CASE Creating(v)
      <4>1. Creates(r)
        BY <1>2, <3>2 DEF CreateInv, AllIdle, Creating
      <4>2. request[r].read = [ok |-> TRUE, list |-> saved]
        BY <1>2, <4>1 DEF Creates
      <4>3. w0 \in Current
        BY <1>1, <4>2, FoundInCurrent
      <4> QED
        BY <2>7, <4>3, UniqueCurrent
    <3> QED
      BY <2>3, <2>6, <3>1, <3>2 DEF GatewaySound, Sound
  <2> QED
    BY <1>1, <1>2, <2>2, <2>3, <2>7, EmitGateway
<1> QED
  BY <1>4, <1>5

(* The form opens what it has saved, after UPDATE was emitted.             *)
LEMMA UpdatedGateway ==
    ASSUME TypeInv, ListInv, CreateInv, GatewayInv, NEW r \in Requests, Returned(r),
           request[r].op = "update", Calm'
    PROVE  GatewaySound'
<1> USE DEF TypeInv
<1> DEFINE w0 == request[r].w
           d == [request[r] EXCEPT !.pc = "find", !.op = "open", !.read = Read]
<1>1. /\ request' = [request EXCEPT ![r] = d] /\ CanEmit /\ Emit("UPDATE", w0)
      /\ UNCHANGED <<saved, temporaryWorkspaceLookup, openWorkspaceIds, page>> /\ ~raced /\ ~doubled
      /\ ~Idle(r) /\ request[r].pc = "written"
  BY DEF Returned, InFlow, Idle, Calm, service, ServiceInv
<1>2. d.pc = "find" /\ d.op = "open" /\ d.read = Read /\ d.w = w0
  BY DEF ServiceInv, RequestType
<1>3. request'[r] = d /\ \A q \in Requests \ {r} : request'[q] = request[q]
  BY <1>1 DEF ServiceInv
<1> HIDE DEF d
<1>4. mixed' = (mixed \/ Conflicts(w0))
  BY <1>1, Zenon DEF Emit
<1>5. ~mixed /\ ~Conflicts(w0)
  BY <1>4 DEF Calm
<1>6. GatewaySound
  BY <1>1, <1>5 DEF GatewayInv, Calm
<1>7. ASSUME NEW v \in Current, v.id = w0.id
      PROVE  Saving(v)' \/ Agreed(v) \/ v = w0
  <2>1. CASE Doomed
    BY <1>5, <2>1 DEF Doomed, Conflicts
  <2>2. CASE Saving(v)
    <3>1. PICK q \in Requests : Saves(request[q], v)
      BY <2>2 DEF Saving
    <3>2. CASE q = r
      BY <3>1, <3>2 DEF Saves
    <3>3. CASE q # r
      BY <1>3, <3>1, <3>3 DEF Saving, Saves
    <3> QED
      BY <3>2, <3>3
  <2>3. CASE Creating(v)
    <3>1. Creates(r)
      BY <1>1, <2>3 DEF CreateInv, AllIdle, Creating
    <3> QED
      BY <3>1 DEF Creates
  <2> QED
    BY <1>6, <1>7, <2>1, <2>2, <2>3 DEF GatewaySound, Sound
<1>8. ASSUME NEW v \in Current, v.id = w0.id, Read.ok
      PROVE  Opening(v)'
  <2>1. Read = [ok |-> TRUE, list |-> saved]
    BY <1>1, <1>8, FreshRead
  <2>2. FindById(request[r].read, v.id)' = FindById(Read, v.id)
    BY <1>1, <1>2, <1>3 DEF FindById, FindAll, TemporaryWorkspaces
  <2>3. v \in FindById(Read, v.id)
    BY <1>8, <2>1, FoundInCurrent
  <2> QED
    BY <1>2, <1>3, <1>8, <2>2, <2>3 DEF Opening, Opens
<1> HIDE DEF w0
<1> QED
  BY <1>1, <1>5, <1>6, <1>7, <1>8, EmitGateway

---------------------------------------------------------------------------
(* The gateway: listeners and watchers. *)

LEMMA CurrentTyped == TypeInv => Current \in SUBSET Workspace
BY DEF TypeInv, ServiceInv, Current, TemporaryWorkspaces, Workspace, Entries, Ids

(* A listener that is past its reload ends.                                *)
LEMMA EndedKept ==
    ASSUME UNCHANGED temporaryWorkspaceLookup, NEW h \in Handlers,
           handler[h].pc \in {"stop", "start"} \/ handler[h].event = "JSON",
           handler'[h] = IdleHandler, \A g \in Handlers \ {h} : handler'[g] = handler[g]
    PROVE  /\ \A g \in Handlers : Configures(g)' => Configures(g) /\ handler'[g].id = handler[g].id
           /\ Doomed => Doomed'
           /\ \A w : /\ Agreed(w) => Agreed(w)'
                     /\ Reloading(w) => Reloading(w)'
                     /\ handler[h].event # "JSON" /\ Notified(w) => Notified(w)'
<1>1. ~Configures(h)'
  BY DEF Configures, Running, IdleHandler
<1>2. ASSUME NEW g \in Handlers, g # h
      PROVE  handler'[g] = handler[g] /\ (Configures(g)' <=> Configures(g)) /\ Settings(g)' = Settings(g)
  BY <1>2, SameListener
<1>3. ~(Configures(h) /\ Settings(h) = {})
  BY DEF Configures, Settings
<1>4. Doomed => Doomed'
  BY <1>2, <1>3 DEF Doomed
<1>5. ASSUME NEW w, Agreed(w) PROVE Agreed(w)'
  BY <1>1, <1>2, <1>5 DEF Agreed
<1>6. ASSUME NEW w, Reloading(w) PROVE Reloading(w)'
  BY <1>6 DEF Reloading
<1>7. ASSUME NEW w, Notified(w), handler[h].event # "JSON" PROVE Notified(w)'
  <2>1. PICK g \in Handlers : /\ handler[g].event = "JSON" /\ handler[g].pc = "find"
                              /\ handler[g].read.ok => w.id \in IdsOf(FindAll(handler[g].read))
    BY <1>7 DEF Notified
  <2>2. handler'[g] = handler[g]
    BY <1>7, <2>1
  <2>3. FindAll(handler[g].read)' = FindAll(handler[g].read)
    BY <2>2 DEF FindAll, TemporaryWorkspaces
  <2> QED
    BY <2>1, <2>2, <2>3 DEF Notified, IdsOf
<1> QED
  BY <1>1, <1>2, <1>4, <1>5, <1>6, <1>7

(* A listener found the settings that it works with from now on.           *)
LEMMA FoundSettings ==
    ASSUME TypeInv, UNCHANGED temporaryWorkspaceLookup, NEW h \in Handlers, Found(h)
    PROVE  /\ \A g \in Handlers : Configures(g)' => Configures(g) /\ handler'[g].id = handler[g].id
           /\ Doomed => Doomed'
           /\ \A w \in Current : Agreed(w) => Agreed(w)'
<1> USE DEF TypeInv
<1>1. PICK w0 \in FindById(handler[h].read, handler[h].id) :
        /\ handler[h].pc = "find" /\ handler[h].event \in {"OPEN", "UPDATE"}
        /\ \A g \in Handlers \ {h} : handler'[g] = handler[g]
        /\ handler'[h].event = handler[h].event /\ handler'[h].id = handler[h].id
        /\ handler'[h].path = w0.path /\ handler'[h].pc \in {"load", "stop"}
  BY FoundListener
<1>2. Configures(h) /\ w0 \in Settings(h)
  BY <1>1 DEF Configures, Running, Settings
<1>3. Settings(h)' = {[id |-> handler[h].id, path |-> w0.path]}
  BY <1>1 DEF Settings
<1>4. ASSUME NEW g \in Handlers, g # h
      PROVE  handler'[g] = handler[g] /\ (Configures(g)' <=> Configures(g)) /\ Settings(g)' = Settings(g)
  BY <1>1, <1>4, SameListener
<1>5. Doomed => Doomed'
  BY <1>2, <1>4 DEF Doomed
<1>6. ASSUME NEW w \in Current, Agreed(w) PROVE Agreed(w)'
  <2>1. ASSUME handler[h].id = w.id PROVE Settings(h)' = {w}
    <3>1. w0 = w
      BY <1>2, <1>6, <2>1 DEF Agreed
    <3>2. w = [id |-> w.id, path |-> w.path]
      BY <1>6, CurrentTyped DEF Workspace
    <3> QED
      BY <1>3, <2>1, <3>1, <3>2
  <2> QED
    BY <1>1, <1>4, <1>6, <2>1 DEF Agreed
<1> QED
  BY <1>1, <1>2, <1>4, <1>5, <1>6

LEMMA FoundGateway ==
    ASSUME TypeInv, GatewaySound, UNCHANGED <<service, window, saved>>, NEW h \in Handlers, Found(h)
    PROVE  GatewaySound'
<1> USE DEF TypeInv
<1>1. /\ handler[h].pc = "find" /\ handler[h].event \in {"OPEN", "UPDATE"}
      /\ \A g \in Handlers \ {h} : handler'[g] = handler[g]
      /\ handler'[h].event = handler[h].event /\ handler'[h].id = handler[h].id
      /\ handler[h].event = "OPEN" => handler'[h].pc = "load"
      /\ handler[h].event # "OPEN" => UNCHANGED <<configuration, unwatched>>
  BY FoundListener
<1>2. Configures(h)
  BY <1>1 DEF Configures, Running
<1>3. ASSUME NEW w \in Current, openWorkspaceIds = {w.id}, Reloading(w) \/ Configured(w)
      PROVE  Reloading(w)' \/ Configured(w)'
  <2>1. CASE handler[h].event = "OPEN"
    <3>1. handler[h].id = w.id
      BY <1>2, <1>3 DEF GatewaySound, OneSubject
    <3> QED
      BY <1>1, <2>1, <3>1 DEF Reloading
  <2>2. CASE handler[h].event # "OPEN" /\ Reloading(w)
    BY <1>1, <2>2 DEF Reloading
  <2>3. CASE handler[h].event # "OPEN" /\ Configured(w)
    <3>1. UNCHANGED <<configuration, fcl, flowJson, unwatched>>
      BY <1>1, <2>3 DEF Found
    <3>2. Notified(w) => Notified(w)'
      <4>1. ASSUME NEW g \in Handlers, handler[g].event = "JSON"
            PROVE  handler'[g] = handler[g] /\ FindAll(handler[g].read)' = FindAll(handler[g].read)
        BY <1>1, <4>1 DEF FindAll, TemporaryWorkspaces, service
      <4> QED
        BY <4>1 DEF Notified, IdsOf
    <3> QED
      BY <2>3, <3>1, <3>2, ConfiguredKept
  <2> QED
    BY <1>3, <2>1, <2>2, <2>3
<1> QED
  BY <1>3, FoundSettings, ConfigurationMoves DEF service

(* A listener that goes on keeps its settings.                             *)
LEMMA StartsKept ==
    ASSUME UNCHANGED temporaryWorkspaceLookup, NEW h \in Handlers,
           handler[h].pc \in {"load", "stop"}, handler[h].event \in {"OPEN", "UPDATE"},
           \A g \in Handlers \ {h} : handler'[g] = handler[g],
           handler'[h].pc = "start", handler'[h].event = handler[h].event,
           handler'[h].id = handler[h].id, handler'[h].path = handler[h].path
    PROVE  /\ Configures(h) /\ Settings(h) = {[id |-> handler[h].id, path |-> handler[h].path]}
           /\ \A g \in Handlers : Configures(g)' => Configures(g) /\ handler'[g].id = handler[g].id
           /\ Doomed => Doomed'
           /\ \A w : /\ Agreed(w) => Agreed(w)'
                     /\ handler[h].pc = "stop" /\ Reloading(w) => Reloading(w)'
                     /\ Notified(w) => Notified(w)'
<1>1. Configures(h) /\ Configures(h)'
  BY DEF Configures, Running
<1>2. /\ Settings(h) = {[id |-> handler[h].id, path |-> handler[h].path]}
      /\ Settings(h)' = Settings(h)
  BY DEF Settings
<1>3. ASSUME NEW g \in Handlers
      PROVE  handler'[g].id = handler[g].id /\ (Configures(g)' <=> Configures(g)) /\ Settings(g)' = Settings(g)
  <2>1. CASE g = h
    BY <1>1, <1>2, <2>1
  <2>2. CASE g # h
    BY <2>2, SameListener
  <2> QED
    BY <2>1, <2>2
<1>4. Doomed => Doomed'
  BY <1>3 DEF Doomed
<1>5. ASSUME NEW w, Agreed(w) PROVE Agreed(w)'
  BY <1>3, <1>5 DEF Agreed
<1>6. ASSUME NEW w, handler[h].pc = "stop", Reloading(w) PROVE Reloading(w)'
  BY <1>6 DEF Reloading
<1>7. ASSUME NEW w, Notified(w) PROVE Notified(w)'
  <2>1. PICK g \in Handlers : /\ handler[g].event = "JSON" /\ handler[g].pc = "find"
                              /\ handler[g].read.ok => w.id \in IdsOf(FindAll(handler[g].read))
    BY <1>7 DEF Notified
  <2>2. handler'[g] = handler[g]
    BY <2>1
  <2>3. FindAll(handler[g].read)' = FindAll(handler[g].read)
    BY <2>2 DEF FindAll, TemporaryWorkspaces
  <2> QED
    BY <2>1, <2>2, <2>3 DEF Notified, IdsOf
<1> QED
  BY <1>1, <1>2, <1>3, <1>4, <1>5, <1>6, <1>7

LEMMA SubjectOf ==
    ASSUME GatewaySound, NEW h \in Handlers, Configures(h),
           Settings(h) = {[id |-> handler[h].id, path |-> handler[h].path]},
           NEW w, openWorkspaceIds = {w.id}, Agreed(w)
    PROVE  handler[h].id = w.id /\ handler[h].path = w.path
<1>1. handler[h].id = w.id
  BY DEF GatewaySound, OneSubject
<1>2. w = [id |-> handler[h].id, path |-> handler[h].path]
  BY <1>1 DEF Agreed
<1> QED
  BY <1>1, <1>2

LEMMA ConfigLoadedGateway ==
    ASSUME TypeInv, ListenerInv, LoadInv, ~doubled, GatewaySound, UNCHANGED <<service, window, saved>>,
           NEW h \in Handlers, ConfigLoaded(h)
    PROVE  GatewaySound'
<1> USE DEF TypeInv
<1>1. /\ handler[h].pc = "load" /\ handler[h].event = "OPEN"
      /\ config' = Loaded(handler[h].path, handler[h].content)
      /\ Configure(config', handler[h].path)
      /\ UNCHANGED <<workingDirectoryPath, flowJson, unwatched>>
  BY DEF ConfigLoaded, ListenerInv, history
<1>2. /\ handler[h].path = workingDirectoryPath /\ handler[h].path \in Paths
      /\ \A x \in Watchers : ~watcher[x].loading
      /\ handler[h].path \notin unwatched => handler[h].content = flowJson[handler[h].path]
  BY <1>1 DEF LoadInv, ConfigurationInv
<1>3. \A x \in Watchers : ~watcher'[x].loading
  <2>1. PICK y \in Watchers :
          watcher' = [watcher EXCEPT ![y] =
                [NoWatcher EXCEPT !.path = workingDirectoryPath,
                                  !.live = flowJson[workingDirectoryPath] # None]]
    BY DEF ConfigLoaded, CanAttach, Attach
  <2> QED
    BY <1>2, <2>1 DEF ConfigurationInv, NoWatcher
<1>4. ASSUME NEW w \in Current, openWorkspaceIds = {w.id}, Agreed(w)
      PROVE  Configured(w)'
  <2>1. handler[h].path = w.path
    BY <1>1, <1>4, ListenerStarts, StartsKept, SubjectOf DEF service
  <2>2. fcl'.api = w.path /\ workingDirectoryPath' = w.path
    BY <1>1, <1>2, <2>1 DEF Configure
  <2>3. ASSUME flowJson'[w.path] \notin {None, Broken}, w.path \notin unwatched'
        PROVE  Seen(w)'
    <3>1. handler[h].content = flowJson[w.path] /\ flowJson[w.path] \in 1..5
      BY <1>1, <1>2, <2>1, <2>3 DEF ConfigurationInv, Contents
    <3>2. config' = [path |-> w.path, version |-> flowJson[w.path]]
      BY <1>1, <2>1, <2>3, <3>1 DEF Loaded
    <3>3. config' # None
      BY <1>2, <2>1, <3>1, <3>2, NoneAssumption
    <3>4. fcl'.flowJSON = config'
      BY <1>1, <3>3 DEF Configure
    <3> QED
      BY <1>1, <1>3, <3>2, <3>4 DEF Seen, Following
  <2> QED
    BY <2>2, <2>3 DEF Configured
<1> QED
  BY <1>1, <1>4, ListenerStarts, StartsKept, ConfigurationMoves DEF service

LEMMA StoppedGateway ==
    ASSUME TypeInv, ListenerInv, GatewaySound, UNCHANGED <<service, window, saved>>,
           NEW h \in Handlers, Stopped(h), handler[h].event # "CLOSE"
    PROVE  GatewaySound'
<1> USE DEF TypeInv
<1>1. /\ handler[h].pc = "stop" /\ handler[h].event \in {"OPEN", "UPDATE"}
      /\ Configure(config, handler[h].path)
      /\ UNCHANGED <<configuration, flowJson, unwatched>>
  BY DEF Stopped, ListenerInv, ConfigurationInv, HandlerType, history
<1>2. ASSUME NEW w \in Current, openWorkspaceIds = {w.id}, Agreed(w), Configured(w)
      PROVE  Configured(w)'
  <2>1. handler[h].path = w.path
    BY <1>1, <1>2, ListenerStarts, StartsKept, SubjectOf DEF service
  <2>2. fcl'.api = w.path
    BY <1>1, <2>1 DEF Configure
  <2>3. ASSUME Seen(w), w.path \in Paths, flowJson[w.path] \notin {None, Broken} PROVE Seen(w)'
    <3>1. ASSUME Following(w.path) PROVE fcl'.flowJSON = config'
      <4>1. config = [path |-> w.path, version |-> flowJson[w.path]] /\ flowJson[w.path] \in 1..5
        BY <2>3, <3>1 DEF Following, ConfigurationInv, Contents
      <4>2. config # None
        BY <2>3, <4>1, NoneAssumption
      <4> QED
        BY <1>1, <4>2 DEF Configure, configuration
    <3> QED
      BY <1>1, <2>3, <3>1 DEF Seen, Following, configuration
  <2>4. w.path \in Paths
    BY <1>2, CurrentTyped DEF Workspace
  <2> QED
    BY <1>1, <1>2, <2>2, <2>3, <2>4 DEF Configured, configuration
<1> QED
  BY <1>1, <1>2, ListenerStarts, StartsKept, ConfigurationMoves DEF service

LEMMA EndedGateway ==
    ASSUME TypeInv, ListenerInv, GatewaySound, UNCHANGED <<service, window, saved>>, NEW h \in Handlers,
           StopFails(h) \/ Started(h) \/ (Stopped(h) /\ handler[h].event = "CLOSE")
    PROVE  GatewaySound'
<1> USE DEF TypeInv
<1>1. /\ handler[h].pc \in {"stop", "start"} /\ handler[h].event # "JSON"
      /\ UNCHANGED <<configuration, fcl, flowJson, unwatched>>
  BY DEF StopFails, Started, Stopped, ListenerInv, history
<1>2. handler'[h] = IdleHandler /\ \A g \in Handlers \ {h} : handler'[g] = handler[g]
  BY ListenerEnds
<1>3. ASSUME NEW w, Configured(w) PROVE Configured(w)'
  BY <1>1, <1>2, <1>3, EndedKept, ConfiguredKept DEF service
<1> QED
  BY <1>1, <1>2, <1>3, EndedKept, ConfigurationMoves DEF service

LEMMA FlowJsonGateway ==
    ASSUME TypeInv, GatewaySound, UNCHANGED <<service, window, saved>>, NEW h \in Handlers,
           FlowJsonUpdate(h), ~mixed'
    PROVE  GatewaySound'
<1> USE DEF TypeInv
<1> DEFINE all == FindAll(handler[h].read)
<1>1. /\ handler[h].pc = "find" /\ handler[h].event = "JSON" /\ handler[h].read.ok
      /\ fcl' = IF \E w \in all : w.id \in openWorkspaceIds THEN [fcl EXCEPT !.flowJSON = config] ELSE fcl
      /\ UNCHANGED <<configuration, flowJson, unwatched>>
  BY DEF FlowJsonUpdate
<1>2. handler'[h] = IdleHandler /\ \A g \in Handlers \ {h} : handler'[g] = handler[g]
  BY ListenerEnds
<1>3. fcl'.api = fcl.api /\ (fcl.flowJSON = config => fcl'.flowJSON = config)
  BY <1>1 DEF ConfigurationInv
<1>4. ASSUME NEW w \in Current, openWorkspaceIds = {w.id}, Configured(w)
      PROVE  Configured(w)'
  <2>1. ASSUME Notified(w) PROVE Notified(w)' \/ fcl'.flowJSON = config
    <3>1. PICK g \in Handlers : /\ handler[g].event = "JSON" /\ handler[g].pc = "find"
                                /\ handler[g].read.ok => w.id \in IdsOf(FindAll(handler[g].read))
      BY <2>1 DEF Notified
    <3>2. CASE g = h
      <4>1. PICK e \in all : e.id = w.id
        BY <1>1, <3>1, <3>2 DEF IdsOf
      <4>2. \E e1 \in all : e1.id \in openWorkspaceIds
        BY <1>4, <4>1
      <4> HIDE DEF all
      <4> QED
        BY <1>1, <4>2 DEF ConfigurationInv
    <3>3. CASE g # h
      <4>1. handler'[g] = handler[g]
        BY <1>2, <3>3
      <4>2. FindAll(handler[g].read)' = FindAll(handler[g].read)
        BY <4>1 DEF FindAll, TemporaryWorkspaces, service
      <4> QED
        BY <3>1, <4>1, <4>2 DEF Notified, IdsOf
    <3> QED
      BY <3>2, <3>3
  <2>2. Seen(w) => Seen(w)'
    BY <1>1, <1>3, <2>1 DEF Seen, Following, configuration
  <2> QED
    BY <1>1, <1>3, <1>4, <2>2 DEF Configured, configuration
<1>5. handler[h].event = "JSON"
  BY <1>1
<1> HIDE DEF all
<1> QED
  BY <1>2, <1>4, <1>5, EndedKept, ConfigurationMoves DEF service

LEMMA WatcherLoadsGateway ==
    ASSUME TypeInv, GatewaySound, UNCHANGED <<service, window, saved>>, NEW x \in Watchers, WatcherLoads(x)
    PROVE  GatewaySound'
<1> USE DEF TypeInv
<1> DEFINE content == flowJson[workingDirectoryPath]
           rec == [watcher[x] EXCEPT !.event = FALSE, !.loading = TRUE, !.from = workingDirectoryPath,
                                     !.content = content]
<1>1. /\ watcher' = [watcher EXCEPT ![x] = rec]
      /\ UNCHANGED <<workingDirectoryPath, fcl, flowJson, handler>>
  BY DEF WatcherLoads
<1> HIDE DEF content
<1>2. rec.loading = TRUE /\ rec.content = content
  BY DEF ConfigurationInv, WatcherType
<1> HIDE DEF rec
<1>3. watcher'[x] = rec
  BY <1>1 DEF ConfigurationInv
<1>4. ASSUME NEW w, Configured(w) PROVE Configured(w)'
  <2>1. content = flowJson[w.path]
    BY <1>4 DEF Configured, content
  <2>2. Seen(w)'
    BY <1>1, <1>2, <1>3, <2>1 DEF Seen
  <2> QED
    BY <1>1, <1>4, <2>2 DEF Configured
<1>5. \A h \in Handlers : handler'[h] = handler[h]
  BY <1>1
<1> QED
  BY <1>4, <1>5, OthersKept, ConfigurationMoves DEF service

LEMMA WatcherLoadedGateway ==
    ASSUME TypeInv, ListInv, WatchInv, LoadInv, ~raced, ~doubled, GatewaySound,
           UNCHANGED <<service, window, saved>>, NEW x \in Watchers, WatcherLoaded(x)
    PROVE  GatewaySound'
<1> USE DEF TypeInv
<1> DEFINE rec == [watcher[x] EXCEPT !.loading = FALSE, !.from = None, !.content = None]
<1>1. /\ watcher[x].loading /\ config' = Loaded(watcher[x].from, watcher[x].content)
      /\ watcher' = [watcher EXCEPT ![x] = rec]
      /\ UNCHANGED <<workingDirectoryPath, fcl, flowJson, unwatched>>
  BY DEF WatcherLoaded, history
<1>2. ~rec.loading /\ rec.live = watcher[x].live /\ rec.event = watcher[x].event
  BY DEF ConfigurationInv, WatcherType
<1> HIDE DEF rec
<1>3. \A y \in Watchers : watcher'[y] = IF y = x THEN rec ELSE watcher[y]
  BY <1>1 DEF ConfigurationInv
<1>4. PICK h \in Handlers :
        /\ ~Running(h)
        /\ handler'[h].pc = "find" /\ handler'[h].event = "JSON" /\ handler'[h].read = Read
        /\ \A g \in Handlers \ {h} : handler'[g] = handler[g]
  BY WatcherTells
<1>5. /\ watcher[x].live /\ watcher[x].from = workingDirectoryPath
      /\ watcher[x].event \/ watcher[x].content = flowJson[workingDirectoryPath]
      /\ \A y \in Watchers : watcher[y].loading => y = x
  BY <1>1 DEF LoadInv, WatchInv
<1>6. ASSUME NEW w \in Current PROVE Notified(w)'
  <2>1. ASSUME Read.ok PROVE w.id \in IdsOf(FindAll(handler[h].read)')
    <3>1. Read.list = saved
      BY <2>1, FreshRead
    <3>2. FindAll(handler[h].read)' = Current
      BY <1>4, <3>1 DEF FindAll, TemporaryWorkspaces, Current, service
    <3> QED
      BY <1>6, <3>2 DEF IdsOf
  <2> QED
    BY <1>4, <2>1 DEF Notified, IdsOf
<1>7. ASSUME NEW w \in Current, Configured(w) PROVE Configured(w)'
  <2>1. workingDirectoryPath = w.path
    BY <1>7 DEF Configured
  <2>2. ASSUME flowJson[w.path] \notin {None, Broken} PROVE Seen(w)'
    <3>1. CASE watcher[x].event
      BY <1>2, <1>3, <1>5, <3>1 DEF Seen
    <3>2. CASE ~watcher[x].event
      <4>1. config' = [path |-> w.path, version |-> flowJson[w.path]]
        BY <1>1, <1>5, <2>1, <2>2, <3>2 DEF Loaded
      <4>2. \A y \in Watchers : ~watcher'[y].loading
        BY <1>2, <1>3, <1>5
      <4> QED
        BY <1>1, <1>6, <4>1, <4>2 DEF Seen, Following
    <3> QED
      BY <3>1, <3>2
  <2> QED
    BY <1>1, <1>7, <2>2 DEF Configured
<1>8. \A g \in Handlers : handler'[g] = handler[g] \/ (~Running(g) /\ ~Configures(g)')
  BY <1>4 DEF Configures
<1> QED
  BY <1>7, <1>8, OthersKept, ConfigurationMoves DEF service

LEMMA EditFlowJsonGateway ==
    ASSUME TypeInv, GatewaySound, UNCHANGED <<service, window, saved>>, NEW p \in Paths, EditFlowJson(p)
    PROVE  GatewaySound'
<1> USE DEF TypeInv
<1>1. /\ UNCHANGED <<workingDirectoryPath, config, fcl, handler>>
      /\ \A q \in Paths \ {p} : flowJson'[q] = flowJson[q]
      /\ unwatched' = IF \E x \in Watchers : watcher[x].live /\ watcher[x].path = p
                      THEN unwatched ELSE unwatched \cup {p}
      /\ watcher' = [x \in Watchers |->
            IF watcher[x].live /\ watcher[x].path = p THEN [watcher[x] EXCEPT !.event = TRUE]
            ELSE watcher[x]]
  BY DEF EditFlowJson, ConfigurationInv
<1>2. \A y \in Watchers :
        /\ watcher'[y].live = watcher[y].live /\ watcher'[y].loading = watcher[y].loading
        /\ watcher'[y].content = watcher[y].content
        /\ watcher[y].event => watcher'[y].event
        /\ watcher[y].live /\ watcher[y].path = p => watcher'[y].event
  BY <1>1 DEF ConfigurationInv, WatcherType
<1>3. \A h \in Handlers : handler'[h] = handler[h]
  BY <1>1
<1>4. ASSUME NEW w, Notified(w) PROVE Notified(w)'
  BY <1>3, <1>4, OthersKept DEF service
<1>5. ASSUME NEW w \in Current, Configured(w) PROVE Configured(w)'
  <2>1. w.path \in Paths
    BY <1>5, CurrentTyped DEF Workspace
  <2>2. CASE w.path # p
    <3>1. flowJson'[w.path] = flowJson[w.path] /\ (w.path \in unwatched' <=> w.path \in unwatched)
      BY <1>1, <2>1, <2>2
    <3>2. Seen(w) => Seen(w)'
      BY <1>1, <1>2, <1>4, <3>1 DEF Seen, Following
    <3> QED
      BY <1>1, <1>5, <3>1, <3>2 DEF Configured
  <2>3. CASE w.path = p
    <3>1. CASE \E x \in Watchers : watcher[x].live /\ watcher[x].path = p
      <4>1. Seen(w)'
        BY <1>2, <3>1 DEF Seen
      <4> QED
        BY <1>1, <1>5, <4>1 DEF Configured
    <3>2. CASE ~\E x \in Watchers : watcher[x].live /\ watcher[x].path = p
      <4>1. w.path \in unwatched'
        BY <1>1, <2>3, <3>2
      <4> QED
        BY <1>1, <1>5, <4>1 DEF Configured
    <3> QED
      BY <3>1, <3>2
  <2> QED
    BY <2>2, <2>3
<1> QED
  BY <1>3, <1>5, OthersKept, ConfigurationMoves DEF service

---------------------------------------------------------------------------
(* GatewayFollowsFile, from all of it. *)

(* Requests overlapped, or listeners did, before a step or because of it.  *)
LEMMA CalmBefore ==
    ASSUME TypeInv, [Next]_vars, Calm', ~\E r \in Requests : Opened(r)
    PROVE  Calm
<1>1. ASSUME NEW r \in Requests, Proceed(r)
      PROVE  Calm
  <2>1. CASE Returned(r) /\ request[r].op = "update"
    <3>1. PICK w : Emit("UPDATE", w)
      BY <2>1 DEF Returned
    <3>2. mixed' = (mixed \/ Conflicts(w))
      BY <3>1, Zenon DEF Emit
    <3> QED
      BY <2>1, <3>2 DEF Returned, Calm
  <2>2. CASE ~(Returned(r) /\ request[r].op = "update")
    BY <1>1, <2>2 DEF Proceed, OpenFails, SaveAll, SaveFails, Written, Returned, Refetched, Calm, history
  <2> QED
    BY <2>1, <2>2
<1>2. ASSUME NEW r \in Requests, Asks(r)
      PROVE  Calm
  <2>1. raced => raced'
    <3>1. ASSUME NEW op, NEW w, NEW pc, Ask(r, op, w, pc) PROVE raced => raced'
      BY <3>1 DEF Ask
    <3> QED
      BY <1>2, <3>1 DEF Asks, CloseWorkspace, SaveWorkspace, ConfirmRemove, OpenWorkspace, OpenTemporaryWorkspace
  <2>2. mixed' = mixed /\ doubled' = doubled
    BY <1>2 DEF Asks, CloseWorkspace, SaveWorkspace, ConfirmRemove, OpenWorkspace, OpenTemporaryWorkspace, Emit
  <2> QED
    BY <2>1, <2>2 DEF Calm
<1>3. ASSUME NEW h \in Handlers, Listen(h)
      PROVE  Calm
  <2>1. CASE Found(h)
    <3>1. doubled => doubled'
      <4>1. CASE handler[h].event = "OPEN"
        BY <2>1, <4>1 DEF Found
      <4>2. CASE handler[h].event # "OPEN"
        BY <2>1, <4>2 DEF Found
      <4> QED
        BY <4>1, <4>2
    <3>2. mixed' = mixed /\ raced' = raced
      BY <2>1 DEF Found
    <3> QED
      BY <3>1, <3>2 DEF Calm
  <2>2. CASE NotFound(h) \/ FlowJsonUpdate(h)
    <3>1. FlowJsonUpdate(h) => mixed' = (mixed \/ ~handler[h].read.ok)
      BY Zenon DEF FlowJsonUpdate
    <3>2. NotFound(h) => mixed' = TRUE
      BY DEF NotFound
    <3>3. raced' = raced /\ doubled' = doubled
      BY <2>2, Zenon DEF NotFound, FlowJsonUpdate
    <3> QED
      BY <2>2, <3>1, <3>2, <3>3 DEF Calm
  <2>3. CASE ConfigLoaded(h) \/ Stopped(h) \/ StopFails(h) \/ Started(h)
    BY <2>3 DEF ConfigLoaded, Stopped, StopFails, Started, Calm, history
  <2> QED
    BY <1>3, <2>1, <2>2, <2>3 DEF Listen
<1>4. ASSUME NEW x \in Watchers, Watch(x)
      PROVE  Calm
  BY <1>4 DEF Watch, WatcherLoads, WatcherLoaded, Calm, history
<1>5. CASE \E p \in Paths : EditFlowJson(p)
  BY <1>5 DEF EditFlowJson, Calm
<1>6. CASE UNCHANGED history
  BY <1>6 DEF history, Calm
<1> QED
  BY <1>1, <1>2, <1>3, <1>4, <1>5, <1>6, NextParts, WindowLeaves DEF vars

LEMMA GatewayStep ==
    /\ TypeInv /\ WatchInv /\ ListInv /\ TemporaryInv /\ CreateInv /\ ListenerInv /\ LoadInv
    /\ GatewayInv /\ [Next]_vars
    => GatewayInv'
<1> SUFFICES ASSUME TypeInv, WatchInv, ListInv, TemporaryInv, CreateInv, ListenerInv, LoadInv,
                    GatewayInv, [Next]_vars, Calm'
             PROVE  GatewaySound'
  BY DEF GatewayInv
<1>1. ASSUME NEW r \in Requests, Opened(r)
      PROVE  GatewaySound'
  BY <1>1, OpenedGateway
<1>2. CASE ~\E r \in Requests : Opened(r)
  <2>1. Calm /\ GatewaySound
    BY <1>2, CalmBefore DEF GatewayInv
  <2>2. ~raced /\ ~doubled /\ ~mixed'
    BY <2>1 DEF Calm
  <2>3. ASSUME NEW r \in Requests, Proceed(r)
        PROVE  GatewaySound'
    <3>1. CASE OpenFails(r) \/ SaveFails(r) \/ Refetched(r)
      BY <2>1, <2>2, <3>1, EndsGateway
    <3>2. CASE SaveAll(r)
      BY <2>1, <3>2, SaveAllGateway
    <3>3. CASE Written(r)
      BY <2>1, <3>3, WrittenGateway
    <3>4. CASE Returned(r) /\ request[r].op # "update"
      BY <2>1, <3>4, RemovedGateway
    <3>5. CASE Returned(r) /\ request[r].op = "update"
      BY <3>5, UpdatedGateway
    <3> QED
      BY <1>2, <2>3, <3>1, <3>2, <3>3, <3>4, <3>5 DEF Proceed
  <2>4. ASSUME NEW r \in Requests, Asks(r)
        PROVE  GatewaySound'
    BY <2>1, <2>4, AsksGateway
  <2>5. ASSUME NEW h \in Handlers, Listen(h)
        PROVE  GatewaySound'
    <3>1. UNCHANGED <<service, window, saved>>
      BY <2>5, ListenersLeave
    <3>2. CASE Found(h)
      BY <2>1, <3>1, <3>2, FoundGateway
    <3>3. CASE NotFound(h)
      BY <2>2, <3>3 DEF NotFound
    <3>4. CASE ConfigLoaded(h)
      BY <2>1, <2>2, <3>1, <3>4, ConfigLoadedGateway
    <3>5. CASE Stopped(h) /\ handler[h].event # "CLOSE"
      BY <2>1, <3>1, <3>5, StoppedGateway
    <3>6. CASE StopFails(h) \/ Started(h) \/ (Stopped(h) /\ handler[h].event = "CLOSE")
      BY <2>1, <3>1, <3>6, EndedGateway
    <3>7. CASE FlowJsonUpdate(h)
      BY <2>1, <2>2, <3>1, <3>7, FlowJsonGateway
    <3> QED
      BY <2>5, <3>2, <3>3, <3>4, <3>5, <3>6, <3>7 DEF Listen
  <2>6. ASSUME NEW x \in Watchers, Watch(x)
        PROVE  GatewaySound'
    <3>1. UNCHANGED <<service, window, saved>>
      BY <2>6, ListenersLeave
    <3> QED
      BY <2>1, <2>2, <2>6, <3>1, WatcherLoadsGateway, WatcherLoadedGateway DEF Watch
  <2>7. ASSUME NEW p \in Paths, EditFlowJson(p)
        PROVE  GatewaySound'
    <3>1. UNCHANGED <<service, window, saved>>
      BY <2>7, ListenersLeave
    <3> QED
      BY <2>1, <2>7, <3>1, EditFlowJsonGateway
  <2>8. CASE WindowStep
    BY <2>1, <2>8, WindowGateway
  <2>9. CASE UNCHANGED vars
    <3>1. UNCHANGED <<service, window, saved, configuration, fcl, flowJson, unwatched, handler>>
      BY <2>9 DEF vars, history
    <3>2. \A h \in Handlers : handler'[h] = handler[h]
      BY <3>1
    <3> QED
      BY <2>1, <3>1, <3>2, OthersKept, ConfiguredKept, ConfigurationMoves DEF service
  <2> QED
    BY <2>3, <2>4, <2>5, <2>6, <2>7, <2>8, <2>9, NextParts
<1> QED
  BY <1>1, <1>2

LEMMA InitCalm ==
    Init => TemporaryInv /\ CreateInv /\ ListenerInv /\ LoadInv /\ GatewayInv
<1> SUFFICES ASSUME Init PROVE TemporaryInv /\ CreateInv /\ ListenerInv /\ LoadInv /\ GatewayInv
  OBVIOUS
<1>1. \A h \in Handlers : handler[h].pc = "idle"
  BY DEF Init, IdleHandler
<1>2. \A r \in Requests : Idle(r)
  BY DEF Init, Idle, IdleRequest
<1>3. page.name = "projects"
  BY DEF Init, ProjectsPage
<1>4. openWorkspaceIds = {} /\ projects = {}
  BY DEF Init
<1>5. TemporaryInv
  BY <1>1, <1>2, <1>3, <1>4 DEF Init, TemporaryInv, NothingTemporary, Configures, Running, IdsOf
<1>6. CreateInv
  BY <1>2, <1>3 DEF Init, CreateInv
<1>7. ListenerInv
  BY <1>1 DEF ListenerInv
<1>8. LoadInv
  BY <1>1 DEF Init, LoadInv, NoWatcher
<1>9. OneSubject /\ \A w : Agreed(w) /\ openWorkspaceIds # {w.id}
  BY <1>1, <1>4 DEF OneSubject, Agreed, Configures, Running
<1> QED
  BY <1>5, <1>6, <1>7, <1>8, <1>9 DEF GatewayInv, GatewaySound, Sound

LEMMA QuietFollows == TypeInv /\ ListInv /\ GatewayInv => GatewayFollowsFile
<1> SUFFICES ASSUME TypeInv, ListInv, GatewayInv, Quiet, ~mixed, ~doubled, ~raced,
                    NEW w \in FindAll(Read), openWorkspaceIds = {w.id},
                    flowJson[w.path] \notin {None, Broken}, w.path \notin unwatched
             PROVE  fcl = [flowJSON |-> [path |-> w.path, version |-> flowJson[w.path]], api |-> w.path]
  BY DEF GatewayFollowsFile
<1>1. \A r \in Requests : request[r].pc = "idle"
  BY DEF Quiet, AllIdle, Idle
<1>2. \A h \in Handlers : handler[h].pc = "idle"
  BY DEF Quiet, Running
<1>3. w \in Current
  <2>1. Read.ok /\ Read = [ok |-> TRUE, list |-> saved]
    BY <1>1, FreshRead
  <2> QED
    BY <2>1, FoundInCurrent
<1>4. Sound(w)
  BY <1>3 DEF GatewayInv, GatewaySound, Calm
<1>5. Served(w)
  BY <1>1, <1>2, <1>4 DEF Sound, Doomed, Configures, Running, Saving, Saves, Creating
<1>6. Configured(w)
  BY <1>1, <1>2, <1>5 DEF Served, Opening, Opens, Reloading
<1>7. Following(w.path) /\ fcl.flowJSON = config
  BY <1>2, <1>6 DEF Configured, Seen, Notified, Quiet
<1> QED
  BY <1>6, <1>7 DEF Configured, Following, TypeInv, ConfigurationInv

(* Whatever was opened, changed, closed and removed, by however many       *)
(* requests and listeners, once all of them are done the gateway works     *)
(* with the settings of the workspace that is open and with its            *)
(* flow.json, as they are then (flowser-app.service.ts:249-306), unless    *)
(* flow.json does not parse, was changed while nobody watched it, listeners*)
(* of two workspaces or of other settings mixed or failed, two reloads     *)
(* overlapped, or two writers of the list did; and these come about in no  *)
(* other way than ListenersMix, ReloadsOverlap, WritersOverlap and         *)
(* EditUnseen say.                                                         *)
THEOREM GatewayKeepsUp == Spec => []GatewayFollowsFile /\ [][Exclusions]_vars
<1> DEFINE Inv == /\ WatchInv /\ ListInv /\ TemporaryInv /\ CreateInv /\ ListenerInv /\ LoadInv
                  /\ GatewayInv
<1>1. Init => Inv
  <2>1. Init => WatchInv
    BY DEF Init, WatchInv, NoWatcher, IdleHandler
  <2>2. Init => ListInv
    BY InitList
  <2> QED
    BY <2>1, <2>2, InitCalm
<1>2. TypeInv /\ Inv /\ [Next]_vars => Inv'
  BY WatchStep, ListStep, TemporaryStep, CreateStep, ListenerStep, LoadStep, GatewayStep
<1>3. TypeInv /\ Inv => GatewayFollowsFile
  BY QuietFollows
<1>4. TypeInv /\ [Next]_vars => [Exclusions]_vars
  BY ExclusionsArise
<1> HIDE DEF Inv
<1> QED
  BY <1>1, <1>2, <1>3, <1>4, TypeInvariant, PTL DEF Spec
===============================================================================
