---------------------------- MODULE FlowserApp ----------------------------
(***************************************************************************)
(* The desktop application: what FlowserAppService does when the user      *)
(* opens, closes or saves the settings of a workspace (WorkspaceService),  *)
(* with the emulator in the process table of ProcessManager.               *)
(*                                                                         *)
(* WorkspaceService emits an event and returns; the listener is an         *)
(* asynchronous handler that nobody waits for, so that the handlers of     *)
(* later requests run between its steps.  A handler has one call into the  *)
(* process table at a time, which it is named after.                       *)
(*                                                                         *)
(* Left out: the dev wallet, which is started and stopped like the         *)
(* emulator, removing a workspace, and emulators that the user starts.     *)
(* All workspaces use the same port.                                       *)
(***************************************************************************)
EXTENDS ProcessManager

CONSTANTS
    Workspaces,
    MaxSaves        \* bound on how often the settings of a workspace are saved

ASSUME AppAssumption == Workspaces # {} /\ None \notin Workspaces /\ MaxSaves \in Nat

Emulator == "emulator"

(* The emulator is all there is in the process table; a handler is the     *)
(* member of Calls it makes its calls with.                                *)
ASSUME TableAssumption == Emulator \in Ids /\ {"start", "remove"} \subseteq Ops

VARIABLES
    options,            \* the workspace and settings a ManagedProcess was made for
    reachable,          \* the child whose REST API answers
    settings,           \* the settings of each workspace that are saved
    openWorkspaceIds,
    opening,            \* the workspace the settings form opens after saving
    handler,
    scheduler,          \* is the processingScheduler running
    fileName,           \* the workspace of the wallet and snapshots files
    tainted,            \* history: since all was last closed a handler failed, a second
                        \* workspace was opened, or a request came before the handlers
                        \* of earlier ones were done (save and open count as one)
    collided            \* history: two handlers had a call into the process table at
                        \* the same time

processes == vars
user == <<settings, openWorkspaceIds, opening>>
history == <<tainted, collided>>
appVars == <<processes, options, reachable, user, handler, scheduler, fileName, history>>

Options == [workspace : Workspaces, settings : 0..MaxSaves]

Handler == [ pc : {"idle", "find", "configure", "probe", "starting", "stopping", "sync"},
             event : {"OPEN", "CLOSE", "UPDATE"},
             workspace : Options ]        \* what findByIdOrThrow returned

AppTypeOK ==
    /\ TypeOK
    /\ options \in [Procs -> Options]
    /\ reachable \in Children \cup {None}
    /\ settings \in [Workspaces -> 0..MaxSaves]
    /\ openWorkspaceIds \in SUBSET Workspaces
    /\ opening \in Workspaces \cup {None}
    /\ handler \in [Calls -> Handler]
    /\ scheduler \in BOOLEAN
    /\ fileName \in Workspaces \cup {None}
    /\ tainted \in BOOLEAN
    /\ collided \in BOOLEAN

AnyOptions == CHOOSE o \in Options : TRUE

IdleHandler == [pc |-> "idle", event |-> "OPEN", workspace |-> AnyOptions]

AppInit ==
    /\ Init
    /\ options = [o \in Procs |-> AnyOptions]
    /\ reachable = None
    /\ settings = [w \in Workspaces |-> 0]
    /\ openWorkspaceIds = {}
    /\ opening = None
    /\ handler = [h \in Calls |-> IdleHandler]
    /\ scheduler = FALSE
    /\ fileName = None
    /\ tainted = FALSE
    /\ collided = FALSE

---------------------------------------------------------------------------

At(h, pc) == handler[h].pc = pc

GoTo(h, pc) == handler' = [handler EXCEPT ![h].pc = pc]
Finish(h) == handler' = [handler EXCEPT ![h] = IdleHandler]

(* The call a handler awaits has come back: the handler runs on as a       *)
(* microtask, before anything but the other microtasks.                    *)
Ready(h) == handler[h].pc \in {"starting", "stopping"} /\ call[h].pc = "idle"

AppQuiet == Quiet /\ \A h \in Calls : ~Ready(h)

Entry == processLookupById[Emulator]

(* A handler makes a call into the process table.                          *)
Calling(h) == collided' = (collided \/ \E k \in Calls \ {h} : call[k].pc # "idle")

(* remove("emulator"), which returns at once if there is no entry.         *)
StopEmulator(h) ==
    IF Entry = None THEN UNCHANGED <<processes, collided>>
    ELSE StopEntry(h, Emulator, "remove") /\ Calling(h)

---------------------------------------------------------------------------
(* Requests of the user interface *)

UnderWay(H) == \E h \in H : ~At(h, "idle")

(* Bound: no request comes after calls have collided; after the first      *)
(* failure or early request, only the open of a save comes early, until    *)
(* all is closed.                                                          *)
RequestBound == ~collided /\ (tainted /\ opening = None => ~UnderWay(Calls))

(* Which of the handlers that are not in use is taken is all the same.     *)
CanRequest(h) ==
    LET free == {k \in Calls : At(k, "idle") /\ call[k].pc = "idle"}
    IN  AppQuiet /\ RequestBound /\ h \in free /\ h = CHOOSE k \in free : TRUE

Emit(h, event, w, pc) ==
    handler' = [handler EXCEPT ![h] =
        [pc |-> pc, event |-> event, workspace |-> [workspace |-> w, settings |-> settings[w]]]]

(* WorkspaceService.open, of a workspace in the list or one that was saved *)
Open(h, w) ==
    /\ CanRequest(h)
    /\ opening \in {None, w}
    /\ w \notin openWorkspaceIds \/ opening = w
    /\ openWorkspaceIds' = openWorkspaceIds \cup {w}
    /\ opening' = None
    /\ tainted' = (tainted \/ openWorkspaceIds \ {w} # {} \/ (opening = None /\ UnderWay(Calls)))
    /\ Emit(h, "OPEN", w, "find")
    /\ UNCHANGED <<processes, options, reachable, settings, scheduler, fileName, collided>>

\* Mutant of Close: the listener does not wait for the emulator.
CloseNotAwaited(h, w) ==
    /\ CanRequest(h)
    /\ opening = None
    /\ w \in openWorkspaceIds
    /\ openWorkspaceIds' = openWorkspaceIds \ {w}
    /\ Finish(h)
    /\ scheduler' = FALSE
    /\ StopEmulator(h)
    /\ tainted' = (tainted \/ UnderWay(Calls))
    /\ UNCHANGED <<options, reachable, settings, opening, fileName>>

(* WorkspaceService.close; the listener calls stop() before it awaits.     *)
Close(h, w) ==
    /\ CanRequest(h)
    /\ opening = None
    /\ w \in openWorkspaceIds
    /\ openWorkspaceIds' = openWorkspaceIds \ {w}
    /\ Emit(h, "CLOSE", w, "stopping")
    /\ StopEmulator(h)
    /\ tainted' = (tainted \/ UnderWay(Calls))
    /\ UNCHANGED <<options, reachable, settings, opening, scheduler, fileName>>

(* WorkspaceService.update; the form opens the workspace afterwards, while *)
(* the update is still being handled.                                      *)
Save(h, w) ==
    /\ CanRequest(h)
    /\ opening = None
    /\ openWorkspaceIds \subseteq {w}
    /\ settings[w] < MaxSaves
    /\ settings' = [settings EXCEPT ![w] = @ + 1]
    /\ opening' = w
    /\ tainted' = (tainted \/ UnderWay(Calls))
    /\ Emit(h, "UPDATE", w, "find")
    /\ UNCHANGED <<processes, options, reachable, openWorkspaceIds, scheduler, fileName, collided>>

---------------------------------------------------------------------------
(* FlowserAppService *)

\* Mutant of Find: an update reindexes without a stop of the emulator.
FindWithoutStop(h) ==
    /\ AppQuiet
    /\ At(h, "find")
    /\ LET w == handler[h].workspace.workspace
       IN  Emit(h, handler[h].event, w, IF handler[h].event = "OPEN" THEN "configure" ELSE "probe")
    /\ UNCHANGED <<processes, options, reachable, user, scheduler, fileName, history>>

(* findByIdOrThrow *)
Find(h) ==
    /\ AppQuiet
    /\ At(h, "find")
    /\ LET w == handler[h].workspace.workspace
       IN  Emit(h, handler[h].event, w, IF handler[h].event = "OPEN" THEN "configure" ELSE "stopping")
    /\ IF handler[h].event = "OPEN" THEN UNCHANGED <<processes, collided>> ELSE StopEmulator(h)
    /\ UNCHANGED <<options, reachable, user, scheduler, fileName, tainted>>

(* onWorkspaceOpen after flow.json has been read.                          *)
Configure(h) ==
    /\ AppQuiet
    /\ At(h, "configure")
    /\ fileName' = handler[h].workspace.workspace
    /\ GoTo(h, "probe")
    /\ UNCHANGED <<processes, options, reachable, user, scheduler, history>>

(* After the stop: the rest of onWorkspaceClose or onWorkspaceUpdate.      *)
Stopped(h) ==
    /\ Ready(h)
    /\ At(h, "stopping")
    /\ IF handler[h].event = "CLOSE"
       THEN /\ Finish(h)
            /\ scheduler' = FALSE
            /\ tainted' = (tainted /\ (openWorkspaceIds # {} \/ opening # None \/ UnderWay(Calls \ {h})))
       ELSE GoTo(h, "probe") /\ UNCHANGED <<scheduler, tainted>>
    /\ UNCHANGED <<processes, options, reachable, user, fileName, collided>>

(* startAndReindexEmulator once the emulator is there.                     *)
Reindex(h) == GoTo(h, "sync") /\ scheduler' = TRUE

(* Which of the free objects becomes the new ManagedProcess is all the     *)
(* same.                                                                   *)
NewProc ==
    LET free == {o \in Procs : Collectable(o)}
    IN  IF free = {} THEN {} ELSE {CHOOSE o \in free : TRUE}

(* isRestApiReachable is true.  It may be so for an emulator that was told *)
(* to stop.                                                                *)
Online(h) ==
    /\ AppQuiet
    /\ At(h, "probe")
    /\ reachable # None
    /\ Reindex(h)
    /\ UNCHANGED <<processes, options, reachable, user, fileName, history>>

Offline(h) ==
    /\ AppQuiet
    /\ At(h, "probe")
    /\ reachable \in {None} \cup signalled
    /\ GoTo(h, "starting")
    /\ \/ \E o \in NewProc :
            /\ StartNew(h, Emulator, o, "start")
            /\ options' = [options EXCEPT ![o] = handler[h].workspace]
       \/ /\ StartExisting(h, Emulator, "start")
          /\ UNCHANGED options
    /\ Calling(h)
    /\ UNCHANGED <<reachable, user, scheduler, fileName, tainted>>

Started(h) ==
    /\ Ready(h)
    /\ At(h, "starting")
    /\ Reindex(h)
    /\ UNCHANGED <<processes, options, reachable, user, fileName, history>>

(* The wallet and the snapshots are synchronized: their files are written. *)
Synchronized(h) ==
    /\ AppQuiet
    /\ At(h, "sync")
    /\ fileName # None
    /\ Finish(h)
    /\ UNCHANGED <<processes, options, reachable, user, scheduler, fileName, history>>

(* A listener fails: a dialog is shown, the rest of it is skipped.         *)
HandlersFail(H) ==
    /\ handler' = [h \in Calls |-> IF h \in H THEN IdleHandler ELSE handler[h]]
    /\ tainted' = (tainted \/ H # {})

(* The snapshots cannot be listed, or the files have no name yet.          *)
SyncFails(h) ==
    /\ AppQuiet
    /\ At(h, "sync")
    /\ HandlersFail({h})
    /\ UNCHANGED <<processes, options, reachable, user, scheduler, fileName, collided>>

---------------------------------------------------------------------------
(* The emulator and its entry in the process table *)

EmulatorSpawned(c) ==
    /\ SpawnEvent(c)
    /\ \A h \in Calls : ~Ready(h)
    /\ UNCHANGED <<options, reachable, user, handler, scheduler, fileName, history>>

EmulatorFailed(c) ==
    /\ \A h \in Calls : ~Ready(h)
    /\ SpawnError(c)
    /\ HandlersFail({h \in Calls : call[h].pc = "starting" /\ c \in call[h].waits})
    /\ UNCHANGED <<options, reachable, user, scheduler, fileName, collided>>

(* The REST API of the emulator comes up, unless its port is taken.        *)
Serve(c) ==
    /\ AppQuiet
    /\ child[c] = "running"
    /\ reachable = None
    /\ reachable' = c
    /\ UNCHANGED <<processes, options, user, handler, scheduler, fileName, history>>

EmulatorExited(c) ==
    /\ AppQuiet
    /\ Exit(c)
    /\ reachable' = IF reachable = c THEN None ELSE reachable
    /\ UNCHANGED <<options, user, handler, scheduler, fileName, history>>

Resumed(h) ==
    /\ Resume(h)
    /\ HandlersFail(IF call[h].op = "start" /\ state[call[h].proc] = "RUNNING" THEN {h} ELSE {})
    /\ UNCHANGED <<options, reachable, user, scheduler, fileName, collided>>

StopTimedOut(h) ==
    /\ AppQuiet
    /\ StopTimeout(h)
    /\ HandlersFail({h})
    /\ UNCHANGED <<options, reachable, user, scheduler, fileName, collided>>

---------------------------------------------------------------------------

Handle(h) ==
    \/ Find(h) \/ Configure(h) \/ Stopped(h) \/ Online(h) \/ Offline(h)
    \/ Started(h) \/ Synchronized(h)

AppNext ==
    \/ \E h \in Calls, w \in Workspaces : Open(h, w) \/ Close(h, w) \/ Save(h, w)
    \/ \E h \in Calls : Handle(h) \/ SyncFails(h) \/ Resumed(h) \/ StopTimedOut(h)
    \/ \E c \in Children : EmulatorSpawned(c) \/ EmulatorFailed(c) \/ Serve(c) \/ EmulatorExited(c)

AppSpec == AppInit /\ [][AppNext]_appVars

(* The next step of a handler stays queued while the JavaScript thread is  *)
(* busy, hence SF, and a spawn is announced before anything else.  Nothing *)
(* is owed of the user, and of an emulator neither that it answers nor     *)
(* that it exits when it is told to.                                       *)
AppFairness ==
    /\ \A h \in Calls :
        SF_appVars(Handle(h) \/ SyncFails(h) \/ Resumed(h) \/ StopTimedOut(h))
    /\ WF_appVars(\E c \in Children : EmulatorSpawned(c) \/ EmulatorFailed(c))

AppFairSpec == AppSpec /\ AppFairness

---------------------------------------------------------------------------

Idle == opening = None /\ \A h \in Calls : At(h, "idle")

(* Once the handlers are done, the blocks of the workspace that is open    *)
(* are polled and its own files are used, also if it was opened by a save, *)
(* whose update and open are handled at the same time.  Unless a call of   *)
(* one handler came upon that of another, the emulator is the one that the *)
(* workspace was configured with, and no other one runs: the process table *)
(* restarts an entry with the options it was made with (process-manager.   *)
(* service.ts:85-93), so that nothing of an earlier workspace or of        *)
(* settings since changed may be left in it.                               *)
ServesWorkspace ==
    \A w \in Workspaces : (Idle /\ ~tainted /\ openWorkspaceIds = {w}) =>
        /\ scheduler
        /\ fileName = w
        /\ ~collided =>
            /\ Entry # None
            /\ options[Entry] = [workspace |-> w, settings |-> settings[w]]
            /\ \A c \in Children : child[c] # "none" => owner[c] = Entry

(* When nothing is open, nothing runs: neither the poll nor, unless calls  *)
(* came upon each other, an emulator, whatever the emulators of closed     *)
(* workspaces did (crashes, spawn errors).                                 *)
ClosedIsQuiet ==
    (Idle /\ ~tainted /\ openWorkspaceIds = {}) =>
        /\ ~scheduler
        /\ Entry = None
        /\ ~collided => \A c \in Children : child[c] = "none"

(* A handler comes to an end, with a dialog at worst, even if the handler  *)
(* of another request stops or starts the emulator it waits for.           *)
HandlersEnd == \A h \in Calls : ~At(h, "idle") ~> At(h, "idle")

===========================================================================
