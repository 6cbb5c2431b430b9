-------------------------- MODULE ProcessManager --------------------------
(***************************************************************************)
(* packages/nodejs/src/processes: the table of managed processes           *)
(* (ProcessManagerService), the objects in it (ManagedProcess) and the     *)
(* operating-system children they spawn; with the quit handling of the     *)
(* Electron main process, which relies on them.                            *)
(*                                                                         *)
(* The services run in one JavaScript thread.  An asynchronous call is a   *)
(* member of Calls; it is suspended while it awaits an event of a child.   *)
(* When an event resolves what a call awaits, the call is "ready" and runs *)
(* on as a microtask, before anything but the other ready calls; spawn()   *)
(* announces the new child on the next tick, when no call is ready.  All   *)
(* other steps need the thread to be Quiet.                                *)
(*                                                                         *)
(* Left out: the logs of a process, its command, and which of exit code    *)
(* and output a finished command returns.                                  *)
(***************************************************************************)
EXTENDS FiniteSets, Integers

CONSTANTS
    Ids,        \* process ids: "emulator", "dev-wallet", the ids of CLI commands
    Procs,      \* ManagedProcess objects; a bound on how many are referenced
    Children,   \* operating-system processes; a bound on how many are alive
    Calls,      \* asynchronous calls in flight at the same time
    Ops,        \* the operations that are called
    None        \* undefined

AllOps == {"start", "run", "stop", "remove", "restart", "stopAll", "cleanup", "terminate"}

Signals == {"SIGINT", "SIGTERM"}

ASSUME NoneAssumption == None \notin Procs \cup Children \cup AllOps
ASSUME OpsAssumption == Ops \subseteq AllOps

VARIABLES
    processLookupById,   \* the table: an object for every id that has an entry
    state,               \* ManagedProcess.state
    childProcess,        \* ManagedProcess.childProcess; None also when that child is gone
    owner,               \* the object whose listeners are attached to a child
    child,               \* what a child is doing
    signalled,           \* children that were sent a signal by stop()
    call,                \* the asynchronous calls
    app,                 \* the Electron application
    listening            \* the signals that a listener is registered for

vars == <<processLookupById, state, childProcess, owner, child, signalled, call, app, listening>>

ProcState == {"NOT_RUNNING", "RUNNING", "ERROR"}

Call == [ pc    : {"idle", "stopping", "ready", "starting", "waitOnExit", "dialog"},
          op    : AllOps \cup {None},
          id    : Ids \cup {None},
          proc  : Procs \cup {None},
          waits : SUBSET (Children \cup {None}) ]

IdleCall == [pc |-> "idle", op |-> None, id |-> None, proc |-> None, waits |-> {}]

TypeOK ==
    /\ processLookupById \in [Ids -> Procs \cup {None}]
    /\ state \in [Procs -> ProcState]
    /\ childProcess \in [Procs -> Children \cup {None}]
    /\ owner \in [Children -> Procs \cup {None}]
    /\ child \in [Children -> {"none", "spawning", "running"}]
    /\ signalled \in SUBSET Children
    /\ call \in [Calls -> Call]
    /\ app \in {"open", "closing", "exited", "killed"}
    /\ listening \in SUBSET Signals

Init ==
    /\ processLookupById = [i \in Ids |-> None]
    /\ state = [o \in Procs |-> "NOT_RUNNING"]
    /\ childProcess = [o \in Procs |-> None]
    /\ owner = [c \in Children |-> None]
    /\ child = [c \in Children |-> "none"]
    /\ signalled = {}
    /\ call = [k \in Calls |-> IdleCall]
    /\ app = "open"
    /\ listening = Signals

---------------------------------------------------------------------------

IsRunning(o) == state[o] = "RUNNING"

Entries == {processLookupById[i] : i \in Ids} \ {None}

\* Mutant of IsStoppedAll: some instead of every.
IsStoppedAny == Entries = {} \/ \E o \in Entries : ~IsRunning(o)

IsStoppedAll == \A o \in Entries : ~IsRunning(o)

Alive == app \in {"open", "closing"}

MicrotasksDone == Alive /\ \A k \in Calls : call[k].pc # "ready"

Quiet == MicrotasksDone /\ \A c \in Children : child[c] # "spawning"

(* An object that the table, a child's listeners and the calls have all    *)
(* let go of can be collected and its identity used again.                 *)
Collectable(o) ==
    /\ o \notin Entries
    /\ \A c \in Children : owner[c] # o
    /\ \A k \in Calls : call[k].proc # o

FreeChildren == {c \in Children : child[c] = "none"}

(* Bound: every call in flight may still spawn one child.                  *)
RoomForChild ==
    Cardinality(FreeChildren) > Cardinality({k \in Calls : call[k].pc # "idle"})

(* A call enters the services.                                             *)
CanCall(k, op) == Quiet /\ app = "open" /\ op \in Ops /\ call[k].pc = "idle"

---------------------------------------------------------------------------
(* ManagedProcess *)

(* start(), after the check of isRunning, of an object in the given state. *)
(* Which of the free children stands for the new one is all the same.      *)
Spawn(k, o, c, called) ==
    /\ c \in FreeChildren
    /\ c = CHOOSE d \in FreeChildren : TRUE
    /\ child' = [child EXCEPT ![c] = "spawning"]
    /\ owner' = [owner EXCEPT ![c] = o]
    /\ childProcess' = [childProcess EXCEPT ![o] = c]
    /\ call' = [call EXCEPT ![k] = [called EXCEPT !.pc = "starting", !.proc = o, !.waits = {c}]]

(* start() of an object that may be running: throws if it is.              *)
StartProcess(k, o) ==
    \/ /\ IsRunning(o)
       /\ call' = [call EXCEPT ![k] = IdleCall]
       /\ UNCHANGED <<child, owner, childProcess>>
    \/ /\ ~IsRunning(o)
       /\ \E c \in Children : Spawn(k, o, c, call[k])

(* stop() of a set of objects: the current child of each one that is       *)
(* running is signalled and its exit awaited; the others return at once.   *)
StopProcesses(k, called, stopped) ==
    LET killed == {childProcess[o] : o \in {p \in stopped : IsRunning(p)}}
    IN  /\ call' = [call EXCEPT ![k] =
                      [called EXCEPT !.pc = IF killed = {} THEN "ready" ELSE "stopping",
                                     !.waits = killed]]
        /\ signalled' = signalled \cup (killed \ {None})

\* Mutant of SpawnEvent: start() does not listen to it.
SpawnEventUnheard(c) ==
    /\ child[c] = "spawning"
    /\ MicrotasksDone
    /\ child' = [child EXCEPT ![c] = "running"]
    /\ state' = [state EXCEPT ![owner[c]] = "RUNNING"]
    /\ UNCHANGED <<processLookupById, childProcess, owner, signalled, call, app, listening>>

(* The "spawn" event: the object's listener sets the state and the call    *)
(* that spawned the child goes on.  A command that runs until termination  *)
(* now waits for the exit of the object it was given; when the table had   *)
(* an entry that was started instead, that object has no child.            *)
SpawnEvent(c) ==
    /\ child[c] = "spawning"
    /\ MicrotasksDone
    /\ child' = [child EXCEPT ![c] = "running"]
    /\ state' = [state EXCEPT ![owner[c]] = "RUNNING"]
    /\ call' = [k \in Calls |->
                  IF ~(call[k].pc = "starting" /\ c \in call[k].waits) THEN call[k]
                  ELSE IF call[k].op # "run" THEN IdleCall
                  ELSE [call[k] EXCEPT !.pc = "waitOnExit",
                                       !.waits = {IF call[k].id = None
                                                  THEN None ELSE childProcess[owner[c]]}]]
    /\ UNCHANGED <<processLookupById, childProcess, owner, signalled, app, listening>>

(* A child is gone: its listeners and the references to it are dropped.    *)
Gone(c) ==
    /\ child' = [child EXCEPT ![c] = "none"]
    /\ owner' = [owner EXCEPT ![c] = None]
    /\ childProcess' = [o \in Procs |-> IF childProcess[o] = c THEN None ELSE childProcess[o]]
    /\ signalled' = signalled \ {c}

(* The "error" event instead of "spawn": start() rejects, the state stays. *)
SpawnError(c) ==
    /\ child[c] = "spawning"
    /\ MicrotasksDone
    /\ Gone(c)
    /\ call' = [k \in Calls |-> IF call[k].pc = "starting" /\ c \in call[k].waits
                                THEN IdleCall ELSE call[k]]
    /\ UNCHANGED <<processLookupById, state, app, listening>>

(* What a call makes of the exit of c.                                     *)
AfterExit(k, c) ==
    LET waits == call[k].waits \ {c}
    IN  IF c \notin call[k].waits THEN call[k]
        ELSE IF waits # {} THEN [call[k] EXCEPT !.waits = waits]
        ELSE IF call[k].pc = "waitOnExit" THEN IdleCall
        ELSE [call[k] EXCEPT !.pc = "ready", !.waits = {}]

\* Mutant of StateAfterExit: only a failure is recorded.
StateAfterExitIfError(o) == {state[o], "ERROR"}

StateAfterExit(o) == {"NOT_RUNNING", "ERROR"}

(* The "exit" event of a child, asked for by a signal or not.              *)
Exit(c) ==
    /\ Quiet
    /\ child[c] = "running"
    /\ \E s \in StateAfterExit(owner[c]) : state' = [state EXCEPT ![owner[c]] = s]
    /\ Gone(c)
    /\ call' = [k \in Calls |-> AfterExit(k, c)]
    /\ UNCHANGED <<processLookupById, app, listening>>

\* Mutant of StopTimeout: remove() deletes the entry even if stop() rejects.
StopTimeoutRemoves(k) ==
    /\ Quiet
    /\ call[k].pc = "stopping"
    /\ call' = [call EXCEPT ![k] = [@ EXCEPT !.pc = "ready", !.waits = {}]]
    /\ UNCHANGED <<processLookupById, state, childProcess, owner, child, signalled, app, listening>>

\* Mutant of StopTimeout: before-quit without finally.
StopTimeoutUncaught(k) ==
    /\ Quiet
    /\ call[k].pc = "stopping"
    /\ call' = [call EXCEPT ![k] = IdleCall]
    /\ UNCHANGED <<processLookupById, state, childProcess, owner, child, signalled, app, listening>>

\* Mutant of StopTimeout: no timer, the promise is left to the events.
StopTimeoutMissing(k) == FALSE

(* The exit did not come within rejectionTimeoutSec: stop() rejects, and   *)
(* so does the call around it.  Only the quit handler catches that, and    *)
(* shows a dialog.                                                         *)
StopTimeout(k) ==
    /\ Quiet
    /\ call[k].pc = "stopping"
    /\ call' = [call EXCEPT ![k] = IF @.op = "cleanup"
                                   THEN [@ EXCEPT !.pc = "dialog", !.waits = {}]
                                   ELSE IdleCall]
    /\ UNCHANGED <<processLookupById, state, childProcess, owner, child, signalled, app, listening>>

---------------------------------------------------------------------------
(* ProcessManagerService *)

\* Mutant of StartNew: every start is the start of a new process.
StartNewUnchecked(k, i, o, op) ==
    /\ CanCall(k, op)
    /\ RoomForChild
    /\ Collectable(o)
    /\ processLookupById' = [processLookupById EXCEPT ![i] = o]
    /\ state' = [state EXCEPT ![o] = "NOT_RUNNING"]
    /\ \E c \in Children : Spawn(k, o, c, [IdleCall EXCEPT !.op = op, !.id = i])
    /\ UNCHANGED <<signalled, app, listening>>

(* start(process) and runUntilTermination(process) for an id without an    *)
(* entry: startNew.                                                        *)
StartNew(k, i, o, op) ==
    /\ CanCall(k, op)
    /\ RoomForChild
    /\ processLookupById[i] = None
    /\ Collectable(o)
    /\ processLookupById' = [processLookupById EXCEPT ![i] = o]
    /\ state' = [state EXCEPT ![o] = "NOT_RUNNING"]
    /\ \E c \in Children : Spawn(k, o, c, [IdleCall EXCEPT !.op = op, !.id = i])
    /\ UNCHANGED <<signalled, app, listening>>

(* The same for an id with an entry: startExisting stops and starts the    *)
(* object in the table; the one that was passed in is dropped (id is None).*)
StartExisting(k, i, op) ==
    /\ CanCall(k, op)
    /\ RoomForChild
    /\ processLookupById[i] # None
    /\ StopProcesses(k, [IdleCall EXCEPT !.op = op, !.proc = processLookupById[i]],
                     {processLookupById[i]})
    /\ UNCHANGED <<processLookupById, state, childProcess, owner, child, app, listening>>

(* stop(id), remove(id), restart(id) *)
StopEntry(k, i, op) ==
    /\ op \in {"stop", "remove", "restart"}
    /\ CanCall(k, op)
    /\ op = "restart" => RoomForChild
    /\ processLookupById[i] # None
    /\ StopProcesses(k, [IdleCall EXCEPT !.op = op, !.id = i, !.proc = processLookupById[i]],
                     {processLookupById[i]})
    /\ UNCHANGED <<processLookupById, state, childProcess, owner, child, app, listening>>

(* stopAll(), and what it does for the listener of a signal.               *)
StopEntries(k, op) ==
    /\ CanCall(k, op)
    /\ StopProcesses(k, [IdleCall EXCEPT !.op = op], Entries)
    /\ UNCHANGED <<processLookupById, state, childProcess, owner, child, app>>

StopAll(k) == StopEntries(k, "stopAll") /\ UNCHANGED listening

(* SIGINT or SIGTERM with its listener, which is registered once.          *)
Terminate(k, signal) ==
    /\ signal \in listening
    /\ StopEntries(k, "terminate")
    /\ listening' = listening \ {signal}

(* The same signal again: nobody listens any more, and it ends the         *)
(* application at once, wherever its calls are.                            *)
Kill(signal) ==
    /\ Alive
    /\ signal \notin listening
    /\ app' = "killed"
    /\ UNCHANGED <<processLookupById, state, childProcess, owner, child, signalled, call, listening>>

(* The before-quit handler: the application closes if everything is        *)
(* stopped; otherwise the quit is prevented, cleanup() runs, and           *)
(* app.quit() brings the handler back.                                     *)
BeforeQuit(k) ==
    /\ \/ /\ IsStoppedAll
          /\ app' = "closing"
          /\ call' = [call EXCEPT ![k] = IdleCall]
          /\ UNCHANGED signalled
       \/ /\ ~IsStoppedAll
          /\ StopProcesses(k, [IdleCall EXCEPT !.op = "cleanup"], Entries)
          /\ UNCHANGED app
    /\ UNCHANGED <<processLookupById, state, childProcess, owner, child, listening>>

Quit(k) == CanCall(k, "cleanup") /\ BeforeQuit(k)

DialogClosed(k) == Quiet /\ call[k].pc = "dialog" /\ BeforeQuit(k)

(* The windows close after before-quit let the quit pass; the thread runs  *)
(* on until then.                                                          *)
AppExit ==
    /\ Quiet
    /\ app = "closing"
    /\ app' = "exited"
    /\ UNCHANGED <<processLookupById, state, childProcess, owner, child, signalled, call, listening>>

(* A call goes on after the stop() it awaited.                             *)
ResumeStart(k) ==
    /\ call[k].pc = "ready"
    /\ call[k].op \in {"start", "run", "restart"}
    /\ StartProcess(k, call[k].proc)
    /\ UNCHANGED <<processLookupById, state, signalled, app, listening>>

ResumeRemove(k) ==
    /\ call[k].pc = "ready"
    /\ call[k].op = "remove"
    /\ processLookupById' = [processLookupById EXCEPT ![call[k].id] = None]
    /\ call' = [call EXCEPT ![k] = IdleCall]
    /\ UNCHANGED <<state, childProcess, owner, child, signalled, app, listening>>

ResumeStop(k) ==
    /\ call[k].pc = "ready"
    /\ call[k].op \in {"stop", "stopAll", "terminate"}
    /\ app' = IF call[k].op = "terminate" THEN "exited" ELSE app
    /\ call' = [call EXCEPT ![k] = IdleCall]
    /\ UNCHANGED <<processLookupById, state, childProcess, owner, child, signalled, listening>>

ResumeCleanup(k) ==
    /\ call[k].pc = "ready"
    /\ call[k].op = "cleanup"
    /\ BeforeQuit(k)

Resume(k) ==
    /\ Alive
    /\ ResumeStart(k) \/ ResumeRemove(k) \/ ResumeStop(k) \/ ResumeCleanup(k)

---------------------------------------------------------------------------

Next ==
    \/ \E k \in Calls, i \in Ids, o \in Procs, op \in {"start", "run"} : StartNew(k, i, o, op)
    \/ \E k \in Calls, i \in Ids, op \in {"start", "run"} : StartExisting(k, i, op)
    \/ \E k \in Calls, i \in Ids, op \in {"stop", "remove", "restart"} : StopEntry(k, i, op)
    \/ \E k \in Calls : StopAll(k)
    \/ \E k \in Calls, signal \in Signals : Terminate(k, signal)
    \/ \E signal \in Signals : Kill(signal)
    \/ \E k \in Calls : Quit(k)
    \/ \E k \in Calls : Resume(k)
    \/ \E k \in Calls : StopTimeout(k)
    \/ \E k \in Calls : DialogClosed(k)
    \/ \E c \in Children : SpawnEvent(c)
    \/ \E c \in Children : SpawnError(c)
    \/ \E c \in Children : Exit(c)
    \/ AppExit

Spec == Init /\ [][Next]_vars

(* Node dispatches the event of a spawned child and resumes ready calls.   *)
(* The timer of stop(), the user closing the dialog and the closing of the *)
(* windows stay queued while the thread is busy with something else, hence *)
(* SF.  Calls are never owed, nor is the exit of a child: an emulator runs *)
(* for as long as it may, and a child may ignore the signal of stop().     *)
Fairness ==
    /\ \A c \in Children : WF_vars(SpawnEvent(c) \/ SpawnError(c))
    /\ \A k \in Calls : WF_vars(Resume(k)) /\ SF_vars(StopTimeout(k)) /\ SF_vars(DialogClosed(k))
    /\ SF_vars(AppExit)

FairSpec == Spec /\ Fairness

---------------------------------------------------------------------------

(* A process that the table reports as running has a child that is alive:  *)
(* however starts, stops, spawn errors and exits of several children of    *)
(* one object are interleaved, state (managed-process.ts:136-150) is never *)
(* RUNNING after the last of them is gone.                                 *)
RunningHasChild ==
    \A o \in Procs : IsRunning(o) =>
        \E c \in Children : child[c] = "running" /\ owner[c] = o

(* Every child that is alive belongs to an entry of the table: nothing the *)
(* services started escapes stopAll() and isStoppedAll().                  *)
NothingLost ==
    \A c \in Children : child[c] = "running" => owner[c] \in Entries

(* Every child that is alive is the current child of an entry that is      *)
(* reported as running, so that stop() reaches it.                         *)
Tracked ==
    \A c \in Children : child[c] = "running" =>
        /\ owner[c] \in Entries
        /\ childProcess[owner[c]] = c
        /\ IsRunning(owner[c])

(* "Prevent app termination before cleanup is done" (main.ts:190), and     *)
(* "Gracefully shutdown child process in case parent receives a kill       *)
(* signal" (process-manager.service.ts:36): an application that ends by    *)
(* its quit handler or by the listener of a signal has no child left.  One *)
(* that is killed by the second signal of a kind may leave its children.   *)
ExitLeavesNoChild == app = "exited" => \A c \in Children : child[c] = "none"

(* A call that starts, stops, removes or restarts a process comes back, at *)
(* the latest when the timeout of stop() (managed-process.ts:117-124)      *)
(* rejects, even if the child it waits for was replaced meanwhile.         *)
CallsReturn ==
    \A k \in Calls :
        call[k].op \in {"start", "stop", "remove", "restart", "stopAll"}
            ~> (call[k].op = None \/ ~Alive)

(* Once the quit handler has prevented a quit to clean up (main.ts:179-210)*)
(* either it comes back to the user, with a dialog if a child did not stop *)
(* in time, or the application ends; and if it comes back again and again, *)
(* then only because of a child that ignores its signal for ever.          *)
IgnoresSignal(c) == c \in signalled /\ child[c] = "running"

CleanupEnds ==
    \A k \in Calls :
        /\ call[k].op = "cleanup" ~> (call[k].pc = "dialog" \/ app \in {"exited", "killed"})
        /\ call[k].op = "cleanup" ~>
               (app \in {"exited", "killed"} \/ \E c \in Children : []IgnoresSignal(c))

===========================================================================
