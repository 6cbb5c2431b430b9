------------------------- MODULE FlowserApp_proofs -------------------------
(***************************************************************************)
(* Safety of ProcessManager for any number of processes, children and      *)
(* concurrent calls, and what holds only when one call at a time is made;  *)
(* and of the desktop application, whose handlers make those calls, for    *)
(* any number of workspaces, overlapping handlers and savings of settings. *)
(***************************************************************************)
EXTENDS FlowserApp, TLAPS

LEMMA IdleCallType == IdleCall \in Call
BY DEF IdleCall, Call

(* The typing of the parts that the actions share.                         *)
LEMMA SpawnType ==
  ASSUME TypeOK, NEW k \in Calls, NEW o \in Procs, NEW c \in Children,
         NEW called \in Call, Spawn(k, o, c, called)
  PROVE  /\ child' \in [Children -> {"none", "spawning", "running"}]
         /\ owner' \in [Children -> Procs \cup {None}]
         /\ childProcess' \in [Procs -> Children \cup {None}]
         /\ call' \in [Calls -> Call]
<1>1. [called EXCEPT !.pc = "starting", !.proc = o, !.waits = {c}] \in Call
  BY DEF Call
<1> QED
  BY <1>1 DEF Spawn, TypeOK

LEMMA StartProcessType ==
  ASSUME TypeOK, NEW k \in Calls, NEW o \in Procs, StartProcess(k, o)
  PROVE  /\ child' \in [Children -> {"none", "spawning", "running"}]
         /\ owner' \in [Children -> Procs \cup {None}]
         /\ childProcess' \in [Procs -> Children \cup {None}]
         /\ call' \in [Calls -> Call]
<1>1. CASE IsRunning(o)
  BY <1>1, IdleCallType DEF StartProcess, TypeOK
<1>2. CASE \E c \in Children : Spawn(k, o, c, call[k])
  BY <1>2, SpawnType DEF TypeOK
<1> QED
  BY <1>1, <1>2 DEF StartProcess

LEMMA StopProcessesType ==
  ASSUME TypeOK, NEW k \in Calls, NEW called \in Call, NEW stopped \in SUBSET Procs,
         StopProcesses(k, called, stopped)
  PROVE  /\ call' \in [Calls -> Call]
         /\ signalled' \in SUBSET Children
<1> DEFINE killed == {childProcess[o] : o \in {p \in stopped : IsRunning(p)}}
<1>1. killed \in SUBSET (Children \cup {None})
  BY DEF TypeOK
<1>2. [called EXCEPT !.pc = IF killed = {} THEN "ready" ELSE "stopping",
                     !.waits = killed] \in Call
  BY <1>1 DEF Call
<1>3. /\ call' = [call EXCEPT ![k] =
                    [called EXCEPT !.pc = IF killed = {} THEN "ready" ELSE "stopping",
                                   !.waits = killed]]
      /\ signalled' = signalled \cup (killed \ {None})
  BY DEF StopProcesses
<1> HIDE DEF killed
<1> QED
  BY <1>1, <1>2, <1>3 DEF TypeOK

LEMMA GoneType ==
  ASSUME TypeOK, NEW c \in Children, Gone(c)
  PROVE  /\ child' \in [Children -> {"none", "spawning", "running"}]
         /\ owner' \in [Children -> Procs \cup {None}]
         /\ childProcess' \in [Procs -> Children \cup {None}]
         /\ signalled' \in SUBSET Children
BY DEF Gone, TypeOK

LEMMA EntriesType == TypeOK => Entries \in SUBSET Procs
BY DEF TypeOK, Entries

---------------------------------------------------------------------------

(* Two facts that typing rests on: the children that are alive have an     *)
(* owner, whose state and current child their events read and write; and a *)
(* call that is going to start a process holds one.                        *)
OwnedChildren == \A c \in Children : child[c] # "none" => owner[c] \in Procs

HoldsProcess(d) == d.op \in {"start", "run", "restart"} => d.proc \in Procs

CallsHoldProcess == \A k \in Calls : HoldsProcess(call[k])

TypeInv == TypeOK /\ OwnedChildren /\ CallsHoldProcess

LEMMA IdleHolds == HoldsProcess(IdleCall)
BY NoneAssumption DEF NoneAssumption, AllOps, HoldsProcess, IdleCall

LEMMA SpawnTypeInv ==
  ASSUME TypeInv, NEW k \in Calls, NEW o \in Procs, NEW c \in Children,
         NEW called \in Call, Spawn(k, o, c, called)
  PROVE  OwnedChildren' /\ CallsHoldProcess'
<1>1. OwnedChildren'
  BY DEF TypeInv, TypeOK, OwnedChildren, Spawn
<1>2. HoldsProcess([called EXCEPT !.pc = "starting", !.proc = o, !.waits = {c}])
  BY DEF HoldsProcess, Call
<1> QED
  BY <1>1, <1>2 DEF TypeInv, TypeOK, CallsHoldProcess, Spawn

LEMMA StopTypeInv ==
  ASSUME TypeInv, NEW k \in Calls, NEW called \in Call, HoldsProcess(called),
         NEW stopped \in SUBSET Procs, StopProcesses(k, called, stopped)
  PROVE  CallsHoldProcess'
<1> DEFINE killed == {childProcess[o] : o \in {p \in stopped : IsRunning(p)}}
<1> DEFINE next == [called EXCEPT !.pc = IF killed = {} THEN "ready" ELSE "stopping",
                                  !.waits = killed]
<1>1. HoldsProcess(next)
  BY DEF HoldsProcess, Call
<1>2. call' = [call EXCEPT ![k] = next]
  BY DEF StopProcesses
<1> HIDE DEF next
<1> QED
  BY <1>1, <1>2 DEF TypeInv, TypeOK, CallsHoldProcess

(* Every action preserves the typing invariant: first the events of the    *)
(* children, then the calls.                                               *)
LEMMA SpawnEventTypeInv ==
  ASSUME TypeInv, NEW c \in Children, SpawnEvent(c)
  PROVE  TypeInv'
<1> USE DEF TypeInv, TypeOK
<1>0. owner[c] \in Procs
  BY DEF SpawnEvent, OwnedChildren
<1>1. ASSUME NEW k \in Calls
      PROVE  call'[k] \in Call /\ HoldsProcess(call'[k])
  <2>1. CASE ~(call[k].pc = "starting" /\ c \in call[k].waits)
    BY <2>1 DEF SpawnEvent, CallsHoldProcess
  <2>2. CASE call[k].pc = "starting" /\ c \in call[k].waits /\ call[k].op # "run"
    BY <2>2, IdleCallType, IdleHolds DEF SpawnEvent
  <2>3. CASE call[k].pc = "starting" /\ c \in call[k].waits /\ call[k].op = "run"
    <3> DEFINE w == {IF call[k].id = None THEN None ELSE childProcess[owner[c]]}
    <3>1. w \in SUBSET (Children \cup {None})
      BY <1>0
    <3>2. call'[k] = [call[k] EXCEPT !.pc = "waitOnExit", !.waits = w]
      BY <2>3 DEF SpawnEvent
    <3>3. call[k] \in Call /\ HoldsProcess(call[k])
      BY DEF CallsHoldProcess
    <3> HIDE DEF w
    <3> QED
      BY <3>1, <3>2, <3>3 DEF Call, HoldsProcess
  <2> QED
    BY <2>1, <2>2, <2>3
<1>2. call' \in [Calls -> Call] /\ CallsHoldProcess'
  BY <1>1 DEF SpawnEvent, CallsHoldProcess
<1>3. child' \in [Children -> {"none", "spawning", "running"}] /\ OwnedChildren'
  BY DEF SpawnEvent, OwnedChildren
<1>4. state' \in [Procs -> ProcState]
  BY DEF SpawnEvent, ProcState
<1> QED
  BY <1>2, <1>3, <1>4 DEF SpawnEvent

LEMMA GoneOwned ==
  ASSUME TypeInv, NEW c \in Children, Gone(c)
  PROVE  OwnedChildren'
BY DEF TypeInv, TypeOK, OwnedChildren, Gone

LEMMA SpawnErrorTypeInv ==
  ASSUME TypeInv, NEW c \in Children, SpawnError(c)
  PROVE  TypeInv'
<1>1. Gone(c)
  BY DEF SpawnError
<1>2. call' \in [Calls -> Call] /\ CallsHoldProcess'
  BY IdleCallType, IdleHolds DEF SpawnError, TypeInv, TypeOK, CallsHoldProcess
<1> QED
  BY <1>1, <1>2, GoneType, GoneOwned DEF SpawnError, TypeInv, TypeOK

LEMMA ExitTypeInv ==
  ASSUME TypeInv, NEW c \in Children, Exit(c)
  PROVE  TypeInv'
<1>1. Gone(c)
  BY DEF Exit
<1>2. ASSUME NEW k \in Calls
      PROVE  AfterExit(k, c) \in Call /\ HoldsProcess(AfterExit(k, c))
  <2>1. call[k] \in Call /\ HoldsProcess(call[k])
    BY DEF TypeInv, TypeOK, CallsHoldProcess
  <2> DEFINE waits == call[k].waits \ {c}
             still == [call[k] EXCEPT !.waits = waits]
             ready == [call[k] EXCEPT !.pc = "ready", !.waits = {}]
  <2>2. still \in Call /\ ready \in Call
    BY <2>1 DEF Call
  <2>3. HoldsProcess(still) /\ HoldsProcess(ready)
    BY <2>1 DEF Call, HoldsProcess
  <2>4. AfterExit(k, c) \in {call[k], still, IdleCall, ready}
    BY DEF AfterExit
  <2> HIDE DEF still, ready
  <2> QED
    BY <2>1, <2>2, <2>3, <2>4, IdleCallType, IdleHolds
<1>3. call' \in [Calls -> Call] /\ CallsHoldProcess'
  BY <1>2 DEF Exit, CallsHoldProcess
<1>4. state' \in [Procs -> ProcState]
  BY DEF Exit, StateAfterExit, ProcState, TypeInv, TypeOK
<1> QED
  BY <1>1, <1>3, <1>4, GoneType, GoneOwned DEF Exit, TypeInv, TypeOK

LEMMA StopTimeoutTypeInv ==
  ASSUME TypeInv, NEW k \in Calls, StopTimeout(k)
  PROVE  TypeInv'
<1> DEFINE next == IF call[k].op = "cleanup"
                   THEN [call[k] EXCEPT !.pc = "dialog", !.waits = {}]
                   ELSE IdleCall
<1>1. next \in Call /\ HoldsProcess(next)
  BY IdleCallType, IdleHolds DEF TypeInv, TypeOK, CallsHoldProcess, Call, HoldsProcess
<1>2. call' = [call EXCEPT ![k] = next]
  BY DEF StopTimeout
<1> HIDE DEF next
<1> QED
  BY <1>1, <1>2 DEF StopTimeout, TypeInv, TypeOK, OwnedChildren, CallsHoldProcess

LEMMA StartNewTypeInv ==
  ASSUME TypeInv, NEW k \in Calls, NEW i \in Ids, NEW o \in Procs,
         NEW op \in {"start", "run"}, StartNew(k, i, o, op)
  PROVE  TypeInv'
<1> DEFINE called == [IdleCall EXCEPT !.op = op, !.id = i]
<1>1. called \in Call
  BY DEF IdleCall, Call, AllOps
<1>2. PICK c \in Children : Spawn(k, o, c, called)
  BY DEF StartNew
<1> HIDE DEF called
<1>3. OwnedChildren' /\ CallsHoldProcess'
  BY <1>1, <1>2, SpawnTypeInv
<1>4. processLookupById' \in [Ids -> Procs \cup {None}] /\ state' \in [Procs -> ProcState]
  BY DEF StartNew, ProcState, TypeInv, TypeOK
<1> QED
  BY <1>1, <1>2, <1>3, <1>4, SpawnType DEF StartNew, TypeInv, TypeOK

(* Calls that begin by stopping some of the objects.                       *)
LEMMA StopperTypeInv ==
  ASSUME TypeInv, NEW k \in Calls, NEW called \in Call, HoldsProcess(called),
         NEW stopped \in SUBSET Procs, StopProcesses(k, called, stopped),
         app' = app, listening' \in SUBSET Signals,
         UNCHANGED <<processLookupById, state, childProcess, owner, child>>
  PROVE  TypeInv'
<1>1. call' \in [Calls -> Call] /\ signalled' \in SUBSET Children
  BY StopProcessesType DEF TypeInv
<1>2. CallsHoldProcess'
  BY StopTypeInv
<1> QED
  BY <1>1, <1>2 DEF TypeInv, TypeOK, OwnedChildren

LEMMA StartExistingTypeInv ==
  ASSUME TypeInv, NEW k \in Calls, NEW i \in Ids,
         NEW op \in {"start", "run"}, StartExisting(k, i, op)
  PROVE  TypeInv'
<1> DEFINE called == [IdleCall EXCEPT !.op = op, !.proc = processLookupById[i]]
<1>1. processLookupById[i] \in Procs
  BY DEF StartExisting, TypeInv, TypeOK
<1>2. called \in Call /\ HoldsProcess(called)
  BY <1>1 DEF IdleCall, Call, AllOps, HoldsProcess
<1>3. StopProcesses(k, called, {processLookupById[i]})
  BY DEF StartExisting
<1> HIDE DEF called
<1> QED
  BY <1>1, <1>2, <1>3, StopperTypeInv DEF StartExisting, TypeInv, TypeOK

LEMMA StopEntryTypeInv ==
  ASSUME TypeInv, NEW k \in Calls, NEW i \in Ids,
         NEW op \in {"stop", "remove", "restart"}, StopEntry(k, i, op)
  PROVE  TypeInv'
<1> DEFINE called == [IdleCall EXCEPT !.op = op, !.id = i, !.proc = processLookupById[i]]
<1>1. processLookupById[i] \in Procs
  BY DEF StopEntry, TypeInv, TypeOK
<1>2. called \in Call /\ HoldsProcess(called)
  BY <1>1 DEF IdleCall, Call, AllOps, HoldsProcess
<1>3. StopProcesses(k, called, {processLookupById[i]})
  BY DEF StopEntry
<1> HIDE DEF called
<1> QED
  BY <1>1, <1>2, <1>3, StopperTypeInv DEF StopEntry, TypeInv, TypeOK

LEMMA StopEntriesTypeInv ==
  ASSUME TypeInv, NEW k \in Calls, NEW op \in {"stopAll", "terminate"}, StopEntries(k, op),
         listening' \in SUBSET Signals
  PROVE  TypeInv'
<1> DEFINE called == [IdleCall EXCEPT !.op = op]
<1>1. called \in Call /\ HoldsProcess(called)
  BY DEF IdleCall, Call, AllOps, HoldsProcess
<1>2. StopProcesses(k, called, Entries)
  BY DEF StopEntries
<1> HIDE DEF called
<1> QED
  BY <1>1, <1>2, EntriesType, StopperTypeInv DEF StopEntries, TypeInv, TypeOK

LEMMA BeforeQuitTypeInv ==
  ASSUME TypeInv, NEW k \in Calls, BeforeQuit(k)
  PROVE  TypeInv'
<1>1. CASE IsStoppedAll
  <2>1. call' = [call EXCEPT ![k] = IdleCall] /\ app' = "closing" /\ UNCHANGED signalled
    BY <1>1 DEF BeforeQuit
  <2> QED
    BY <2>1, IdleCallType, IdleHolds
       DEF BeforeQuit, TypeInv, TypeOK, OwnedChildren, CallsHoldProcess
<1>2. CASE ~IsStoppedAll
  <2> DEFINE called == [IdleCall EXCEPT !.op = "cleanup"]
  <2>1. called \in Call /\ HoldsProcess(called)
    BY DEF IdleCall, Call, AllOps, HoldsProcess
  <2>2. StopProcesses(k, called, Entries) /\ UNCHANGED app
    BY <1>2 DEF BeforeQuit
  <2> HIDE DEF called
  <2> QED
    BY <2>1, <2>2, EntriesType, StopperTypeInv DEF BeforeQuit, TypeInv, TypeOK
<1> QED
  BY <1>1, <1>2

LEMMA ResumeTypeInv ==
  ASSUME TypeInv, NEW k \in Calls, Resume(k)
  PROVE  TypeInv'
<1>1. CASE ResumeStart(k)
  <2>1. call[k].proc \in Procs /\ call[k] \in Call
    BY <1>1 DEF ResumeStart, TypeInv, TypeOK, CallsHoldProcess, HoldsProcess
  <2>2. StartProcess(k, call[k].proc)
    BY <1>1 DEF ResumeStart
  <2>3. OwnedChildren' /\ CallsHoldProcess'
    <3>1. CASE IsRunning(call[k].proc)
      BY <2>2, <3>1, IdleHolds
         DEF StartProcess, TypeInv, TypeOK, OwnedChildren, CallsHoldProcess
    <3>2. CASE ~IsRunning(call[k].proc)
      BY <2>1, <2>2, <3>2, SpawnTypeInv DEF StartProcess
    <3> QED
      BY <3>1, <3>2
  <2> QED
    BY <1>1, <2>1, <2>2, <2>3, StartProcessType DEF ResumeStart, TypeInv, TypeOK
<1>2. CASE ResumeRemove(k)
  BY <1>2, IdleCallType, IdleHolds
     DEF ResumeRemove, TypeInv, TypeOK, OwnedChildren, CallsHoldProcess
<1>3. CASE ResumeStop(k)
  BY <1>3, IdleCallType, IdleHolds
     DEF ResumeStop, TypeInv, TypeOK, OwnedChildren, CallsHoldProcess
<1>4. CASE ResumeCleanup(k)
  BY <1>4, BeforeQuitTypeInv DEF ResumeCleanup
<1> QED
  BY <1>1, <1>2, <1>3, <1>4 DEF Resume

LEMMA TypeInvStep == TypeInv /\ [Next]_vars => TypeInv'
<1> SUFFICES ASSUME TypeInv, [Next]_vars PROVE TypeInv'
  OBVIOUS
<1>1. ASSUME NEW k \in Calls, Quit(k) \/ DialogClosed(k) PROVE TypeInv'
  BY <1>1, BeforeQuitTypeInv DEF Quit, DialogClosed
<1>2. ASSUME AppExit \/ (\E signal \in Signals : Kill(signal)) PROVE TypeInv'
  BY <1>2 DEF AppExit, Kill, TypeInv, TypeOK, OwnedChildren, CallsHoldProcess
<1>3. CASE UNCHANGED vars
  BY <1>3 DEF vars, TypeInv, TypeOK, OwnedChildren, CallsHoldProcess
<1>4. ASSUME NEW k \in Calls, StopAll(k) \/ \E signal \in Signals : Terminate(k, signal)
      PROVE  TypeInv'
  <2>1. listening' \in SUBSET Signals
    BY <1>4 DEF StopAll, Terminate, TypeInv, TypeOK
  <2> QED
    BY <1>4, <2>1, StopEntriesTypeInv DEF StopAll, Terminate
<1> QED
  BY <1>1, <1>2, <1>3, <1>4, StartNewTypeInv, StartExistingTypeInv, StopEntryTypeInv,
     ResumeTypeInv, StopTimeoutTypeInv, SpawnEventTypeInv,
     SpawnErrorTypeInv, ExitTypeInv DEF Next

LEMMA InitTypeInv == Init => TypeInv
BY IdleCallType, IdleHolds
   DEF Init, TypeInv, TypeOK, ProcState, OwnedChildren, CallsHoldProcess

THEOREM TypeInvariant == Spec => []TypeInv
BY InitTypeInv, TypeInvStep, PTL DEF Spec

(* Type correctness of the process services.                               *)
THEOREM TypeCorrect == Spec => []TypeOK
BY TypeInvariant, PTL DEF TypeInv

---------------------------------------------------------------------------

(* Whatever state a process is shown in, RUNNING means that one of its     *)
(* children is alive.  The step that makes it hard is the exit of one      *)
(* child of an object that has several: the state leaves RUNNING although  *)
(* the others live, so the claim is about some child, not the current one. *)
LEMMA RunningStep ==
  TypeInv /\ RunningHasChild /\ [Next]_vars => RunningHasChild'
<1> SUFFICES ASSUME TypeInv, RunningHasChild, [Next]_vars PROVE RunningHasChild'
  OBVIOUS
<1> USE DEF TypeInv, TypeOK, RunningHasChild, IsRunning, FreeChildren
<1>1. ASSUME NEW k \in Calls, NEW i \in Ids, NEW o \in Procs,
             NEW op \in {"start", "run"}, StartNew(k, i, o, op)
      PROVE  RunningHasChild'
  <2>1. PICK c \in Children : Spawn(k, o, c, [IdleCall EXCEPT !.op = op, !.id = i])
    BY <1>1 DEF StartNew
  <2>2. state' = [state EXCEPT ![o] = "NOT_RUNNING"]
    BY <1>1 DEF StartNew
  <2>3. /\ child[c] = "none"
        /\ child' = [child EXCEPT ![c] = "spawning"]
        /\ owner' = [owner EXCEPT ![c] = o]
    BY <2>1 DEF Spawn
  <2>4. ASSUME NEW p \in Procs, state'[p] = "RUNNING"
        PROVE  \E d \in Children : child'[d] = "running" /\ owner'[d] = p
    <3>1. PICK d \in Children : child[d] = "running" /\ owner[d] = p
      BY <2>2, <2>4
    <3> QED
      BY <2>3, <3>1
  <2> QED
    BY <2>4
<1>2. ASSUME NEW k \in Calls, Resume(k) PROVE RunningHasChild'
  <2>1. ASSUME ResumeStart(k), NEW c \in Children, NEW called,
               Spawn(k, call[k].proc, c, called)
        PROVE  RunningHasChild'
    <3>1. child[c] = "none" /\ child' = [child EXCEPT ![c] = "spawning"]
      BY <2>1 DEF Spawn
    <3>2. owner' = [owner EXCEPT ![c] = call[k].proc] /\ UNCHANGED state
      BY <2>1 DEF Spawn, ResumeStart
    <3> QED
      BY <3>1, <3>2
  <2>2. CASE ResumeStart(k)
    BY <2>1, <2>2 DEF ResumeStart, StartProcess
  <2>3. CASE ResumeRemove(k) \/ ResumeStop(k) \/ ResumeCleanup(k)
    BY <2>3 DEF ResumeRemove, ResumeStop, ResumeCleanup, BeforeQuit
  <2> QED
    BY <1>2, <2>2, <2>3 DEF Resume
<1>3. ASSUME NEW c \in Children, SpawnEvent(c) PROVE RunningHasChild'
  BY <1>3 DEF SpawnEvent, OwnedChildren
<1>4. ASSUME NEW c \in Children, SpawnError(c) PROVE RunningHasChild'
  BY <1>4 DEF SpawnError, Gone
<1>5. ASSUME NEW c \in Children, Exit(c) PROVE RunningHasChild'
  BY <1>5 DEF Exit, Gone, StateAfterExit, OwnedChildren
<1>6. CASE UNCHANGED <<state, owner, child>>
  BY <1>6
<1>7. ASSUME NEW k \in Calls, Quit(k) \/ DialogClosed(k) PROVE RunningHasChild'
  BY <1>6, <1>7 DEF Quit, DialogClosed, BeforeQuit
<1>8. ASSUME NEW k \in Calls, NEW i \in Ids, NEW op \in AllOps,
             StartExisting(k, i, op) \/ StopEntry(k, i, op)
      PROVE  RunningHasChild'
  BY <1>6, <1>8 DEF StartExisting, StopEntry
<1>9. ASSUME NEW k \in Calls, StopAll(k) \/ \E signal \in Signals : Terminate(k, signal)
      PROVE  RunningHasChild'
  BY <1>6, <1>9 DEF StopAll, Terminate, StopEntries
<1>10. CASE \/ AppExit \/ (\E signal \in Signals : Kill(signal))
            \/ (\E k \in Calls : StopTimeout(k)) \/ UNCHANGED vars
  BY <1>6, <1>10 DEF AppExit, Kill, StopTimeout, vars
<1> QED
  BY <1>1, <1>2, <1>3, <1>4, <1>5, <1>7, <1>8, <1>9, <1>10 DEF Next, AllOps

THEOREM RunningIsAlive == Spec => []RunningHasChild
<1>1. Init => RunningHasChild
  BY DEF Init, RunningHasChild, IsRunning
<1> QED
  BY <1>1, RunningStep, TypeInvariant, PTL DEF Spec

---------------------------------------------------------------------------

(* Without remove() nothing ever leaves the table, so what has to be kept  *)
(* is that whoever is alive, or is going to be started by a call under way,*)
(* is in it.                                                               *)
Known(d) == d.op # "remove" /\ (d.op \in {"start", "run", "restart"} => d.proc \in Entries)

Kept ==
    /\ \A c \in Children : child[c] # "none" => owner[c] \in Entries
    /\ \A k \in Calls : Known(call[k])

LEMMA IdleKnown == Known(IdleCall)
BY NoneAssumption DEF NoneAssumption, AllOps, Known, IdleCall

(* Steps that leave the table alone and no child behind.                   *)
LEMMA SameTableKeeps ==
  ASSUME TypeInv, Kept, UNCHANGED processLookupById,
         \A k \in Calls : Known(call'[k]),
         \A c \in Children : child'[c] # "none" =>
            owner'[c] \in Entries \/ (child[c] # "none" /\ owner'[c] = owner[c])
  PROVE  Kept'
<1>1. Entries' = Entries
  BY DEF Entries
<1>2. \A c \in Children : child'[c] # "none" => owner'[c] \in Entries'
  BY <1>1 DEF Kept
<1>3. \A k \in Calls : Known(call[k])'
  BY <1>1 DEF Known
<1> QED
  BY <1>2, <1>3 DEF Kept

(* A call that goes on, or is new, without starting anything.              *)
LEMMA CallKeeps ==
  ASSUME TypeInv, Kept, UNCHANGED <<processLookupById, owner, child>>,
         NEW k \in Calls, NEW d, Known(d), call' = [call EXCEPT ![k] = d]
  PROVE  Kept'
<1>1. \A m \in Calls : Known(call'[m])
  <2> TAKE m \in Calls
  <2>1. CASE m = k
    <3>1. call'[m] = d
      BY <2>1 DEF TypeInv, TypeOK
    <3> QED
      BY <3>1
  <2>2. CASE m # k
    <3>1. call'[m] = call[m]
      BY <2>2 DEF TypeInv, TypeOK
    <3> QED
      BY <3>1 DEF Kept
  <2> QED
    BY <2>1, <2>2
<1> QED
  BY <1>1, SameTableKeeps DEF Kept

LEMMA StopperKeeps ==
  ASSUME TypeInv, Kept, UNCHANGED <<processLookupById, owner, child>>,
         NEW k \in Calls, NEW called \in Call, Known(called), NEW stopped,
         StopProcesses(k, called, stopped)
  PROVE  Kept'
<1> DEFINE killed == {childProcess[o] : o \in {p \in stopped : IsRunning(p)}}
           d == [called EXCEPT !.pc = IF killed = {} THEN "ready" ELSE "stopping",
                               !.waits = killed]
<1>1. call' = [call EXCEPT ![k] = d]
  BY DEF StopProcesses
<1>2. d.op = called.op /\ d.proc = called.proc
  BY DEF Call
<1>3. Known(d)
  BY <1>2 DEF Known
<1> HIDE DEF d
<1> QED
  BY <1>1, <1>3, CallKeeps

LEMMA KeptStep ==
  ASSUME "remove" \notin Ops, TypeInv, Kept, [Next]_vars
  PROVE  Kept'
<1>1. ASSUME NEW k \in Calls, NEW i \in Ids, NEW o \in Procs,
             NEW op \in {"start", "run"}, StartNew(k, i, o, op)
      PROVE  Kept'
  <2> DEFINE called == [IdleCall EXCEPT !.op = op, !.id = i]
             d(c) == [called EXCEPT !.pc = "starting", !.proc = o, !.waits = {c}]
  <2>1. PICK c \in Children : Spawn(k, o, c, called)
    BY <1>1 DEF StartNew
  <2>2. /\ child' = [child EXCEPT ![c] = "spawning"]
        /\ owner' = [owner EXCEPT ![c] = o]
        /\ call' = [call EXCEPT ![k] = d(c)]
    BY <2>1 DEF Spawn
  <2>3. /\ processLookupById[i] = None
        /\ processLookupById' = [processLookupById EXCEPT ![i] = o]
    BY <1>1 DEF StartNew
  <2>4. Entries \subseteq Entries' /\ o \in Entries'
    BY <2>3, NoneAssumption DEF NoneAssumption, TypeInv, TypeOK, Entries
  <2>5. ASSUME NEW e \in Children, child'[e] # "none" PROVE owner'[e] \in Entries'
    BY <2>2, <2>4, <2>5 DEF TypeInv, TypeOK, Kept
  <2>6. d(c).op = op /\ d(c).proc = o
    BY DEF IdleCall
  <2>7. ASSUME NEW m \in Calls PROVE Known(call[m])'
    <3>1. CASE m = k
      <4>1. call'[m] = d(c)
        BY <2>2, <3>1 DEF TypeInv, TypeOK
      <4> QED
        BY <2>4, <2>6, <4>1 DEF Known
    <3>2. CASE m # k
      <4>1. call'[m] = call[m]
        BY <2>2, <3>2 DEF TypeInv, TypeOK
      <4> QED
        BY <2>4, <4>1 DEF Kept, Known
    <3> QED
      BY <3>1, <3>2
  <2> QED
    BY <2>5, <2>7 DEF Kept
<1>2. ASSUME NEW k \in Calls, NEW i \in Ids, NEW op \in {"start", "run"},
             StartExisting(k, i, op)
      PROVE  Kept'
  <2> DEFINE called == [IdleCall EXCEPT !.op = op, !.proc = processLookupById[i]]
  <2>1. called \in Call /\ called.op = op /\ called.proc = processLookupById[i]
    BY IdleCallType DEF TypeInv, TypeOK, Call, AllOps
  <2>2. processLookupById[i] \in Entries
    BY <1>2 DEF StartExisting, Entries
  <2>3. Known(called)
    BY <2>1, <2>2 DEF Known
  <2> QED
    BY <1>2, <2>1, <2>3, StopperKeeps DEF StartExisting
<1>3. ASSUME NEW k \in Calls, NEW i \in Ids, NEW op \in {"stop", "remove", "restart"},
             StopEntry(k, i, op)
      PROVE  Kept'
  <2> DEFINE called == [IdleCall EXCEPT !.op = op, !.id = i, !.proc = processLookupById[i]]
  <2>1. called \in Call /\ called.op = op /\ called.proc = processLookupById[i]
    BY IdleCallType DEF TypeInv, TypeOK, Call, AllOps
  <2>2. processLookupById[i] \in Entries /\ op # "remove"
    BY <1>3 DEF StopEntry, CanCall, Entries
  <2>3. Known(called)
    BY <2>1, <2>2 DEF Known
  <2> QED
    BY <1>3, <2>1, <2>3, StopperKeeps DEF StopEntry
<1>4. ASSUME NEW k \in Calls, NEW op \in {"stopAll", "terminate"}, StopEntries(k, op)
      PROVE  Kept'
  <2> DEFINE called == [IdleCall EXCEPT !.op = op]
  <2>1. called \in Call /\ called.op = op
    BY IdleCallType DEF Call, AllOps
  <2>2. Known(called)
    BY <2>1 DEF Known
  <2> QED
    BY <1>4, <2>1, <2>2, StopperKeeps DEF StopEntries
<1>5. ASSUME NEW k \in Calls, BeforeQuit(k) PROVE Kept'
  <2>1. CASE IsStoppedAll
    BY <1>5, <2>1, IdleKnown, CallKeeps DEF BeforeQuit
  <2>2. CASE ~IsStoppedAll
    <3> DEFINE called == [IdleCall EXCEPT !.op = "cleanup"]
    <3>1. called \in Call /\ called.op = "cleanup"
      BY IdleCallType DEF Call, AllOps
    <3>2. Known(called)
      BY <3>1 DEF Known
    <3> QED
      BY <1>5, <2>2, <3>1, <3>2, StopperKeeps DEF BeforeQuit
  <2> QED
    BY <2>1, <2>2
<1>6. ASSUME NEW k \in Calls, Resume(k) PROVE Kept'
  <2>1. CASE ResumeStart(k)
    <3>1. call[k] \in Call /\ call[k].proc \in Entries /\ Known(call[k])
      BY <2>1 DEF ResumeStart, Kept, Known, TypeInv, TypeOK
    <3>2. CASE IsRunning(call[k].proc)
      BY <2>1, <3>2, IdleKnown, CallKeeps DEF ResumeStart, StartProcess
    <3>3. ASSUME NEW c \in Children, Spawn(k, call[k].proc, c, call[k]) PROVE Kept'
      <4> DEFINE d == [call[k] EXCEPT !.pc = "starting", !.proc = call[k].proc, !.waits = {c}]
      <4>1. /\ child' = [child EXCEPT ![c] = "spawning"]
            /\ owner' = [owner EXCEPT ![c] = call[k].proc]
            /\ call' = [call EXCEPT ![k] = d]
        BY <3>3 DEF Spawn
      <4>2. d.op = call[k].op /\ d.proc = call[k].proc
        BY <3>1 DEF Call
      <4>3. \A m \in Calls : call'[m].op = call[m].op /\ call'[m].proc = call[m].proc
        BY <4>1, <4>2 DEF TypeInv, TypeOK
      <4>4. \A m \in Calls : Known(call'[m])
        BY <4>3 DEF Kept, Known
      <4>5. UNCHANGED processLookupById
        BY <2>1 DEF ResumeStart
      <4>6. \A e \in Children : child'[e] # "none" =>
              owner'[e] \in Entries \/ (child[e] # "none" /\ owner'[e] = owner[e])
        BY <3>1, <4>1 DEF TypeInv, TypeOK
      <4> QED
        BY <4>4, <4>5, <4>6, SameTableKeeps
    <3> QED
      BY <2>1, <3>2, <3>3 DEF ResumeStart, StartProcess
  <2>2. CASE ResumeRemove(k)
    BY <2>2 DEF ResumeRemove, Kept, Known
  <2>3. CASE ResumeStop(k)
    BY <2>3, IdleKnown, CallKeeps DEF ResumeStop
  <2>4. CASE ResumeCleanup(k)
    BY <1>5, <2>4 DEF ResumeCleanup
  <2> QED
    BY <1>6, <2>1, <2>2, <2>3, <2>4 DEF Resume
<1>7. ASSUME NEW k \in Calls, StopTimeout(k) PROVE Kept'
  <2>1. call[k] \in Call /\ Known(call[k])
    BY DEF TypeInv, TypeOK, Kept
  <2>2. Known([call[k] EXCEPT !.pc = "dialog", !.waits = {}])
    BY <2>1 DEF Known, Call
  <2>3. CASE call[k].op = "cleanup"
    BY <1>7, <2>2, <2>3, CallKeeps DEF StopTimeout
  <2>4. CASE call[k].op # "cleanup"
    BY <1>7, <2>4, IdleKnown, CallKeeps DEF StopTimeout
  <2> QED
    BY <2>3, <2>4
<1>8. ASSUME NEW c \in Children, SpawnEvent(c) PROVE Kept'
  <2>1. ASSUME NEW k \in Calls PROVE Known(call'[k])
    <3>1. call[k] \in Call /\ Known(call[k])
      BY DEF TypeInv, TypeOK, Kept
    <3>2. \/ call'[k] = call[k] \/ call'[k] = IdleCall
          \/ \E S : call'[k] = [call[k] EXCEPT !.pc = "waitOnExit", !.waits = S]
      BY <1>8 DEF SpawnEvent
    <3> QED
      BY <3>1, <3>2, IdleKnown DEF Known, Call
  <2> QED
    BY <1>8, <2>1, SameTableKeeps DEF SpawnEvent, Kept, TypeInv, TypeOK
<1>9. ASSUME NEW c \in Children, SpawnError(c) PROVE Kept'
  <2>1. \A k \in Calls : Known(call'[k])
    BY <1>9, IdleKnown DEF SpawnError, Kept
  <2> QED
    BY <1>9, <2>1, SameTableKeeps DEF SpawnError, Gone, Kept, TypeInv, TypeOK
<1>10. ASSUME NEW c \in Children, Exit(c) PROVE Kept'
  <2>1. ASSUME NEW k \in Calls PROVE Known(call'[k])
    <3>1. call[k] \in Call /\ Known(call[k])
      BY DEF TypeInv, TypeOK, Kept
    <3>2. call'[k] = AfterExit(k, c)
      BY <1>10 DEF Exit
    <3>3. \/ call'[k] = call[k] \/ call'[k] = IdleCall
          \/ \E S : call'[k] = [call[k] EXCEPT !.waits = S]
          \/ call'[k] = [call[k] EXCEPT !.pc = "ready", !.waits = {}]
      BY <3>2 DEF AfterExit
    <3> QED
      BY <3>1, <3>3, IdleKnown DEF Known, Call
  <2> QED
    BY <1>10, <2>1, SameTableKeeps DEF Exit, Gone, Kept, TypeInv, TypeOK
<1>11. CASE AppExit \/ (\E signal \in Signals : Kill(signal)) \/ UNCHANGED vars
  BY <1>11, SameTableKeeps DEF AppExit, Kill, vars, Kept
<1> QED
  BY <1>1, <1>2, <1>3, <1>4, <1>5, <1>6, <1>7, <1>8, <1>9, <1>10, <1>11
     DEF Next, Quit, DialogClosed, StopAll, Terminate

(* As long as nothing is removed, everything that runs is in the table.    *)
THEOREM NothingEscapes ==
  ASSUME "remove" \notin Ops
  PROVE  Spec => []NothingLost
<1>1. Init => Kept
  BY IdleKnown DEF Init, Kept, Known
<1>2. TypeInv /\ Kept /\ [Next]_vars => Kept'
  BY KeptStep
<1>3. Kept => NothingLost
  BY DEF Kept, NothingLost
<1> QED
  BY <1>1, <1>2, <1>3, TypeInvariant, PTL DEF Spec

---------------------------------------------------------------------------
(* When one call at a time is made, as by a user who waits: every child    *)
(* stays within reach of stop(), and a quit leaves no child behind,        *)
(* whatever spawn errors, exits and timeouts do to the calls.              *)

OneCall == \A k, m \in Calls : k = m

OthersIdle(k) == \A m \in Calls \ {k} : call[m].pc = "idle"

(* At most one call is under way, whoever makes it.                        *)
Alone == \A k \in Calls : call[k].pc # "idle" => OthersIdle(k)

LEMMA OneCallAlone == ASSUME OneCall PROVE Alone /\ \A k \in Calls : OthersIdle(k)
BY DEF OneCall, Alone, OthersIdle

(* The steps of a call, and those that no call makes.                      *)
CallStep(k) ==
    \/ \E i \in Ids, o \in Procs, op \in {"start", "run"} : StartNew(k, i, o, op)
    \/ \E i \in Ids, op \in {"start", "run"} : StartExisting(k, i, op)
    \/ \E i \in Ids, op \in {"stop", "remove", "restart"} : StopEntry(k, i, op)
    \/ StopAll(k)
    \/ \E signal \in Signals : Terminate(k, signal)
    \/ Quit(k) \/ Resume(k) \/ StopTimeout(k) \/ DialogClosed(k)

EventStep ==
    \/ \E c \in Children : SpawnEvent(c) \/ SpawnError(c) \/ Exit(c)
    \/ \E signal \in Signals : Kill(signal)
    \/ AppExit

(* The children that are alive: each is the current child of an entry of   *)
(* the table, the only one of its object; one that is spawning is what the *)
(* call waits for.                                                         *)
ChildTracked(c) ==
    /\ owner[c] \in Entries
    /\ childProcess[owner[c]] = c
    /\ child[c] = "running" => IsRunning(owner[c])
    /\ child[c] = "spawning" => \E k \in Calls : call[k].pc = "starting" /\ call[k].waits = {c}

AllTracked == \A c \in Children : child[c] # "none" => ChildTracked(c)

(* An object's current child is alive and its own.                         *)
CurrentIsOwn ==
    \A o \in Procs : childProcess[o] # None =>
        child[childProcess[o]] # "none" /\ owner[childProcess[o]] = o

(* What a call has stopped before it goes on.                              *)
Target(d) == IF d.op \in {"stopAll", "terminate", "cleanup"} THEN Entries ELSE {d.proc}

HoldsEntry(d) ==
    /\ d.op \notin {"stopAll", "terminate", "cleanup"} => d.proc \in Entries
    /\ d.op = "remove" => d.proc = processLookupById[d.id]

(* A call that stops processes waits for all of them that are running, and *)
(* goes on when none is.                                                   *)
StopsTarget(d) ==
    d.pc \in {"stopping", "ready"} =>
        /\ HoldsEntry(d)
        /\ d.pc = "ready" => d.waits = {}
        /\ \A o \in Target(d) : IsRunning(o) => childProcess[o] \in d.waits

StartsChild(d) == d.pc = "starting" => \A c \in d.waits : c \in Children /\ child[c] = "spawning"

WaitsForNothing(d) == d.pc \in {"idle", "dialog"} => d.waits = {}

CallSound(d) == StopsTarget(d) /\ StartsChild(d) /\ WaitsForNothing(d)

CallsSound == \A k \in Calls : CallSound(call[k])

(* An application that closes has nothing left to do.                      *)
ClosedIsDone ==
    app \in {"closing", "exited"} =>
        /\ \A k \in Calls : call[k].pc = "idle"
        /\ \A c \in Children : child[c] = "none"

SeqInv == AllTracked /\ CurrentIsOwn /\ CallsSound /\ ClosedIsDone

---------------------------------------------------------------------------

LEMMA NothingSpawning ==
  ASSUME SeqInv, NEW k \in Calls, OthersIdle(k), call[k].pc # "starting"
  PROVE  \A c \in Children : child[c] # "spawning"
BY DEF SeqInv, AllTracked, ChildTracked, OthersIdle

(* A call that is not under way stays sound whatever happens.              *)
LEMMA SoleCallSound ==
  ASSUME SeqInv, NEW k \in Calls, OthersIdle(k), CallSound(call[k])',
         \A m \in Calls \ {k} : call'[m] = call[m]
  PROVE  CallsSound'
<1> SUFFICES ASSUME NEW m \in Calls, m # k PROVE CallSound(call[m])'
  BY DEF CallsSound
<1>1. call[m].pc = "idle" /\ WaitsForNothing(call[m]) /\ call'[m] = call[m]
  BY DEF OthersIdle, SeqInv, CallsSound, CallSound
<1> QED
  BY <1>1 DEF CallSound, StopsTarget, StartsChild, WaitsForNothing

LEMMA IdleSound == CallSound(IdleCall)
BY DEF CallSound, StopsTarget, StartsChild, WaitsForNothing, IdleCall

LEMMA IdleSoundNext == CallSound(IdleCall)'
BY DEF CallSound, StopsTarget, StartsChild, WaitsForNothing, IdleCall

(* Children, objects and table stay as they are.                           *)
LEMMA ChildrenKept ==
  ASSUME TypeInv, SeqInv, NEW k \in Calls, OthersIdle(k), call[k].pc # "starting",
         UNCHANGED <<processLookupById, state, childProcess, owner, child>>
  PROVE  AllTracked' /\ CurrentIsOwn'
<1>1. Entries' = Entries
  BY DEF Entries
<1>2. AllTracked'
  BY <1>1, NothingSpawning DEF SeqInv, AllTracked, ChildTracked, IsRunning
<1>3. CurrentIsOwn'
  BY DEF SeqInv, CurrentIsOwn
<1> QED
  BY <1>2, <1>3

(* The call waits for something that it does not act on, or is over.       *)
LEMMA SettledCallKeeps ==
  ASSUME TypeInv, SeqInv, NEW k \in Calls, OthersIdle(k), call[k].pc # "starting",
         UNCHANGED <<processLookupById, state, childProcess, owner, child, app>>,
         NEW d, d.pc \notin {"stopping", "ready", "starting"},
         d.pc \in {"idle", "dialog"} => d.waits = {},
         app = "open" \/ d.pc = "idle",
         call' = [call EXCEPT ![k] = d]
  PROVE  SeqInv'
<1>1. call'[k] = d /\ \A m \in Calls \ {k} : call'[m] = call[m] /\ call[m].pc = "idle"
  BY DEF TypeInv, TypeOK, OthersIdle
<1>2. CallSound(call[k])'
  BY <1>1 DEF CallSound, StopsTarget, StartsChild, WaitsForNothing
<1>3. ClosedIsDone'
  BY <1>1 DEF SeqInv, ClosedIsDone
<1> QED
  BY <1>1, <1>2, <1>3, ChildrenKept, SoleCallSound DEF SeqInv

(* stop() of the targets of a call.                                        *)
LEMMA StopProcessesKeeps ==
  ASSUME TypeInv, SeqInv, NEW k \in Calls, OthersIdle(k), call[k].pc # "starting", app = "open",
         UNCHANGED <<processLookupById, state, childProcess, owner, child, app>>,
         NEW called \in Call, HoldsEntry(called), StopProcesses(k, called, Target(called))
  PROVE  SeqInv'
<1>1. PICK killed : killed = {childProcess[o] : o \in {p \in Target(called) : IsRunning(p)}}
  OBVIOUS
<1>2. PICK d : d = [called EXCEPT !.pc = IF killed = {} THEN "ready" ELSE "stopping",
                                  !.waits = killed]
  OBVIOUS
<1>3. /\ d.pc \in {"stopping", "ready"} /\ d.waits = killed
      /\ d.pc = "ready" => killed = {}
      /\ d.op = called.op /\ d.proc = called.proc /\ d.id = called.id
  BY <1>2 DEF Call
<1>4. call'[k] = d /\ \A m \in Calls \ {k} : call'[m] = call[m]
  BY <1>1, <1>2 DEF StopProcesses, TypeInv, TypeOK
<1>5. Entries' = Entries
  BY DEF Entries
<1>6. HoldsEntry(d)' /\ Target(d)' = Target(called)
  BY <1>3, <1>5 DEF Target, HoldsEntry
<1>7. CallSound(call[k])'
  <2>1. \A o \in Target(called) : IsRunning(o) => childProcess[o] \in killed
    BY <1>1
  <2>2. \A o \in Target(d)' : IsRunning(o)' => childProcess'[o] \in d.waits
    BY <1>3, <1>6, <2>1 DEF IsRunning
  <2> QED
    BY <1>3, <1>4, <1>6, <2>2
       DEF CallSound, StopsTarget, StartsChild, WaitsForNothing, HoldsEntry, Target
<1>8. ClosedIsDone'
  BY DEF ClosedIsDone
<1> QED
  BY <1>4, <1>7, <1>8, ChildrenKept, SoleCallSound DEF SeqInv

(* A child is spawned for an object that has none.                         *)
LEMMA SpawnKeeps ==
  ASSUME TypeInv, NEW k \in Calls, OthersIdle(k), call[k].pc # "starting", app = "open",
         SeqInv, UNCHANGED app, Entries \subseteq Entries',
         NEW o \in Procs, o \in Entries', \A e \in Children : owner[e] = o => child[e] = "none",
         \A p \in Procs : p # o => state'[p] = state[p],
         NEW c \in Children, NEW called \in Call, Spawn(k, o, c, called)
  PROVE  SeqInv'
<1> DEFINE d == [called EXCEPT !.pc = "starting", !.proc = o, !.waits = {c}]
<1>1. /\ child[c] = "none"
      /\ child' = [child EXCEPT ![c] = "spawning"]
      /\ owner' = [owner EXCEPT ![c] = o]
      /\ childProcess' = [childProcess EXCEPT ![o] = c]
      /\ call' = [call EXCEPT ![k] = d]
  BY DEF Spawn, FreeChildren
<1>2. d.pc = "starting" /\ d.waits = {c}
  BY DEF Call
<1> HIDE DEF d
<1>3. call'[k] = d /\ \A m \in Calls \ {k} : call'[m] = call[m]
  BY <1>1 DEF TypeInv, TypeOK
<1>4. ChildTracked(c)'
  BY <1>1, <1>2, <1>3 DEF ChildTracked, TypeInv, TypeOK
<1>5. ASSUME NEW e \in Children, e # c, child'[e] # "none" PROVE ChildTracked(e)'
  <2>1. child[e] # "none" /\ child'[e] = child[e] /\ owner'[e] = owner[e]
    BY <1>1, <1>5 DEF TypeInv, TypeOK
  <2>2. ChildTracked(e) /\ child[e] = "running" /\ owner[e] \in Procs /\ owner[e] # o
    BY <2>1, NothingSpawning DEF SeqInv, AllTracked, TypeInv, TypeOK, OwnedChildren
  <2> QED
    BY <1>1, <2>1, <2>2 DEF ChildTracked, IsRunning, TypeInv, TypeOK
<1>6. CurrentIsOwn'
  <2> SUFFICES ASSUME NEW p \in Procs, childProcess'[p] # None
               PROVE  child'[childProcess'[p]] # "none" /\ owner'[childProcess'[p]] = p
    BY DEF CurrentIsOwn
  <2>1. CASE p = o
    BY <1>1, <2>1 DEF TypeInv, TypeOK
  <2>2. CASE p # o
    <3>1. childProcess'[p] = childProcess[p] /\ childProcess[p] \in Children
      BY <1>1, <2>2 DEF TypeInv, TypeOK
    <3>2. child[childProcess[p]] # "none" /\ owner[childProcess[p]] = p
      BY <3>1 DEF SeqInv, CurrentIsOwn
    <3> QED
      BY <1>1, <3>1, <3>2 DEF TypeInv, TypeOK
  <2> QED
    BY <2>1, <2>2
<1>7. CallSound(call[k])'
  BY <1>1, <1>2, <1>3 DEF CallSound, StopsTarget, StartsChild, WaitsForNothing, TypeInv, TypeOK
<1>8. ClosedIsDone'
  BY DEF ClosedIsDone
<1> QED
  BY <1>3, <1>4, <1>5, <1>6, <1>7, <1>8, SoleCallSound DEF SeqInv, AllTracked

---------------------------------------------------------------------------

(* Nothing is running any more when the application closes.                *)
LEMMA CloseKeeps ==
  ASSUME TypeInv, SeqInv, NEW k \in Calls, OthersIdle(k), call[k].pc # "starting", IsStoppedAll,
         UNCHANGED <<processLookupById, state, childProcess, owner, child>>,
         call' = [call EXCEPT ![k] = IdleCall]
  PROVE  SeqInv'
<1>1. call'[k] = IdleCall /\ \A m \in Calls \ {k} : call'[m] = call[m] /\ call[m].pc = "idle"
  BY DEF TypeInv, TypeOK, OthersIdle
<1>2. CallSound(call[k])'
  BY <1>1 DEF CallSound, StopsTarget, StartsChild, WaitsForNothing, IdleCall
<1>3. \A c \in Children : child[c] = "none"
  <2>1. \A c \in Children : child[c] \in {"none", "running"}
    BY NothingSpawning DEF TypeInv, TypeOK
  <2> QED
    BY <2>1 DEF SeqInv, AllTracked, ChildTracked, IsStoppedAll
<1>4. ClosedIsDone'
  BY <1>1, <1>3 DEF ClosedIsDone, IdleCall
<1> QED
  BY <1>1, <1>2, <1>4, ChildrenKept, SoleCallSound DEF SeqInv

LEMMA StartNewKeeps ==
  ASSUME TypeInv, SeqInv, NEW k \in Calls, OthersIdle(k), NEW i \in Ids, NEW o \in Procs,
         NEW op \in {"start", "run"}, StartNew(k, i, o, op)
  PROVE  SeqInv'
<1>1. PICK c \in Children : Spawn(k, o, c, [IdleCall EXCEPT !.op = op, !.id = i])
  BY DEF StartNew
<1>2. [IdleCall EXCEPT !.op = op, !.id = i] \in Call
  BY IdleCallType DEF Call, AllOps
<1>3. /\ processLookupById[i] = None
      /\ processLookupById' = [processLookupById EXCEPT ![i] = o]
      /\ state' = [state EXCEPT ![o] = "NOT_RUNNING"]
      /\ \A e \in Children : owner[e] # o
      /\ app = "open" /\ app' = app /\ call[k].pc = "idle"
  BY DEF StartNew, CanCall, Collectable
<1>4. Entries \subseteq Entries' /\ o \in Entries'
  BY <1>3, NoneAssumption DEF NoneAssumption, TypeInv, TypeOK, Entries
<1>5. \A p \in Procs : p # o => state'[p] = state[p]
  BY <1>3 DEF TypeInv, TypeOK
<1> QED
  BY <1>1, <1>2, <1>3, <1>4, <1>5, SpawnKeeps

LEMMA StopperKeepsTracking ==
  ASSUME TypeInv, SeqInv, NEW k \in Calls, OthersIdle(k), NEW i \in Ids,
         \/ \E op \in {"start", "run"} : StartExisting(k, i, op)
         \/ \E op \in {"stop", "remove", "restart"} : StopEntry(k, i, op)
  PROVE  SeqInv'
<1>1. /\ processLookupById[i] \in Entries
      /\ call[k].pc # "starting" /\ app = "open"
      /\ UNCHANGED <<processLookupById, state, childProcess, owner, child, app>>
  BY DEF StartExisting, StopEntry, CanCall, Entries
<1>2. ASSUME NEW op \in {"start", "run"}, StartExisting(k, i, op) PROVE SeqInv'
  <2> DEFINE called == [IdleCall EXCEPT !.op = op, !.proc = processLookupById[i]]
  <2>1. called \in Call /\ called.op = op /\ called.proc = processLookupById[i]
    BY IdleCallType DEF TypeInv, TypeOK, Call, AllOps
  <2>2. HoldsEntry(called) /\ Target(called) = {processLookupById[i]}
    BY <1>1, <2>1 DEF HoldsEntry, Target
  <2>3. StopProcesses(k, called, {processLookupById[i]})
    BY <1>2 DEF StartExisting
  <2> QED
    BY <1>1, <2>1, <2>2, <2>3, StopProcessesKeeps
<1>3. ASSUME NEW op \in {"stop", "remove", "restart"}, StopEntry(k, i, op) PROVE SeqInv'
  <2> DEFINE called == [IdleCall EXCEPT !.op = op, !.id = i, !.proc = processLookupById[i]]
  <2>1. /\ called \in Call /\ called.op = op /\ called.proc = processLookupById[i]
        /\ called.id = i
    BY IdleCallType DEF TypeInv, TypeOK, Call, AllOps
  <2>2. HoldsEntry(called) /\ Target(called) = {processLookupById[i]}
    BY <1>1, <2>1 DEF HoldsEntry, Target
  <2>3. StopProcesses(k, called, {processLookupById[i]})
    BY <1>3 DEF StopEntry
  <2> QED
    BY <1>1, <2>1, <2>2, <2>3, StopProcessesKeeps
<1> QED
  BY <1>2, <1>3

(* stopAll() for one of the three reasons there are.                       *)
LEMMA StopEntriesKeeps ==
  ASSUME TypeInv, SeqInv, NEW k \in Calls, OthersIdle(k), call[k].pc # "starting", app = "open",
         NEW op \in {"stopAll", "terminate", "cleanup"},
         StopProcesses(k, [IdleCall EXCEPT !.op = op], Entries),
         UNCHANGED <<processLookupById, state, childProcess, owner, child, app>>
  PROVE  SeqInv'
<1> DEFINE called == [IdleCall EXCEPT !.op = op]
<1>1. called \in Call /\ called.op = op
  BY IdleCallType DEF Call, AllOps
<1>2. HoldsEntry(called) /\ Target(called) = Entries
  BY <1>1 DEF HoldsEntry, Target
<1>3. StopProcesses(k, called, Entries)
  OBVIOUS
<1> HIDE DEF called
<1> QED
  BY <1>1, <1>2, <1>3, StopProcessesKeeps

LEMMA BeforeQuitKeeps ==
  ASSUME TypeInv, SeqInv, NEW k \in Calls, OthersIdle(k), call[k].pc # "starting", app = "open",
         BeforeQuit(k)
  PROVE  SeqInv'
<1>1. CASE IsStoppedAll
  BY <1>1, CloseKeeps DEF BeforeQuit
<1>2. CASE ~IsStoppedAll
  BY <1>2, StopEntriesKeeps DEF BeforeQuit
<1> QED
  BY <1>1, <1>2

(* A call that goes on has stopped its targets.                            *)
LEMMA ReadyCall ==
  ASSUME TypeInv, SeqInv, NEW k \in Calls, call[k].pc = "ready", Alive
  PROVE  /\ app = "open"
         /\ HoldsEntry(call[k])
         /\ \A o \in Target(call[k]) : ~IsRunning(o)
BY DEF Alive, SeqInv, ClosedIsDone, CallsSound, CallSound, StopsTarget

LEMMA ResumeKeeps ==
  ASSUME TypeInv, SeqInv, NEW k \in Calls, OthersIdle(k), Resume(k)
  PROVE  SeqInv'
<1>1. call[k].pc = "ready" /\ call[k] \in Call
  BY DEF Resume, ResumeStart, ResumeRemove, ResumeStop, ResumeCleanup, TypeInv, TypeOK
<1>2. app = "open" /\ HoldsEntry(call[k]) /\ \A o \in Target(call[k]) : ~IsRunning(o)
  BY <1>1, ReadyCall DEF Resume
<1>3. \A e \in Children : child[e] # "none" => child[e] = "running" /\ IsRunning(owner[e])
  <2>1. \A e \in Children : child[e] \in {"none", "running"}
    BY <1>1, NothingSpawning DEF TypeInv, TypeOK
  <2> QED
    BY <2>1 DEF SeqInv, AllTracked, ChildTracked
<1>4. CASE ResumeStart(k)
  <2>1. PICK o : o = call[k].proc
    OBVIOUS
  <2>2. o \in Procs /\ o \in Entries /\ ~IsRunning(o)
    BY <1>2, <1>4, <2>1, EntriesType DEF ResumeStart, HoldsEntry, Target, TypeInv
  <2>3. PICK c \in Children : Spawn(k, o, c, call[k])
    BY <1>4, <2>1, <2>2 DEF ResumeStart, StartProcess
  <2>4. \A e \in Children : owner[e] = o => child[e] = "none"
    BY <1>3, <2>2
  <2>5. Entries' = Entries /\ UNCHANGED <<state, app>>
    BY <1>4 DEF ResumeStart, Entries
  <2> QED
    BY <1>1, <1>2, <2>2, <2>3, <2>4, <2>5, SpawnKeeps
<1>5. CASE ResumeRemove(k)
  <2>1. /\ call[k].proc = processLookupById[call[k].id]
        /\ ~IsRunning(call[k].proc)
    BY <1>2, <1>5 DEF ResumeRemove, HoldsEntry, Target
  <2>2. /\ processLookupById' = [processLookupById EXCEPT ![call[k].id] = None]
        /\ call' = [call EXCEPT ![k] = IdleCall]
        /\ UNCHANGED <<state, childProcess, owner, child, app>>
    BY <1>5 DEF ResumeRemove
  <2>3. ASSUME NEW e \in Children, child'[e] # "none" PROVE ChildTracked(e)'
    <3>1. ChildTracked(e) /\ child[e] = "running" /\ owner[e] # call[k].proc
      BY <1>3, <2>1, <2>2, <2>3 DEF SeqInv, AllTracked
    <3>2. PICK j \in Ids : owner[e] = processLookupById[j] /\ owner[e] # None
      BY <3>1 DEF ChildTracked, Entries
    <3>3. processLookupById'[j] = owner[e]
      BY <2>1, <2>2, <3>1, <3>2 DEF TypeInv, TypeOK
    <3>4. owner'[e] \in Entries'
      BY <2>2, <3>2, <3>3 DEF Entries
    <3> QED
      BY <2>2, <3>1, <3>4 DEF ChildTracked, IsRunning
  <2>4. CurrentIsOwn'
    BY <2>2 DEF SeqInv, CurrentIsOwn
  <2>5. CallSound(call[k])' /\ \A m \in Calls \ {k} : call'[m] = call[m]
    BY <2>2 DEF CallSound, StopsTarget, StartsChild, WaitsForNothing, IdleCall, TypeInv, TypeOK
  <2>6. ClosedIsDone'
    BY <1>2, <2>2 DEF ClosedIsDone
  <2> QED
    BY <2>3, <2>4, <2>5, <2>6, SoleCallSound DEF SeqInv, AllTracked
<1>6. CASE ResumeStop(k)
  <2>1. CASE call[k].op = "terminate"
    <3>1. IsStoppedAll
      BY <1>2, <2>1 DEF Target, IsStoppedAll
    <3> QED
      BY <1>1, <1>6, <3>1, CloseKeeps DEF ResumeStop
  <2>2. CASE call[k].op # "terminate"
    <3>1. IdleCall.pc = "idle" /\ IdleCall.waits = {}
      BY DEF IdleCall
    <3> QED
      BY <1>1, <1>6, <2>2, <3>1, SettledCallKeeps DEF ResumeStop
  <2> QED
    BY <2>1, <2>2
<1>7. CASE ResumeCleanup(k)
  BY <1>1, <1>2, <1>7, BeforeQuitKeeps DEF ResumeCleanup
<1> QED
  BY <1>4, <1>5, <1>6, <1>7 DEF Resume

LEMMA StopTimeoutKeeps ==
  ASSUME TypeInv, SeqInv, NEW k \in Calls, OthersIdle(k), StopTimeout(k)
  PROVE  SeqInv'
<1>1. call[k].pc = "stopping" /\ call[k] \in Call /\ app = "open"
  BY DEF StopTimeout, Quiet, MicrotasksDone, Alive, SeqInv, ClosedIsDone, TypeInv, TypeOK
<1>2. PICK d : /\ call' = [call EXCEPT ![k] = d]
               /\ d.pc \in {"idle", "dialog"} /\ d.waits = {}
  <2>1. CASE call[k].op = "cleanup"
    <3>1. PICK d : d = [call[k] EXCEPT !.pc = "dialog", !.waits = {}]
      OBVIOUS
    <3>2. d.pc = "dialog" /\ d.waits = {}
      BY <1>1, <3>1 DEF Call
    <3>3. call' = [call EXCEPT ![k] = d]
      BY <2>1, <3>1 DEF StopTimeout
    <3> QED
      BY <3>2, <3>3
  <2>2. CASE call[k].op # "cleanup"
    <3>1. call' = [call EXCEPT ![k] = IdleCall]
      BY <2>2 DEF StopTimeout
    <3>2. IdleCall.pc = "idle" /\ IdleCall.waits = {}
      BY DEF IdleCall
    <3> QED
      BY <3>1, <3>2
  <2> QED
    BY <2>1, <2>2
<1> QED
  BY <1>1, <1>2, SettledCallKeeps DEF StopTimeout

---------------------------------------------------------------------------

(* A child that is announced, or could not be spawned, is the one the call *)
(* waits for; there is no other one spawning.                              *)
LEMMA SpawningChild ==
  ASSUME TypeInv, SeqInv, Alone, NEW c \in Children, child[c] = "spawning", Alive
  PROVE  /\ ChildTracked(c) /\ owner[c] \in Procs /\ app = "open"
         /\ \E k \in Calls : call[k].pc = "starting" /\ call[k].waits = {c} /\ OthersIdle(k)
         /\ \A e \in Children : e # c => child[e] # "spawning"
<1>1. ChildTracked(c) /\ owner[c] \in Procs /\ app = "open"
  BY DEF Alive, SeqInv, AllTracked, ClosedIsDone, TypeInv, OwnedChildren
<1>2. PICK k \in Calls : call[k].pc = "starting" /\ call[k].waits = {c}
  BY <1>1 DEF ChildTracked
<1>3. OthersIdle(k)
  BY <1>2 DEF Alone
<1>4. ASSUME NEW e \in Children, e # c PROVE child[e] # "spawning"
  BY <1>2, <1>3, <1>4 DEF OthersIdle, SeqInv, AllTracked, ChildTracked
<1> QED
  BY <1>1, <1>2, <1>3, <1>4

LEMMA SpawnEventKeeps ==
  ASSUME TypeInv, SeqInv, Alone, NEW c \in Children, SpawnEvent(c)
  PROVE  SeqInv'
<1>0. Alive
  BY DEF SpawnEvent, MicrotasksDone
<1>1. PICK k \in Calls : call[k].pc = "starting" /\ call[k].waits = {c} /\ OthersIdle(k)
  BY <1>0, SpawningChild DEF SpawnEvent
<1>2. /\ child[c] = "spawning" /\ ChildTracked(c) /\ owner[c] \in Procs /\ app = "open"
      /\ \A e \in Children : e # c => child[e] # "spawning"
  BY <1>0, SpawningChild DEF SpawnEvent
<1>3. /\ child' = [child EXCEPT ![c] = "running"]
      /\ state' = [state EXCEPT ![owner[c]] = "RUNNING"]
      /\ UNCHANGED <<processLookupById, childProcess, owner, app>>
      /\ Entries' = Entries
  BY DEF SpawnEvent, Entries
<1>4. ASSUME NEW e \in Children, child'[e] # "none" PROVE ChildTracked(e)'
  <2>1. ChildTracked(e) /\ child'[e] = "running"
    BY <1>2, <1>3, <1>4 DEF SeqInv, AllTracked, TypeInv, TypeOK
  <2>2. IsRunning(owner[e])'
    BY <1>2, <1>3, <2>1 DEF ChildTracked, IsRunning, SeqInv, AllTracked, TypeInv, TypeOK,
       OwnedChildren
  <2> QED
    BY <1>3, <2>1, <2>2 DEF ChildTracked
<1>5. CurrentIsOwn'
  BY <1>3 DEF SeqInv, CurrentIsOwn, TypeInv, TypeOK
<1>6. CallSound(call[k])' /\ \A m \in Calls \ {k} : call'[m] = call[m]
  <2>1. call'[k].pc = "waitOnExit" \/ call'[k] = IdleCall
    BY <1>1 DEF SpawnEvent, TypeInv, TypeOK, Call
  <2>2. \A m \in Calls \ {k} : call'[m] = call[m]
    BY <1>1 DEF SpawnEvent, OthersIdle
  <2> QED
    BY <2>1, <2>2 DEF CallSound, StopsTarget, StartsChild, WaitsForNothing, IdleCall
<1>7. ClosedIsDone'
  BY <1>2, <1>3 DEF ClosedIsDone
<1> QED
  BY <1>1, <1>4, <1>5, <1>6, <1>7, SoleCallSound DEF SeqInv, AllTracked

(* What is left when a child is gone.                                      *)
LEMMA GoneKeeps ==
  ASSUME TypeInv, SeqInv, NEW c \in Children, child[c] # "none", Gone(c),
         UNCHANGED processLookupById,
         \A e \in Children : e # c => child[e] # "spawning",
         \A o \in Procs : o # owner[c] => state'[o] = state[o]
  PROVE  AllTracked' /\ CurrentIsOwn'
<1>1. /\ child' = [child EXCEPT ![c] = "none"]
      /\ owner' = [owner EXCEPT ![c] = None]
      /\ childProcess' = [o \in Procs |-> IF childProcess[o] = c THEN None ELSE childProcess[o]]
      /\ Entries' = Entries
  BY DEF Gone, Entries
<1>2. ChildTracked(c)
  BY DEF SeqInv, AllTracked
<1>3. ASSUME NEW e \in Children, child'[e] # "none" PROVE ChildTracked(e)'
  <2>1. /\ e # c /\ child'[e] = child[e] /\ owner'[e] = owner[e]
        /\ ChildTracked(e) /\ child[e] = "running" /\ owner[e] \in Procs
    BY <1>1, <1>3 DEF SeqInv, AllTracked, TypeInv, TypeOK, OwnedChildren
  <2>2. owner[e] # owner[c]
    BY <1>2, <2>1 DEF ChildTracked
  <2>3. childProcess'[owner[e]] = e /\ state'[owner[e]] = state[owner[e]]
    BY <1>1, <2>1, <2>2 DEF ChildTracked
  <2> QED
    BY <1>1, <2>1, <2>3 DEF ChildTracked, IsRunning
<1>4. CurrentIsOwn'
  <2> SUFFICES ASSUME NEW p \in Procs, childProcess'[p] # None
               PROVE  child'[childProcess'[p]] # "none" /\ owner'[childProcess'[p]] = p
    BY DEF CurrentIsOwn
  <2>1. /\ childProcess'[p] = childProcess[p] /\ childProcess[p] # c
        /\ childProcess[p] \in Children
    BY <1>1 DEF TypeInv, TypeOK
  <2>2. child[childProcess[p]] # "none" /\ owner[childProcess[p]] = p
    BY <2>1 DEF SeqInv, CurrentIsOwn
  <2> QED
    BY <1>1, <2>1, <2>2 DEF TypeInv, TypeOK
<1> QED
  BY <1>3, <1>4 DEF AllTracked

LEMMA SpawnErrorKeeps ==
  ASSUME TypeInv, SeqInv, Alone, NEW c \in Children, SpawnError(c)
  PROVE  SeqInv'
<1>0. Alive
  BY DEF SpawnError, MicrotasksDone
<1>1. PICK k \in Calls : call[k].pc = "starting" /\ call[k].waits = {c} /\ OthersIdle(k)
  BY <1>0, SpawningChild DEF SpawnError
<1>2. AllTracked' /\ CurrentIsOwn' /\ app = "open"
  BY <1>0, SpawningChild, GoneKeeps DEF SpawnError
<1>3. call'[k] = IdleCall /\ app' = app /\ \A m \in Calls \ {k} : call'[m] = call[m]
  BY <1>1 DEF SpawnError, OthersIdle
<1>4. CallSound(call[k])'
  BY <1>3 DEF CallSound, StopsTarget, StartsChild, WaitsForNothing, IdleCall
<1> QED
  BY <1>1, <1>2, <1>3, <1>4, SoleCallSound DEF SeqInv, ClosedIsDone

LEMMA ExitKeeps ==
  ASSUME TypeInv, SeqInv, Alone, NEW c \in Children, Exit(c)
  PROVE  SeqInv'
<1>1. /\ child[c] = "running" /\ ChildTracked(c) /\ owner[c] \in Procs /\ app = "open"
      /\ \A e \in Children : child[e] # "spawning"
      /\ c # None
  BY NoneAssumption
     DEF Exit, Quiet, MicrotasksDone, Alive, SeqInv, AllTracked, ClosedIsDone, TypeInv,
         OwnedChildren, NoneAssumption
<1>2. /\ state' \in {[state EXCEPT ![owner[c]] = s] : s \in {"NOT_RUNNING", "ERROR"}}
      /\ childProcess' = [o \in Procs |-> IF childProcess[o] = c THEN None ELSE childProcess[o]]
      /\ UNCHANGED <<processLookupById, app>> /\ Entries' = Entries
      /\ Gone(c)
  BY DEF Exit, Gone, StateAfterExit, Entries
<1>3. AllTracked' /\ CurrentIsOwn'
  <2>1. \A o \in Procs : o # owner[c] => state'[o] = state[o]
    BY <1>2 DEF TypeInv, TypeOK
  <2> QED
    BY <1>1, <1>2, <2>1, GoneKeeps
(* What is still running after the exit is another object.                 *)
<1>4. ASSUME NEW o \in Procs, IsRunning(o)'
      PROVE  IsRunning(o) /\ childProcess'[o] = childProcess[o] /\ childProcess[o] # c
  <2>1. o # owner[c] /\ IsRunning(o)
    BY <1>1, <1>2, <1>4 DEF IsRunning, TypeInv, TypeOK
  <2>2. childProcess[o] # c
    BY <1>1, <2>1 DEF SeqInv, CurrentIsOwn
  <2> QED
    BY <1>2, <2>1, <2>2
<1>5. ASSUME NEW k \in Calls PROVE CallSound(call[k])'
  <2>1. PICK d : d = call[k]
    OBVIOUS
  <2>2. PICK e : e = call'[k]
    OBVIOUS
  <2>3. d \in Call /\ CallSound(d) /\ e = AfterExit(k, c)
    BY <2>1, <2>2 DEF TypeInv, TypeOK, SeqInv, CallsSound, Exit
  <2>4. /\ e.op = d.op /\ e.proc = d.proc /\ e.id = d.id /\ e.waits = d.waits \ {c}
        /\ \/ e.pc = d.pc
           \/ e.pc = "ready" /\ d.pc \notin {"idle", "dialog", "starting"} /\ e.waits = {}
              /\ d.pc # "waitOnExit"
     \/ e = IdleCall
    BY <1>1, <2>1, <2>3
       DEF AfterExit, CallSound, StartsChild, WaitsForNothing, Call
  <2>5. CASE e = IdleCall
    BY <2>2, <2>5 DEF CallSound, StopsTarget, StartsChild, WaitsForNothing, IdleCall
  <2>6. CASE e # IdleCall /\ e.pc \in {"stopping", "ready"}
    <3>1. d.pc \in {"stopping", "ready"} /\ e.waits = d.waits \ {c}
      BY <2>3, <2>4, <2>6 DEF Call
    <3>2. HoldsEntry(d) /\ (\A o \in Target(d) : IsRunning(o) => childProcess[o] \in d.waits)
      BY <2>3, <3>1 DEF CallSound, StopsTarget
    <3>3. HoldsEntry(e)' /\ Target(e)' = Target(d)
      BY <1>2, <2>4, <2>6, <3>2 DEF HoldsEntry, Target
    <3>4. \A o \in Procs : o \in Target(d) /\ IsRunning(o)' => childProcess'[o] \in e.waits
      BY <1>4, <3>1, <3>2
    <3>5. \A o \in Target(d) : IsRunning(o)' => o \in Procs
      BY <2>3, <3>2, EntriesType DEF Target, HoldsEntry, Call, TypeInv
    <3>6. e.pc = "ready" => e.waits = {}
      BY <2>3, <2>4, <2>6 DEF CallSound, StopsTarget
    <3> QED
      BY <2>2, <2>6, <3>3, <3>4, <3>5, <3>6
         DEF CallSound, StopsTarget, StartsChild, WaitsForNothing, HoldsEntry, Target
  <2>7. CASE e # IdleCall /\ e.pc \notin {"stopping", "ready"}
    <3>1. e.pc = d.pc /\ e.waits \subseteq d.waits
      BY <2>4, <2>7
    <3>2. WaitsForNothing(e)
      BY <2>3, <3>1 DEF CallSound, WaitsForNothing
    <3>3. e.pc = "starting" => e.waits = {}
      BY <1>1, <2>3, <3>1 DEF CallSound, StartsChild
    <3> QED
      BY <2>2, <2>7, <3>2, <3>3 DEF CallSound, StopsTarget, StartsChild, WaitsForNothing
  <2> QED
    BY <2>5, <2>6, <2>7
<1>6. ClosedIsDone'
  BY <1>1, <1>2 DEF ClosedIsDone
<1> QED
  BY <1>3, <1>5, <1>6 DEF SeqInv, CallsSound

---------------------------------------------------------------------------

(* The steps of a call while no other one is under way, and of the others. *)
LEMMA CallKeepsSeqInv ==
  ASSUME TypeInv, SeqInv, NEW k \in Calls, OthersIdle(k), CallStep(k)
  PROVE  SeqInv'
<1>1. ASSUME StopAll(k) \/ \E signal \in Signals : Terminate(k, signal)
      PROVE  SeqInv'
  BY <1>1, StopEntriesKeeps DEF StopAll, Terminate, StopEntries, CanCall
<1>2. CASE Quit(k)
  BY <1>2, BeforeQuitKeeps DEF Quit, CanCall
<1>3. CASE DialogClosed(k)
  <2>1. app = "open"
    BY <1>3 DEF DialogClosed, Quiet, MicrotasksDone, Alive, SeqInv, ClosedIsDone
  <2> QED
    BY <1>3, <2>1, BeforeQuitKeeps DEF DialogClosed
<1> QED
  BY <1>1, <1>2, <1>3, StartNewKeeps, StopperKeepsTracking, ResumeKeeps, StopTimeoutKeeps
     DEF CallStep

LEMMA EventKeepsSeqInv ==
  ASSUME TypeInv, SeqInv, Alone, EventStep \/ UNCHANGED vars
  PROVE  SeqInv'
<1>1. CASE AppExit \/ (\E signal \in Signals : Kill(signal)) \/ UNCHANGED vars
  <2>1. /\ UNCHANGED <<processLookupById, state, childProcess, owner, child, call>>
        /\ app' \in {"closing", "exited"} => app \in {"closing", "exited"}
        /\ Entries' = Entries
    BY <1>1 DEF AppExit, Kill, vars, Entries
  <2>2. AllTracked' /\ CurrentIsOwn'
    BY <2>1 DEF SeqInv, AllTracked, ChildTracked, IsRunning, CurrentIsOwn
  <2>3. ClosedIsDone'
    BY <2>1 DEF SeqInv, ClosedIsDone
  <2>4. CallsSound'
    BY <2>1 DEF SeqInv, CallsSound, CallSound, StopsTarget, StartsChild, WaitsForNothing,
       HoldsEntry, Target, IsRunning
  <2> QED
    BY <2>2, <2>3, <2>4 DEF SeqInv
<1> QED
  BY <1>1, SpawnEventKeeps, SpawnErrorKeeps, ExitKeeps DEF EventStep

LEMMA SeqInvStep ==
  ASSUME OneCall, TypeInv, SeqInv, [Next]_vars
  PROVE  SeqInv'
<1>1. (\E k \in Calls : CallStep(k)) \/ EventStep \/ UNCHANGED vars
  BY DEF Next, CallStep, EventStep
<1> QED
  BY <1>1, OneCallAlone, CallKeepsSeqInv, EventKeepsSeqInv

LEMMA InitSeqInv == Init => SeqInv
BY DEF Init, SeqInv, AllTracked, CurrentIsOwn, CallsSound, CallSound, StopsTarget,
   StartsChild, WaitsForNothing, ClosedIsDone, IdleCall

THEOREM SequentialInvariant == ASSUME OneCall PROVE Spec => []SeqInv
<1>1. TypeInv /\ SeqInv /\ [Next]_vars => SeqInv'
  BY SeqInvStep
<1> QED
  BY <1>1, InitSeqInv, TypeInvariant, PTL DEF Spec

(* With one call at a time every child that is alive is the current child  *)
(* of an entry that is reported as running: the next stop() reaches it.    *)
THEOREM NothingOutOfReach == ASSUME OneCall PROVE Spec => []Tracked
<1>1. SeqInv => Tracked
  BY DEF SeqInv, AllTracked, ChildTracked, Tracked
<1> QED
  BY <1>1, SequentialInvariant, PTL

(* And the application never exits before its children: not by its quit    *)
(* handler, and not by the listener of a signal.  The second signal of a   *)
(* kind has no listener, and kills it whatever its children do.            *)
THEOREM QuitLeavesNothing == ASSUME OneCall PROVE Spec => []ExitLeavesNoChild
<1>1. SeqInv => ExitLeavesNoChild
  BY DEF SeqInv, ClosedIsDone, ExitLeavesNoChild
<1> QED
  BY <1>1, SequentialInvariant, PTL

---------------------------------------------------------------------------
(* The desktop application.                                                *)

LEMMA AnyOptionsType == AnyOptions \in Options
<1>1. PICK w \in Workspaces : TRUE
  BY AppAssumption DEF AppAssumption
<1>2. [workspace |-> w, settings |-> 0] \in Options
  BY AppAssumption DEF AppAssumption, Options
<1> QED
  BY <1>2 DEF AnyOptions

LEMMA IdleHandlerType == IdleHandler \in Handler
BY AnyOptionsType DEF IdleHandler, Handler

LEMMA EmittedType ==
  ASSUME AppTypeOK, NEW h \in Calls, NEW w \in Workspaces,
         NEW event \in {"OPEN", "CLOSE", "UPDATE"},
         NEW pc \in {"find", "configure", "probe", "stopping"},
         Emit(h, event, w, pc)
  PROVE  handler' \in [Calls -> Handler]
<1>1. [workspace |-> w, settings |-> settings[w]] \in Options
  BY DEF AppTypeOK, Options
<1> QED
  BY <1>1 DEF Emit, AppTypeOK, Handler

LEMMA HandlersFailType ==
  ASSUME AppTypeOK, NEW H, HandlersFail(H)
  PROVE  handler' \in [Calls -> Handler] /\ tainted' \in BOOLEAN
BY IdleHandlerType DEF HandlersFail, AppTypeOK

LEMMA StopIsStep ==
  ASSUME NEW h \in Calls, StopEmulator(h)
  PROVE  UNCHANGED <<vars, collided>> \/ (CallStep(h) /\ Calling(h))
BY TableAssumption DEF StopEmulator, processes, CallStep, TableAssumption

(* Whatever the application does leaves the process table alone or is a    *)
(* step of it, which comes upon no call of another handler or is noted.    *)
TableStep ==
    /\ collided => collided'
    /\ \/ UNCHANGED vars
       \/ EventStep
       \/ \E h \in Calls : CallStep(h) /\ (OthersIdle(h) \/ collided' \/ call[h].pc # "idle")

LEMMA NewCallStep ==
  ASSUME NEW h \in Calls, UNCHANGED <<vars, collided>> \/ (CallStep(h) /\ Calling(h))
  PROVE  TableStep
<1>1. CASE UNCHANGED <<vars, collided>>
  BY <1>1 DEF TableStep
<1>2. CASE CallStep(h) /\ Calling(h)
  <2>1. (collided => collided') /\ (OthersIdle(h) \/ collided')
    BY <1>2, Zenon DEF Calling, OthersIdle
  <2> QED
    BY <1>2, <2>1, Zenon DEF TableStep
<1> QED
  BY <1>1, <1>2

LEMMA ManagerStep ==
  ASSUME [AppNext]_appVars
  PROVE  TableStep
<1>1. ASSUME NEW h \in Calls, NEW w \in Workspaces,
             Open(h, w) \/ Close(h, w) \/ Save(h, w)
      PROVE  TableStep
  BY <1>1, StopIsStep, NewCallStep DEF Open, Close, Save, processes
<1>2. ASSUME NEW h \in Calls, Find(h)
      PROVE  TableStep
  BY <1>2, StopIsStep, NewCallStep DEF Find, processes
<1>3. ASSUME NEW h \in Calls, Offline(h)
      PROVE  TableStep
  <2>1. NewProc \subseteq Procs
    BY DEF NewProc
  <2>2. CASE \E o \in NewProc : StartNew(h, Emulator, o, "start")
    BY <1>3, <2>1, <2>2, NewCallStep, TableAssumption DEF Offline, CallStep, TableAssumption
  <2>3. CASE StartExisting(h, Emulator, "start")
    BY <1>3, <2>3, NewCallStep, TableAssumption DEF Offline, CallStep, TableAssumption
  <2> QED
    BY <1>3, <2>2, <2>3 DEF Offline
<1>4. ASSUME NEW h \in Calls,
             \/ Configure(h) \/ Stopped(h) \/ Online(h) \/ Started(h)
             \/ Synchronized(h) \/ SyncFails(h)
      PROVE  TableStep
  <2>1. UNCHANGED <<vars, collided>>
    BY <1>4 DEF Configure, Stopped, Online, Started, Synchronized, SyncFails, processes, history
  <2> QED
    BY <2>1 DEF TableStep
<1>5. ASSUME NEW h \in Calls, Resumed(h) \/ StopTimedOut(h)
      PROVE  TableStep
  <2>1. CallStep(h) /\ UNCHANGED collided
    BY <1>5 DEF Resumed, StopTimedOut, CallStep
  <2>2. call[h].pc # "idle"
    BY <1>5 DEF Resumed, StopTimedOut, Resume, ResumeStart, ResumeRemove, ResumeStop,
       ResumeCleanup, StopTimeout
  <2> QED
    BY <2>1, <2>2 DEF TableStep
<1>6. ASSUME NEW c \in Children,
             \/ EmulatorSpawned(c) \/ EmulatorFailed(c) \/ EmulatorExited(c)
      PROVE  TableStep
  BY <1>6 DEF EmulatorSpawned, EmulatorFailed, EmulatorExited, EventStep, TableStep, history
<1>7. ASSUME NEW c \in Children, Serve(c)
      PROVE  TableStep
  BY <1>7 DEF Serve, processes, TableStep, history
<1>8. CASE UNCHANGED appVars
  BY <1>8 DEF appVars, processes, TableStep, history
<1> QED
  BY <1>1, <1>2, <1>3, <1>4, <1>5, <1>6, <1>7, <1>8 DEF AppNext, Handle

LEMMA TableStepIsNext == TableStep => [Next]_vars
BY DEF TableStep, CallStep, EventStep, Next

LEMMA AppTypeStep ==
  ASSUME AppTypeOK, TypeInv, [AppNext]_appVars
  PROVE  AppTypeOK'
<1>0. TypeOK'
  BY ManagerStep, TableStepIsNext, TypeInvStep DEF TypeInv
<1>1. ASSUME NEW h \in Calls, NEW w \in Workspaces, Open(h, w)
      PROVE  AppTypeOK'
  <2>1. handler' \in [Calls -> Handler]
    BY <1>1, EmittedType DEF Open
  <2> QED
    BY <1>0, <1>1, <2>1 DEF Open, AppTypeOK
<1>2. ASSUME NEW h \in Calls, NEW w \in Workspaces, Close(h, w)
      PROVE  AppTypeOK'
  <2>1. handler' \in [Calls -> Handler] /\ collided' \in BOOLEAN
    BY <1>2, EmittedType DEF Close, StopEmulator, Calling, AppTypeOK
  <2> QED
    BY <1>0, <1>2, <2>1 DEF Close, AppTypeOK
<1>3. ASSUME NEW h \in Calls, NEW w \in Workspaces, Save(h, w)
      PROVE  AppTypeOK'
  <2>1. handler' \in [Calls -> Handler]
    BY <1>3, EmittedType DEF Save
  <2>2. settings' \in [Workspaces -> 0..MaxSaves]
    BY <1>3, AppAssumption DEF Save, AppTypeOK, AppAssumption
  <2> QED
    BY <1>0, <1>3, <2>1, <2>2 DEF Save, AppTypeOK
<1>4. ASSUME NEW h \in Calls, Find(h)
      PROVE  AppTypeOK'
  <2>1. /\ handler[h].workspace.workspace \in Workspaces
        /\ handler[h].event \in {"OPEN", "CLOSE", "UPDATE"}
    BY DEF AppTypeOK, Handler, Options
  <2>2. handler' \in [Calls -> Handler] /\ collided' \in BOOLEAN
    BY <1>4, <2>1, EmittedType DEF Find, StopEmulator, Calling, AppTypeOK
  <2> QED
    BY <1>0, <1>4, <2>2 DEF Find, user, AppTypeOK
<1>5. ASSUME NEW h \in Calls, Configure(h) \/ Online(h) \/ Started(h)
      PROVE  AppTypeOK'
  <2>1. \E pc \in {"probe", "sync"} : GoTo(h, pc)
    BY <1>5 DEF Configure, Online, Started, Reindex
  <2>2. /\ handler' \in [Calls -> Handler]
        /\ handler[h].workspace.workspace \in Workspaces
    BY <2>1 DEF GoTo, AppTypeOK, Handler, Options
  <2> QED
    BY <1>0, <1>5, <2>2 DEF Configure, Online, Started, Reindex, user, history, AppTypeOK
<1>6. ASSUME NEW h \in Calls, Stopped(h) \/ Synchronized(h)
      PROVE  AppTypeOK'
  <2>1. handler' \in [Calls -> Handler]
    BY <1>6, IdleHandlerType DEF Stopped, Synchronized, Finish, GoTo, AppTypeOK, Handler
  <2> QED
    BY <1>0, <1>6, <2>1 DEF Stopped, Synchronized, user, history, AppTypeOK
<1>7. ASSUME NEW h \in Calls, Offline(h)
      PROVE  AppTypeOK'
  <2>1. handler' \in [Calls -> Handler] /\ handler[h].workspace \in Options
    BY <1>7 DEF Offline, GoTo, AppTypeOK, Handler
  <2>2. options' \in [Procs -> Options]
    BY <1>7, <2>1 DEF Offline, AppTypeOK
  <2> QED
    BY <1>0, <1>7, <2>1, <2>2 DEF Offline, Calling, user, AppTypeOK
<1>8. ASSUME NEW h \in Calls, SyncFails(h) \/ Resumed(h) \/ StopTimedOut(h)
      PROVE  AppTypeOK'
  BY <1>0, <1>8, HandlersFailType DEF SyncFails, Resumed, StopTimedOut, user, AppTypeOK
<1>9. ASSUME NEW c \in Children, EmulatorFailed(c)
      PROVE  AppTypeOK'
  BY <1>0, <1>9, HandlersFailType DEF EmulatorFailed, user, AppTypeOK
<1>10. ASSUME NEW c \in Children, EmulatorSpawned(c) \/ Serve(c) \/ EmulatorExited(c)
       PROVE  AppTypeOK'
  BY <1>0, <1>10 DEF EmulatorSpawned, Serve, EmulatorExited, user, history, AppTypeOK
<1>11. CASE UNCHANGED appVars
  BY <1>0, <1>11 DEF appVars, user, history, AppTypeOK
<1> QED
  BY <1>1, <1>2, <1>3, <1>4, <1>5, <1>6, <1>7, <1>8, <1>9, <1>10, <1>11 DEF AppNext, Handle

LEMMA AppInitType == AppInit => AppTypeOK
<1> SUFFICES ASSUME AppInit PROVE AppTypeOK
  OBVIOUS
<1>1. TypeOK
  BY InitTypeInv DEF AppInit, TypeInv
<1>2. settings \in [Workspaces -> 0..MaxSaves]
  BY AppAssumption DEF AppInit, AppAssumption
<1>3. options \in [Procs -> Options] /\ handler \in [Calls -> Handler]
  BY AnyOptionsType, IdleHandlerType DEF AppInit
<1> QED
  BY <1>1, <1>2, <1>3 DEF AppInit, AppTypeOK

(* The calls of the application are calls of the process table, so that    *)
(* what is proved of every use of the table holds of this one.             *)
THEOREM ManagerInside == AppSpec => Spec
<1>1. AppInit => Init
  BY DEF AppInit
<1>2. [AppNext]_appVars => [Next]_vars
  BY ManagerStep, TableStepIsNext
<1> QED
  BY <1>1, <1>2, PTL DEF AppSpec, Spec

(* The application is well-typed.                                          *)
THEOREM AppTypeCorrect == AppSpec => []AppTypeOK
<1>1. AppSpec => []TypeInv
  BY ManagerInside, TypeInvariant
<1> QED
  BY <1>1, AppInitType, AppTypeStep, PTL DEF AppSpec

---------------------------------------------------------------------------
(* What the process table, the calls under way and their handlers have to  *)
(* do with each other, however the handlers come upon each other.          *)

OnlyEmulator == \A i \in Ids : i # Emulator => processLookupById[i] = None

(* The REST API that answers is that of a child that runs.                 *)
ServedByRunning == reachable # None => child[reachable] = "running"

(* A call under way is the start or the stop its handler awaits.           *)
AwaitsCall(h) ==
    /\ call[h].pc = "idle" => call[h].waits = {}
    /\ call[h].pc # "idle" =>
        /\ call[h].pc \in {"stopping", "ready", "starting"}
        /\ \/ At(h, "starting") /\ call[h].op = "start"
           \/ At(h, "stopping") /\ call[h].op = "remove" /\ call[h].id = Emulator
                                /\ call[h].pc # "starting"

(* A stop that came back has taken the emulator out of the table.          *)
StopRemoves(h) == At(h, "stopping") /\ call[h].pc = "idle" => Entry = None

(* Which steps the listener of an event takes.                             *)
FollowsEvent(h) ==
    \/ At(h, "idle")
    \/ handler[h].event = "OPEN" /\ ~At(h, "stopping")
    \/ handler[h].event = "CLOSE" /\ At(h, "stopping")
    \/ handler[h].event = "UPDATE" /\ ~At(h, "configure")

CallInv ==
    /\ OnlyEmulator
    /\ ServedByRunning
    /\ \A h \in Calls : AwaitsCall(h) /\ StopRemoves(h) /\ FollowsEvent(h)

OthersKeep(h) ==
    \A g \in Calls \ {h} : handler'[g] = handler[g] /\ call'[g] = call[g]

(* A step of one handler or of its call: an emulator is put into the table *)
(* only when no other handler is about to go on from the stop of one.      *)
LEMMA StepCallInv ==
  ASSUME CallInv, OnlyEmulator', ServedByRunning',
         NEW h \in Calls, AwaitsCall(h)', StopRemoves(h)', FollowsEvent(h)', OthersKeep(h),
         Entry' = Entry \/ Entry' = None \/ \A g \in Calls : ~Ready(g)
  PROVE  CallInv'
<1>1. ASSUME NEW g \in Calls, g # h
      PROVE  AwaitsCall(g)' /\ StopRemoves(g)' /\ FollowsEvent(g)'
  <2>1. handler'[g] = handler[g] /\ call'[g] = call[g]
    BY <1>1 DEF OthersKeep
  <2>2. AwaitsCall(g) /\ StopRemoves(g) /\ FollowsEvent(g)
    BY DEF CallInv
  <2>3. At(g, "stopping") /\ call[g].pc = "idle" => Entry' = None
    BY <2>2 DEF StopRemoves, Ready, At
  <2> QED
    BY <2>1, <2>2, <2>3 DEF AwaitsCall, StopRemoves, FollowsEvent, At
<1> QED
  BY <1>1 DEF CallInv

(* The handler goes on, and the process table stays as it is.              *)
LEMMA HandlerCallInv ==
  ASSUME CallInv, UNCHANGED <<vars, reachable>>,
         NEW h \in Calls, call[h].pc = "idle", OthersKeep(h),
         At(h, "stopping")' => Entry = None,
         FollowsEvent(h)'
  PROVE  CallInv'
<1>1. OnlyEmulator' /\ ServedByRunning'
  BY DEF vars, CallInv, OnlyEmulator, ServedByRunning
<1>2. AwaitsCall(h)' /\ StopRemoves(h)' /\ Entry' = Entry
  BY DEF CallInv, vars, AwaitsCall, StopRemoves, Entry
<1> QED
  BY <1>1, <1>2, StepCallInv

LEMMA StopCallInv ==
  ASSUME TypeOK, CallInv, UNCHANGED reachable,
         NEW h \in Calls, call[h].pc = "idle", StopEmulator(h),
         \A g \in Calls \ {h} : handler'[g] = handler[g],
         At(h, "stopping")', FollowsEvent(h)'
  PROVE  CallInv'
<1>1. CASE Entry = None
  BY <1>1, HandlerCallInv DEF StopEmulator, processes, vars, OthersKeep
<1>2. CASE Entry # None
  <2>1. StopEntry(h, Emulator, "remove")
    BY <1>2 DEF StopEmulator
  <2>2. /\ call'[h].pc \in {"stopping", "ready"}
        /\ call'[h].op = "remove" /\ call'[h].id = Emulator
        /\ UNCHANGED <<processLookupById, child>>
        /\ OthersKeep(h)
    BY <2>1 DEF StopEntry, StopProcesses, IdleCall, TypeOK, OthersKeep
  <2>3. OnlyEmulator' /\ ServedByRunning' /\ Entry' = Entry
    BY <2>2 DEF CallInv, OnlyEmulator, ServedByRunning, Entry
  <2>4. AwaitsCall(h)' /\ StopRemoves(h)'
    BY <2>2 DEF AwaitsCall, StopRemoves
  <2> QED
    BY <2>2, <2>3, <2>4, StepCallInv
<1> QED
  BY <1>1, <1>2

LEMMA NoCall ==
  ASSUME CallInv, NEW h \in Calls, ~At(h, "starting"), ~At(h, "stopping"),
         call[h] \in Call
  PROVE  call[h].pc = "idle"
BY DEF CallInv, AwaitsCall, Call

LEMMA RequestCallInv ==
  ASSUME AppTypeOK, CallInv, NEW h \in Calls, NEW w \in Workspaces,
         Open(h, w) \/ Close(h, w) \/ Save(h, w)
  PROVE  CallInv'
<1>1. call[h].pc = "idle"
  BY DEF Open, Close, Save, CanRequest
<1>2. CASE Open(h, w)
  <2>1. At(h, "find")' /\ FollowsEvent(h)' /\ UNCHANGED <<vars, reachable>> /\ OthersKeep(h)
    BY <1>2 DEF Open, Emit, FollowsEvent, At, AppTypeOK, processes, OthersKeep, vars
  <2> QED
    BY <1>1, <2>1, HandlerCallInv DEF At
<1>3. CASE Close(h, w)
  <2>1. /\ At(h, "stopping")' /\ FollowsEvent(h)' /\ StopEmulator(h) /\ UNCHANGED reachable
        /\ \A g \in Calls \ {h} : handler'[g] = handler[g]
    BY <1>3 DEF Close, Emit, FollowsEvent, At, AppTypeOK
  <2> QED
    BY <1>1, <2>1, StopCallInv DEF AppTypeOK
<1>4. CASE Save(h, w)
  <2>1. At(h, "find")' /\ FollowsEvent(h)' /\ UNCHANGED <<vars, reachable>> /\ OthersKeep(h)
    BY <1>4 DEF Save, Emit, FollowsEvent, At, AppTypeOK, processes, OthersKeep, vars
  <2> QED
    BY <1>1, <2>1, HandlerCallInv DEF At
<1> QED
  BY <1>2, <1>3, <1>4

LEMMA FindCallInv ==
  ASSUME AppTypeOK, CallInv, NEW h \in Calls, Find(h)
  PROVE  CallInv'
<1>1. call[h].pc = "idle"
  BY NoCall DEF Find, At, AppTypeOK, TypeOK
<1>2. FollowsEvent(h) /\ At(h, "find")
  BY DEF CallInv, Find
<1>3. CASE handler[h].event = "OPEN"
  <2>1. At(h, "configure")' /\ FollowsEvent(h)' /\ UNCHANGED <<vars, reachable>> /\ OthersKeep(h)
    BY <1>2, <1>3 DEF Find, Emit, FollowsEvent, At, AppTypeOK, processes, OthersKeep, vars
  <2> QED
    BY <1>1, <2>1, HandlerCallInv DEF At
<1>4. CASE handler[h].event # "OPEN"
  <2>1. /\ At(h, "stopping")' /\ FollowsEvent(h)' /\ StopEmulator(h) /\ UNCHANGED reachable
        /\ \A g \in Calls \ {h} : handler'[g] = handler[g]
    BY <1>2, <1>4 DEF Find, Emit, FollowsEvent, At, AppTypeOK
  <2> QED
    BY <1>1, <2>1, StopCallInv DEF AppTypeOK
<1> QED
  BY <1>3, <1>4

(* The steps of a handler that leave the process table alone.              *)
LEMMA HandleCallInv ==
  ASSUME AppTypeOK, CallInv, NEW h \in Calls,
         \/ Configure(h) \/ Stopped(h) \/ Online(h) \/ Started(h)
         \/ Synchronized(h) \/ SyncFails(h)
  PROVE  CallInv'
<1>1. UNCHANGED <<vars, reachable>>
  BY DEF Configure, Stopped, Online, Started, Synchronized, SyncFails, processes
<1>2. call[h].pc = "idle"
  BY NoCall DEF Configure, Stopped, Online, Started, Synchronized, SyncFails, Ready, At,
     AppTypeOK, TypeOK
<1>3. /\ handler'[h].pc \in {"idle", "probe", "sync"}
      /\ \/ handler'[h].pc = "idle"
         \/ handler'[h] = [handler[h] EXCEPT !.pc = handler'[h].pc] /\ handler[h].pc # "idle"
            /\ (At(h, "stopping") => handler[h].event # "CLOSE")
      /\ \A g \in Calls \ {h} : handler'[g] = handler[g]
  BY DEF Configure, Stopped, Online, Started, Synchronized, SyncFails, Reindex, GoTo, Finish,
     HandlersFail, IdleHandler, At, AppTypeOK, Handler
<1>4. FollowsEvent(h)' /\ OthersKeep(h)
  BY <1>1, <1>3 DEF CallInv, FollowsEvent, At, AppTypeOK, Handler, OthersKeep, vars
<1> QED
  BY <1>1, <1>2, <1>3, <1>4, HandlerCallInv DEF At

LEMMA OfflineCallInv ==
  ASSUME AppTypeOK, CallInv, NEW h \in Calls, Offline(h)
  PROVE  CallInv'
<1> USE DEF AppTypeOK, TypeOK
<1>1. At(h, "starting")' /\ FollowsEvent(h)'
  BY DEF Offline, GoTo, At, CallInv, FollowsEvent, Handler
<1>0. /\ \A g \in Calls : ~Ready(g)
      /\ \A g \in Calls \ {h} : handler'[g] = handler[g]
  BY DEF Offline, AppQuiet, GoTo
<1>2. CASE \E o \in NewProc : StartNew(h, Emulator, o, "start")
  <2>1. PICK o \in NewProc : StartNew(h, Emulator, o, "start")
    BY <1>2
  <2>2. PICK c \in Children : Spawn(h, o, c, [IdleCall EXCEPT !.op = "start", !.id = Emulator])
    BY <2>1 DEF StartNew
  <2>3. call'[h].pc = "starting" /\ call'[h].op = "start" /\ OthersKeep(h)
    BY <1>0, <2>2 DEF Spawn, IdleCall, OthersKeep
  <2>4. /\ processLookupById' = [processLookupById EXCEPT ![Emulator] = o]
        /\ child[c] = "none" /\ child' = [child EXCEPT ![c] = "spawning"]
        /\ UNCHANGED reachable
    BY <2>1, <2>2 DEF StartNew, Spawn, FreeChildren, Offline
  <2>5. OnlyEmulator' /\ ServedByRunning'
    BY <2>4 DEF CallInv, OnlyEmulator, ServedByRunning
  <2>6. AwaitsCall(h)' /\ StopRemoves(h)'
    BY <1>1, <2>3 DEF AwaitsCall, StopRemoves, At
  <2> QED
    BY <1>0, <1>1, <2>3, <2>5, <2>6, StepCallInv
<1>3. CASE StartExisting(h, Emulator, "start")
  <2>1. /\ call'[h].pc \in {"stopping", "ready"} /\ call'[h].op = "start"
        /\ UNCHANGED <<processLookupById, child, reachable>>
        /\ OthersKeep(h)
    BY <1>0, <1>3 DEF StartExisting, StopProcesses, IdleCall, Offline, OthersKeep
  <2>2. OnlyEmulator' /\ ServedByRunning'
    BY <2>1 DEF CallInv, OnlyEmulator, ServedByRunning
  <2>3. AwaitsCall(h)' /\ StopRemoves(h)'
    BY <1>1, <2>1 DEF AwaitsCall, StopRemoves, At
  <2> QED
    BY <1>0, <1>1, <2>1, <2>2, <2>3, StepCallInv
<1> QED
  BY <1>2, <1>3 DEF Offline

(* The events of the emulator.                                             *)
LEMMA SpawnedCallInv ==
  ASSUME AppTypeOK, CallInv, NEW c \in Children, EmulatorSpawned(c)
  PROVE  CallInv'
<1> USE DEF AppTypeOK, TypeOK
<1>1. /\ child' = [child EXCEPT ![c] = "running"]
      /\ UNCHANGED <<processLookupById, reachable, handler>>
  BY DEF EmulatorSpawned, SpawnEvent
<1>2. OnlyEmulator' /\ ServedByRunning'
  BY <1>1 DEF CallInv, OnlyEmulator, ServedByRunning
<1>3. ASSUME NEW h \in Calls
      PROVE  AwaitsCall(h)' /\ StopRemoves(h)' /\ FollowsEvent(h)'
  <2>1. AwaitsCall(h) /\ StopRemoves(h) /\ FollowsEvent(h)
    BY DEF CallInv
  <2>2. \/ call'[h] = call[h]
        \/ call'[h] = IdleCall /\ At(h, "starting")
    BY <2>1 DEF EmulatorSpawned, SpawnEvent, AwaitsCall, At
  <2>3. FollowsEvent(h)' /\ At(h, "starting")' = At(h, "starting")
        /\ At(h, "stopping")' = At(h, "stopping") /\ Entry' = Entry
    BY <1>1, <2>1 DEF FollowsEvent, At, Entry
  <2>4. CASE call'[h] = call[h]
    BY <2>1, <2>3, <2>4 DEF AwaitsCall, StopRemoves
  <2>5. CASE call'[h] = IdleCall /\ At(h, "starting")
    BY <2>3, <2>5 DEF AwaitsCall, StopRemoves, IdleCall, At
  <2> QED
    BY <2>2, <2>3, <2>4, <2>5
<1> QED
  BY <1>2, <1>3 DEF CallInv

LEMMA FailedCallInv ==
  ASSUME AppTypeOK, CallInv, NEW c \in Children, EmulatorFailed(c)
  PROVE  CallInv'
<1> USE DEF AppTypeOK, TypeOK
<1>1. /\ child[c] = "spawning" /\ child' = [child EXCEPT ![c] = "none"]
      /\ UNCHANGED <<processLookupById, reachable>>
  BY DEF EmulatorFailed, SpawnError, Gone
<1>2. OnlyEmulator' /\ ServedByRunning'
  BY <1>1 DEF CallInv, OnlyEmulator, ServedByRunning
<1>3. ASSUME NEW h \in Calls
      PROVE  AwaitsCall(h)' /\ StopRemoves(h)' /\ FollowsEvent(h)'
  <2>1. AwaitsCall(h) /\ StopRemoves(h) /\ FollowsEvent(h)
    BY DEF CallInv
  <2>2. CASE call[h].pc = "starting" /\ c \in call[h].waits
    <3>1. handler'[h] = IdleHandler
      BY <2>2 DEF EmulatorFailed, HandlersFail
    <3>2. call'[h] = IdleCall
      BY <2>2 DEF EmulatorFailed, SpawnError
    <3> QED
      BY <3>1, <3>2 DEF AwaitsCall, StopRemoves, FollowsEvent, At, IdleHandler, IdleCall
  <2>3. CASE ~(call[h].pc = "starting" /\ c \in call[h].waits)
    <3>1. handler'[h] = handler[h]
      BY <2>3 DEF EmulatorFailed, HandlersFail
    <3>2. call'[h] = call[h]
      BY <2>3 DEF EmulatorFailed, SpawnError
    <3> QED
      BY <1>1, <2>1, <3>1, <3>2 DEF AwaitsCall, StopRemoves, FollowsEvent, At, Entry
  <2> QED
    BY <2>2, <2>3
<1> QED
  BY <1>2, <1>3 DEF CallInv

LEMMA ServeCallInv ==
  ASSUME CallInv, NEW c \in Children, Serve(c)
  PROVE  CallInv'
BY DEF CallInv, OnlyEmulator, ServedByRunning, AwaitsCall, StopRemoves, FollowsEvent, At, Entry,
   Serve, processes, vars

LEMMA ExitedCallInv ==
  ASSUME AppTypeOK, CallInv, NEW c \in Children, EmulatorExited(c)
  PROVE  CallInv'
<1> USE DEF AppTypeOK, TypeOK
<1>1. /\ child' = [child EXCEPT ![c] = "none"]
      /\ reachable' = IF reachable = c THEN None ELSE reachable
      /\ UNCHANGED <<processLookupById, handler>>
  BY DEF EmulatorExited, Exit, Gone
<1>2. OnlyEmulator' /\ ServedByRunning'
  BY <1>1 DEF CallInv, OnlyEmulator, ServedByRunning
<1>3. ASSUME NEW h \in Calls
      PROVE  AwaitsCall(h)' /\ StopRemoves(h)' /\ FollowsEvent(h)'
  <2>1. AwaitsCall(h) /\ StopRemoves(h) /\ FollowsEvent(h) /\ call[h] \in Call
    BY DEF CallInv
  <2>2. call'[h] = AfterExit(h, c)
    BY DEF EmulatorExited, Exit
  <2>3. call[h].pc = "idle" => c \notin call[h].waits
    BY <2>1 DEF AwaitsCall
  <2>4. \/ call'[h] = call[h]
        \/ /\ call[h].pc # "idle" /\ call'[h].pc \in {call[h].pc, "ready"}
           /\ call'[h].op = call[h].op /\ call'[h].id = call[h].id
    BY <2>1, <2>2, <2>3 DEF AfterExit, Call, AwaitsCall
  <2>5. FollowsEvent(h)' /\ Entry' = Entry
    BY <1>1, <2>1 DEF FollowsEvent, At, Entry
  <2>6. CASE call'[h] = call[h]
    BY <1>1, <2>1, <2>5, <2>6 DEF AwaitsCall, StopRemoves, At
  <2>7. CASE call'[h] # call[h]
    <3>1. /\ call[h].pc # "idle" /\ call'[h].pc \in {call[h].pc, "ready"}
          /\ call'[h].op = call[h].op /\ call'[h].id = call[h].id
      BY <2>4, <2>7
    <3>2. /\ At(h, "starting")' = At(h, "starting")
          /\ At(h, "stopping")' = At(h, "stopping")
      BY <1>1 DEF At
    <3> QED
      BY <2>1, <2>5, <3>1, <3>2 DEF AwaitsCall, StopRemoves
  <2> QED
    BY <2>6, <2>7, <2>5
<1> QED
  BY <1>2, <1>3 DEF CallInv

(* The call goes on, or gives up.                                          *)
LEMMA ResumedCallInv ==
  ASSUME AppTypeOK, TypeInv, CallInv, NEW h \in Calls, Resumed(h)
  PROVE  CallInv'
<1> USE DEF AppTypeOK, TypeOK
<1>1. /\ AwaitsCall(h) /\ FollowsEvent(h) /\ call[h] \in Call /\ call[h].pc = "ready"
      /\ UNCHANGED reachable
  BY DEF CallInv, Resumed, Resume, ResumeStart, ResumeRemove, ResumeStop, ResumeCleanup
<1>2. /\ \/ handler'[h] = handler[h]
         \/ handler'[h] = IdleHandler /\ call[h].op = "start" /\ state[call[h].proc] = "RUNNING"
      /\ \A g \in Calls \ {h} : handler'[g] = handler[g]
  BY DEF Resumed, HandlersFail
<1>3. FollowsEvent(h)'
  BY <1>1, <1>2 DEF FollowsEvent, At, IdleHandler
<1>4. CASE call[h].op = "start"
  <2>1. StartProcess(h, call[h].proc) /\ UNCHANGED processLookupById
    BY <1>1, <1>4 DEF Resumed, Resume, ResumeStart, ResumeRemove, ResumeStop, ResumeCleanup
  <2>2. At(h, "starting") /\ Entry' = Entry
    BY <1>1, <1>4, <2>1 DEF AwaitsCall, Entry
  <2>3. CASE IsRunning(call[h].proc)
    <3>1. call' = [call EXCEPT ![h] = IdleCall] /\ UNCHANGED child
      BY <2>1, <2>3 DEF StartProcess, Spawn
    <3>2. handler'[h] = IdleHandler
      BY <1>4, <2>3 DEF Resumed, HandlersFail, IsRunning
    <3>3. AwaitsCall(h)' /\ StopRemoves(h)' /\ OthersKeep(h)
      BY <1>2, <3>1, <3>2 DEF AwaitsCall, StopRemoves, At, IdleHandler, IdleCall, OthersKeep
    <3>4. OnlyEmulator' /\ ServedByRunning'
      BY <1>1, <2>1, <3>1 DEF CallInv, OnlyEmulator, ServedByRunning
    <3> QED
      BY <1>3, <2>2, <3>3, <3>4, StepCallInv
  <2>4. CASE ~IsRunning(call[h].proc)
    <3>1. PICK c \in Children : Spawn(h, call[h].proc, c, call[h])
      BY <2>1, <2>4 DEF StartProcess
    <3>2. /\ child[c] = "none" /\ child' = [child EXCEPT ![c] = "spawning"]
          /\ call'[h].pc = "starting" /\ call'[h].op = "start"
          /\ OthersKeep(h)
      BY <1>1, <1>2, <1>4, <3>1 DEF Spawn, FreeChildren, Call, OthersKeep
    <3>3. handler'[h] = handler[h]
      BY <1>2, <2>4 DEF IsRunning
    <3>4. AwaitsCall(h)' /\ StopRemoves(h)'
      BY <2>2, <3>2, <3>3 DEF AwaitsCall, StopRemoves, At
    <3>5. OnlyEmulator' /\ ServedByRunning'
      BY <1>1, <2>1, <3>2 DEF CallInv, OnlyEmulator, ServedByRunning
    <3> QED
      BY <1>3, <2>2, <3>2, <3>4, <3>5, StepCallInv
  <2> QED
    BY <2>3, <2>4
<1>5. CASE call[h].op # "start"
  <2>1. call[h].op = "remove" /\ call[h].id = Emulator
    BY <1>1, <1>5 DEF AwaitsCall
  <2>2. ResumeRemove(h)
    BY <1>1, <2>1 DEF Resumed, Resume, ResumeStart, ResumeRemove, ResumeStop, ResumeCleanup
  <2>3. /\ processLookupById' = [processLookupById EXCEPT ![Emulator] = None]
        /\ call' = [call EXCEPT ![h] = IdleCall] /\ UNCHANGED child
    BY <2>1, <2>2 DEF ResumeRemove
  <2>4. Entry' = None
    BY <2>3, TableAssumption DEF Entry, TableAssumption
  <2>5. AwaitsCall(h)' /\ StopRemoves(h)' /\ OthersKeep(h)
    BY <1>2, <2>3, <2>4, <1>5 DEF AwaitsCall, StopRemoves, IdleCall, OthersKeep
  <2>6. OnlyEmulator' /\ ServedByRunning'
    BY <1>1, <2>3 DEF CallInv, OnlyEmulator, ServedByRunning
  <2> QED
    BY <1>3, <2>4, <2>5, <2>6, StepCallInv
<1> QED
  BY <1>4, <1>5

LEMMA TimedOutCallInv ==
  ASSUME AppTypeOK, CallInv, NEW h \in Calls, StopTimedOut(h)
  PROVE  CallInv'
<1>1. /\ call[h].pc = "stopping" /\ call[h].op # "cleanup"
      /\ UNCHANGED <<processLookupById, child, reachable>>
  BY DEF CallInv, AwaitsCall, StopTimedOut, StopTimeout
<1>2. /\ call'[h] = IdleCall /\ handler'[h] = IdleHandler /\ OthersKeep(h)
  BY <1>1 DEF StopTimedOut, StopTimeout, HandlersFail, OthersKeep, AppTypeOK, TypeOK
<1>3. OnlyEmulator' /\ ServedByRunning' /\ Entry' = Entry
  BY <1>1 DEF CallInv, OnlyEmulator, ServedByRunning, Entry
<1>4. AwaitsCall(h)' /\ StopRemoves(h)' /\ FollowsEvent(h)'
  BY <1>2 DEF AwaitsCall, StopRemoves, FollowsEvent, At, IdleHandler, IdleCall
<1> QED
  BY <1>2, <1>3, <1>4, StepCallInv

LEMMA CallInvStep ==
  ASSUME AppTypeOK, TypeInv, CallInv, [AppNext]_appVars
  PROVE  CallInv'
<1>1. CASE UNCHANGED appVars
  BY <1>1 DEF appVars, processes, vars, user, CallInv, OnlyEmulator, ServedByRunning,
     AwaitsCall, StopRemoves, FollowsEvent, At, Entry
<1>2. CASE AppNext
  BY <1>2, RequestCallInv, FindCallInv, HandleCallInv, OfflineCallInv, SpawnedCallInv,
     FailedCallInv, ServeCallInv, ExitedCallInv, ResumedCallInv, TimedOutCallInv
     DEF AppNext, Handle
<1> QED
  BY <1>1, <1>2

LEMMA InitCallInv == AppInit => CallInv
BY TableAssumption
   DEF AppInit, Init, CallInv, OnlyEmulator, ServedByRunning, AwaitsCall, StopRemoves,
       FollowsEvent, At, IdleCall, IdleHandler, TableAssumption

---------------------------------------------------------------------------
(* Until the calls of two handlers come upon each other, the process table *)
(* is used by one call at a time, although handlers overlap.               *)

SafeInv == ~collided => Alone /\ SeqInv

LEMMA CallStepOthers ==
  ASSUME TypeOK, NEW h \in Calls, CallStep(h), NEW g \in Calls, g # h
  PROVE  call'[g] = call[g]
<1> USE DEF TypeOK
<1>1. ASSUME NEW called, NEW stopped, StopProcesses(h, called, stopped)
      PROVE  call'[g] = call[g]
  BY <1>1 DEF StopProcesses
<1>2. ASSUME NEW o, NEW c, NEW called, Spawn(h, o, c, called)
      PROVE  call'[g] = call[g]
  BY <1>2 DEF Spawn
<1>3. ASSUME BeforeQuit(h)
      PROVE  call'[g] = call[g]
  BY <1>1, <1>3 DEF BeforeQuit
<1>4. ASSUME Resume(h)
      PROVE  call'[g] = call[g]
  <2>1. CASE ResumeStart(h)
    BY <1>2, <2>1 DEF ResumeStart, StartProcess
  <2>2. CASE ResumeRemove(h) \/ ResumeStop(h)
    BY <2>2 DEF ResumeRemove, ResumeStop
  <2> QED
    BY <1>3, <1>4, <2>1, <2>2 DEF Resume, ResumeCleanup
<1>5. ASSUME NEW i, NEW o, NEW op, StartNew(h, i, o, op)
      PROVE  call'[g] = call[g]
  BY <1>2, <1>5 DEF StartNew
<1>6. ASSUME NEW i, NEW op, StartExisting(h, i, op) \/ StopEntry(h, i, op)
      PROVE  call'[g] = call[g]
  BY <1>1, <1>6 DEF StartExisting, StopEntry
<1>7. ASSUME StopAll(h) \/ \E signal \in Signals : Terminate(h, signal)
      PROVE  call'[g] = call[g]
  BY <1>1, <1>7 DEF StopAll, Terminate, StopEntries
<1>8. ASSUME StopTimeout(h)
      PROVE  call'[g] = call[g]
  BY <1>8 DEF StopTimeout
<1> QED
  BY <1>3, <1>4, <1>5, <1>6, <1>7, <1>8 DEF CallStep, Quit, DialogClosed

LEMMA IdleStays ==
  ASSUME TypeOK, CallInv, EventStep \/ UNCHANGED vars, NEW g \in Calls, call[g].pc = "idle"
  PROVE  call'[g].pc = "idle"
<1>1. call[g].waits = {}
  BY DEF CallInv, AwaitsCall
<1> QED
  BY <1>1 DEF EventStep, SpawnEvent, SpawnError, Exit, AfterExit, AppExit, Kill, vars

LEMMA SafeInvStep ==
  ASSUME TypeInv, CallInv, SafeInv, [AppNext]_appVars
  PROVE  SafeInv'
<1> SUFFICES ASSUME ~collided' PROVE Alone' /\ SeqInv'
  BY Zenon DEF SafeInv
<1>1. TableStep
  BY ManagerStep
<1>2. ~collided
  BY <1>1, Zenon DEF TableStep
<1>3. Alone /\ SeqInv
  BY <1>2, Zenon DEF SafeInv
<1>4. CASE EventStep \/ UNCHANGED vars
  <2>1. \A g \in Calls : call[g].pc = "idle" => call'[g].pc = "idle"
    BY <1>4, IdleStays DEF TypeInv
  <2>2. Alone'
    BY <1>3, <2>1 DEF Alone, OthersIdle
  <2> QED
    BY <1>3, <1>4, <2>2, EventKeepsSeqInv
<1>5. ASSUME NEW h \in Calls, CallStep(h), OthersIdle(h) \/ collided' \/ call[h].pc # "idle"
      PROVE  Alone' /\ SeqInv'
  <2>1. OthersIdle(h)
    BY <1>3, <1>5, Zenon DEF Alone
  <2>2. OthersIdle(h)'
    BY <1>5, <2>1, CallStepOthers DEF OthersIdle, TypeInv
  <2>3. Alone'
    BY <2>2 DEF Alone, OthersIdle
  <2> QED
    BY <1>3, <1>5, <2>1, <2>3, CallKeepsSeqInv
<1> QED
  BY <1>1, <1>4, <1>5 DEF TableStep

LEMMA InitSafeInv == AppInit => SafeInv
<1>1. Init => Alone
  BY DEF Init, Alone, OthersIdle, IdleCall
<1> QED
  BY <1>1, InitSeqInv DEF AppInit, SafeInv

THEOREM SafeInvariant == AppSpec => [](AppTypeOK /\ TypeInv /\ CallInv /\ SafeInv)
<1>1. AppSpec => [](AppTypeOK /\ TypeInv)
  BY ManagerInside, AppTypeCorrect, TypeInvariant, PTL
<1>2. AppTypeOK /\ TypeInv /\ CallInv /\ SafeInv /\ [AppNext]_appVars => CallInv' /\ SafeInv'
  BY CallInvStep, SafeInvStep
<1> QED
  BY <1>1, <1>2, InitCallInv, InitSafeInv, PTL DEF AppSpec

---------------------------------------------------------------------------
(* Unless a handler has failed or a request came too early, the handlers   *)
(* under way are those of one workspace: one that closes it, alone, or one *)
(* that opens it and one that follows a change of its settings.  Until     *)
(* their calls come upon each other (collided), neither the workspace that *)
(* is open nor those handlers ever find an emulator in the table that was  *)
(* made for anything but the settings as they are, except while the        *)
(* handler of the change is still about to remove it.                      *)

Current(w) == [workspace |-> w, settings |-> settings[w]]

Made(w) == collided \/ (Entry # None /\ options[Entry] = Current(w))

NothingStale(w) == collided \/ (Entry # None => options[Entry] = Current(w))

Of(h) == handler[h].workspace.workspace

Updating(w, pcs) ==
    \E h \in Calls : handler[h].event = "UPDATE" /\ Of(h) = w /\ handler[h].pc \in pcs

Removing(w) == Updating(w, {"find", "stopping"})

Remaking(w) == Updating(w, {"find", "stopping", "probe"})

Opening(w) == \E h \in Calls : ~At(h, "idle") /\ handler[h].event = "OPEN" /\ Of(h) = w

Together ==
    \A h \in Calls, g \in Calls : (h # g /\ ~At(h, "idle") /\ ~At(g, "idle")) =>
        /\ Of(h) = Of(g)
        /\ handler[h].event # handler[g].event
        /\ handler[h].event # "CLOSE"

(* A handler on its way.                                                   *)
Proceeds(h) ==
    ~At(h, "idle") =>
        /\ openWorkspaceIds \subseteq {Of(h)}
        /\ opening \in {None, Of(h)}
        /\ handler[h].event = "CLOSE" => openWorkspaceIds = {} /\ opening = None
        /\ handler[h].event = "OPEN" => openWorkspaceIds = {Of(h)} /\ opening = None
        /\ handler[h].event = "UPDATE" => opening = Of(h) \/ openWorkspaceIds = {Of(h)}
        /\ handler[h].event # "CLOSE" =>
            /\ ~At(h, "find") => handler[h].workspace = Current(Of(h))
            /\ Removing(Of(h)) \/ NothingStale(Of(h))
            /\ handler[h].event = "OPEN" /\ handler[h].pc \in {"probe", "starting", "sync"}
                   => fileName = Of(h)
            /\ handler[h].pc \in {"starting", "sync"} => Remaking(Of(h)) \/ Made(Of(h))
            /\ At(h, "sync") => scheduler

(* What is left to a workspace when the handler that opened it is done.    *)
Rests ==
    /\ opening # None =>
           openWorkspaceIds \subseteq {opening} /\ (Removing(opening) \/ NothingStale(opening))
    /\ \A w \in openWorkspaceIds :
           /\ openWorkspaceIds = {w}
           /\ ~Opening(w) => scheduler /\ fileName = w /\ (Remaking(w) \/ Made(w))
    /\ openWorkspaceIds = {} /\ opening = None /\ (\A h \in Calls : At(h, "idle"))
           => Entry = None /\ ~scheduler

InOrder == Together /\ Rests /\ \A h \in Calls : Proceeds(h)

WorkspaceInv == ~tainted => InOrder

LEMMA HandlerType ==
  ASSUME AppTypeOK, NEW h \in Calls
  PROVE  /\ handler[h] \in Handler /\ handler[h].workspace \in Options
         /\ Of(h) \in Workspaces /\ Of(h) # None
BY AppAssumption DEF AppTypeOK, Handler, Options, AppAssumption, Of

(* What answers is the emulator in the table.                              *)
LEMMA ServedIsEntry ==
  ASSUME AppTypeOK, SeqInv, CallInv, reachable # None
  PROVE  Entry # None
<1>1. reachable \in Children /\ child[reachable] = "running"
  BY DEF CallInv, ServedByRunning, AppTypeOK
<1>2. owner[reachable] \in Entries
  BY <1>1 DEF SeqInv, AllTracked, ChildTracked
<1>3. PICK i \in Ids : processLookupById[i] # None
  BY <1>2 DEF Entries
<1> QED
  BY <1>3 DEF CallInv, OnlyEmulator, Entry

(* A handler under way, of a workspace that is opened or changed, takes a  *)
(* step after which it is still under way.                                 *)
LEMMA MoveKeeps ==
  ASSUME InOrder, NEW h \in Calls, NEW w, w = Of(h),
         ~At(h, "idle"), handler[h].event # "CLOSE",
         \A g \in Calls \ {h} : handler'[g] = handler[g],
         handler'[h].pc \notin {"idle", "find"},
         handler'[h].event = handler[h].event,
         handler'[h].workspace = Current(w),
         UNCHANGED <<settings, openWorkspaceIds, opening>>,
         fileName' = fileName \/ fileName' = w,
         scheduler => scheduler',
         Removing(w) \/ NothingStale(w) => Removing(w)' \/ NothingStale(w)',
         Remaking(w) \/ Made(w) => Remaking(w)' \/ Made(w)',
         handler[h].event = "OPEN" /\ handler'[h].pc \in {"probe", "starting", "sync"}
             => fileName' = w,
         handler'[h].pc \in {"starting", "sync"} => Remaking(w)' \/ Made(w)',
         handler'[h].pc = "sync" => scheduler'
  PROVE  InOrder'
<1>1. Current(w)' = Current(w) /\ Current(w).workspace = w
  BY DEF Current
<1>2. \A g \in Calls : /\ Of(g)' = Of(g) /\ At(g, "idle")' = At(g, "idle")
                       /\ handler'[g].event = handler[g].event
  BY <1>1 DEF Of, At
<1>3. \A g \in Calls : ~At(g, "idle") => Of(g) = w /\ handler[g].event # "CLOSE"
  BY DEF InOrder, Together
<1>4. Together'
  BY <1>2 DEF InOrder, Together
<1>5. openWorkspaceIds \subseteq {w} /\ opening \in {None, w}
  BY DEF InOrder, Proceeds
<1>6. Removing(w)' \/ NothingStale(w)'
  BY DEF InOrder, Proceeds
<1>7. Rests'
  <2>1. opening' # None => openWorkspaceIds' \subseteq {opening'}
                           /\ (Removing(opening) \/ NothingStale(opening))'
    BY <1>5, <1>6
  <2>2. Opening(w)' = Opening(w)
    BY <1>2 DEF Opening
  <2>3. ASSUME w \in openWorkspaceIds, ~Opening(w)'
        PROVE  scheduler' /\ fileName' = w /\ (Remaking(w)' \/ Made(w)')
    BY <2>2, <2>3 DEF InOrder, Rests
  <2>4. \A v \in openWorkspaceIds' :
           /\ openWorkspaceIds' = {v}
           /\ ~Opening(v)' => scheduler' /\ fileName' = v /\ (Remaking(v) \/ Made(v))'
    BY <1>5, <2>3
  <2> QED
    BY <1>2, <2>1, <2>4 DEF Rests
<1>8. ASSUME NEW g \in Calls, g # h
      PROVE  Proceeds(g)'
  <2> SUFFICES ASSUME ~At(g, "idle") PROVE Proceeds(g)'
    BY <1>2 DEF Proceeds
  <2>1. Proceeds(g) /\ Of(g) = w /\ handler[g].event # "CLOSE" /\ handler'[g] = handler[g]
    BY <1>3, <1>8 DEF InOrder
  <2> QED
    BY <1>1, <1>2, <1>6, <2>1 DEF Proceeds, At
<1>9. Proceeds(h)'
  BY <1>1, <1>2, <1>6 DEF InOrder, Proceeds, At
<1> QED
  BY <1>4, <1>7, <1>8, <1>9 DEF InOrder

(* No handler goes on, and the emulator of the table stays, or goes away   *)
(* because of a handler that waits for that.                               *)
LEMMA StillKeeps ==
  ASSUME InOrder, UNCHANGED handler,
         UNCHANGED <<settings, openWorkspaceIds, opening, scheduler, fileName, options>>,
         collided => collided',
         \/ Entry' = Entry
         \/ /\ Entry' = None
            /\ \E h \in Calls : At(h, "stopping") /\ handler[h].event \in {"CLOSE", "UPDATE"}
  PROVE  InOrder'
<1>1. \A g \in Calls : Of(g)' = Of(g)
  BY DEF Of
<1>2. \A w : Current(w)' = Current(w)
  BY DEF Current
<1>3. \A w : NothingStale(w) => NothingStale(w)'
  BY <1>2 DEF NothingStale
<1>4. \A w : /\ Removing(w)' = Removing(w) /\ Remaking(w)' = Remaking(w)
              /\ Opening(w)' = Opening(w)
  BY <1>1 DEF Removing, Remaking, Updating, Opening, At
<1>5. Together'
  BY <1>1 DEF InOrder, Together, At
<1>6. CASE \E h \in Calls : At(h, "stopping") /\ handler[h].event = "CLOSE"
  <2>1. PICK h \in Calls : At(h, "stopping") /\ handler[h].event = "CLOSE"
    BY <1>6
  <2>2. ~At(h, "idle") /\ openWorkspaceIds = {} /\ opening = None
    BY <2>1 DEF At, InOrder, Proceeds
  <2>3. \A g \in Calls : g # h => At(g, "idle")
    BY <2>1, <2>2 DEF InOrder, Together
  <2>4. Rests'
    BY <2>2 DEF Rests, At
  <2>5. ASSUME NEW g \in Calls PROVE Proceeds(g)'
    BY <2>1, <2>2, <2>3 DEF Proceeds, At
  <2> QED
    BY <1>5, <2>4, <2>5 DEF InOrder
<1>7. CASE \A w : (w \in openWorkspaceIds \/ \E g \in Calls : ~At(g, "idle") /\ w = Of(g))
                   => (Made(w) => Remaking(w)' \/ Made(w)')
  <2>1. CASE Entry' = Entry \/ Entry' = None
    <3>1. openWorkspaceIds = {} /\ opening = None /\ (\A h \in Calls : At(h, "idle"))
            => Entry' = None /\ ~scheduler
      BY <2>1 DEF InOrder, Rests
    <3>2. \A w \in openWorkspaceIds :
             ~Opening(w) => scheduler /\ fileName = w /\ (Remaking(w)' \/ Made(w)')
      BY <1>4, <1>7 DEF InOrder, Rests
    <3>3. Rests'
      BY <1>3, <1>4, <3>1, <3>2 DEF InOrder, Rests, At
    <3>4. ASSUME NEW g \in Calls PROVE Proceeds(g)'
      <4> SUFFICES ASSUME ~At(g, "idle") PROVE Proceeds(g)'
        BY DEF Proceeds, At
      <4>1. PICK w : w = Of(g)
        OBVIOUS
      <4>2. Made(w) => Remaking(w)' \/ Made(w)'
        BY <1>7, <4>1
      <4> QED
        BY <1>1, <1>2, <1>3, <1>4, <4>1, <4>2 DEF InOrder, Proceeds, At
    <3> QED
      BY <1>5, <3>3, <3>4 DEF InOrder
  <2> QED
    BY <2>1
<1>8. CASE \E h \in Calls : At(h, "stopping") /\ handler[h].event = "UPDATE"
  <2>1. PICK h \in Calls : At(h, "stopping") /\ handler[h].event = "UPDATE"
    BY <1>8
  <2>0. PICK w : w = Of(h)
    OBVIOUS
  <2>2. Remaking(w)'
    BY <1>4, <2>0, <2>1 DEF Remaking, Updating, At
  <2>3. openWorkspaceIds \subseteq {w} /\ ~At(h, "idle")
    BY <2>0, <2>1 DEF InOrder, Proceeds, At
  <2>4. \A g \in Calls : ~At(g, "idle") => Of(g) = w
    BY <2>0, <2>3 DEF InOrder, Together
  <2> QED
    BY <1>7, <2>2, <2>3, <2>4
<1>9. CASE Entry' = Entry
  <2>1. \A w : Made(w) => Made(w)'
    BY <1>2, <1>9 DEF Made
  <2> QED
    BY <1>7, <2>1
<1> QED
  BY <1>6, <1>8, <1>9

(* The handler of a change of settings is the only one of its kind.        *)
LEMMA OneUpdate ==
  ASSUME InOrder, NEW h \in Calls, NEW w, w = Of(h), handler[h].event = "UPDATE", ~At(h, "idle")
  PROVE  /\ Removing(w) => handler[h].pc \in {"find", "stopping"}
         /\ Remaking(w) => handler[h].pc \in {"find", "stopping", "probe"}
BY DEF InOrder, Together, Removing, Remaking, Updating, At

LEMMA OtherUpdates ==
  ASSUME NEW h \in Calls, \A g \in Calls \ {h} : handler'[g] = handler[g], NEW w,
         handler[h].event # "UPDATE" \/ handler[h].pc \notin {"find", "stopping", "probe"},
         handler'[h].event # "UPDATE" \/ handler'[h].pc \notin {"find", "stopping", "probe"}
  PROVE  Removing(w)' = Removing(w) /\ Remaking(w)' = Remaking(w)
BY DEF Removing, Remaking, Updating, Of

(* What a request finds, and leaves to its handler.                        *)
LEMMA OpenKeeps ==
  ASSUME AppTypeOK, WorkspaceInv, NEW h \in Calls, NEW w \in Workspaces, Open(h, w)
  PROVE  WorkspaceInv'
<1> SUFFICES ASSUME ~tainted' PROVE InOrder'
  BY DEF WorkspaceInv
<1>1. /\ ~tainted /\ At(h, "idle") /\ openWorkspaceIds \ {w} = {} /\ opening \in {None, w}
      /\ opening = None => w \notin openWorkspaceIds /\ \A g \in Calls : At(g, "idle")
  BY AppAssumption DEF Open, CanRequest, UnderWay, AppAssumption
<1>2. InOrder /\ w # None
  BY <1>1, AppAssumption DEF WorkspaceInv, AppAssumption
<1>3. Removing(w) \/ NothingStale(w)
  <2>1. CASE opening = w
    BY <1>2, <2>1 DEF InOrder, Rests
  <2>2. CASE opening = None
    <3>1. Entry = None
      BY <1>1, <1>2, <2>2 DEF InOrder, Rests
    <3> QED
      BY <3>1 DEF NothingStale
  <2> QED
    BY <1>1, <2>1, <2>2
<1>4. ASSUME NEW g \in Calls, ~At(g, "idle")
      PROVE  g # h /\ Of(g) = w /\ handler[g].event = "UPDATE"
  <2>1. opening = w /\ handler[g].event \in {"OPEN", "CLOSE", "UPDATE"}
    BY <1>1, <1>4, HandlerType DEF Handler
  <2> QED
    BY <1>1, <1>2, <1>4, <2>1 DEF InOrder, Proceeds
<1>5. /\ UNCHANGED <<processLookupById, options, settings, collided, scheduler, fileName>>
      /\ openWorkspaceIds' = {w} /\ opening' = None
      /\ handler'[h] = [pc |-> "find", event |-> "OPEN", workspace |-> Current(w)]
      /\ \A g \in Calls \ {h} : handler'[g] = handler[g]
  BY <1>1 DEF Open, Emit, Current, processes, vars, AppTypeOK
<1>6. /\ \A v : Current(v)' = Current(v)
      /\ Made(w)' = Made(w) /\ NothingStale(w)' = NothingStale(w)
      /\ Removing(w)' = Removing(w) /\ Remaking(w)' = Remaking(w)
  BY <1>1, <1>5, OtherUpdates DEF Made, NothingStale, Current, Entry, At
<1>7. Of(h)' = w /\ \A g \in Calls \ {h} : Of(g)' = Of(g)
  BY <1>5 DEF Of, Current
<1>8. Together'
  <2>1. \A g \in Calls \ {h} : ~At(g, "idle")' => /\ Of(g)' = w
                                                  /\ handler'[g].event = "UPDATE"
    BY <1>4, <1>5, <1>7 DEF At
  <2>2. \A f, g \in Calls : ~At(f, "idle") /\ ~At(g, "idle") => f = g
    BY <1>2, <1>4 DEF InOrder, Together
  <2> QED
    BY <1>5, <1>7, <2>1, <2>2 DEF Together, At
<1>9. Rests'
  BY <1>5, <1>7 DEF Rests, Opening, At
<1>10. ASSUME NEW g \in Calls, g # h
       PROVE  Proceeds(g)'
  <2> SUFFICES ASSUME ~At(g, "idle") PROVE Proceeds(g)'
    BY <1>5, <1>10 DEF Proceeds, At
  <2>1. Of(g) = w /\ handler[g].event = "UPDATE" /\ Proceeds(g)
    BY <1>2, <1>4 DEF InOrder
  <2> QED
    BY <1>3, <1>5, <1>6, <1>7, <1>10, <2>1 DEF Proceeds, At
<1>11. Proceeds(h)'
  BY <1>3, <1>5, <1>6, <1>7 DEF Proceeds, At
<1> QED
  BY <1>8, <1>9, <1>10, <1>11 DEF InOrder

LEMMA CloseKeepsOrder ==
  ASSUME AppTypeOK, WorkspaceInv, NEW h \in Calls, NEW w \in Workspaces, Close(h, w)
  PROVE  WorkspaceInv'
<1> SUFFICES ASSUME ~tainted' PROVE InOrder'
  BY DEF WorkspaceInv
<1>1. ~tainted /\ opening = None /\ w \in openWorkspaceIds /\ \A g \in Calls : At(g, "idle")
  BY DEF Close, CanRequest, UnderWay
<1>2. openWorkspaceIds = {w}
  BY <1>1 DEF WorkspaceInv, InOrder, Rests
<1>3. /\ openWorkspaceIds' = {} /\ opening' = None
      /\ handler'[h].pc = "stopping" /\ handler'[h].event = "CLOSE"
      /\ \A g \in Calls \ {h} : handler'[g].pc = "idle"
  BY <1>1, <1>2 DEF Close, Emit, AppTypeOK, At
<1> QED
  BY <1>3 DEF InOrder, Together, Rests, Proceeds, At

LEMMA SaveKeeps ==
  ASSUME AppTypeOK, WorkspaceInv, NEW h \in Calls, NEW w \in Workspaces, Save(h, w)
  PROVE  WorkspaceInv'
<1> SUFFICES ASSUME ~tainted' PROVE InOrder'
  BY DEF WorkspaceInv
<1>1. /\ ~tainted /\ opening = None /\ openWorkspaceIds \subseteq {w}
      /\ \A g \in Calls : At(g, "idle")
  BY DEF Save, CanRequest, UnderWay
<1>2. InOrder /\ w # None
  BY <1>1, AppAssumption DEF WorkspaceInv, AppAssumption
<1>3. /\ UNCHANGED <<openWorkspaceIds, scheduler, fileName>> /\ opening' = w
      /\ handler'[h].pc = "find" /\ handler'[h].event = "UPDATE" /\ Of(h)' = w
      /\ \A g \in Calls \ {h} : handler'[g].pc = "idle"
  BY <1>1 DEF Save, Emit, AppTypeOK, At, Of
<1>4. Removing(w)' /\ Remaking(w)'
  BY <1>3 DEF Removing, Remaking, Updating
<1>5. Rests'
  <2>1. ASSUME w \in openWorkspaceIds
        PROVE  openWorkspaceIds = {w} /\ scheduler /\ fileName = w
    BY <1>1, <1>2, <2>1 DEF InOrder, Rests, Opening
  <2> QED
    BY <1>1, <1>2, <1>3, <1>4, <2>1 DEF Rests
<1>6. Together' /\ \A g \in Calls : Proceeds(g)'
  BY <1>1, <1>3, <1>4 DEF Together, Proceeds, At
<1> QED
  BY <1>5, <1>6 DEF InOrder

(* The steps of a handler.                                                 *)
LEMMA FindKeeps ==
  ASSUME AppTypeOK, CallInv, WorkspaceInv, NEW h \in Calls, Find(h)
  PROVE  WorkspaceInv'
<1> SUFFICES ASSUME ~tainted' PROVE InOrder'
  BY DEF WorkspaceInv
<1>0. PICK w \in Workspaces : w = Of(h)
  BY HandlerType
<1>1. /\ InOrder /\ At(h, "find") /\ ~At(h, "idle")
      /\ handler[h].event \in {"OPEN", "UPDATE"}
  BY DEF Find, CallInv, FollowsEvent, WorkspaceInv, At
<1>2. /\ UNCHANGED <<options, settings, openWorkspaceIds, opening, processLookupById>>
      /\ UNCHANGED <<scheduler, fileName>>
      /\ handler'[h] = [pc |-> IF handler[h].event = "OPEN" THEN "configure" ELSE "stopping",
                        event |-> handler[h].event, workspace |-> Current(w)]
      /\ \A g \in Calls \ {h} : handler'[g] = handler[g]
  BY <1>0 DEF Find, Emit, Current, Of, AppTypeOK, user, StopEmulator, StopEntry, processes, vars
<1>3. collided => collided'
  BY Zenon DEF Find, StopEmulator, Calling
<1>4. \A v : (NothingStale(v) => NothingStale(v)') /\ (Made(v) => Made(v)')
  BY <1>2, <1>3 DEF NothingStale, Made, Current, Entry
<1>5. CASE handler[h].event = "OPEN"
  <2>1. Removing(w)' = Removing(w) /\ Remaking(w)' = Remaking(w)
    BY <1>2, <1>5, OtherUpdates
  <2> QED
    BY <1>0, <1>1, <1>2, <1>4, <1>5, <2>1, MoveKeeps
<1>6. CASE handler[h].event = "UPDATE"
  <2>1. Removing(w)' /\ Remaking(w)'
    BY <1>2, <1>6 DEF Removing, Remaking, Updating, Of, Current
  <2> QED
    BY <1>0, <1>1, <1>2, <1>6, <2>1, MoveKeeps
<1> QED
  BY <1>1, <1>5, <1>6

LEMMA ConfigureKeeps ==
  ASSUME AppTypeOK, CallInv, WorkspaceInv, NEW h \in Calls, Configure(h)
  PROVE  WorkspaceInv'
<1> SUFFICES ASSUME ~tainted' PROVE InOrder'
  BY DEF WorkspaceInv
<1>0. PICK w \in Workspaces : w = Of(h)
  BY HandlerType
<1>1. /\ InOrder /\ At(h, "configure") /\ ~At(h, "idle") /\ handler[h].event = "OPEN"
  BY DEF Configure, CallInv, FollowsEvent, WorkspaceInv, At, history
<1>2. /\ UNCHANGED <<options, settings, openWorkspaceIds, opening, processLookupById>>
      /\ UNCHANGED <<scheduler, collided>>
      /\ handler'[h] = [handler[h] EXCEPT !.pc = "probe"] /\ fileName' = w
      /\ \A g \in Calls \ {h} : handler'[g] = handler[g]
  BY <1>0 DEF Configure, GoTo, AppTypeOK, user, processes, vars, Of, history
<1>3. handler[h].workspace = Current(w) /\ handler[h] \in Handler
  BY <1>0, <1>1, HandlerType DEF InOrder, Proceeds, At
<1>4. NothingStale(w)' = NothingStale(w) /\ Made(w)' = Made(w)
  BY <1>2 DEF NothingStale, Made, Current, Entry
<1>5. /\ handler'[h].pc = "probe" /\ handler'[h].event = "OPEN"
      /\ handler'[h].workspace = Current(w)
  BY <1>1, <1>2, <1>3 DEF Handler
<1>6. Removing(w)' = Removing(w) /\ Remaking(w)' = Remaking(w)
  BY <1>1, <1>2, <1>5, OtherUpdates
<1> QED
  BY <1>0, <1>1, <1>2, <1>4, <1>5, <1>6, MoveKeeps

LEMMA StoppedKeeps ==
  ASSUME AppTypeOK, CallInv, WorkspaceInv, NEW h \in Calls, Stopped(h)
  PROVE  WorkspaceInv'
<1> SUFFICES ASSUME ~tainted' PROVE InOrder'
  BY DEF WorkspaceInv
<1>0. PICK w \in Workspaces : w = Of(h)
  BY HandlerType
<1>1. /\ At(h, "stopping") /\ ~At(h, "idle") /\ Entry = None
      /\ handler[h].event \in {"CLOSE", "UPDATE"}
      /\ UNCHANGED <<options, settings, openWorkspaceIds, opening, processLookupById>>
      /\ UNCHANGED <<collided, fileName>>
  BY DEF Stopped, Ready, CallInv, StopRemoves, FollowsEvent, user, processes, vars, At
<1>2. CASE handler[h].event = "CLOSE"
  <2>1. openWorkspaceIds = {} /\ opening = None /\ \A g \in Calls \ {h} : At(g, "idle")
    <3>1. CASE tainted
      BY <1>2, <3>1 DEF Stopped, UnderWay
    <3>2. CASE ~tainted
      BY <1>1, <1>2, <3>2 DEF WorkspaceInv, InOrder, Together, Proceeds
    <3> QED
      BY <3>1, <3>2
  <2>2. ~scheduler' /\ \A g \in Calls : At(g, "idle")'
    BY <1>2, <2>1 DEF Stopped, Finish, AppTypeOK, At, IdleHandler
  <2>3. Entry' = None
    BY <1>1 DEF Entry
  <2> QED
    BY <1>1, <2>1, <2>2, <2>3 DEF InOrder, Together, Rests, Proceeds
<1>3. CASE handler[h].event = "UPDATE"
  <2>1. /\ ~tainted /\ scheduler' = scheduler
        /\ handler'[h] = [handler[h] EXCEPT !.pc = "probe"]
        /\ \A g \in Calls \ {h} : handler'[g] = handler[g]
    BY <1>3 DEF Stopped, GoTo, AppTypeOK
  <2>2. InOrder
    BY <2>1 DEF WorkspaceInv
  <2>3. handler[h].workspace = Current(w) /\ handler[h] \in Handler
    BY <1>0, <1>1, <1>3, <2>2, HandlerType DEF InOrder, Proceeds, At
  <2>4. /\ handler'[h].pc = "probe" /\ handler'[h].event = "UPDATE"
        /\ handler'[h].workspace = Current(w)
    BY <1>3, <2>1, <2>3 DEF Handler
  <2>5. NothingStale(w)' /\ Remaking(w)'
    BY <1>1, <2>4 DEF NothingStale, Remaking, Updating, Of, Current, Entry
  <2> QED
    BY <1>0, <1>1, <1>3, <2>1, <2>2, <2>4, <2>5, MoveKeeps
<1> QED
  BY <1>1, <1>2, <1>3

(* The emulator that answers, or has started, is that of the workspace.    *)
LEMMA ReindexKeeps ==
  ASSUME AppTypeOK, SafeInv, CallInv, WorkspaceInv, NEW h \in Calls, Online(h) \/ Started(h)
  PROVE  WorkspaceInv'
<1> SUFFICES ASSUME ~tainted' PROVE InOrder'
  BY DEF WorkspaceInv
<1>0. PICK w \in Workspaces : w = Of(h)
  BY HandlerType
<1>1. /\ InOrder /\ handler[h].pc \in {"probe", "starting"} /\ ~At(h, "idle")
      /\ handler[h].event \in {"OPEN", "UPDATE"}
  BY DEF Online, Started, CallInv, FollowsEvent, WorkspaceInv, At, history
<1>2. /\ UNCHANGED <<options, settings, openWorkspaceIds, opening, processLookupById>>
      /\ UNCHANGED <<fileName, collided>> /\ scheduler'
      /\ handler'[h] = [handler[h] EXCEPT !.pc = "sync"]
      /\ \A g \in Calls \ {h} : handler'[g] = handler[g]
  BY DEF Online, Started, Reindex, GoTo, AppTypeOK, user, processes, vars, history
<1>3. handler[h].workspace = Current(w) /\ handler[h] \in Handler
  BY <1>0, <1>1, HandlerType DEF InOrder, Proceeds, At
<1>4. NothingStale(w)' = NothingStale(w) /\ Made(w)' = Made(w)
  BY <1>2 DEF NothingStale, Made, Current, Entry
<1>5. /\ handler'[h].pc = "sync" /\ handler'[h].event = handler[h].event
      /\ handler'[h].workspace = Current(w)
  BY <1>2, <1>3 DEF Handler
<1>6. Remaking(w) \/ Made(w)
  <2>1. CASE At(h, "starting")
    BY <1>0, <1>1, <2>1 DEF InOrder, Proceeds, At
  <2>2. CASE At(h, "probe")
    <3>1. Removing(w) \/ NothingStale(w)
      BY <1>0, <1>1 DEF InOrder, Proceeds
    <3>2. reachable # None
      BY <2>2 DEF Online, Started, At
    <3>3. collided \/ Entry # None
      BY <3>2, ServedIsEntry DEF SafeInv
    <3>4. Removing(w) => Remaking(w)
      BY DEF Removing, Remaking, Updating
    <3> QED
      BY <3>1, <3>3, <3>4 DEF NothingStale, Made
  <2> QED
    BY <1>1, <2>1, <2>2 DEF At
<1>7. Removing(w) \/ NothingStale(w)
  BY <1>0, <1>1 DEF InOrder, Proceeds
<1>8. Made(w) => NothingStale(w)
  BY DEF Made, NothingStale
<1>9. CASE handler[h].event = "OPEN"
  <2>1. Removing(w)' = Removing(w) /\ Remaking(w)' = Remaking(w)
    BY <1>2, <1>5, <1>9, OtherUpdates
  <2>2. fileName = w
    BY <1>0, <1>1, <1>9 DEF InOrder, Proceeds
  <2> QED
    BY <1>0, <1>1, <1>2, <1>4, <1>5, <1>6, <1>9, <2>1, <2>2, MoveKeeps
<1>10. CASE handler[h].event = "UPDATE"
  <2>1. ~Removing(w)
    BY <1>0, <1>1, <1>10, OneUpdate
  <2>2. Made(w)
    <3>1. CASE At(h, "starting")
      BY <1>0, <1>1, <1>6, <1>10, <3>1, OneUpdate DEF At
    <3>2. CASE At(h, "probe")
      <4>1. reachable # None
        BY <3>2 DEF Online, Started, At
      <4>2. collided \/ Entry # None
        BY <4>1, ServedIsEntry DEF SafeInv
      <4> QED
        BY <1>7, <2>1, <4>2 DEF NothingStale, Made
    <3> QED
      BY <1>1, <3>1, <3>2 DEF At
  <2> QED
    BY <1>0, <1>1, <1>2, <1>4, <1>5, <1>8, <1>10, <2>2, MoveKeeps
<1> QED
  BY <1>1, <1>9, <1>10

LEMMA OfflineKeeps ==
  ASSUME AppTypeOK, CallInv, WorkspaceInv, NEW h \in Calls, Offline(h)
  PROVE  WorkspaceInv'
<1> SUFFICES ASSUME ~tainted' PROVE InOrder'
  BY DEF WorkspaceInv
<1>0. PICK w \in Workspaces : w = Of(h)
  BY HandlerType
<1>1. /\ InOrder /\ At(h, "probe") /\ ~At(h, "idle")
      /\ handler[h].event \in {"OPEN", "UPDATE"}
  BY DEF Offline, CallInv, FollowsEvent, WorkspaceInv, At
<1>2. /\ UNCHANGED <<settings, openWorkspaceIds, opening, fileName, scheduler>>
      /\ handler'[h] = [handler[h] EXCEPT !.pc = "starting"]
      /\ \A g \in Calls \ {h} : handler'[g] = handler[g]
  BY DEF Offline, GoTo, AppTypeOK, user
<1>3. handler[h].workspace = Current(w) /\ handler[h] \in Handler
  BY <1>0, <1>1, HandlerType DEF InOrder, Proceeds, At
<1>4. collided => collided'
  BY Zenon DEF Offline, Calling
<1>5. /\ handler'[h].pc = "starting" /\ handler'[h].event = handler[h].event
      /\ handler'[h].workspace = Current(w)
  BY <1>2, <1>3 DEF Handler
<1>6. Removing(w) \/ NothingStale(w)
  BY <1>0, <1>1 DEF InOrder, Proceeds
<1>7. Made(w)' => NothingStale(w)'
  BY DEF Made, NothingStale
<1>8. \/ Made(w)'
      \/ /\ NothingStale(w) => Made(w)'
         /\ Made(w) => Made(w)'
  <2>1. ASSUME NEW o \in NewProc, StartNew(h, Emulator, o, "start"),
               options' = [options EXCEPT ![o] = handler[h].workspace]
        PROVE  Made(w)'
    <3>1. o \in Procs /\ o # None
      BY NoneAssumption DEF NewProc, NoneAssumption
    <3>2. Entry' = o /\ options'[o] = Current(w)
      BY <1>3, <2>1, <3>1, TableAssumption
         DEF StartNew, Entry, AppTypeOK, TypeOK, TableAssumption
    <3> QED
      BY <1>2, <3>1, <3>2 DEF Made, Current
  <2>2. ASSUME StartExisting(h, Emulator, "start"), UNCHANGED options
        PROVE  /\ NothingStale(w) => Made(w)'
               /\ Made(w) => Made(w)'
    BY <1>2, <1>4, <2>2 DEF StartExisting, Made, NothingStale, Current, Entry
  <2> QED
    BY <2>1, <2>2 DEF Offline
<1>9. CASE handler[h].event = "OPEN"
  <2>1. Removing(w)' = Removing(w) /\ Remaking(w)' = Remaking(w)
    BY <1>2, <1>5, <1>9, OtherUpdates
  <2>2. fileName = w
    BY <1>0, <1>1, <1>9 DEF InOrder, Proceeds, At
  <2>3. Removing(w) => Remaking(w)
    BY DEF Removing, Remaking, Updating
  <2> QED
    BY <1>0, <1>1, <1>2, <1>5, <1>6, <1>7, <1>8, <1>9, <2>1, <2>2, <2>3, MoveKeeps
<1>10. CASE handler[h].event = "UPDATE"
  <2>1. ~Removing(w)
    BY <1>0, <1>1, <1>10, OneUpdate DEF At
  <2>2. Made(w)'
    BY <1>6, <1>8, <2>1
  <2> QED
    BY <1>0, <1>1, <1>2, <1>5, <1>7, <1>10, <2>2, MoveKeeps
<1> QED
  BY <1>1, <1>9, <1>10

LEMMA SynchronizedKeeps ==
  ASSUME AppTypeOK, CallInv, WorkspaceInv, NEW h \in Calls, Synchronized(h)
  PROVE  WorkspaceInv'
<1> SUFFICES ASSUME ~tainted' PROVE InOrder'
  BY DEF WorkspaceInv
<1>0. PICK w \in Workspaces : w = Of(h) /\ w # None
  BY HandlerType
<1>1. /\ InOrder /\ At(h, "sync") /\ ~At(h, "idle")
      /\ handler[h].event \in {"OPEN", "UPDATE"}
  BY DEF Synchronized, CallInv, FollowsEvent, WorkspaceInv, At, history
<1>2. /\ UNCHANGED <<options, settings, openWorkspaceIds, opening, processLookupById>>
      /\ UNCHANGED <<fileName, scheduler, collided>>
      /\ handler'[h] = IdleHandler
      /\ \A g \in Calls \ {h} : handler'[g] = handler[g]
  BY DEF Synchronized, Finish, AppTypeOK, user, processes, vars, history
<1>3. /\ \A v : NothingStale(v)' = NothingStale(v) /\ Made(v)' = Made(v)
                /\ Current(v)' = Current(v)
      /\ Entry' = Entry
  BY <1>2 DEF NothingStale, Made, Current, Entry
<1>4. Removing(w)' = Removing(w) /\ Remaking(w)' = Remaking(w)
  BY <1>1, <1>2, OtherUpdates DEF At, IdleHandler
<1>5. /\ openWorkspaceIds \subseteq {w} /\ opening \in {None, w} /\ scheduler
      /\ Removing(w) \/ NothingStale(w)
      /\ Remaking(w) \/ Made(w)
  BY <1>0, <1>1 DEF InOrder, Proceeds, At
<1>6. /\ opening = w \/ openWorkspaceIds = {w}
      /\ handler[h].event = "OPEN" => fileName = w
  BY <1>0, <1>1 DEF InOrder, Proceeds, At
<1>7. At(h, "idle")' /\ \A g \in Calls \ {h} : Of(g)' = Of(g) /\ At(g, "idle")' = At(g, "idle")
  BY <1>2 DEF At, IdleHandler, Of
<1>8. Together'
  BY <1>1, <1>2, <1>7 DEF InOrder, Together
<1>9. Rests'
  <2>1. handler[h].event # "OPEN" => Opening(w)' = Opening(w)
    BY <1>2, <1>7 DEF Opening
  <2>2. ASSUME w \in openWorkspaceIds, ~Opening(w)'
        PROVE  fileName = w
    BY <1>1, <1>6, <2>1, <2>2 DEF InOrder, Rests
  <2>3. \A v \in openWorkspaceIds' :
           /\ openWorkspaceIds' = {v}
           /\ ~Opening(v)' => scheduler' /\ fileName' = v /\ (Remaking(v)' \/ Made(v)')
    BY <1>2, <1>3, <1>4, <1>5, <2>2
  <2>4. opening' # None => openWorkspaceIds' \subseteq {opening'}
                           /\ (Removing(opening)' \/ NothingStale(opening)')
    BY <1>2, <1>3, <1>4, <1>5
  <2> QED
    BY <1>0, <1>2, <1>6, <2>3, <2>4 DEF Rests
<1>10. ASSUME NEW g \in Calls PROVE Proceeds(g)'
  <2> SUFFICES ASSUME g # h, ~At(g, "idle") PROVE Proceeds(g)'
    BY <1>7 DEF Proceeds
  <2>1. Proceeds(g) /\ Of(g) = w /\ handler'[g] = handler[g]
    BY <1>0, <1>1, <1>2 DEF InOrder, Together
  <2> QED
    BY <1>2, <1>3, <1>4, <1>7, <2>1 DEF Proceeds, At
<1> QED
  BY <1>8, <1>9, <1>10 DEF InOrder

(* A call that goes on: a stop removes the entry, and whoever waits for it *)
(* does not count on one.                                                  *)
LEMMA ResumedKeeps ==
  ASSUME AppTypeOK, CallInv, WorkspaceInv, NEW h \in Calls, Resumed(h)
  PROVE  WorkspaceInv'
<1> SUFFICES ASSUME ~tainted' PROVE InOrder'
  BY DEF WorkspaceInv
<1>1. /\ ~tainted
      /\ UNCHANGED <<options, settings, openWorkspaceIds, opening, scheduler, fileName, collided>>
  BY DEF Resumed, HandlersFail, user
<1>2. UNCHANGED handler
  BY DEF Resumed, HandlersFail, AppTypeOK
<1>3. /\ AwaitsCall(h) /\ FollowsEvent(h) /\ call[h].pc = "ready" /\ InOrder
  BY <1>1 DEF CallInv, WorkspaceInv, Resumed, Resume, ResumeStart, ResumeRemove, ResumeStop,
     ResumeCleanup
<1>4. CASE call[h].op = "start"
  <2>1. UNCHANGED processLookupById
    BY <1>3, <1>4 DEF Resumed, Resume, ResumeStart, ResumeRemove, ResumeStop, ResumeCleanup
  <2> QED
    BY <1>1, <1>2, <1>3, <2>1, StillKeeps DEF Entry
<1>5. CASE call[h].op # "start"
  <2>1. At(h, "stopping") /\ handler[h].event \in {"CLOSE", "UPDATE"}
        /\ call[h].op = "remove" /\ call[h].id = Emulator
    BY <1>3, <1>5 DEF AwaitsCall, FollowsEvent, At
  <2>2. ResumeRemove(h)
    BY <1>3, <2>1 DEF Resumed, Resume, ResumeStart, ResumeRemove, ResumeStop, ResumeCleanup
  <2>3. Entry' = None
    BY <2>1, <2>2, TableAssumption DEF ResumeRemove, Entry, TableAssumption, AppTypeOK, TypeOK
  <2> QED
    BY <1>1, <1>2, <1>3, <2>1, <2>3, StillKeeps
<1> QED
  BY <1>4, <1>5

LEMMA EventKeeps ==
  ASSUME AppTypeOK, WorkspaceInv, NEW c \in Children,
         EmulatorSpawned(c) \/ EmulatorFailed(c) \/ Serve(c) \/ EmulatorExited(c)
  PROVE  WorkspaceInv'
<1> SUFFICES ASSUME ~tainted' PROVE InOrder'
  BY DEF WorkspaceInv
<1>1. /\ UNCHANGED <<options, settings, openWorkspaceIds, opening, scheduler, fileName>>
      /\ UNCHANGED <<processLookupById, collided>>
  BY DEF EmulatorSpawned, EmulatorFailed, Serve, EmulatorExited, SpawnEvent, SpawnError, Exit,
     processes, vars, user, history
<1>2. ~tainted /\ UNCHANGED handler
  BY DEF EmulatorSpawned, EmulatorFailed, Serve, EmulatorExited, HandlersFail, AppTypeOK, history
<1> QED
  BY <1>1, <1>2, StillKeeps DEF WorkspaceInv, Entry

LEMMA WorkspaceInvStep ==
  ASSUME AppTypeOK, SafeInv, CallInv, WorkspaceInv, [AppNext]_appVars
  PROVE  WorkspaceInv'
<1>1. CASE UNCHANGED appVars
  <2>1. UNCHANGED <<options, settings, openWorkspaceIds, opening, scheduler, fileName, handler,
                    processLookupById, collided, tainted>>
    BY <1>1 DEF appVars, processes, vars, user, history
  <2> QED
    BY <2>1, StillKeeps DEF WorkspaceInv, Entry
<1>2. ASSUME NEW h \in Calls, SyncFails(h) \/ StopTimedOut(h)
      PROVE  WorkspaceInv'
  BY <1>2 DEF SyncFails, StopTimedOut, HandlersFail, WorkspaceInv
<1> QED
  BY <1>1, <1>2, OpenKeeps, CloseKeepsOrder, SaveKeeps, FindKeeps, ConfigureKeeps,
     StoppedKeeps, ReindexKeeps, OfflineKeeps, SynchronizedKeeps, ResumedKeeps, EventKeeps
     DEF AppNext, Handle

LEMMA InitWorkspaceInv == AppInit => WorkspaceInv
BY TableAssumption
   DEF AppInit, Init, WorkspaceInv, InOrder, Together, Rests, Proceeds, At, IdleHandler, Entry,
       TableAssumption

THEOREM WorkspaceInvariant ==
  AppSpec => [](AppTypeOK /\ TypeInv /\ CallInv /\ SafeInv /\ WorkspaceInv)
<1>1. AppTypeOK /\ SafeInv /\ CallInv /\ WorkspaceInv /\ [AppNext]_appVars => WorkspaceInv'
  BY WorkspaceInvStep
<1> QED
  BY <1>1, InitWorkspaceInv, SafeInvariant, PTL DEF AppSpec

(* The children that are alive belong to the emulator in the table.        *)
LEMMA OnlyEmulatorRuns ==
  ASSUME TypeInv, SeqInv, CallInv, NEW c \in Children, child[c] # "none"
  PROVE  owner[c] = Entry /\ Entry # None
<1>1. owner[c] \in Entries
  BY DEF SeqInv, AllTracked, ChildTracked
<1>2. PICK i \in Ids : owner[c] = processLookupById[i] /\ processLookupById[i] # None
  BY <1>1 DEF Entries
<1> QED
  BY <1>2 DEF CallInv, OnlyEmulator, Entry

(* Whatever handlers overlap: the workspace that is open has its blocks    *)
(* polled and its own files in use, and, unless calls of two handlers have *)
(* come upon each other, the emulator of its own settings as they are and  *)
(* no other one, for any number of workspaces, handlers and savings.       *)
THEOREM OpenIsServed == AppSpec => []ServesWorkspace
<1>1. ASSUME TypeInv, SafeInv, CallInv, WorkspaceInv
      PROVE  ServesWorkspace
  <2> SUFFICES ASSUME NEW w \in Workspaces, Idle, ~tainted, openWorkspaceIds = {w}
               PROVE  /\ scheduler /\ fileName = w
                      /\ ~collided =>
                           /\ Entry # None
                           /\ options[Entry] = [workspace |-> w, settings |-> settings[w]]
                           /\ \A c \in Children : child[c] # "none" => owner[c] = Entry
    BY DEF ServesWorkspace
  <2>1. ~Opening(w) /\ ~Remaking(w)
    BY DEF Opening, Remaking, Updating, Idle, At
  <2>2. scheduler /\ fileName = w /\ Made(w)
    BY <1>1, <2>1 DEF WorkspaceInv, InOrder, Rests
  <2>3. ~collided => Entry # None
                     /\ options[Entry] = [workspace |-> w, settings |-> settings[w]]
    BY <2>2 DEF Made, Current
  <2>4. ~collided => \A c \in Children : child[c] # "none" => owner[c] = Entry
    BY <1>1, OnlyEmulatorRuns DEF SafeInv
  <2> QED
    BY <2>2, <2>3, <2>4
<1> QED
  BY <1>1, WorkspaceInvariant, PTL

(* And when none is open, nothing runs.                                    *)
THEOREM ClosedLeavesNothing == AppSpec => []ClosedIsQuiet
<1>1. ASSUME TypeInv, SafeInv, CallInv, WorkspaceInv
      PROVE  ClosedIsQuiet
  <2> SUFFICES ASSUME Idle, ~tainted, openWorkspaceIds = {}
               PROVE  /\ ~scheduler /\ Entry = None
                      /\ ~collided => \A c \in Children : child[c] = "none"
    BY DEF ClosedIsQuiet
  <2>1. ~scheduler /\ Entry = None
    BY <1>1 DEF WorkspaceInv, InOrder, Rests, Idle
  <2> QED
    BY <1>1, <2>1, OnlyEmulatorRuns DEF SafeInv
<1> QED
  BY <1>1, WorkspaceInvariant, PTL

==============================================================================
