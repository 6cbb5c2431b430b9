----------------------------- MODULE Snapshots -----------------------------
(***************************************************************************)
(* FlowSnapshotsService (packages/core/src/flow-snapshots.service.ts): the *)
(* list of snapshots that is kept in the file of the workspace, against    *)
(* the snapshots that the emulator has.                                    *)
(*                                                                         *)
(* Left out: the block of a snapshot, jumping to one and rolling back,     *)
(* which change neither list; the clear() that follows is in BlockIndexer. *)
(***************************************************************************)
EXTENDS FileStorage

CONSTANTS
    Snapshots,      \* ids, that is names, of snapshots
    Workspaces,
    Calls           \* calls in flight at the same time

ASSUME StorageAssumption == Items = Snapshots /\ Names = Workspaces

VARIABLES
    emulator,       \* the workspace whose emulator answers, or None
    stored,         \* the snapshots of the emulator of each workspace
    call,           \* the calls
    synchronized,   \* history: was the file synchronized with this emulator
    disturbed,      \* history: calls overlapped, or the workspace was changed
                    \* or the application died under one
    created         \* history: what create() returned for, on this emulator

storage == <<fileName, files>>
history == <<synchronized, disturbed, created>>
vars == <<storage, emulator, stored, call, history>>

Call == [ pc   : {"idle", "post", "persisted", "requests", "listed", "write", "writing"},
          op   : {"create", "synchronizeIndex"},
          name : Snapshots \cup {None},
          read : BOOLEAN,                  \* of the two requests: is the file read
          list : SUBSET Snapshots,         \* what was read, then what is written
          names : SUBSET Snapshots,        \* emulatorSnapshots
          file : Workspaces \cup {None} ]

IdleCall == [ pc |-> "idle", op |-> "create", name |-> None, read |-> FALSE,
              list |-> {}, names |-> {}, file |-> None ]

TypeOK ==
    /\ StorageTypeOK
    /\ emulator \in Workspaces \cup {None}
    /\ stored \in [Workspaces -> SUBSET Snapshots]
    /\ call \in [Calls -> Call]
    /\ synchronized \in BOOLEAN
    /\ disturbed \in BOOLEAN
    /\ created \in SUBSET Snapshots

Init ==
    /\ StorageInit
    /\ emulator = None
    /\ stored = [w \in Workspaces |-> {}]
    /\ call = [c \in Calls |-> IdleCall]
    /\ synchronized = FALSE
    /\ disturbed = FALSE
    /\ created = {}

---------------------------------------------------------------------------

At(c, pc) == call[c].pc = pc
SetCall(c, r) == call' = [call EXCEPT ![c] = r]

Busy == \E c \in Calls : ~At(c, "idle")

(* Between the first read and the end of the write.                        *)
InSection(c) == call[c].pc \in {"requests", "listed", "write", "writing"}

Overlaps(c) == disturbed' = (disturbed \/ \E d \in Calls \ {c} : InSection(d))

---------------------------------------------------------------------------
(* The application and the emulator *)

(* A workspace is opened while the emulator of the last one is off; its    *)
(* own one is on if its settings were saved before it was opened.          *)
OpenWorkspace(w) ==
    /\ emulator \in {None, w}
    /\ fileName # w
    /\ setFileName(w)
    /\ disturbed' = (disturbed \/ Busy)
    /\ UNCHANGED <<files, emulator, stored, call, synchronized, created>>

(* The snapshots are kept only if the emulator persists them.              *)
EmulatorUp(w) ==
    /\ emulator = None
    /\ fileName \in {None, w}
    /\ emulator' = w
    /\ stored' \in {stored, [stored EXCEPT ![w] = {}]}
    /\ synchronized' = FALSE
    /\ created' = {}
    /\ disturbed' = (disturbed \/ Busy)
    /\ UNCHANGED <<storage, call>>

EmulatorDown ==
    /\ emulator # None
    /\ emulator' = None
    /\ UNCHANGED <<storage, stored, call, history>>

(* Snapshots are created without Flowser, before it synchronizes.          *)
StoredElsewhere(s) ==
    /\ emulator # None
    /\ s \notin stored[emulator]
    /\ stored' = [stored EXCEPT ![emulator] = @ \cup {s}]
    /\ UNCHANGED <<storage, emulator, call, history>>

Crash ==
    /\ call' = [c \in Calls |-> IdleCall]
    /\ fileName' = None
    /\ emulator' = None
    /\ disturbed' = (disturbed \/ Busy)
    /\ UNCHANGED <<files, stored, synchronized, created>>

---------------------------------------------------------------------------
(* FlowSnapshotsService *)

Create(c, s) ==
    /\ At(c, "idle")
    /\ fileName # None
    /\ SetCall(c, [IdleCall EXCEPT !.pc = "post", !.name = s])
    /\ UNCHANGED <<storage, emulator, stored, history>>

(* The emulator has created the snapshot.                                  *)
Posted(c) ==
    /\ At(c, "post")
    /\ emulator # None
    /\ call[c].name \notin stored[emulator]
    /\ stored' = [stored EXCEPT ![emulator] = @ \cup {call[c].name}]
    /\ SetCall(c, [call[c] EXCEPT !.pc = "persisted"])
    /\ UNCHANGED <<storage, emulator, history>>

(* It exists already (409), or the request fails: create() throws.         *)
PostFails(c) ==
    /\ At(c, "post")
    /\ SetCall(c, IdleCall)
    /\ UNCHANGED <<storage, emulator, stored, history>>

\* Mutant of ReadToAppend: the snapshots that exist are not kept.
ReadToAppendAlone(c) ==
    /\ At(c, "persisted")
    /\ Parses
    /\ Overlaps(c)
    /\ SetCall(c, [call[c] EXCEPT !.pc = "write", !.list = {call[c].name}])
    /\ UNCHANGED <<storage, emulator, stored, synchronized, created>>

(* findAllPersisted of create(): the new snapshot is appended.             *)
ReadToAppend(c) ==
    /\ At(c, "persisted")
    /\ Parses
    /\ Overlaps(c)
    /\ SetCall(c, [call[c] EXCEPT !.pc = "write", !.list = Parsed \cup {call[c].name}])
    /\ UNCHANGED <<storage, emulator, stored, synchronized, created>>

SynchronizeIndex(c) ==
    /\ At(c, "idle")
    /\ SetCall(c, [IdleCall EXCEPT !.pc = "requests", !.op = "synchronizeIndex"])
    /\ Overlaps(c)
    /\ UNCHANGED <<storage, emulator, stored, synchronized, created>>

\* Mutant of FileRead: the list is only filtered if it was read first.
FileReadUnfiltered(c) ==
    /\ call[c].pc \in {"requests", "listed"} /\ ~call[c].read
    /\ Parses
    /\ SetCall(c, [call[c] EXCEPT !.pc = IF @ = "listed" THEN "write" ELSE @, !.read = TRUE,
                     !.list = Parsed])
    /\ UNCHANGED <<storage, emulator, stored, history>>

(* Promise.all of the file and the emulator: they answer in either order.  *)
FileRead(c) ==
    /\ call[c].pc \in {"requests", "listed"} /\ ~call[c].read
    /\ Parses
    /\ SetCall(c, [call[c] EXCEPT !.pc = IF @ = "listed" THEN "write" ELSE @, !.read = TRUE,
                     !.list = IF At(c, "listed") THEN Parsed \cap call[c].names ELSE Parsed])
    /\ UNCHANGED <<storage, emulator, stored, history>>

EmulatorListed(c) ==
    /\ At(c, "requests")
    /\ emulator # None
    /\ SetCall(c, IF call[c].read
                  THEN [call[c] EXCEPT !.pc = "write", !.list = @ \cap stored[emulator]]
                  ELSE [call[c] EXCEPT !.pc = "listed", !.names = stored[emulator]])
    /\ UNCHANGED <<storage, emulator, stored, history>>

(* The list does not parse, or the emulator does not answer: the call      *)
(* rejects.                                                                *)
ReadFails(c) ==
    /\ \/ call[c].pc \in {"persisted", "requests", "listed"} /\ ~call[c].read /\ ~Parses
       \/ At(c, "requests") /\ emulator = None
    /\ SetCall(c, IdleCall)
    /\ Overlaps(c)
    /\ UNCHANGED <<storage, emulator, stored, synchronized, created>>

(* persistAll; without a file name it throws.                              *)
StartWrite(c) ==
    /\ At(c, "write")
    /\ IF fileName = None
       THEN SetCall(c, IdleCall) /\ UNCHANGED <<files, disturbed>>
       ELSE /\ Truncate(fileName)
            /\ SetCall(c, [call[c] EXCEPT !.pc = "writing", !.file = fileName])
            /\ Overlaps(c)
    /\ UNCHANGED <<fileName, emulator, stored, synchronized, created>>

EndWrite(c) ==
    /\ At(c, "writing")
    /\ Overwrite(call[c].file, call[c].list)
    /\ SetCall(c, IdleCall)
    /\ IF call[c].op = "create"
       THEN created' = created \cup {call[c].name} /\ UNCHANGED synchronized
       ELSE synchronized' = (emulator # None) /\ UNCHANGED created
    /\ UNCHANGED <<fileName, emulator, stored, disturbed>>

---------------------------------------------------------------------------

Next ==
    \/ \E w \in Workspaces : OpenWorkspace(w) \/ EmulatorUp(w)
    \/ EmulatorDown \/ Crash
    \/ \E s \in Snapshots : StoredElsewhere(s)
    \/ \E c \in Calls :
         \/ \E s \in Snapshots : Create(c, s)
         \/ Posted(c) \/ PostFails(c) \/ ReadToAppend(c) \/ SynchronizeIndex(c)
         \/ FileRead(c) \/ EmulatorListed(c) \/ ReadFails(c)
         \/ StartWrite(c) \/ EndWrite(c)

Spec == Init /\ [][Next]_vars

---------------------------------------------------------------------------

Persisted == files[fileName]

Current == emulator # None /\ emulator = fileName /\ ~disturbed

(* "Only valid snapshots (after synchronization) should be persisted."     *)
(* (flow-snapshots.service.ts:120): every snapshot that is listed can be   *)
(* jumped to, once the list has been synchronized with the emulator,       *)
(* whatever the emulator kept or dropped when it was started, and          *)
(* whichever of the file and the emulator answered first                   *)
(* (flow-snapshots.service.ts:103-117).                                    *)
ListedIsStored ==
    (Current /\ synchronized /\ Persisted.whole) => Persisted.list \subseteq stored[emulator]

(* A snapshot that create() returned for stays in the list.                *)
CreatedIsListed ==
    (Current /\ Persisted.whole) => created \subseteq Persisted.list

============================================================================
