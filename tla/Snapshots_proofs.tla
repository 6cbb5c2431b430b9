-------------------------- MODULE Snapshots_proofs --------------------------
(***************************************************************************)
(* As long as no call is disturbed, the list of snapshots and the snapshots*)
(* of the emulator agree, for any number of workspaces, snapshots and      *)
(* calls.                                                                  *)
(***************************************************************************)
EXTENDS Snapshots, FiniteSetTheorems, TLAPS

(* Facts of every state.                                                   *)
NamesSnapshot(r) ==
    (r.op = "create" /\ r.pc # "idle") \/ r.pc \in {"post", "persisted"} => r.name \in Snapshots

SnapshotsNamed == \A c \in Calls : NamesSnapshot(call[c])

TypeInv == TypeOK /\ SnapshotsNamed

OwnEmulator == emulator # None => fileName \in {None, emulator}

(* Facts of undisturbed states.  One call at most is between its first     *)
(* read and the end of its write.                                          *)
OneSection == \A c, d \in Calls : InSection(c) /\ InSection(d) => c = d

NoWriter == \A c \in Calls : ~At(c, "writing")

(* What create() returned for is on the emulator that is running, which    *)
(* has no history before a workspace is opened.                            *)
EmulatorSound == emulator # None =>
    /\ created \subseteq stored[emulator]
    /\ fileName = None => created = {} /\ ~synchronized

FileSound == (emulator # None /\ fileName # None /\ NoWriter) =>
    /\ created \subseteq files[fileName].list
    /\ synchronized => files[fileName].list \subseteq stored[emulator]

(* A call runs for the workspace that is open, and a new snapshot is on    *)
(* its emulator.                                                           *)
ForOpenWorkspace(r) ==
    /\ r.pc \in {"post", "persisted"} => r.op = "create"
    /\ r.pc \in {"requests", "listed"} => r.op = "synchronizeIndex"
    /\ r.op = "create" /\ r.pc # "idle" => fileName # None
    /\ r.op = "create" /\ r.pc \in {"persisted", "write", "writing"} /\ emulator # None =>
         r.name \in stored[emulator]

(* What a call has read or will write contains what create() returned for, *)
(* and what a synchronization will write is on the emulator.               *)
ListSound(r) ==
    /\ r.pc = "requests" /\ r.read => r.list = Parsed
    /\ r.pc = "listed" => ~r.read
    /\ r.pc = "listed" /\ emulator # None =>
         created \subseteq r.names /\ r.names \subseteq stored[emulator]
    /\ r.pc = "write" /\ r.op = "create" => r.list = Parsed \cup {r.name}
    /\ r.pc = "write" /\ r.op = "synchronizeIndex" /\ emulator # None =>
         created \subseteq r.list /\ r.list \subseteq stored[emulator]
    /\ r.pc = "writing" =>
         /\ fileName # None /\ r.file = fileName
         /\ files[r.file] = [list |-> {}, whole |-> FALSE]
         /\ r.op = "create" => r.name \in r.list
         /\ emulator # None =>
              /\ created \subseteq r.list
              /\ r.op = "synchronizeIndex" \/ synchronized => r.list \subseteq stored[emulator]

CallSound(r) == ForOpenWorkspace(r) /\ ListSound(r)

CallsSound == \A c \in Calls : CallSound(call[c])

Sound == OneSection /\ EmulatorSound /\ FileSound /\ CallsSound

Inv == TypeInv /\ OwnEmulator /\ (~disturbed => Sound)

---------------------------------------------------------------------------
(* Type correctness *)

LEMMA SetCallType ==
  ASSUME TypeOK, NEW c \in Calls, NEW r \in Call, SetCall(c, r)
  PROVE  call' \in [Calls -> Call] /\ call'[c] = r /\ \A d \in Calls \ {c} : call'[d] = call[d]
BY DEF TypeOK, SetCall

LEMMA IdleCallType == IdleCall \in Call /\ NamesSnapshot(IdleCall)
BY DEF IdleCall, Call, NamesSnapshot

LEMMA OverlapsType ==
  ASSUME TypeOK, NEW c \in Calls, Overlaps(c)
  PROVE  disturbed' \in BOOLEAN
BY Zenon DEF TypeOK, Overlaps

LEMMA ParsedType == TypeOK => Parsed \in SUBSET Snapshots
BY StorageAssumption DEF StorageAssumption, TypeOK, StorageTypeOK, Parsed

(* A call is set to a value of the type.                                   *)
LEMMA SetCallTyped ==
  ASSUME TypeInv, NEW c \in Calls, NEW r \in Call, NamesSnapshot(r), SetCall(c, r)
  PROVE  call' \in [Calls -> Call] /\ SnapshotsNamed'
BY SetCallType DEF TypeInv, SnapshotsNamed, NamesSnapshot

LEMMA TypeStep == TypeInv /\ [Next]_vars => TypeInv'
<1> SUFFICES ASSUME TypeInv, [Next]_vars PROVE TypeInv'
  OBVIOUS
<1> USE StorageAssumption DEF StorageAssumption
<1>0. TypeOK
  BY DEF TypeInv
<1>1. ASSUME NEW w \in Workspaces, OpenWorkspace(w) PROVE TypeInv'
  <2>1. disturbed' \in BOOLEAN
    BY <1>0, <1>1, Zenon DEF OpenWorkspace, TypeOK, Busy
  <2> QED
    BY <1>1, <2>1 DEF OpenWorkspace, TypeInv, TypeOK, StorageTypeOK, setFileName, SnapshotsNamed
<1>2. ASSUME NEW w \in Workspaces, EmulatorUp(w) PROVE TypeInv'
  <2>1. disturbed' \in BOOLEAN
    BY <1>0, <1>2, Zenon DEF EmulatorUp, TypeOK, Busy
  <2> QED
    BY <1>2, <2>1 DEF EmulatorUp, TypeInv, TypeOK, StorageTypeOK, storage, SnapshotsNamed
<1>3. CASE EmulatorDown \/ \E s \in Snapshots : StoredElsewhere(s)
  BY <1>3 DEF EmulatorDown, StoredElsewhere, TypeInv, TypeOK, StorageTypeOK, storage, history,
              SnapshotsNamed
<1>4. CASE Crash
  <2>1. disturbed' \in BOOLEAN
    BY <1>0, <1>4, Zenon DEF Crash, TypeOK, Busy
  <2>2. call' \in [Calls -> Call] /\ SnapshotsNamed'
    BY <1>4, IdleCallType DEF Crash, SnapshotsNamed, NamesSnapshot
  <2> QED
    BY <1>4, <2>1, <2>2 DEF Crash, TypeInv, TypeOK, StorageTypeOK
<1>5. ASSUME NEW c \in Calls, NEW s \in Snapshots, Create(c, s) PROVE TypeInv'
  <2>1. PICK r : r = [IdleCall EXCEPT !.pc = "post", !.name = s]
    OBVIOUS
  <2>2. r \in Call /\ NamesSnapshot(r)
    BY <2>1 DEF IdleCall, Call, NamesSnapshot
  <2> QED
    BY <1>5, <2>1, <2>2, SetCallTyped
       DEF Create, TypeInv, TypeOK, StorageTypeOK, storage, history
<1>6. ASSUME NEW c \in Calls, Posted(c) PROVE TypeInv'
  <2>1. PICK r : r = [call[c] EXCEPT !.pc = "persisted"]
    OBVIOUS
  <2>2. call[c] \in Call /\ NamesSnapshot(call[c]) /\ call[c].pc = "post"
    BY <1>0, <1>6 DEF Posted, At, TypeInv, TypeOK, SnapshotsNamed
  <2>3. r \in Call /\ NamesSnapshot(r)
    BY <2>1, <2>2 DEF Call, NamesSnapshot
  <2>4. stored' \in [Workspaces -> SUBSET Snapshots]
    BY <1>0, <1>6, <2>2 DEF Posted, TypeOK, NamesSnapshot
  <2> QED
    BY <1>6, <2>1, <2>3, <2>4, SetCallTyped
       DEF Posted, TypeInv, TypeOK, StorageTypeOK, storage, history
<1>7. ASSUME NEW c \in Calls, PostFails(c) \/ ReadFails(c) PROVE TypeInv'
  <2>1. disturbed' \in BOOLEAN
    BY <1>0, <1>7, OverlapsType DEF PostFails, ReadFails, history, TypeOK
  <2>2. SetCall(c, IdleCall) /\ UNCHANGED <<storage, emulator, stored, synchronized, created>>
    BY <1>7 DEF PostFails, ReadFails, history
  <2> QED
    BY <2>1, <2>2, IdleCallType, SetCallTyped DEF TypeInv, TypeOK, StorageTypeOK, storage
<1>8. ASSUME NEW c \in Calls, ReadToAppend(c) \/ SynchronizeIndex(c) PROVE TypeInv'
  <2>1. disturbed' \in BOOLEAN
    BY <1>0, <1>8, OverlapsType DEF ReadToAppend, SynchronizeIndex
  <2>2. PICK r \in Call : SetCall(c, r) /\ NamesSnapshot(r)
    <3>1. call[c] \in Call /\ NamesSnapshot(call[c]) /\ Parsed \in SUBSET Snapshots
      BY <1>0, ParsedType DEF TypeInv, TypeOK, SnapshotsNamed
    <3>2. CASE ReadToAppend(c)
      <4>1. PICK r : r = [call[c] EXCEPT !.pc = "write", !.list = Parsed \cup {call[c].name}]
        OBVIOUS
      <4>2. call[c].name \in Snapshots
        BY <3>1, <3>2 DEF ReadToAppend, At, NamesSnapshot
      <4>3. r \in Call /\ NamesSnapshot(r)
        BY <3>1, <4>1, <4>2 DEF Call, NamesSnapshot
      <4> QED
        BY <3>2, <4>1, <4>3 DEF ReadToAppend
    <3>3. CASE SynchronizeIndex(c)
      <4>1. PICK r : r = [IdleCall EXCEPT !.pc = "requests", !.op = "synchronizeIndex"]
        OBVIOUS
      <4>2. r \in Call /\ NamesSnapshot(r)
        BY <4>1 DEF IdleCall, Call, NamesSnapshot
      <4> QED
        BY <3>3, <4>1, <4>2 DEF SynchronizeIndex
    <3> QED
      BY <1>8, <3>2, <3>3
  <2>3. UNCHANGED <<storage, emulator, stored, synchronized, created>>
    BY <1>8 DEF ReadToAppend, SynchronizeIndex
  <2> QED
    BY <2>1, <2>2, <2>3, SetCallTyped DEF TypeInv, TypeOK, StorageTypeOK, storage
<1>9. ASSUME NEW c \in Calls, FileRead(c) PROVE TypeInv'
  <2>1. call[c] \in Call /\ NamesSnapshot(call[c]) /\ Parsed \in SUBSET Snapshots
    BY <1>0, ParsedType DEF TypeInv, TypeOK, SnapshotsNamed
  <2>2. PICK pc : pc = IF call[c].pc = "listed" THEN "write" ELSE call[c].pc
    OBVIOUS
  <2>3. PICK list : list = IF At(c, "listed") THEN Parsed \cap call[c].names ELSE Parsed
    OBVIOUS
  <2>4. PICK r : r = [call[c] EXCEPT !.pc = pc, !.read = TRUE, !.list = list]
    OBVIOUS
  <2>5. SetCall(c, r)
    BY <1>9, <2>2, <2>3, <2>4 DEF FileRead
  <2>6. pc \in {"requests", "write"} /\ list \in SUBSET Snapshots
    BY <1>9, <2>1, <2>2, <2>3 DEF FileRead
  <2>7. r \in Call /\ NamesSnapshot(r)
    BY <1>9, <2>1, <2>4, <2>6 DEF FileRead, Call, NamesSnapshot
  <2> QED
    BY <1>9, <2>5, <2>7, SetCallTyped
       DEF FileRead, TypeInv, TypeOK, StorageTypeOK, storage, history
<1>10. ASSUME NEW c \in Calls, EmulatorListed(c) PROVE TypeInv'
  <2>1. /\ call[c] \in Call /\ NamesSnapshot(call[c]) /\ call[c].pc = "requests"
        /\ stored[emulator] \in SUBSET Snapshots
    BY <1>0, <1>10 DEF EmulatorListed, At, TypeInv, TypeOK, SnapshotsNamed
  <2>2. PICK r \in Call : SetCall(c, r) /\ NamesSnapshot(r)
    <3>1. CASE call[c].read
      <4>1. PICK r : r = [call[c] EXCEPT !.pc = "write", !.list = @ \cap stored[emulator]]
        OBVIOUS
      <4>2. r \in Call /\ NamesSnapshot(r)
        BY <2>1, <4>1 DEF Call, NamesSnapshot
      <4> QED
        BY <1>10, <3>1, <4>1, <4>2 DEF EmulatorListed
    <3>2. CASE ~call[c].read
      <4>1. PICK r : r = [call[c] EXCEPT !.pc = "listed", !.names = stored[emulator]]
        OBVIOUS
      <4>2. r \in Call /\ NamesSnapshot(r)
        BY <2>1, <4>1 DEF Call, NamesSnapshot
      <4> QED
        BY <1>10, <3>2, <4>1, <4>2 DEF EmulatorListed
    <3> QED
      BY <3>1, <3>2
  <2> QED
    BY <1>10, <2>2, SetCallTyped
       DEF EmulatorListed, TypeInv, TypeOK, StorageTypeOK, storage, history
<1>11. ASSUME NEW c \in Calls, StartWrite(c) PROVE TypeInv'
  <2>1. CASE fileName = None
    BY <1>11, <2>1, IdleCallType, SetCallTyped
       DEF StartWrite, TypeInv, TypeOK, StorageTypeOK
  <2>2. CASE fileName # None
    <3>1. PICK r : r = [call[c] EXCEPT !.pc = "writing", !.file = fileName]
      OBVIOUS
    <3>2. call[c] \in Call /\ NamesSnapshot(call[c]) /\ call[c].pc = "write"
      BY <1>0, <1>11 DEF StartWrite, At, TypeInv, TypeOK, SnapshotsNamed
    <3>3. r \in Call /\ NamesSnapshot(r)
      BY <1>0, <2>2, <3>1, <3>2 DEF TypeOK, StorageTypeOK, Call, NamesSnapshot
    <3>4. disturbed' \in BOOLEAN
      BY <1>0, <1>11, <2>2, OverlapsType DEF StartWrite
    <3>5. files' \in [Names -> [list : SUBSET Items, whole : BOOLEAN]]
      <4>1. [list |-> {}, whole |-> FALSE] \in [list : SUBSET Items, whole : BOOLEAN]
        OBVIOUS
      <4> QED
        BY <1>0, <1>11, <2>2, <4>1 DEF StartWrite, Truncate, TypeOK, StorageTypeOK
    <3>6. UNCHANGED <<fileName, emulator, stored, synchronized, created>> /\ SetCall(c, r)
      BY <1>11, <2>2, <3>1 DEF StartWrite
    <3> QED
      BY <3>3, <3>4, <3>5, <3>6, SetCallTyped DEF TypeInv, TypeOK, StorageTypeOK
  <2> QED
    BY <2>1, <2>2
<1>12. ASSUME NEW c \in Calls, EndWrite(c) PROVE TypeInv'
  <2>1. call[c] \in Call /\ NamesSnapshot(call[c]) /\ call[c].pc = "writing"
    BY <1>0, <1>12 DEF EndWrite, At, TypeInv, TypeOK, SnapshotsNamed
  <2>2. files' \in [Names -> [list : SUBSET Items, whole : BOOLEAN]]
    <3>1. PICK n : n = call[c].file
      OBVIOUS
    <3>2. PICK list : list = call[c].list
      OBVIOUS
    <3>3. Overwrite(n, list) /\ list \in SUBSET Items
      BY <1>12, <2>1, <3>1, <3>2 DEF EndWrite, Call
    <3>4. files \in [Names -> [list : SUBSET Items, whole : BOOLEAN]]
      BY <1>0 DEF TypeOK, StorageTypeOK
    <3>5. CASE Cardinality(list) >= Cardinality(files[n].list)
      BY <3>3, <3>4, <3>5 DEF Overwrite, FileOf
    <3>6. CASE ~(Cardinality(list) >= Cardinality(files[n].list))
      BY <3>3, <3>4, <3>6 DEF Overwrite
    <3> QED
      BY <3>5, <3>6
  <2>3. created' \in SUBSET Snapshots /\ synchronized' \in BOOLEAN
    <3>1. CASE call[c].op = "create"
      BY <1>0, <1>12, <2>1, <3>1 DEF EndWrite, NamesSnapshot, TypeOK
    <3>2. CASE call[c].op # "create"
      <4>1. synchronized' = (emulator # None) /\ UNCHANGED created
        BY <1>12, <3>2, Zenon DEF EndWrite
      <4> QED
        BY <1>0, <4>1 DEF TypeOK
    <3> QED
      BY <3>1, <3>2
  <2>4. UNCHANGED <<fileName, emulator, stored, disturbed>> /\ SetCall(c, IdleCall)
    BY <1>12 DEF EndWrite
  <2> QED
    BY <2>2, <2>3, <2>4, IdleCallType, SetCallTyped DEF TypeInv, TypeOK, StorageTypeOK
<1>13. CASE UNCHANGED vars
  BY <1>13 DEF vars, storage, history, TypeInv, TypeOK, StorageTypeOK, SnapshotsNamed
<1> QED
  BY <1>1, <1>2, <1>3, <1>4, <1>5, <1>6, <1>7, <1>8, <1>9, <1>10, <1>11, <1>12, <1>13 DEF Next

LEMMA InitType == Init => TypeInv
<1> SUFFICES ASSUME Init PROVE TypeInv
  OBVIOUS
<1>1. fileName = None /\ files \in [Names -> [list : SUBSET Items, whole : BOOLEAN]]
  BY DEF Init, StorageInit, FileOf
<1> QED
  BY <1>1, IdleCallType, StorageAssumption
     DEF Init, StorageAssumption, TypeInv, TypeOK, StorageTypeOK, SnapshotsNamed

(* Type correctness of the snapshots and their files.                      *)
THEOREM TypeCorrect == Spec => []TypeOK
<1>1. TypeInv => TypeOK
  BY DEF TypeInv
<1> QED
  BY <1>1, InitType, TypeStep, PTL DEF Spec

---------------------------------------------------------------------------
(* The emulator and the workspace that is open *)

LEMMA OwnEmulatorStep == TypeInv /\ OwnEmulator /\ [Next]_vars => OwnEmulator'
<1> SUFFICES ASSUME OwnEmulator, [Next]_vars PROVE OwnEmulator'
  OBVIOUS
<1> USE DEF OwnEmulator
<1>1. ASSUME NEW w \in Workspaces, OpenWorkspace(w) PROVE OwnEmulator'
  BY <1>1 DEF OpenWorkspace, setFileName
<1>2. ASSUME NEW w \in Workspaces, EmulatorUp(w) PROVE OwnEmulator'
  BY <1>2 DEF EmulatorUp, storage
<1>3. CASE EmulatorDown \/ Crash
  BY <1>3 DEF EmulatorDown, Crash
<1>4. CASE UNCHANGED <<fileName, emulator>>
  BY <1>4
<1>5. ASSUME \E s \in Snapshots : StoredElsewhere(s) PROVE UNCHANGED <<fileName, emulator>>
  BY <1>5 DEF StoredElsewhere, storage
<1>6. ASSUME NEW c \in Calls,
             \/ \E s \in Snapshots : Create(c, s)
             \/ Posted(c) \/ PostFails(c) \/ ReadToAppend(c) \/ SynchronizeIndex(c)
             \/ FileRead(c) \/ EmulatorListed(c) \/ ReadFails(c)
             \/ StartWrite(c) \/ EndWrite(c)
      PROVE  UNCHANGED <<fileName, emulator>>
  BY <1>6 DEF Create, Posted, PostFails, ReadToAppend, SynchronizeIndex, FileRead, EmulatorListed,
              ReadFails, StartWrite, EndWrite, storage
<1>7. ASSUME UNCHANGED vars PROVE UNCHANGED <<fileName, emulator>>
  BY <1>7 DEF vars, storage
<1> QED
  BY <1>1, <1>2, <1>3, <1>4, <1>5, <1>6, <1>7 DEF Next

---------------------------------------------------------------------------
(* Undisturbed calls *)

(* A call that does not step stays sound while its file does.              *)
LEMMA StaysSound ==
  ASSUME NEW r \in Call, CallSound(r),
         UNCHANGED <<fileName, files, emulator, synchronized, created>>,
         emulator # None => stored[emulator] \subseteq stored'[emulator]
  PROVE  CallSound(r)'
BY DEF CallSound, ForOpenWorkspace, ListSound, Parsed

(* A step of a call, none of whose ends is writing.                        *)
LEMMA CallStep ==
  ASSUME TypeOK, Sound, NEW c \in Calls, NEW r \in Call, SetCall(c, r),
         UNCHANGED <<fileName, files, emulator, synchronized, created>>,
         emulator # None => stored[emulator] \subseteq stored'[emulator],
         ~At(c, "writing"), r.pc # "writing",
         r.pc \in {"requests", "listed", "write", "writing"} => \A d \in Calls \ {c} : ~InSection(d),
         CallSound(r)'
  PROVE  Sound'
<1>1. call' \in [Calls -> Call] /\ call'[c] = r /\ \A d \in Calls \ {c} : call'[d] = call[d]
  BY SetCallType
<1>2. OneSection'
  BY <1>1 DEF Sound, OneSection, InSection
<1>3. EmulatorSound'
  BY DEF Sound, EmulatorSound
<1>4. FileSound'
  <2>1. NoWriter' => NoWriter
    BY <1>1 DEF NoWriter, At
  <2> QED
    BY <2>1 DEF Sound, FileSound
<1>5. CallsSound'
  <2>1. ASSUME NEW d \in Calls \ {c} PROVE CallSound(call[d])'
    <3>1. PICK s \in Call : s = call[d]
      BY DEF TypeOK
    <3>2. CallSound(s)
      BY <3>1 DEF Sound, CallsSound
    <3>3. CallSound(s)'
      BY <3>2, StaysSound
    <3> QED
      BY <1>1, <3>1, <3>3
  <2>2. CallSound(call[c])'
    BY <1>1
  <2> QED
    BY <2>1, <2>2 DEF CallsSound
<1> QED
  BY <1>2, <1>3, <1>4, <1>5 DEF Sound

(* An idle call claims nothing.                                            *)
LEMMA IdleSound == IdleCall \in Call /\ CallSound(IdleCall) /\ CallSound(IdleCall)'
BY IdleCallType DEF IdleCall, CallSound, ForOpenWorkspace, ListSound

LEMMA OverlapsNone ==
  ASSUME NEW c \in Calls, Overlaps(c), ~disturbed'
  PROVE  \A d \in Calls \ {c} : ~InSection(d)
BY Zenon DEF Overlaps

(* What was disturbed stays so.                                            *)
LEMMA Undisturbed == TypeOK /\ [Next]_vars /\ ~disturbed' => ~disturbed
BY Zenon
   DEF Next, vars, history, TypeOK, Overlaps, OpenWorkspace, EmulatorUp, EmulatorDown, Crash,
       StoredElsewhere, Create, Posted, PostFails, ReadToAppend, SynchronizeIndex, FileRead,
       EmulatorListed, ReadFails, StartWrite, EndWrite

(* The list that a synchronization keeps holds what was created, which is  *)
(* in the file and on the emulator.                                        *)
LEMMA CreatedRead ==
  ASSUME TypeOK, Sound, NEW c \in Calls, InSection(c), ~At(c, "writing"), emulator # None
  PROVE  created \subseteq Parsed /\ created \subseteq stored[emulator]
<1>1. NoWriter
  BY DEF Sound, OneSection, InSection, NoWriter, At
<1> QED
  BY <1>1 DEF Sound, EmulatorSound, FileSound, Parsed

(* An undisturbed step keeps what holds of the calls.                      *)
LEMMA SoundStep == Inv /\ [Next]_vars /\ ~disturbed' => Sound'
<1> SUFFICES ASSUME Inv, [Next]_vars, ~disturbed' PROVE Sound'
  OBVIOUS
<1> USE FilesAssumption, StorageAssumption DEF FilesAssumption, StorageAssumption
<1>a. TypeInv /\ TypeOK /\ OwnEmulator
  BY DEF Inv, TypeInv
<1>b. Sound
  BY <1>a, Undisturbed DEF Inv
<1>c. IdleCall.pc = "idle" /\ IdleCall.op = "create"
  BY DEF IdleCall
<1>1. ASSUME NEW w \in Workspaces, OpenWorkspace(w) PROVE Sound'
  <2>1. \A c \in Calls : call[c].pc = "idle"
    BY <1>1, Zenon DEF OpenWorkspace, Busy, At
  <2>2. call' = call /\ UNCHANGED <<emulator, stored, synchronized, created>>
    BY <1>1 DEF OpenWorkspace
  <2>3. emulator # None => created = {} /\ ~synchronized
    BY <1>a, <1>b, <1>1 DEF OpenWorkspace, OwnEmulator, Sound, EmulatorSound
  <2>4. EmulatorSound' /\ FileSound'
    BY <2>2, <2>3 DEF EmulatorSound, FileSound
  <2> QED
    BY <2>1, <2>2, <2>4
       DEF Sound, OneSection, InSection, CallsSound, CallSound, ForOpenWorkspace, ListSound
<1>2. ASSUME NEW w \in Workspaces, EmulatorUp(w) PROVE Sound'
  <2>1. \A c \in Calls : call[c].pc = "idle"
    BY <1>2, Zenon DEF EmulatorUp, Busy, At
  <2>2. call' = call /\ created' = {} /\ ~synchronized'
    BY <1>2 DEF EmulatorUp
  <2>3. EmulatorSound' /\ FileSound'
    BY <2>2 DEF EmulatorSound, FileSound
  <2> QED
    BY <2>1, <2>2, <2>3
       DEF Sound, OneSection, InSection, CallsSound, CallSound, ForOpenWorkspace, ListSound
<1>3. CASE EmulatorDown
  <2>1. emulator' = None /\ UNCHANGED <<fileName, files, stored, call, synchronized, created>>
    BY <1>3 DEF EmulatorDown, storage, history
  <2> QED
    BY <1>b, <2>1
       DEF Sound, OneSection, InSection, EmulatorSound, FileSound, CallsSound, CallSound,
           ForOpenWorkspace, ListSound, Parsed
<1>4. CASE Crash
  <2>1. emulator' = None /\ call' = [c \in Calls |-> IdleCall]
    BY <1>4 DEF Crash
  <2>2. CallsSound'
    BY <2>1, IdleSound DEF CallsSound
  <2> QED
    BY <1>c, <2>1, <2>2 DEF Sound, OneSection, InSection, EmulatorSound, FileSound
<1>5. CASE (\E s \in Snapshots : StoredElsewhere(s)) \/ UNCHANGED vars
  <2>1. /\ UNCHANGED <<fileName, files, emulator, call, synchronized, created>>
        /\ emulator # None => stored[emulator] \subseteq stored'[emulator]
    BY <1>a, <1>5 DEF StoredElsewhere, vars, storage, history, TypeOK
  <2>2. EmulatorSound' /\ FileSound'
    BY <1>b, <2>1 DEF Sound, EmulatorSound, FileSound, NoWriter, At
  <2>3. CallsSound'
    <3> SUFFICES ASSUME NEW c \in Calls PROVE CallSound(call[c])'
      BY DEF CallsSound
    <3>1. PICK s \in Call : s = call[c]
      BY <1>a DEF TypeOK
    <3>2. CallSound(s)'
      BY <1>b, <2>1, <3>1, StaysSound DEF Sound, CallsSound
    <3> QED
      BY <2>1, <3>1, <3>2
  <2> QED
    BY <1>b, <2>1, <2>2, <2>3 DEF Sound, OneSection, InSection
<1>6. ASSUME NEW c \in Calls, NEW s \in Snapshots, Create(c, s) PROVE Sound'
  <2>1. PICK r : r = [IdleCall EXCEPT !.pc = "post", !.name = s]
    OBVIOUS
  <2>2. r \in Call /\ r.pc = "post" /\ r.op = "create"
    BY <2>1 DEF IdleCall, Call
  <2>3. CallSound(r)'
    BY <1>6, <2>2 DEF Create, storage, CallSound, ForOpenWorkspace, ListSound
  <2> QED
    BY <1>a, <1>b, <1>6, <2>1, <2>2, <2>3, CallStep DEF Create, storage, history, At
<1>7. ASSUME NEW c \in Calls, Posted(c) PROVE Sound'
  <2>1. call[c] \in Call /\ CallSound(call[c]) /\ call[c].pc = "post"
    BY <1>a, <1>b, <1>7 DEF Posted, At, TypeOK, Sound, CallsSound
  <2>2. PICK r : r = [call[c] EXCEPT !.pc = "persisted"]
    OBVIOUS
  <2>3. r \in Call /\ r.pc = "persisted" /\ r.op = "create" /\ r.name = call[c].name
    BY <2>1, <2>2 DEF Call, CallSound, ForOpenWorkspace
  <2>4. /\ UNCHANGED <<fileName, files, emulator, synchronized, created>>
        /\ stored[emulator] \subseteq stored'[emulator] /\ r.name \in stored'[emulator]
    BY <1>a, <1>7, <2>3 DEF Posted, storage, history, TypeOK
  <2>5. CallSound(r)'
    BY <2>1, <2>3, <2>4 DEF CallSound, ForOpenWorkspace, ListSound
  <2> QED
    BY <1>a, <1>b, <1>7, <2>2, <2>3, <2>4, <2>5, CallStep DEF Posted, At
<1>8. ASSUME NEW c \in Calls, PostFails(c) \/ ReadFails(c) PROVE Sound'
  <2>1. SetCall(c, IdleCall) /\ ~At(c, "writing")
    BY <1>8 DEF PostFails, ReadFails, At
  <2>2. UNCHANGED <<fileName, files, emulator, stored, synchronized, created>>
    BY <1>8 DEF PostFails, ReadFails, storage, history
  <2> QED
    BY <1>a, <1>b, <1>c, <2>1, <2>2, IdleSound, CallStep
<1>9. ASSUME NEW c \in Calls, ReadToAppend(c) PROVE Sound'
  <2>1. call[c] \in Call /\ CallSound(call[c]) /\ call[c].pc = "persisted"
    BY <1>a, <1>b, <1>9 DEF ReadToAppend, At, TypeOK, Sound, CallsSound
  <2>2. call[c].name \in Snapshots /\ Parsed \in SUBSET Snapshots
    BY <1>a, <2>1, ParsedType DEF TypeInv, SnapshotsNamed, NamesSnapshot
  <2>3. PICK r : r = [call[c] EXCEPT !.pc = "write", !.list = Parsed \cup {call[c].name}]
    OBVIOUS
  <2>4. /\ r \in Call /\ r.pc = "write" /\ r.op = "create" /\ r.name = call[c].name
        /\ r.list = Parsed \cup {r.name}
    BY <2>1, <2>2, <2>3 DEF Call, CallSound, ForOpenWorkspace
  <2>5. UNCHANGED <<fileName, files, emulator, stored, synchronized, created>>
    BY <1>9 DEF ReadToAppend, storage
  <2>6. CallSound(r)'
    BY <2>1, <2>4, <2>5 DEF CallSound, ForOpenWorkspace, ListSound, Parsed
  <2>7. \A d \in Calls \ {c} : ~InSection(d)
    BY <1>9, OverlapsNone DEF ReadToAppend
  <2> QED
    BY <1>a, <1>b, <1>9, <2>3, <2>4, <2>5, <2>6, <2>7, CallStep DEF ReadToAppend, At
<1>10. ASSUME NEW c \in Calls, SynchronizeIndex(c) PROVE Sound'
  <2>1. PICK r : r = [IdleCall EXCEPT !.pc = "requests", !.op = "synchronizeIndex"]
    OBVIOUS
  <2>2. r \in Call /\ r.pc = "requests" /\ r.op = "synchronizeIndex" /\ ~r.read
    BY <2>1 DEF IdleCall, Call
  <2>3. CallSound(r)'
    BY <2>2 DEF CallSound, ForOpenWorkspace, ListSound
  <2>4. \A d \in Calls \ {c} : ~InSection(d)
    BY <1>10, OverlapsNone DEF SynchronizeIndex
  <2> QED
    BY <1>a, <1>b, <1>10, <2>1, <2>2, <2>3, <2>4, CallStep DEF SynchronizeIndex, storage, At
<1>11. ASSUME NEW c \in Calls, FileRead(c) PROVE Sound'
  <2>1. /\ call[c] \in Call /\ CallSound(call[c]) /\ call[c].pc \in {"requests", "listed"}
        /\ Parsed \in SUBSET Snapshots
    BY <1>a, <1>b, <1>11, ParsedType DEF FileRead, TypeOK, Sound, CallsSound
  <2>2. InSection(c) /\ ~At(c, "writing") /\ \A d \in Calls \ {c} : ~InSection(d)
    BY <1>b, <2>1 DEF InSection, At, Sound, OneSection
  <2>3. UNCHANGED <<fileName, files, emulator, stored, synchronized, created>>
    BY <1>11 DEF FileRead, storage, history
  <2>4. CASE At(c, "requests")
    <3>1. PICK r : r = [call[c] EXCEPT !.pc = "requests", !.read = TRUE, !.list = Parsed]
      OBVIOUS
    <3>2. r \in Call /\ r.pc = "requests" /\ r.op = "synchronizeIndex" /\ r.list = Parsed
      BY <2>1, <2>4, <3>1 DEF At, Call, CallSound, ForOpenWorkspace
    <3>3. SetCall(c, r)
      BY <1>11, <2>4, <3>1 DEF FileRead, At, SetCall
    <3>4. CallSound(r)'
      BY <2>3, <3>2 DEF CallSound, ForOpenWorkspace, ListSound, Parsed
    <3> QED
      BY <1>a, <1>b, <2>2, <2>3, <3>2, <3>3, <3>4, CallStep
  <2>5. CASE At(c, "listed")
    <3>1. PICK r : r = [call[c] EXCEPT !.pc = "write", !.read = TRUE,
                                       !.list = Parsed \cap call[c].names]
      OBVIOUS
    <3>2. /\ r \in Call /\ r.pc = "write" /\ r.op = "synchronizeIndex"
          /\ r.list = Parsed \cap call[c].names
      BY <2>1, <2>5, <3>1 DEF At, Call, CallSound, ForOpenWorkspace
    <3>3. SetCall(c, r)
      BY <1>11, <2>5, <3>1 DEF FileRead, At, SetCall
    <3>4. emulator # None => created \subseteq r.list /\ r.list \subseteq stored[emulator]
      BY <1>a, <1>b, <2>1, <2>2, <2>5, <3>2, CreatedRead DEF At, CallSound, ListSound
    <3>5. CallSound(r)'
      BY <2>3, <3>2, <3>4 DEF CallSound, ForOpenWorkspace, ListSound
    <3> QED
      BY <1>a, <1>b, <2>2, <2>3, <3>2, <3>3, <3>5, CallStep
  <2> QED
    BY <2>1, <2>4, <2>5 DEF At
<1>12. ASSUME NEW c \in Calls, EmulatorListed(c) PROVE Sound'
  <2>1. /\ call[c] \in Call /\ CallSound(call[c]) /\ call[c].pc = "requests"
        /\ emulator # None /\ stored[emulator] \in SUBSET Snapshots
    BY <1>a, <1>b, <1>12 DEF EmulatorListed, At, TypeOK, Sound, CallsSound
  <2>2. InSection(c) /\ ~At(c, "writing") /\ \A d \in Calls \ {c} : ~InSection(d)
    BY <1>b, <2>1 DEF InSection, At, Sound, OneSection
  <2>3. UNCHANGED <<fileName, files, emulator, stored, synchronized, created>>
    BY <1>12 DEF EmulatorListed, storage, history
  <2>4. created \subseteq Parsed /\ created \subseteq stored[emulator]
    BY <1>a, <1>b, <2>1, <2>2, CreatedRead
  <2>5. CASE call[c].read
    <3>1. PICK r : r = [call[c] EXCEPT !.pc = "write", !.list = @ \cap stored[emulator]]
      OBVIOUS
    <3>2. /\ r \in Call /\ r.pc = "write" /\ r.op = "synchronizeIndex"
          /\ r.list = Parsed \cap stored[emulator]
      BY <2>1, <2>5, <3>1 DEF Call, CallSound, ForOpenWorkspace, ListSound
    <3>3. SetCall(c, r)
      BY <1>12, <2>5, <3>1 DEF EmulatorListed
    <3>4. CallSound(r)'
      BY <2>3, <2>4, <3>2 DEF CallSound, ForOpenWorkspace, ListSound
    <3> QED
      BY <1>a, <1>b, <2>2, <2>3, <3>2, <3>3, <3>4, CallStep
  <2>6. CASE ~call[c].read
    <3>1. PICK r : r = [call[c] EXCEPT !.pc = "listed", !.names = stored[emulator]]
      OBVIOUS
    <3>2. /\ r \in Call /\ r.pc = "listed" /\ r.op = "synchronizeIndex" /\ ~r.read
          /\ r.names = stored[emulator]
      BY <2>1, <2>6, <3>1 DEF Call, CallSound, ForOpenWorkspace
    <3>3. SetCall(c, r)
      BY <1>12, <2>6, <3>1 DEF EmulatorListed
    <3>4. CallSound(r)'
      BY <2>3, <2>4, <3>2 DEF CallSound, ForOpenWorkspace, ListSound
    <3> QED
      BY <1>a, <1>b, <2>2, <2>3, <3>2, <3>3, <3>4, CallStep
  <2> QED
    BY <2>5, <2>6
<1>13. ASSUME NEW c \in Calls, StartWrite(c), fileName = None PROVE Sound'
  BY <1>a, <1>b, <1>c, <1>13, IdleSound, CallStep DEF StartWrite, At
<1>14. ASSUME NEW c \in Calls, StartWrite(c), fileName # None PROVE Sound'
  <2>1. PICK s : s = call[c]
    OBVIOUS
  <2>2. s \in Call /\ CallSound(s) /\ s.pc = "write" /\ InSection(c) /\ ~At(c, "writing")
    BY <1>a, <1>b, <1>14, <2>1 DEF StartWrite, At, InSection, TypeOK, Sound, CallsSound
  <2>3. PICK r : r = [s EXCEPT !.pc = "writing", !.file = fileName]
    OBVIOUS
  <2>4. /\ r \in Call /\ r.pc = "writing" /\ r.op = s.op /\ r.list = s.list /\ r.name = s.name
        /\ r.file = fileName /\ fileName \in Workspaces
    BY <1>a, <1>14, <2>2, <2>3 DEF Call, TypeOK, StorageTypeOK
  <2>5. /\ SetCall(c, r) /\ files' = [files EXCEPT ![fileName] = [list |-> {}, whole |-> FALSE]]
        /\ UNCHANGED <<fileName, emulator, stored, synchronized, created>>
    BY <1>14, <2>1, <2>3 DEF StartWrite, Truncate
  <2>6. files'[fileName] = [list |-> {}, whole |-> FALSE]
    BY <1>a, <2>4, <2>5 DEF TypeOK, StorageTypeOK
  <2>7. call' \in [Calls -> Call] /\ call'[c] = r /\ \A d \in Calls \ {c} : call'[d] = call[d]
    BY <1>a, <2>4, <2>5, SetCallType
  <2>8. \A d \in Calls \ {c} : ~InSection(d)
    BY <1>b, <2>2 DEF Sound, OneSection
  <2>9. OneSection' /\ EmulatorSound'
    BY <1>b, <2>5, <2>7, <2>8 DEF OneSection, InSection, Sound, EmulatorSound
  <2>10. FileSound'
    BY <2>4, <2>7 DEF FileSound, NoWriter, At
  <2>11. CallSound(r)'
    <3>1. ASSUME emulator # None
          PROVE  /\ created \subseteq s.list
                 /\ s.op = "synchronizeIndex" \/ synchronized => s.list \subseteq stored[emulator]
      <4>1. /\ created \subseteq Parsed
            /\ synchronized => Parsed \subseteq stored[emulator]
        <5>1. NoWriter
          BY <2>2, <2>8 DEF NoWriter, InSection, At
        <5> QED
          BY <1>b, <1>14, <3>1, <5>1 DEF Sound, FileSound, Parsed
      <4>2. CASE s.op = "create"
        BY <2>2, <3>1, <4>1, <4>2 DEF CallSound, ForOpenWorkspace, ListSound
      <4>3. CASE s.op = "synchronizeIndex"
        BY <2>2, <3>1, <4>3 DEF CallSound, ListSound
      <4> QED
        BY <2>2, <4>2, <4>3 DEF Call
    <3>2. s.op = "create" => s.name \in s.list
      BY <2>2 DEF CallSound, ListSound
    <3>3. ForOpenWorkspace(r)'
      BY <2>2, <2>4, <2>5 DEF CallSound, ForOpenWorkspace
    <3>4. ListSound(r)'
      BY <1>14, <2>4, <2>5, <2>6, <3>1, <3>2 DEF ListSound
    <3> QED
      BY <3>3, <3>4 DEF CallSound
  <2>12. ASSUME NEW d \in Calls \ {c} PROVE CallSound(call[d])'
    <3>1. PICK t : t = call[d]
      OBVIOUS
    <3>2. CallSound(t) /\ t.pc \notin {"requests", "listed", "write", "writing"}
      BY <1>b, <2>8, <3>1 DEF Sound, CallsSound, InSection
    <3>3. CallSound(t)'
      BY <2>5, <3>2 DEF CallSound, ForOpenWorkspace, ListSound
    <3> QED
      BY <2>7, <3>1, <3>3
  <2>13. CallsSound'
    BY <2>7, <2>11, <2>12 DEF CallsSound
  <2> QED
    BY <2>9, <2>10, <2>13 DEF Sound
<1>15. ASSUME NEW c \in Calls, EndWrite(c) PROVE Sound'
  <2>1. PICK s : s = call[c]
    OBVIOUS
  <2>2. s \in Call /\ CallSound(s) /\ s.pc = "writing" /\ InSection(c)
    BY <1>a, <1>b, <1>15, <2>1 DEF EndWrite, At, InSection, TypeOK, Sound, CallsSound
  <2>3. /\ fileName # None /\ s.file = fileName /\ fileName \in Workspaces
        /\ files[fileName] = [list |-> {}, whole |-> FALSE]
    BY <1>a, <2>2 DEF CallSound, ListSound, TypeOK, StorageTypeOK
  <2>4. UNCHANGED <<fileName, emulator, stored>> /\ SetCall(c, IdleCall)
    BY <1>15 DEF EndWrite
  <2>5. /\ call' \in [Calls -> Call] /\ call'[c] = IdleCall
        /\ \A d \in Calls \ {c} : call'[d] = call[d]
    BY <1>a, <2>4, IdleCallType, SetCallType
  <2>6. \A d \in Calls \ {c} : ~InSection(d)
    BY <1>b, <2>2 DEF Sound, OneSection
  <2>7. files'[fileName].list = s.list
    <3>1. Cardinality(s.list) >= Cardinality(files[fileName].list)
      <4>1. s.list \in SUBSET Items
        BY <2>2 DEF Call
      <4>2. IsFiniteSet(s.list)
        BY <4>1, FS_Subset
      <4>3. Cardinality(s.list) \in Nat /\ Cardinality(files[fileName].list) = 0
        BY <2>3, <4>2, FS_CardinalityType, FS_EmptySet
      <4> QED
        BY <4>3
    <3> QED
      BY <1>a, <1>15, <2>1, <2>3, <3>1 DEF EndWrite, Overwrite, FileOf, TypeOK, StorageTypeOK
  <2>8. emulator # None =>
          /\ created' \subseteq s.list /\ created' \subseteq stored[emulator]
          /\ synchronized' => s.list \subseteq stored[emulator]
    <3> SUFFICES ASSUME emulator # None
                 PROVE  /\ created' \subseteq s.list /\ created' \subseteq stored[emulator]
                        /\ synchronized' => s.list \subseteq stored[emulator]
      OBVIOUS
    <3>1. /\ created \subseteq stored[emulator] /\ created \subseteq s.list
          /\ s.op = "synchronizeIndex" \/ synchronized => s.list \subseteq stored[emulator]
      BY <1>b, <2>2 DEF Sound, EmulatorSound, CallSound, ListSound
    <3>2. CASE s.op = "create"
      <4>1. s.name \in s.list /\ s.name \in stored[emulator]
        BY <2>2, <3>2 DEF CallSound, ForOpenWorkspace, ListSound
      <4>2. created' = created \cup {s.name} /\ synchronized' = synchronized
        BY <1>15, <2>1, <3>2 DEF EndWrite
      <4> QED
        BY <3>1, <4>1, <4>2
    <3>3. CASE s.op = "synchronizeIndex"
      <4>1. created' = created
        BY <1>15, <2>1, <3>3 DEF EndWrite
      <4> QED
        BY <3>1, <3>3, <4>1
    <3> QED
      BY <2>2, <3>2, <3>3 DEF Call
  <2>9. OneSection'
    BY <1>c, <2>5, <2>6 DEF OneSection, InSection
  <2>10. EmulatorSound' /\ FileSound'
    BY <2>3, <2>4, <2>7, <2>8 DEF EmulatorSound, FileSound
  <2>11. CallsSound'
    <3>1. ASSUME NEW d \in Calls \ {c} PROVE CallSound(call[d])'
      <4>1. PICK t : t = call[d]
        OBVIOUS
      <4>2. CallSound(t) /\ t.pc \notin {"requests", "listed", "write", "writing"}
        BY <1>b, <2>6, <4>1 DEF Sound, CallsSound, InSection
      <4>3. CallSound(t)'
        BY <2>4, <4>2 DEF CallSound, ForOpenWorkspace, ListSound
      <4> QED
        BY <2>5, <4>1, <4>3
    <3> QED
      BY <2>5, <3>1, IdleSound DEF CallsSound
  <2> QED
    BY <2>9, <2>10, <2>11 DEF Sound
<1> QED
  BY <1>1, <1>2, <1>3, <1>4, <1>5, <1>6, <1>7, <1>8, <1>9, <1>10, <1>11, <1>12, <1>13, <1>14, <1>15
     DEF Next

LEMMA InitInv == Init => Inv
<1> SUFFICES ASSUME Init PROVE Inv
  OBVIOUS
<1>1. \A c \in Calls : call[c] = IdleCall
  BY DEF Init
<1>2. CallsSound
  BY <1>1, IdleSound DEF CallsSound
<1>3. OneSection
  BY <1>1 DEF OneSection, InSection, IdleCall
<1> QED
  BY <1>2, <1>3, InitType DEF Init, Inv, OwnEmulator, Sound, EmulatorSound, FileSound

(* The inductive invariant of the snapshots.                               *)
THEOREM SnapshotsInvariant == Spec => []Inv
<1>1. Inv /\ [Next]_vars => Inv'
  BY TypeStep, OwnEmulatorStep, SoundStep DEF Inv
<1> QED
  BY <1>1, InitInv, PTL DEF Spec

(* Once a file has been read whole, nobody is writing it.                  *)
LEMMA WholeFile ==
  ASSUME Inv, Current, Persisted.whole
  PROVE  Sound /\ NoWriter /\ emulator # None /\ fileName # None
<1>1. Sound /\ emulator # None /\ fileName # None
  BY DEF Inv, Current
<1>2. ASSUME NEW c \in Calls, At(c, "writing") PROVE FALSE
  <2>1. CallSound(call[c])
    BY <1>1 DEF Sound, CallsSound
  <2>2. files[fileName] = [list |-> {}, whole |-> FALSE]
    BY <1>2, <2>1 DEF At, CallSound, ListSound
  <2> QED
    BY <2>2 DEF Persisted
<1> QED
  BY <1>1, <1>2 DEF NoWriter

(* What is listed after a synchronization can be jumped to.                *)
THEOREM ListedCanBeReached == Spec => []ListedIsStored
<1>1. Inv => ListedIsStored
  BY WholeFile DEF ListedIsStored, Sound, FileSound, Persisted
<1> QED
  BY <1>1, SnapshotsInvariant, PTL

(* What create() returned for stays in the list.                           *)
THEOREM NoSnapshotIsLost == Spec => []CreatedIsListed
<1>1. Inv => CreatedIsListed
  BY WholeFile DEF CreatedIsListed, Sound, FileSound, Persisted
<1> QED
  BY <1>1, SnapshotsInvariant, PTL

=============================================================================
