--------------------------- MODULE Wallet_proofs ---------------------------
(***************************************************************************)
(* As long as no call is disturbed, the wallet keeps every key pair and    *)
(* implements a keyring, for any number of workspaces, key pairs and calls.*)
(***************************************************************************)
EXTENDS Wallet, FiniteSetTheorems, TLAPS

(* Facts of every state.                                                   *)
NamesNewKey(r) == r.op = "createAccount" /\ r.pc = "list" => r.key \in Keys

NewKeysNamed == \A c \in Calls : NamesNewKey(call[c])

OwnEmulator == emulator # None => fileName \in {None, emulator}

AccountsHome == \A w \in Workspaces : \A k \in accounts[w] : home[k] = w

(* Facts of undisturbed states.  One call at most is between its read and  *)
(* the end of its write.                                                   *)
OneSection == \A c, d \in Calls : InSection(c) /\ InSection(d) => c = d

AllParse == \A w \in Workspaces :
    files[w].whole \/ \E c \in Calls : At(c, "writing") /\ call[c].file = w

(* A call that creates an account runs for the workspace that is open.     *)
ForOpenWorkspace(r) ==
    /\ r.op = "synchronizeIndex" => r.key = None
    /\ r.op = "createAccount" => r.pc # "lookup"
    /\ r.pc \in {"idle", "cli"} => r.key = None
    /\ r.pc = "cli" => r.op = "createAccount" /\ fileName # None
    /\ r.op = "createAccount" /\ r.pc \in {"list", "write", "writing"} => r.key # None
    /\ r.key # None => fileName # None /\ home[r.key] = fileName

(* What a call has read is still in the file, and what it writes is that   *)
(* plus its own key pair, or without those it has dropped.                 *)
ListCurrent(r) ==
    /\ r.pc = "lookup" => r.list = Parsed
    /\ r.pc = "write" /\ r.op = "createAccount" => r.list = Parsed \cup {r.key}
    /\ r.pc = "write" /\ r.op = "synchronizeIndex" =>
         r.list \subseteq Parsed /\ Parsed \subseteq r.list \cup dropped
    /\ r.pc = "writing" =>
         /\ r.file \in Workspaces /\ r.file = fileName
         /\ files[r.file] = [list |-> {}, whole |-> FALSE]
         /\ r.key # None => r.key \in r.list

CallSound(r) == ForOpenWorkspace(r) /\ ListCurrent(r)

CallsSound == \A c \in Calls : CallSound(call[c])

(* Every key pair that was used is on its way to the file of its workspace,*)
(* in it, or dropped.                                                      *)
UsedKept == \A k \in Keys : home[k] # None =>
    \/ k \in files[home[k]].list \cup dropped
    \/ \E c \in Calls : call[c].key = k
    \/ \E c \in Calls : At(c, "writing") /\ call[c].file = home[k] /\ k \in call[c].list

Sound == OneSection /\ AllParse /\ CallsSound /\ UsedKept

TypeInv == TypeOK /\ NewKeysNamed

Basics == TypeInv /\ OwnEmulator /\ AccountsHome

Inv == Basics /\ (~disturbed => Sound)

---------------------------------------------------------------------------
(* Type correctness *)

LEMMA SetCallType ==
  ASSUME TypeOK, NEW c \in Calls, NEW r \in Call, SetCall(c, r)
  PROVE  call' \in [Calls -> Call] /\ call'[c] = r /\ \A d \in Calls \ {c} : call'[d] = call[d]
BY DEF TypeOK, SetCall

LEMMA IdleCallType == IdleCall \in Call
BY DEF IdleCall, Call

LEMMA DisturbsType ==
  ASSUME TypeOK, NEW condition \in BOOLEAN, Disturbs(condition)
  PROVE  disturbed' \in BOOLEAN
BY Zenon DEF TypeOK, Disturbs

LEMMA OverlapsType ==
  ASSUME TypeOK, NEW c \in Calls, Overlaps(c)
  PROVE  disturbed' \in BOOLEAN
BY Zenon DEF TypeOK, Overlaps, Disturbs

LEMMA ParsedType == TypeOK => Parsed \in SUBSET Keys
BY StorageAssumption DEF StorageAssumption, TypeOK, StorageTypeOK, Parsed

(* The fields of a call are replaced by others of their type.              *)
LEMMA CallFields ==
  ASSUME NEW r \in Call, NEW pc \in {"idle", "cli", "list", "lookup", "write", "writing"},
         NEW key \in Keys \cup {None}, NEW list \in SUBSET Keys,
         NEW file \in Workspaces \cup {None}
  PROVE  /\ [r EXCEPT !.pc = pc] \in Call
         /\ [r EXCEPT !.pc = pc, !.key = key] \in Call
         /\ [r EXCEPT !.pc = pc, !.list = list] \in Call
         /\ [r EXCEPT !.pc = pc, !.file = file] \in Call
         /\ [r EXCEPT !.pc = pc, !.op = "synchronizeIndex"] \in Call
BY DEF Call

(* A call is set to a value of the type.                                   *)
LEMMA SetCallTyped ==
  ASSUME TypeInv, NEW c \in Calls, NEW r \in Call, NamesNewKey(r), SetCall(c, r)
  PROVE  call' \in [Calls -> Call] /\ NewKeysNamed'
BY SetCallType DEF TypeInv, NewKeysNamed, NamesNewKey

LEMMA TypeStep == TypeInv /\ [Next]_vars => TypeInv'
<1> SUFFICES ASSUME TypeInv, [Next]_vars PROVE TypeInv'
  OBVIOUS
<1> USE StorageAssumption DEF StorageAssumption
<1>0. TypeOK
  BY DEF TypeInv
<1>1. ASSUME NEW w \in Workspaces, OpenWorkspace(w) PROVE TypeInv'
  <2>1. disturbed' \in BOOLEAN
    BY <1>0, <1>1, Zenon DEF OpenWorkspace, TypeOK, Disturbs, Busy
  <2> QED
    BY <1>1, <2>1 DEF OpenWorkspace, TypeInv, TypeOK, StorageTypeOK, setFileName, NewKeysNamed
<1>2. ASSUME NEW w \in Workspaces, EmulatorUp(w) PROVE TypeInv'
  BY <1>2 DEF EmulatorUp, TypeInv, TypeOK, StorageTypeOK, storage, NewKeysNamed
<1>3. CASE EmulatorDown \/ Rollback
  BY <1>3 DEF EmulatorDown, Rollback, TypeInv, TypeOK, StorageTypeOK, storage, NewKeysNamed
<1>4. CASE Crash
  <2>1. disturbed' \in BOOLEAN
    BY <1>0, <1>4, Zenon DEF Crash, TypeOK, Disturbs
  <2>2. NamesNewKey(IdleCall)
    BY DEF NamesNewKey, IdleCall
  <2>3. call' \in [Calls -> Call] /\ NewKeysNamed'
    BY <1>4, <2>2, IdleCallType DEF Crash, NewKeysNamed, NamesNewKey
  <2> QED
    BY <1>4, <2>1, <2>3 DEF Crash, TypeInv, TypeOK, StorageTypeOK
<1>5. ASSUME NEW c \in Calls, CreateAccount(c) \/ SynchronizeIndex(c) PROVE TypeInv'
  <2>1. PICK r \in Call : SetCall(c, r) /\ NamesNewKey(r)
    <3>1. /\ [IdleCall EXCEPT !.pc = "cli"] \in Call
          /\ [IdleCall EXCEPT !.pc = "list", !.op = "synchronizeIndex"] \in Call
          /\ NamesNewKey([IdleCall EXCEPT !.pc = "cli"])
          /\ NamesNewKey([IdleCall EXCEPT !.pc = "list", !.op = "synchronizeIndex"])
      BY IdleCallType, CallFields DEF NamesNewKey, IdleCall
    <3> QED
      BY <1>5, <3>1 DEF CreateAccount, SynchronizeIndex
  <2> QED
    BY <1>5, <2>1, SetCallTyped
       DEF CreateAccount, SynchronizeIndex, TypeInv, TypeOK, StorageTypeOK, storage
<1>6. ASSUME NEW c \in Calls, CliDone(c) PROVE TypeInv'
  <2>1. ASSUME NEW k \in Keys, emulator # None,
               home' = [home EXCEPT ![k] = emulator],
               accounts' = [accounts EXCEPT ![emulator] = @ \cup {k}],
               SetCall(c, [call[c] EXCEPT !.pc = "list", !.key = k])
        PROVE  TypeInv'
    <3>1. PICK r : r = [call[c] EXCEPT !.pc = "list", !.key = k]
      OBVIOUS
    <3>2. r \in Call /\ NamesNewKey(r)
      BY <1>0, <3>1 DEF TypeOK, Call, NamesNewKey
    <3> QED
      BY <1>6, <2>1, <3>1, <3>2, SetCallTyped
         DEF CliDone, TypeInv, TypeOK, StorageTypeOK, storage
  <2>2. CASE SetCall(c, IdleCall) /\ UNCHANGED <<home, accounts>>
    <3>1. NamesNewKey(IdleCall)
      BY DEF NamesNewKey, IdleCall
    <3> QED
      BY <1>6, <2>2, <3>1, IdleCallType, SetCallTyped
         DEF CliDone, TypeInv, TypeOK, StorageTypeOK, storage
  <2> QED
    BY <1>6, <2>1, <2>2 DEF CliDone
<1>7. ASSUME NEW c \in Calls, ListToAdd(c) \/ ListToSynchronize(c) \/ ListFails(c)
      PROVE  TypeInv'
  <2>1. disturbed' \in BOOLEAN
    BY <1>0, <1>7, OverlapsType DEF ListToAdd, ListToSynchronize, ListFails
  <2>2. PICK r \in Call : SetCall(c, r) /\ NamesNewKey(r)
    <3>1. call[c] \in Call /\ Parsed \in SUBSET Keys
      BY <1>0, ParsedType DEF TypeOK
    <3>2. CASE ListToAdd(c)
      <4>1. PICK r : r = [call[c] EXCEPT !.pc = "write", !.list = Parsed \cup {call[c].key}]
        OBVIOUS
      <4>2. call[c].key \in Keys
        BY <3>2 DEF ListToAdd, At, TypeInv, NewKeysNamed, NamesNewKey
      <4>3. r \in Call /\ NamesNewKey(r)
        BY <3>1, <4>1, <4>2 DEF Call, NamesNewKey
      <4> QED
        BY <3>2, <4>1, <4>3 DEF ListToAdd
    <3>3. CASE ListToSynchronize(c)
      <4>1. PICK r : r = [call[c] EXCEPT !.pc = "lookup", !.list = Parsed]
        OBVIOUS
      <4>2. r \in Call /\ NamesNewKey(r)
        BY <3>1, <4>1 DEF Call, NamesNewKey
      <4> QED
        BY <3>3, <4>1, <4>2 DEF ListToSynchronize
    <3>4. CASE ListFails(c)
      <4>1. NamesNewKey(IdleCall)
        BY DEF NamesNewKey, IdleCall
      <4> QED
        BY <3>4, <4>1, IdleCallType DEF ListFails
    <3> QED
      BY <1>7, <3>2, <3>3, <3>4
  <2>3. UNCHANGED <<storage, emulator, accounts, home, dropped>>
    BY <1>7 DEF ListToAdd, ListToSynchronize, ListFails
  <2> QED
    BY <2>1, <2>2, <2>3, SetCallTyped DEF TypeInv, TypeOK, StorageTypeOK, storage
<1>8. ASSUME NEW c \in Calls, Lookup(c) PROVE TypeInv'
  <2>1. PICK valid \in SUBSET (call[c].list \cap (IF emulator = None THEN {} ELSE accounts[emulator])) :
          /\ SetCall(c, [call[c] EXCEPT !.pc = "write", !.list = valid])
          /\ dropped' = dropped \cup (call[c].list \ valid)
    BY <1>8 DEF Lookup
  <2>2. PICK r : r = [call[c] EXCEPT !.pc = "write", !.list = valid]
    OBVIOUS
  <2>3. r \in Call /\ NamesNewKey(r) /\ call[c].list \in SUBSET Keys
    BY <1>0, <2>1, <2>2 DEF TypeOK, Call, NamesNewKey
  <2> QED
    BY <1>8, <2>1, <2>2, <2>3, SetCallTyped DEF Lookup, TypeInv, TypeOK, StorageTypeOK, storage
<1>9. ASSUME NEW c \in Calls, StartWrite(c) PROVE TypeInv'
  <2>1. CASE fileName = None
    <3>1. NamesNewKey(IdleCall)
      BY DEF NamesNewKey, IdleCall
    <3> QED
      BY <1>9, <2>1, <3>1, IdleCallType, SetCallTyped
         DEF StartWrite, TypeInv, TypeOK, StorageTypeOK
  <2>2. CASE fileName # None
    <3>1. PICK r : r = [call[c] EXCEPT !.pc = "writing", !.file = fileName]
      OBVIOUS
    <3>2. r \in Call /\ NamesNewKey(r)
      BY <1>0, <2>2, <3>1 DEF TypeOK, StorageTypeOK, Call, NamesNewKey
    <3>3. disturbed' \in BOOLEAN
      BY <1>0, <1>9, <2>2, OverlapsType DEF StartWrite
    <3>4. files' \in [Names -> [list : SUBSET Items, whole : BOOLEAN]]
      <4>1. [list |-> {}, whole |-> FALSE] \in [list : SUBSET Items, whole : BOOLEAN]
        OBVIOUS
      <4> QED
        BY <1>0, <1>9, <2>2, <4>1 DEF StartWrite, Truncate, TypeOK, StorageTypeOK
    <3>5. UNCHANGED <<fileName, emulator, accounts, home, dropped>> /\ SetCall(c, r)
      BY <1>9, <2>2, <3>1 DEF StartWrite
    <3> QED
      BY <3>2, <3>3, <3>4, <3>5, SetCallTyped DEF TypeInv, TypeOK, StorageTypeOK
  <2> QED
    BY <2>1, <2>2
<1>10. ASSUME NEW c \in Calls, EndWrite(c) PROVE TypeInv'
  <2>1. NamesNewKey(IdleCall)
    BY DEF NamesNewKey, IdleCall
  <2>2. call[c].list \in SUBSET Keys
    BY <1>0 DEF TypeOK, Call
  <2>3. files' \in [Names -> [list : SUBSET Items, whole : BOOLEAN]]
    BY <1>0, <1>10, <2>2 DEF EndWrite, Overwrite, FileOf, TypeOK, StorageTypeOK
  <2>4. UNCHANGED <<fileName, emulator, accounts, home, dropped, disturbed>> /\ SetCall(c, IdleCall)
    BY <1>10 DEF EndWrite
  <2> QED
    BY <2>1, <2>3, <2>4, IdleCallType, SetCallTyped DEF TypeInv, TypeOK, StorageTypeOK
<1>11. CASE UNCHANGED vars
  BY <1>11 DEF vars, storage, TypeInv, TypeOK, StorageTypeOK, NewKeysNamed
<1> QED
  BY <1>1, <1>2, <1>3, <1>4, <1>5, <1>6, <1>7, <1>8, <1>9, <1>10, <1>11 DEF Next, Step

LEMMA InitType == Init => TypeInv
<1> SUFFICES ASSUME Init PROVE TypeInv
  OBVIOUS
<1>1. IdleCall \in Call /\ NamesNewKey(IdleCall)
  BY IdleCallType DEF NamesNewKey, IdleCall
<1>2. fileName = None /\ files \in [Names -> [list : SUBSET Items, whole : BOOLEAN]]
  BY DEF Init, StorageInit, FileOf
<1> QED
  BY <1>1, <1>2, StorageAssumption
     DEF Init, StorageAssumption, TypeInv, TypeOK, StorageTypeOK, NewKeysNamed

(* Type correctness of the wallet and its files.                           *)
THEOREM TypeCorrect == Spec => []TypeOK
<1>1. TypeInv => TypeOK
  BY DEF TypeInv
<1> QED
  BY <1>1, InitType, TypeStep, PTL DEF Spec

---------------------------------------------------------------------------
(* The emulator, the file name and the accounts *)

(* Only these steps touch what the emulator and the accounts relate.       *)
LEMMA BasicsStep == Basics /\ [Next]_vars => Basics'
<1> SUFFICES ASSUME Basics, [Next]_vars PROVE (OwnEmulator /\ AccountsHome)'
  BY TypeStep DEF Basics
<1> USE StorageAssumption, FilesAssumption
    DEF StorageAssumption, FilesAssumption, OwnEmulator, AccountsHome
<1>0. TypeOK /\ OwnEmulator /\ AccountsHome
  BY DEF Basics, TypeInv
<1>1. ASSUME NEW w \in Workspaces, OpenWorkspace(w) PROVE (OwnEmulator /\ AccountsHome)'
  BY <1>0, <1>1 DEF OpenWorkspace, setFileName
<1>2. ASSUME NEW w \in Workspaces, EmulatorUp(w) PROVE (OwnEmulator /\ AccountsHome)'
  BY <1>0, <1>2 DEF EmulatorUp, storage, TypeOK
<1>3. CASE EmulatorDown \/ Rollback
  BY <1>0, <1>3 DEF EmulatorDown, Rollback, storage, TypeOK
<1>4. CASE Crash
  BY <1>0, <1>4 DEF Crash
<1>5. ASSUME NEW c \in Calls, CreateAccount(c) \/ SynchronizeIndex(c)
      PROVE  (OwnEmulator /\ AccountsHome)'
  BY <1>0, <1>5 DEF CreateAccount, SynchronizeIndex, storage
<1>6. ASSUME NEW c \in Calls, CliDone(c) PROVE (OwnEmulator /\ AccountsHome)'
  <2>1. UNCHANGED <<emulator, fileName>>
    BY <1>6 DEF CliDone, storage
  <2>2. CASE UNCHANGED <<home, accounts>>
    BY <1>0, <2>1, <2>2
  <2>3. ASSUME NEW k \in Keys, emulator # None, home[k] = None,
               home' = [home EXCEPT ![k] = emulator],
               accounts' = [accounts EXCEPT ![emulator] = @ \cup {k}]
        PROVE  AccountsHome'
    BY <1>0, <2>3 DEF TypeOK
  <2> QED
    BY <1>0, <1>6, <2>1, <2>2, <2>3 DEF CliDone
<1>7. ASSUME NEW c \in Calls, ListToAdd(c) \/ ListToSynchronize(c) \/ ListFails(c)
                              \/ Lookup(c) \/ StartWrite(c) \/ EndWrite(c)
      PROVE  (OwnEmulator /\ AccountsHome)'
  BY <1>0, <1>7
     DEF ListToAdd, ListToSynchronize, ListFails, Lookup, StartWrite, EndWrite, storage
<1>8. CASE UNCHANGED vars
  BY <1>0, <1>8 DEF vars, storage
<1> QED
  BY <1>1, <1>2, <1>3, <1>4, <1>5, <1>6, <1>7, <1>8 DEF Next, Step

---------------------------------------------------------------------------
(* Undisturbed calls *)

(* A call that does not step stays sound while its file does.              *)
LEMMA StaysSound ==
  ASSUME NEW r \in Call, CallSound(r), UNCHANGED <<fileName, files>>, dropped \subseteq dropped',
         r.key # None => home'[r.key] = home[r.key]
  PROVE  CallSound(r)'
BY DEF CallSound, ForOpenWorkspace, ListCurrent, Parsed

(* A step of a call that touches neither the files nor the homes.          *)
LEMMA CallStep ==
  ASSUME TypeOK, Sound, NEW c \in Calls, NEW r \in Call, SetCall(c, r),
         UNCHANGED <<fileName, files>>, dropped \subseteq dropped',
         \A k \in Keys : home'[k] = home[k] \/ (home[k] = None /\ r.key = k),
         ~At(c, "writing"), call[c].key \in {None, r.key},
         r.pc \in {"lookup", "write", "writing"} => \A d \in Calls \ {c} : ~InSection(d),
         CallSound(r)'
  PROVE  Sound'
<1> USE FilesAssumption, StorageAssumption DEF FilesAssumption, StorageAssumption
<1>1. call' \in [Calls -> Call] /\ call'[c] = r /\ \A d \in Calls \ {c} : call'[d] = call[d]
  BY SetCallType
<1>2. OneSection'
  BY <1>1 DEF Sound, OneSection, InSection
<1>3. AllParse'
  BY <1>1 DEF Sound, AllParse, At
<1>4. CallsSound'
  <2>1. ASSUME NEW d \in Calls \ {c} PROVE CallSound(call[d])'
    <3>1. PICK s \in Call : s = call[d]
      BY DEF TypeOK
    <3>2. CallSound(s)
      BY <3>1 DEF Sound, CallsSound
    <3>3. s.key # None => home'[s.key] = home[s.key]
      BY <3>1, <3>2 DEF Call, CallSound, ForOpenWorkspace, TypeOK, StorageTypeOK
    <3>4. CallSound(s)'
      BY <3>2, <3>3, StaysSound
    <3> QED
      BY <1>1, <3>1, <3>4
  <2>2. CallSound(call[c])'
    BY <1>1
  <2> QED
    BY <2>1, <2>2 DEF CallsSound
<1>5. UsedKept'
  <2> SUFFICES ASSUME NEW k \in Keys, home'[k] # None
               PROVE  \/ k \in files'[home'[k]].list \cup dropped'
                      \/ \E d \in Calls : call'[d].key = k
                      \/ \E d \in Calls : call'[d].pc = "writing" /\ call'[d].file = home'[k]
                                          /\ k \in call'[d].list
    BY DEF UsedKept, At
  <2>1. CASE home[k] = None
    BY <1>1, <2>1
  <2>2. CASE home[k] # None
    <3>1. home'[k] = home[k]
      BY <2>2
    <3>2. CASE k \in files[home[k]].list \cup dropped
      BY <3>1, <3>2
    <3>3. ASSUME NEW d \in Calls, call[d].key = k PROVE \E e \in Calls : call'[e].key = k
      BY <1>1, <3>3
    <3>4. ASSUME NEW d \in Calls, At(d, "writing"), call[d].file = home[k], k \in call[d].list
          PROVE  call'[d].pc = "writing" /\ call'[d].file = home'[k] /\ k \in call'[d].list
      BY <1>1, <3>1, <3>4 DEF At
    <3> QED
      BY <2>2, <3>2, <3>3, <3>4 DEF Sound, UsedKept
  <2> QED
    BY <2>1, <2>2
<1> QED
  BY <1>2, <1>3, <1>4, <1>5 DEF Sound

(* An idle call claims nothing.                                            *)
LEMMA IdleSound == IdleCall \in Call /\ CallSound(IdleCall) /\ CallSound(IdleCall)'
BY IdleCallType DEF IdleCall, CallSound, ForOpenWorkspace, ListCurrent

LEMMA OverlapsNone ==
  ASSUME NEW c \in Calls, Overlaps(c), ~disturbed'
  PROVE  \A d \in Calls \ {c} : ~InSection(d)
BY Zenon DEF Overlaps, Disturbs

(* An undisturbed step of the wallet keeps what holds of its calls.        *)
LEMMA SoundStep == Inv /\ [Next]_vars /\ ~disturbed' => Sound'
<1> SUFFICES ASSUME Inv, [Next]_vars, ~disturbed' PROVE Sound'
  OBVIOUS
<1> USE FilesAssumption, StorageAssumption DEF FilesAssumption, StorageAssumption
<1>a. Basics /\ TypeInv /\ TypeOK
  BY DEF Inv, Basics, TypeInv
<1>b. Sound
  <2>1. ~disturbed
    BY <1>a, Zenon
       DEF Next, Step, vars, TypeOK, Disturbs, Overlaps, OpenWorkspace, EmulatorUp, EmulatorDown,
           Rollback, Crash, CreateAccount, SynchronizeIndex, CliDone, ListToAdd,
           ListToSynchronize, ListFails, Lookup, StartWrite, EndWrite
  <2> QED
    BY <2>1 DEF Inv
<1>c. IdleCall.key = None /\ IdleCall.pc = "idle"
  BY DEF IdleCall
<1>1. ASSUME NEW w \in Workspaces, OpenWorkspace(w) PROVE Sound'
  <2>1. \A c \in Calls : call[c].pc = "idle"
    BY <1>1, Zenon DEF OpenWorkspace, Disturbs, Busy, At
  <2>2. \A c \in Calls : call[c].key = None
    BY <1>b, <2>1 DEF Sound, CallsSound, CallSound, ForOpenWorkspace
  <2> QED
    BY <1>1, <1>b, <2>1, <2>2
       DEF OpenWorkspace, Sound, OneSection, InSection, AllParse, At, CallsSound, CallSound,
           ForOpenWorkspace, ListCurrent, UsedKept
<1>2. CASE \/ \E w \in Workspaces : EmulatorUp(w)
           \/ EmulatorDown \/ Rollback \/ UNCHANGED vars
  <2>1. UNCHANGED <<fileName, files, home, call, dropped>>
    BY <1>2 DEF EmulatorUp, EmulatorDown, Rollback, vars, storage
  <2> QED
    BY <1>b, <2>1
       DEF Sound, OneSection, InSection, AllParse, At, CallsSound, CallSound,
           ForOpenWorkspace, ListCurrent, Parsed, UsedKept
<1>3. CASE Crash
  <2>1. \A c \in Calls : ~At(c, "writing") /\ call[c].key = None
    BY <1>3, Zenon DEF Crash, Disturbs
  <2>2. CallSound(IdleCall)'
    BY IdleSound
  <2>3. \A k \in Keys : k # None
    OBVIOUS
  <2>4. \A c \in Calls : call'[c] = IdleCall
    BY <1>3 DEF Crash
  <2>5. UNCHANGED <<files, home, dropped>>
    BY <1>3 DEF Crash
  <2>6. OneSection' /\ CallsSound'
    BY <1>c, <2>2, <2>4 DEF OneSection, InSection, CallsSound
  <2>7. AllParse' /\ UsedKept'
    BY <1>b, <2>1, <2>3, <2>5 DEF Sound, AllParse, UsedKept
  <2> QED
    BY <2>6, <2>7 DEF Sound
<1>4. ASSUME NEW c \in Calls, CreateAccount(c) \/ SynchronizeIndex(c) PROVE Sound'
  <2>1. PICK r \in Call : /\ SetCall(c, r)
                          /\ r.key = None
                          /\ \/ r.pc = "cli" /\ fileName # None /\ r.op = "createAccount"
                             \/ r.pc = "list" /\ r.op = "synchronizeIndex"
    <3>1. PICK r : r = [IdleCall EXCEPT !.pc = "cli"]
      OBVIOUS
    <3>2. PICK s : s = [IdleCall EXCEPT !.pc = "list", !.op = "synchronizeIndex"]
      OBVIOUS
    <3>3. r \in Call /\ s \in Call
      BY <3>1, <3>2, IdleCallType, CallFields
    <3>4. r.key = None /\ r.pc = "cli" /\ r.op = "createAccount"
      BY <3>1 DEF IdleCall
    <3>5. s.key = None /\ s.pc = "list" /\ s.op = "synchronizeIndex"
      BY <3>2 DEF IdleCall
    <3> QED
      BY <1>4, <3>1, <3>2, <3>3, <3>4, <3>5 DEF CreateAccount, SynchronizeIndex
  <2>2. At(c, "idle") /\ UNCHANGED <<fileName, files, home, dropped>>
    BY <1>4 DEF CreateAccount, SynchronizeIndex, storage
  <2>3. call[c].key = None /\ ~At(c, "writing")
    BY <1>b, <2>2 DEF Sound, CallsSound, CallSound, ForOpenWorkspace, At
  <2>4. CallSound(r)'
    BY <2>1, <2>2 DEF CallSound, ForOpenWorkspace, ListCurrent
  <2> QED
    BY <1>a, <1>b, <2>1, <2>2, <2>3, <2>4, CallStep
<1>5. ASSUME NEW c \in Calls, CliDone(c) PROVE Sound'
  <2>1. UNCHANGED <<fileName, files, dropped, emulator>> /\ At(c, "cli")
    BY <1>5 DEF CliDone, storage
  <2>2. call[c].key = None /\ ~At(c, "writing") /\ fileName # None
    BY <1>b, <2>1 DEF Sound, CallsSound, CallSound, ForOpenWorkspace, At
  <2>3. ASSUME NEW k \in Keys, emulator # None, home[k] = None,
               home' = [home EXCEPT ![k] = emulator],
               SetCall(c, [call[c] EXCEPT !.pc = "list", !.key = k])
        PROVE  Sound'
    <3>1. emulator = fileName
      BY <1>a, <2>2, <2>3 DEF Basics, OwnEmulator
    <3>2. PICK r : r = [call[c] EXCEPT !.pc = "list", !.key = k]
      OBVIOUS
    <3>3. r \in Call /\ r.pc = "list" /\ r.key = k /\ r.op = call[c].op
      BY <1>a, <3>2 DEF TypeOK, Call
    <3>4. \A l \in Keys : home'[l] = home[l] \/ (home[l] = None /\ r.key = l)
      BY <1>a, <2>3, <3>3 DEF TypeOK
    <3>5. home'[k] = fileName
      BY <1>a, <2>3, <3>1 DEF TypeOK
    <3>6. call[c].op # "synchronizeIndex"
      BY <1>a, <1>b, <2>1 DEF Sound, CallsSound, CallSound, ForOpenWorkspace, At
    <3>7. CallSound(r)'
      BY <2>1, <2>2, <3>3, <3>5, <3>6 DEF CallSound, ForOpenWorkspace, ListCurrent
    <3> QED
      BY <1>a, <1>b, <2>1, <2>2, <2>3, <3>2, <3>3, <3>4, <3>7, CallStep
  <2>4. CASE SetCall(c, IdleCall) /\ UNCHANGED <<home, accounts>>
    BY <1>a, <1>b, <1>c, <2>1, <2>2, <2>4, IdleSound, CallStep
  <2> QED
    BY <1>5, <2>3, <2>4 DEF CliDone
<1>6. ASSUME NEW c \in Calls, ListToAdd(c) PROVE Sound'
  <2>1. UNCHANGED <<fileName, files, home, dropped>> /\ At(c, "list") /\ call[c].op = "createAccount"
    BY <1>6 DEF ListToAdd, storage
  <2>2. \A d \in Calls \ {c} : ~InSection(d)
    BY <1>6, OverlapsNone DEF ListToAdd
  <2>3. PICK r : r = [call[c] EXCEPT !.pc = "write", !.list = Parsed \cup {call[c].key}]
    OBVIOUS
  <2>4. CallSound(call[c]) /\ call[c] \in Call /\ call[c].key \in Keys
    BY <1>a, <1>b, <2>1 DEF TypeOK, TypeInv, NewKeysNamed, NamesNewKey, Sound, CallsSound, At
  <2>5. /\ r \in Call /\ r.pc = "write" /\ r.key = call[c].key /\ r.op = "createAccount"
        /\ r.list = Parsed \cup {call[c].key}
    BY <1>a, <2>1, <2>3, <2>4, ParsedType DEF Call
  <2>6. CallSound(r)'
    BY <2>1, <2>4, <2>5 DEF CallSound, ForOpenWorkspace, ListCurrent, Parsed
  <2>7. SetCall(c, r) /\ ~At(c, "writing")
    BY <1>6, <2>1, <2>3 DEF ListToAdd, At
  <2> QED
    BY <1>a, <1>b, <2>1, <2>2, <2>5, <2>6, <2>7, CallStep
<1>7. ASSUME NEW c \in Calls, ListToSynchronize(c) PROVE Sound'
  <2>1. UNCHANGED <<fileName, files, home, dropped>> /\ At(c, "list") /\ call[c].op = "synchronizeIndex"
    BY <1>7 DEF ListToSynchronize, storage
  <2>2. \A d \in Calls \ {c} : ~InSection(d)
    BY <1>7, OverlapsNone DEF ListToSynchronize
  <2>3. PICK r : r = [call[c] EXCEPT !.pc = "lookup", !.list = Parsed]
    OBVIOUS
  <2>4. CallSound(call[c]) /\ call[c] \in Call
    BY <1>a, <1>b DEF TypeOK, Sound, CallsSound
  <2>5. /\ r \in Call /\ r.pc = "lookup" /\ r.key = call[c].key /\ r.op = "synchronizeIndex"
        /\ r.list = Parsed
    BY <1>a, <2>1, <2>3, <2>4, ParsedType DEF Call
  <2>6. CallSound(r)'
    BY <2>1, <2>4, <2>5 DEF CallSound, ForOpenWorkspace, ListCurrent, Parsed
  <2>7. SetCall(c, r) /\ ~At(c, "writing")
    BY <1>7, <2>1, <2>3 DEF ListToSynchronize, At
  <2> QED
    BY <1>a, <1>b, <2>1, <2>2, <2>5, <2>6, <2>7, CallStep
<1>8. ASSUME NEW c \in Calls, ListFails(c) PROVE Sound'
  <2>1. \A d \in Calls \ {c} : ~InSection(d)
    BY <1>8, OverlapsNone DEF ListFails
  <2>2. fileName \in Workspaces /\ ~files[fileName].whole
    BY <1>8, <1>a DEF ListFails, Parses, TypeOK, StorageTypeOK
  <2>3. PICK d \in Calls : At(d, "writing")
    BY <1>b, <2>2 DEF Sound, AllParse
  <2>4. d # c /\ InSection(d)
    BY <1>8, <2>3 DEF ListFails, At, InSection
  <2> QED
    BY <2>1, <2>4
<1>9. ASSUME NEW c \in Calls, Lookup(c) PROVE Sound'
  <2>1. PICK valid \in SUBSET call[c].list :
          /\ SetCall(c, [call[c] EXCEPT !.pc = "write", !.list = valid])
          /\ dropped' = dropped \cup (call[c].list \ valid)
    BY <1>9 DEF Lookup
  <2>2. UNCHANGED <<fileName, files, home>> /\ At(c, "lookup")
    BY <1>9 DEF Lookup, storage
  <2>3. \A d \in Calls \ {c} : ~InSection(d)
    BY <1>b, <2>2 DEF Sound, OneSection, InSection, At
  <2>4. PICK r : r = [call[c] EXCEPT !.pc = "write", !.list = valid]
    OBVIOUS
  <2>5. CallSound(call[c]) /\ call[c] \in Call
    BY <1>a, <1>b DEF TypeOK, Sound, CallsSound
  <2>6. call[c].op = "synchronizeIndex" /\ call[c].list = Parsed
    BY <2>2, <2>5 DEF Call, CallSound, ForOpenWorkspace, ListCurrent, At
  <2>7. /\ r \in Call /\ r.pc = "write" /\ r.key = call[c].key /\ r.op = "synchronizeIndex"
        /\ r.list = valid
    BY <2>1, <2>4, <2>5, <2>6 DEF Call
  <2>8. CallSound(r)'
    BY <2>1, <2>2, <2>5, <2>6, <2>7 DEF CallSound, ForOpenWorkspace, ListCurrent, Parsed
  <2>9. ~At(c, "writing") /\ dropped \subseteq dropped'
    BY <2>1, <2>2 DEF At
  <2> QED
    BY <1>a, <1>b, <2>1, <2>2, <2>3, <2>4, <2>7, <2>8, <2>9, CallStep
<1>10. ASSUME NEW c \in Calls, StartWrite(c) PROVE Sound'
  <2>1. PICK s : s = call[c]
    OBVIOUS
  <2>2. s \in Call /\ CallSound(s) /\ s.pc = "write" /\ At(c, "write")
    BY <1>10, <1>a, <1>b, <2>1 DEF StartWrite, At, TypeOK, Sound, CallsSound
  <2>3. UNCHANGED <<fileName, home, dropped>>
    BY <1>10 DEF StartWrite
  <2>4. CASE fileName = None
    <3>1. call[c].key = None /\ ~At(c, "writing")
      BY <2>1, <2>2, <2>4 DEF CallSound, ForOpenWorkspace, At
    <3>2. SetCall(c, IdleCall) /\ UNCHANGED files
      BY <1>10, <2>4 DEF StartWrite
    <3> QED
      BY <1>a, <1>b, <1>c, <2>3, <3>1, <3>2, IdleSound, CallStep
  <2>5. CASE fileName # None
    <3>1. \A d \in Calls \ {c} : ~InSection(d)
      BY <1>10, <2>5, OverlapsNone DEF StartWrite
    <3>2. PICK r : r = [s EXCEPT !.pc = "writing", !.file = fileName]
      OBVIOUS
    <3>3. /\ r \in Call /\ r.pc = "writing" /\ r.key = s.key /\ r.op = s.op /\ r.list = s.list
          /\ r.file = fileName /\ fileName \in Workspaces
      BY <1>a, <2>2, <2>5, <3>2 DEF Call, TypeOK, StorageTypeOK
    <3>4. SetCall(c, r) /\ files' = [files EXCEPT ![fileName] = [list |-> {}, whole |-> FALSE]]
      BY <1>10, <2>1, <2>5, <3>2 DEF StartWrite, Truncate
    <3>5. call' \in [Calls -> Call] /\ call'[c] = r /\ \A d \in Calls \ {c} : call'[d] = call[d]
      BY <1>a, <3>3, <3>4, SetCallType
    <3>6. /\ files'[fileName] = [list |-> {}, whole |-> FALSE]
          /\ \A w \in Workspaces \ {fileName} : files'[w] = files[w]
      BY <1>a, <3>3, <3>4 DEF TypeOK, StorageTypeOK
    <3>7. \A d \in Calls : ~At(d, "writing")
      BY <2>2, <3>1 DEF InSection, At
    <3>8. Parsed \subseteq r.list \cup dropped /\ (r.key # None => r.key \in r.list)
      BY <2>2, <3>3 DEF Call, CallSound, ForOpenWorkspace, ListCurrent
    <3>9. OneSection'
      BY <3>1, <3>5 DEF OneSection, InSection
    <3>10. AllParse'
      BY <1>b, <3>3, <3>5, <3>6, <3>7 DEF Sound, AllParse, At
    <3>11. CallsSound'
      <4>1. CallSound(r)'
        BY <2>2, <2>3, <3>3, <3>6, <3>8 DEF CallSound, ForOpenWorkspace, ListCurrent
      <4>2. ASSUME NEW d \in Calls \ {c} PROVE CallSound(call[d])'
        <5>1. PICK t : t = call[d]
          OBVIOUS
        <5>2. CallSound(t) /\ t.pc \notin {"lookup", "write", "writing"}
          BY <1>b, <3>1, <5>1 DEF Sound, CallsSound, InSection
        <5>3. CallSound(t)'
          BY <2>3, <5>2 DEF CallSound, ForOpenWorkspace, ListCurrent
        <5> QED
          BY <3>5, <5>1, <5>3
      <4> QED
        BY <3>5, <4>1, <4>2 DEF CallsSound
    <3>12. UsedKept'
      <4> SUFFICES ASSUME NEW k \in Keys, home[k] # None
                   PROVE  \/ k \in files'[home[k]].list \cup dropped
                          \/ \E d \in Calls : call'[d].key = k
                          \/ \E d \in Calls : call'[d].pc = "writing"
                                              /\ call'[d].file = home[k] /\ k \in call'[d].list
        BY <2>3 DEF UsedKept, At
      <4>1. CASE home[k] # fileName
        <5>1. files'[home[k]] = files[home[k]]
          BY <1>a, <3>6, <4>1 DEF TypeOK
        <5> QED
          BY <1>b, <2>1, <3>3, <3>5, <3>7, <5>1 DEF Sound, UsedKept
      <4>2. CASE home[k] = fileName
        <5>1. Parsed = files[home[k]].list
          BY <2>5, <4>2 DEF Parsed
        <5>2. k \in Parsed \cup dropped \/ \E d \in Calls : call'[d].key = k
          BY <1>b, <2>1, <3>3, <3>5, <3>7, <5>1 DEF Sound, UsedKept
        <5> QED
          BY <3>3, <3>5, <3>8, <4>2, <5>2
      <4> QED
        BY <4>1, <4>2
    <3> QED
      BY <3>9, <3>10, <3>11, <3>12 DEF Sound
  <2> QED
    BY <2>4, <2>5
<1>11. ASSUME NEW c \in Calls, EndWrite(c) PROVE Sound'
  <2>1. PICK s : s = call[c]
    OBVIOUS
  <2>2. s \in Call /\ CallSound(s) /\ s.pc = "writing" /\ At(c, "writing")
    BY <1>11, <1>a, <1>b, <2>1 DEF EndWrite, At, TypeOK, Sound, CallsSound
  <2>3. UNCHANGED <<fileName, home, dropped>> /\ SetCall(c, IdleCall)
    BY <1>11 DEF EndWrite
  <2>4. /\ s.file \in Workspaces /\ s.file = fileName
        /\ files[s.file] = [list |-> {}, whole |-> FALSE]
        /\ s.key # None => s.key \in s.list /\ home[s.key] = fileName
    BY <2>2 DEF CallSound, ForOpenWorkspace, ListCurrent
  <2>5. call' \in [Calls -> Call] /\ call'[c] = IdleCall /\ \A d \in Calls \ {c} : call'[d] = call[d]
    BY <1>a, <2>3, IdleCallType, SetCallType
  <2>6. \A d \in Calls \ {c} : ~InSection(d)
    BY <1>b, <2>2 DEF Sound, OneSection, InSection, At
  <2>7. /\ files'[s.file] = FileOf(s.list)
        /\ \A w \in Workspaces \ {s.file} : files'[w] = files[w]
    <3>1. Cardinality(s.list) >= Cardinality(files[s.file].list)
      <4>1. s.list \in SUBSET Items
        BY <2>2 DEF Call
      <4>2. IsFiniteSet(s.list)
        BY <4>1, FS_Subset
      <4>3. Cardinality(s.list) \in Nat /\ Cardinality(files[s.file].list) = 0
        BY <2>4, <4>2, FS_CardinalityType, FS_EmptySet
      <4> QED
        BY <4>3
    <3> QED
      BY <1>11, <1>a, <2>1, <2>4, <3>1 DEF EndWrite, Overwrite, TypeOK, StorageTypeOK
  <2>8. OneSection'
    BY <1>c, <2>5, <2>6 DEF OneSection, InSection
  <2>9. AllParse'
    <3>1. ASSUME NEW w \in Workspaces \ {s.file} PROVE files'[w].whole
      BY <1>b, <2>1, <2>6, <2>7, <3>1 DEF Sound, AllParse, At, InSection
    <3> QED
      BY <2>7, <3>1 DEF AllParse, FileOf
  <2>10. CallsSound'
    <3>1. ASSUME NEW d \in Calls \ {c} PROVE CallSound(call[d])'
      <4>1. PICK t : t = call[d]
        OBVIOUS
      <4>2. CallSound(t) /\ t.pc \notin {"lookup", "write", "writing"}
        BY <1>b, <2>6, <4>1 DEF Sound, CallsSound, InSection
      <4>3. CallSound(t)'
        BY <2>3, <4>2 DEF CallSound, ForOpenWorkspace, ListCurrent
      <4> QED
        BY <2>5, <4>1, <4>3
    <3> QED
      BY <2>5, <3>1, IdleSound DEF CallsSound
  <2>11. UsedKept'
    <3> SUFFICES ASSUME NEW k \in Keys, home[k] # None
                 PROVE  \/ k \in files'[home[k]].list \cup dropped
                        \/ \E d \in Calls : call'[d].key = k
      BY <2>3 DEF UsedKept
    <3>1. CASE k \in files[home[k]].list
      BY <1>a, <2>4, <2>7, <3>1 DEF TypeOK
    <3>2. ASSUME NEW d \in Calls, call[d].key = k
          PROVE  k \in files'[home[k]].list \/ call'[d].key = k
      BY <2>1, <2>4, <2>5, <2>7, <3>2 DEF FileOf
    <3>3. ASSUME NEW d \in Calls, At(d, "writing"), call[d].file = home[k], k \in call[d].list
          PROVE  k \in files'[home[k]].list
      BY <2>1, <2>6, <2>7, <3>3 DEF InSection, At, FileOf
    <3> QED
      BY <1>b, <3>1, <3>2, <3>3 DEF Sound, UsedKept
  <2> QED
    BY <2>8, <2>9, <2>10, <2>11 DEF Sound
<1> QED
  BY <1>1, <1>2, <1>3, <1>4, <1>5, <1>6, <1>7, <1>8, <1>9, <1>10, <1>11 DEF Next, Step

LEMMA InitInv == Init => Inv
<1> SUFFICES ASSUME Init PROVE Inv
  OBVIOUS
<1>1. TypeInv
  BY InitType
<1>2. \A c \in Calls : call[c] = IdleCall
  BY DEF Init
<1>3. OwnEmulator /\ AccountsHome
  BY DEF Init, OwnEmulator, AccountsHome
<1>4. OneSection /\ UsedKept
  BY <1>2 DEF OneSection, InSection, IdleCall, UsedKept, Init
<1>5. AllParse
  BY StorageAssumption DEF StorageAssumption, Init, StorageInit, FileOf, AllParse
<1>6. CallsSound
  BY <1>2, IdleSound DEF CallsSound
<1> QED
  BY <1>1, <1>3, <1>4, <1>5, <1>6 DEF Inv, Basics, Sound

(* The inductive invariant of the wallet.                                  *)
THEOREM WalletInvariant == Spec => []Inv
<1>1. Inv /\ [Next]_vars => Inv'
  BY BasicsStep, SoundStep DEF Inv
<1> QED
  BY <1>1, InitInv, PTL DEF Spec

(* The key pair of an account on the chain is about to be saved, in the    *)
(* file of its workspace, or taken out by a synchronization.               *)
THEOREM NoKeyIsLost == Spec => []KeysKept
<1>1. Inv => KeysKept
  <2> SUFFICES ASSUME Inv, ~disturbed, NEW w \in Workspaces, NEW k \in accounts[w]
               PROVE  \/ k \in files[w].list \cup dropped
                      \/ \E c \in Calls : call[c].key = k \/ (At(c, "writing") /\ k \in call[c].list)
    BY DEF KeysKept
  <2>1. k \in Keys /\ home[k] = w
    BY DEF Inv, Basics, TypeInv, TypeOK, AccountsHome
  <2>2. home[k] # None
    BY <2>1, FilesAssumption, StorageAssumption DEF FilesAssumption, StorageAssumption
  <2> QED
    BY <2>1, <2>2 DEF Inv, Sound, UsedKept
<1> QED
  BY <1>1, WalletInvariant, PTL

---------------------------------------------------------------------------
(* The wallet implements a keyring *)

(* The keys of a workspace are those of its only writer, or of its file.   *)
KeyringShape ==
    OneSection =>
      \A w \in Workspaces :
        /\ \A c \in Calls : At(c, "writing") /\ call[c].file = w => keyring[w] = call[c].list
        /\ (\A c \in Calls : ~(At(c, "writing") /\ call[c].file = w)) => keyring[w] = files[w].list

LEMMA KeyringHasShape == KeyringShape
<1> SUFFICES ASSUME OneSection, NEW w \in Workspaces
             PROVE  /\ \A c \in Calls : At(c, "writing") /\ call[c].file = w => keyring[w] = call[c].list
                    /\ (\A c \in Calls : ~(At(c, "writing") /\ call[c].file = w))
                         => keyring[w] = files[w].list
  BY DEF KeyringShape
<1> DEFINE writers == {c \in Calls : At(c, "writing") /\ call[c].file = w}
<1>1. keyring[w] = IF writers = {} THEN files[w].list ELSE call[CHOOSE c \in writers : TRUE].list
  BY DEF keyring
<1>2. ASSUME NEW c \in Calls, At(c, "writing"), call[c].file = w PROVE keyring[w] = call[c].list
  <2>1. writers = {c}
    BY <1>2 DEF OneSection, InSection, At
  <2>2. (CHOOSE d \in writers : TRUE) = c
    BY <2>1
  <2> QED
    BY <1>1, <2>1, <2>2
<1>3. ASSUME \A c \in Calls : ~(At(c, "writing") /\ call[c].file = w)
      PROVE  keyring[w] = files[w].list
  BY <1>1, <1>3
<1> QED
  BY <1>2, <1>3

LEMMA KeyringKeepsShape == KeyringShape'
BY KeyringHasShape, PTL

(* An undisturbed step adds a key, retains some of them, or changes none.  *)
LEMMA KeyringStep ==
  ASSUME Inv, Inv', [Next]_vars, ~disturbed'
  PROVE  [Abstract!Next]_Abstract!vars
<1> USE FilesAssumption, StorageAssumption DEF FilesAssumption, StorageAssumption
<1>a. disturbed' = disturbed /\ ~disturbed /\ TypeOK
  <2>1. TypeOK /\ TypeOK'
    BY DEF Inv, Basics, TypeInv
  <2>2. disturbed => disturbed'
    BY <2>1, Zenon
       DEF Next, Step, vars, TypeOK, Disturbs, Overlaps, OpenWorkspace, EmulatorUp, EmulatorDown,
           Rollback, Crash, CreateAccount, SynchronizeIndex, CliDone, ListToAdd,
           ListToSynchronize, ListFails, Lookup, StartWrite, EndWrite
  <2> QED
    BY <2>1, <2>2 DEF TypeOK
<1>b. Sound /\ Sound' /\ OneSection /\ OneSection'
  BY <1>a DEF Inv, Sound
<1>c. KeyringShape /\ KeyringShape'
  BY KeyringHasShape, KeyringKeepsShape
<1>d. keyring = [w \in Workspaces |-> keyring[w]] /\ keyring' = [w \in Workspaces |-> keyring'[w]]
  BY DEF keyring
<1>1. ASSUME NEW c \in Calls, StartWrite(c), fileName # None PROVE [Abstract!Next]_Abstract!vars
  <2>1. PICK s : s = call[c]
    OBVIOUS
  <2>2. /\ s \in Call /\ CallSound(s) /\ s.pc = "write" /\ At(c, "write")
        /\ fileName \in Workspaces
    BY <1>a, <1>b, <1>1, <2>1
       DEF StartWrite, At, TypeOK, StorageTypeOK, Sound, CallsSound
  <2>3. PICK r : r = [s EXCEPT !.pc = "writing", !.file = fileName]
    OBVIOUS
  <2>4. r \in Call /\ r.pc = "writing" /\ r.list = s.list /\ r.file = fileName
    BY <2>2, <2>3 DEF Call
  <2>5. SetCall(c, r) /\ files' = [files EXCEPT ![fileName] = [list |-> {}, whole |-> FALSE]]
    BY <1>1, <2>1, <2>3 DEF StartWrite, Truncate
  <2>6. call' \in [Calls -> Call] /\ call'[c] = r /\ \A d \in Calls \ {c} : call'[d] = call[d]
    BY <1>a, <2>4, <2>5, SetCallType
  <2>7. \A d \in Calls : ~At(d, "writing")
    BY <1>b, <2>2 DEF OneSection, InSection, At
  <2>8. \A w \in Workspaces : keyring[w] = files[w].list
    BY <1>b, <1>c, <2>7 DEF KeyringShape
  <2>9. keyring'[fileName] = s.list
    BY <1>b, <1>c, <2>2, <2>4, <2>6 DEF KeyringShape, At
  <2>10. \A w \in Workspaces \ {fileName} : keyring'[w] = files[w].list
    <3> SUFFICES ASSUME NEW w \in Workspaces \ {fileName} PROVE keyring'[w] = files[w].list
      OBVIOUS
    <3>1. \A d \in Calls : ~(call'[d].pc = "writing" /\ call'[d].file = w)
      BY <2>4, <2>6, <2>7 DEF At
    <3>2. files'[w] = files[w]
      BY <1>a, <2>5 DEF TypeOK, StorageTypeOK
    <3> QED
      BY <1>b, <1>c, <3>1, <3>2 DEF KeyringShape, At
  <2>11. keyring' = [keyring EXCEPT ![fileName] = s.list]
    BY <1>d, <2>2, <2>8, <2>9, <2>10
  <2>12. Parsed = keyring[fileName]
    BY <1>1, <2>2, <2>8 DEF Parsed
  <2>13. CASE s.op = "createAccount"
    <3>1. s.list = keyring[fileName] \cup {s.key} /\ s.key \in Keys
      BY <2>2, <2>12, <2>13 DEF Call, CallSound, ForOpenWorkspace, ListCurrent
    <3>2. CASE s.key \in keyring[fileName]
      <4>1. keyring' = keyring
        BY <1>d, <2>11, <3>1, <3>2
      <4> QED
        BY <1>a, <4>1 DEF Abstract!vars
    <3>3. CASE s.key \notin keyring[fileName]
      <4>1. Abstract!Add(fileName, s.key)
        BY <1>a, <2>11, <3>1, <3>3 DEF Abstract!Add
      <4> QED
        BY <2>2, <3>1, <4>1 DEF Abstract!Next
    <3> QED
      BY <3>2, <3>3
  <2>14. CASE s.op = "synchronizeIndex"
    <3>1. s.list \subseteq keyring[fileName] /\ s.list \in SUBSET Keys
      BY <2>2, <2>12, <2>14 DEF Call, CallSound, ListCurrent
    <3>2. Abstract!Retain(fileName, s.list)
      <4>1. keyring[fileName] \cap s.list = s.list
        BY <3>1
      <4> QED
        BY <1>a, <2>11, <4>1 DEF Abstract!Retain
    <3> QED
      BY <2>2, <3>1, <3>2 DEF Abstract!Next
  <2> QED
    BY <2>2, <2>13, <2>14 DEF Call
<1>2. ASSUME NEW c \in Calls, EndWrite(c) PROVE keyring' = keyring
  <2>1. PICK s : s = call[c]
    OBVIOUS
  <2>2. s \in Call /\ CallSound(s) /\ s.pc = "writing" /\ At(c, "writing")
    BY <1>2, <1>a, <1>b, <2>1 DEF EndWrite, At, TypeOK, Sound, CallsSound
  <2>3. s.file \in Workspaces /\ files[s.file] = [list |-> {}, whole |-> FALSE]
    BY <2>2 DEF CallSound, ListCurrent
  <2>4. call'[c].pc = "idle" /\ \A d \in Calls \ {c} : call'[d] = call[d]
    BY <1>2, <1>a, IdleCallType, SetCallType DEF EndWrite, IdleCall
  <2>5. \A d \in Calls \ {c} : ~At(d, "writing")
    BY <1>b, <2>2 DEF OneSection, InSection, At
  <2>6. \A d \in Calls : ~(call'[d].pc = "writing")
    BY <2>4, <2>5 DEF At
  <2>7. /\ files'[s.file].list = s.list
        /\ \A w \in Workspaces \ {s.file} : files'[w] = files[w]
    <3>1. Cardinality(s.list) >= Cardinality(files[s.file].list)
      <4>1. s.list \in SUBSET Items
        BY <2>2 DEF Call
      <4>2. IsFiniteSet(s.list)
        BY <4>1, FS_Subset
      <4>3. Cardinality(s.list) \in Nat /\ Cardinality(files[s.file].list) = 0
        BY <2>3, <4>2, FS_CardinalityType, FS_EmptySet
      <4> QED
        BY <4>3
    <3> QED
      BY <1>2, <1>a, <2>1, <2>3, <3>1 DEF EndWrite, Overwrite, FileOf, TypeOK, StorageTypeOK
  <2>8. \A w \in Workspaces : keyring'[w] = files'[w].list
    BY <1>b, <1>c, <2>6 DEF KeyringShape, At
  <2>9. keyring[s.file] = s.list
    BY <1>b, <1>c, <2>1, <2>2, <2>3 DEF KeyringShape
  <2>10. \A w \in Workspaces \ {s.file} : keyring[w] = files[w].list
    BY <1>b, <1>c, <2>1, <2>5 DEF KeyringShape
  <2> QED
    BY <1>d, <2>7, <2>8, <2>9, <2>10
<1>3. ASSUME files' = files,
             \A d \in Calls : /\ call'[d].pc = "writing" <=> call[d].pc = "writing"
                              /\ call[d].pc = "writing" => call'[d] = call[d]
      PROVE  keyring' = keyring
  <2>1. ASSUME NEW w \in Workspaces PROVE keyring'[w] = keyring[w]
    <3>1. ASSUME NEW d \in Calls, call[d].pc = "writing", call[d].file = w
          PROVE  keyring'[w] = keyring[w]
      <4>1. keyring[w] = call[d].list
        BY <1>b, <1>c, <3>1 DEF KeyringShape, At
      <4>2. call'[d] = call[d]
        BY <1>3, <3>1
      <4>3. keyring'[w] = call'[d].list
        BY <1>b, <1>c, <3>1, <4>2 DEF KeyringShape, At
      <4> QED
        BY <4>1, <4>2, <4>3
    <3>2. ASSUME \A d \in Calls : ~(call[d].pc = "writing" /\ call[d].file = w)
          PROVE  keyring'[w] = keyring[w]
      <4>1. keyring[w] = files[w].list
        BY <1>b, <1>c, <3>2 DEF KeyringShape, At
      <4>2. \A d \in Calls : ~(call'[d].pc = "writing" /\ call'[d].file = w)
        BY <1>3, <3>2
      <4>3. keyring'[w] = files'[w].list
        BY <1>b, <1>c, <4>2 DEF KeyringShape, At
      <4> QED
        BY <1>3, <4>1, <4>3
    <3> QED
      BY <3>1, <3>2
  <2> QED
    BY <1>d, <2>1
<1>4. ASSUME NEW c \in Calls, NEW r, SetCall(c, r), files' = files,
             call[c].pc # "writing", r.pc # "writing"
      PROVE  keyring' = keyring
  BY <1>a, <1>3, <1>4 DEF SetCall, TypeOK
<1>5. ASSUME NEW c \in Calls, StartWrite(c), fileName = None PROVE keyring' = keyring
  BY <1>4, <1>5 DEF StartWrite, At, IdleCall
<1>6. ASSUME NEW c \in Calls,
             \/ CreateAccount(c) \/ SynchronizeIndex(c) \/ CliDone(c) \/ ListToAdd(c)
             \/ ListToSynchronize(c) \/ ListFails(c) \/ Lookup(c)
      PROVE  keyring' = keyring
  <2>1. files' = files
    BY <1>6 DEF CreateAccount, SynchronizeIndex, CliDone, ListToAdd, ListToSynchronize,
                ListFails, Lookup, storage
  <2>2. call[c].pc # "writing"
    BY <1>6 DEF CreateAccount, SynchronizeIndex, CliDone, ListToAdd, ListToSynchronize,
                ListFails, Lookup, At
  <2>3. call[c] \in Call
    BY <1>a DEF TypeOK
  <2>4. \E r : SetCall(c, r) /\ r.pc # "writing"
    <3>1. \A key, list :
            /\ [call[c] EXCEPT !.pc = "list", !.key = key].pc # "writing"
            /\ [call[c] EXCEPT !.pc = "write", !.list = list].pc # "writing"
            /\ [call[c] EXCEPT !.pc = "lookup", !.list = list].pc # "writing"
      BY <2>3 DEF Call
    <3>2. /\ IdleCall.pc # "writing"
          /\ [IdleCall EXCEPT !.pc = "cli"].pc # "writing"
          /\ [IdleCall EXCEPT !.pc = "list", !.op = "synchronizeIndex"].pc # "writing"
      BY DEF IdleCall
    <3>3. CASE CreateAccount(c) \/ SynchronizeIndex(c)
      BY <3>2, <3>3, Zenon DEF CreateAccount, SynchronizeIndex
    <3>4. CASE CliDone(c)
      BY <3>1, <3>2, <3>4, Zenon DEF CliDone
    <3>5. CASE ListToAdd(c) \/ ListToSynchronize(c) \/ ListFails(c) \/ Lookup(c)
      BY <3>1, <3>2, <3>5, Zenon DEF ListToAdd, ListToSynchronize, ListFails, Lookup
    <3> QED
      BY <1>6, <3>3, <3>4, <3>5
  <2> QED
    BY <1>4, <2>1, <2>2, <2>4
<1>7. ASSUME Crash PROVE keyring' = keyring
  <2>1. \A d \in Calls : call[d].pc # "writing"
    BY <1>7, Zenon DEF Crash, Disturbs, At
  <2> QED
    BY <1>3, <1>7, <2>1 DEF Crash, IdleCall
<1>8. ASSUME \/ \E w \in Workspaces : OpenWorkspace(w) \/ EmulatorUp(w)
             \/ EmulatorDown \/ Rollback \/ UNCHANGED vars
      PROVE  keyring' = keyring
  <2>1. files' = files /\ call' = call
    BY <1>8 DEF OpenWorkspace, EmulatorUp, EmulatorDown, Rollback, vars, storage
  <2> QED
    BY <1>3, <2>1
<1>9. CASE keyring' = keyring
  BY <1>a, <1>9 DEF Abstract!vars
<1> QED
  BY <1>1, <1>2, <1>5, <1>6, <1>7, <1>8, <1>9 DEF Next, Step

(* Accounts are created and synchronized each in one step, without touching*)
(* the key pairs of other workspaces, for as long as no call is disturbed. *)
THEOREM KeyringIsImplemented == Spec => ImplementsKeyring
<1>1. Init => Abstract!Init
  <2> SUFFICES ASSUME Init PROVE Abstract!Init
    OBVIOUS
  <2>1. OneSection
    BY InitInv DEF Inv, Sound, Init
  <2>2. \A w \in Workspaces : keyring[w] = {}
    BY <2>1, KeyringHasShape, StorageAssumption
       DEF KeyringShape, StorageAssumption, Init, StorageInit, FileOf, At, IdleCall
  <2>3. keyring = [w \in Workspaces |-> keyring[w]]
    BY DEF keyring
  <2> QED
    BY <2>2, <2>3 DEF Abstract!Init, Init
<1>2. Inv /\ Inv' /\ [Next]_vars => [Abstract!Next]_Abstract!vars
  <2> SUFFICES ASSUME Inv, Inv', [Next]_vars PROVE [Abstract!Next]_Abstract!vars
    OBVIOUS
  <2>1. CASE ~disturbed'
    BY <2>1, KeyringStep
  <2>2. CASE disturbed'
    <3>1. disturbed' = TRUE
      BY <2>2 DEF Inv, Basics, TypeInv, TypeOK
    <3> QED
      BY <3>1 DEF Abstract!Next, Abstract!Disturb
  <2> QED
    BY <2>1, <2>2
<1> QED
  BY <1>1, <1>2, WalletInvariant, PTL DEF ImplementsKeyring, Abstract!Spec, Spec

===========================================================================
