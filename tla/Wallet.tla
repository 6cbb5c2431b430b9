------------------------------ MODULE Wallet ------------------------------
(***************************************************************************)
(* WalletService (packages/nodejs/src/wallet.service.ts): the key pairs of *)
(* the accounts that were created with the wallet, kept in one file per    *)
(* workspace, against the accounts on the chain of the emulator.           *)
(*                                                                         *)
(* A call reads the whole list and writes the whole list back; between the *)
(* two, and before them, it awaits the Flow CLI or the emulator.           *)
(*                                                                         *)
(* A key pair is a member of Keys, and so is its account.  Left out:       *)
(* signing and sending of transactions, which only read.                   *)
(***************************************************************************)
EXTENDS FileStorage

CONSTANTS
    Keys,
    Workspaces,
    Calls           \* calls in flight at the same time

ASSUME StorageAssumption == Items = Keys /\ Names = Workspaces

VARIABLES
    emulator,       \* the workspace whose emulator answers, or None
    accounts,       \* the accounts on the chain of each workspace
    home,           \* the workspace a generated key was used for
    call,           \* the calls
    dropped,        \* history: key pairs that a synchronization took out
    disturbed       \* history: a call was disturbed

storage == <<fileName, files>>
vars == <<storage, emulator, accounts, home, call, dropped, disturbed>>

Call == [ pc   : {"idle", "cli", "list", "lookup", "write", "writing"},
          op   : {"createAccount", "synchronizeIndex"},
          key  : Keys \cup {None},      \* the key of the new account
          list : SUBSET Keys,           \* what was read, then what is written
          file : Workspaces \cup {None} ]

IdleCall == [pc |-> "idle", op |-> "createAccount", key |-> None, list |-> {}, file |-> None]

TypeOK ==
    /\ StorageTypeOK
    /\ emulator \in Workspaces \cup {None}
    /\ accounts \in [Workspaces -> SUBSET Keys]
    /\ home \in [Keys -> Workspaces \cup {None}]
    /\ call \in [Calls -> Call]
    /\ dropped \in SUBSET Keys
    /\ disturbed \in BOOLEAN

Init ==
    /\ StorageInit
    /\ emulator = None
    /\ accounts = [w \in Workspaces |-> {}]
    /\ home = [k \in Keys |-> None]
    /\ call = [c \in Calls |-> IdleCall]
    /\ dropped = {}
    /\ disturbed = FALSE

---------------------------------------------------------------------------

At(c, pc) == call[c].pc = pc

(* Between reading the list and the end of writing it.                     *)
InSection(c) == call[c].pc \in {"lookup", "write", "writing"}

Disturbs(condition) == disturbed' = (disturbed \/ condition)

(* A call reads or writes while another one is between the two.            *)
Overlaps(c) == Disturbs(\E d \in Calls \ {c} : InSection(d))

Busy == \E c \in Calls : ~At(c, "idle")

---------------------------------------------------------------------------
(* The application and the emulator *)

(* A workspace is opened while the emulator of the last one is off; its    *)
(* own one is on if its settings were saved before it was opened.          *)
OpenWorkspace(w) ==
    /\ emulator \in {None, w}
    /\ fileName # w
    /\ setFileName(w)
    /\ Disturbs(Busy)
    /\ UNCHANGED <<files, emulator, accounts, home, call, dropped>>

(* The chain is kept only if the emulator was started to persist it.       *)
EmulatorUp(w) ==
    /\ emulator = None
    /\ fileName \in {None, w}
    /\ emulator' = w
    /\ accounts' \in {accounts, [accounts EXCEPT ![w] = {}]}
    /\ UNCHANGED <<storage, home, call, dropped, disturbed>>

EmulatorDown ==
    /\ emulator # None
    /\ emulator' = None
    /\ UNCHANGED <<storage, accounts, home, call, dropped, disturbed>>

(* Rollback or jump: accounts disappear, or appear again.                  *)
Rollback ==
    /\ emulator # None
    /\ \E A \in SUBSET {k \in Keys : home[k] = emulator} :
         accounts' = [accounts EXCEPT ![emulator] = A]
    /\ UNCHANGED <<storage, emulator, home, call, dropped, disturbed>>

(* The application dies and is started again.                              *)
Crash ==
    /\ Disturbs(\E c \in Calls : At(c, "writing") \/ call[c].key # None)
    /\ call' = [c \in Calls |-> IdleCall]
    /\ fileName' = None
    /\ emulator' = None
    /\ UNCHANGED <<files, accounts, home, dropped>>

---------------------------------------------------------------------------
(* WalletService *)

SetCall(c, r) == call' = [call EXCEPT ![c] = r]

CreateAccount(c) ==
    /\ At(c, "idle")
    /\ fileName # None
    /\ SetCall(c, [IdleCall EXCEPT !.pc = "cli"])
    /\ UNCHANGED <<storage, emulator, accounts, home, dropped, disturbed>>

(* The CLI has generated the key and created its account, or fails.        *)
CliDone(c) ==
    /\ At(c, "cli")
    /\ \/ \E k \in Keys :
            /\ emulator # None
            /\ home[k] = None
            /\ home' = [home EXCEPT ![k] = emulator]
            /\ accounts' = [accounts EXCEPT ![emulator] = @ \cup {k}]
            /\ SetCall(c, [call[c] EXCEPT !.pc = "list", !.key = k])
       \/ /\ SetCall(c, IdleCall)
          /\ UNCHANGED <<home, accounts>>
    /\ UNCHANGED <<storage, emulator, dropped, disturbed>>

SynchronizeIndex(c) ==
    /\ At(c, "idle")
    /\ SetCall(c, [IdleCall EXCEPT !.pc = "list", !.op = "synchronizeIndex"])
    /\ UNCHANGED <<storage, emulator, accounts, home, dropped, disturbed>>

\* Mutant of ListToAdd: the key pairs that exist are not kept.
ListToAddAlone(c) ==
    /\ At(c, "list") /\ call[c].op = "createAccount"
    /\ Parses
    /\ Overlaps(c)
    /\ SetCall(c, [call[c] EXCEPT !.pc = "write", !.list = {call[c].key}])
    /\ UNCHANGED <<storage, emulator, accounts, home, dropped>>

(* listKeyPairs, for a new account: its key pair is added.                 *)
ListToAdd(c) ==
    /\ At(c, "list") /\ call[c].op = "createAccount"
    /\ Parses
    /\ Overlaps(c)
    /\ SetCall(c, [call[c] EXCEPT !.pc = "write", !.list = Parsed \cup {call[c].key}])
    /\ UNCHANGED <<storage, emulator, accounts, home, dropped>>

(* listKeyPairs, to synchronize: the account of every key pair is requested.*)
ListToSynchronize(c) ==
    /\ At(c, "list") /\ call[c].op = "synchronizeIndex"
    /\ Parses
    /\ Overlaps(c)
    /\ SetCall(c, [call[c] EXCEPT !.pc = "lookup", !.list = Parsed])
    /\ UNCHANGED <<storage, emulator, accounts, home, dropped>>

(* JSON.parse throws: the call rejects.                                    *)
ListFails(c) ==
    /\ At(c, "list")
    /\ ~Parses
    /\ Overlaps(c)
    /\ SetCall(c, IdleCall)
    /\ UNCHANGED <<storage, emulator, accounts, home, dropped>>

\* Mutant of Lookup: what is valid is not taken from the list.
LookupOfAllAccounts(c) ==
    /\ At(c, "lookup")
    /\ \E valid \in SUBSET (IF emulator = None THEN {} ELSE accounts[emulator]) :
         /\ SetCall(c, [call[c] EXCEPT !.pc = "write", !.list = valid])
         /\ dropped' = dropped \cup (call[c].list \ valid)
    /\ UNCHANGED <<storage, emulator, accounts, home, disturbed>>

(* The getAccount requests are settled; key pairs of accounts that were    *)
(* not found, or not returned because the request failed, are left out.    *)
Lookup(c) ==
    /\ At(c, "lookup")
    /\ \E valid \in SUBSET (call[c].list \cap (IF emulator = None THEN {} ELSE accounts[emulator])) :
         /\ SetCall(c, [call[c] EXCEPT !.pc = "write", !.list = valid])
         /\ dropped' = dropped \cup (call[c].list \ valid)
    /\ UNCHANGED <<storage, emulator, accounts, home, disturbed>>

(* writeKeyPairs; without a file name it throws.                           *)
StartWrite(c) ==
    /\ At(c, "write")
    /\ IF fileName = None
       THEN SetCall(c, IdleCall) /\ UNCHANGED <<files, disturbed>>
       ELSE /\ Truncate(fileName)
            /\ SetCall(c, [call[c] EXCEPT !.pc = "writing", !.file = fileName])
            /\ Overlaps(c)
    /\ UNCHANGED <<fileName, emulator, accounts, home, dropped>>

EndWrite(c) ==
    /\ At(c, "writing")
    /\ Overwrite(call[c].file, call[c].list)
    /\ SetCall(c, IdleCall)
    /\ UNCHANGED <<fileName, emulator, accounts, home, dropped, disturbed>>

---------------------------------------------------------------------------

Step(c) ==
    \/ CliDone(c) \/ ListToAdd(c) \/ ListToSynchronize(c) \/ ListFails(c)
    \/ Lookup(c) \/ StartWrite(c) \/ EndWrite(c)

Next ==
    \/ \E w \in Workspaces : OpenWorkspace(w) \/ EmulatorUp(w)
    \/ EmulatorDown \/ Rollback \/ Crash
    \/ \E c \in Calls : CreateAccount(c) \/ SynchronizeIndex(c) \/ Step(c)

Spec == Init /\ [][Next]_vars

---------------------------------------------------------------------------

(* An account that was created with the wallet can be used: unless a call  *)
(* is still about to save it, its key pair is in the file of its workspace,*)
(* or a synchronization took it out.  Holds although creating accounts and *)
(* synchronizing read and write the whole list after they awaited the CLI  *)
(* and the emulator (wallet.service.ts:137-185), for calls that overlap    *)
(* before they read, and for an application that is quit between writes.   *)
KeysKept ==
    ~disturbed => \A w \in Workspaces : \A k \in accounts[w] :
        \/ k \in files[w].list \cup dropped
        \/ \E c \in Calls : call[c].key = k \/ (At(c, "writing") /\ k \in call[c].list)

(* The files, with the list that is being written in place of the one it   *)
(* replaces, implement the keyring.                                        *)
keyring == [w \in Workspaces |->
    LET writers == {c \in Calls : At(c, "writing") /\ call[c].file = w}
    IN  IF writers = {} THEN files[w].list ELSE call[CHOOSE c \in writers : TRUE].list]

Abstract == INSTANCE Keyring WITH keys <- keyring

ImplementsKeyring == Abstract!Spec

===========================================================================
