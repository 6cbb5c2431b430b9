---------------------------- MODULE AccountIndex ----------------------------
(***************************************************************************)
(* What the index says of an account: processEvent of                      *)
(* flow-indexer.service.ts and the handlers it calls for the events of a   *)
(* block, with the indexes of accounts, keys and contracts.                *)
(*                                                                         *)
(* The blocks are processed one after the other, the events of a block in  *)
(* parallel.  An event does not carry the state: its handler requests the  *)
(* account, which is answered as of the latest block, not as of the block  *)
(* of the event.                                                           *)
(*                                                                         *)
(* The entries of different accounts do not share an id, so one account is *)
(* modelled.  A block has at most one event per contract and per key.      *)
(* Code and balance are represented by the block that set them.            *)
(*                                                                         *)
(* Left out: tags, weights and algorithms of keys, storage, and a storage  *)
(* that can not be read, after which blocks overlap (see BlockIndexer).    *)
(***************************************************************************)
EXTENDS FiniteSets, Integers, Sequences

CONSTANTS
    Contracts, Keys,
    MaxHeight,      \* bound on the number of blocks
    MaxChanges,     \* bound on the contracts and keys changed by one block
    None

ASSUME BoundsAssumption == MaxHeight \in Nat \ {0} /\ MaxChanges \in Nat
ASSUME NoneAssumption == None \notin Nat \cup {"active", "revoked"} \cup Contracts \cup Keys

VARIABLES
    chain,          \* the blocks: their events, and the account after them
    account, contract, accountKey,      \* indexes
    polling,        \* is processBlockchain under way
    target,         \* latestUnprocessedBlockHeight, or None
    height,         \* of the last block that was processed
    handlers,       \* processEvent of the block, or of a well-known account
    lost            \* history: a request failed

index == <<account, contract, accountKey>>
vars == <<chain, index, polling, target, height, handlers, lost>>

Heights == 0..MaxHeight
Absent == 0

Account ==
    [ exists : BOOLEAN,
      balance : Heights,
      contracts : [Contracts -> Heights],       \* Absent, or what set the code
      keys : [Keys -> {"absent", "active", "revoked", "added again"}] ]

Event == [type : {"created", "balance"}, name : {None}]
    \cup [type : {"contractAdded", "contractUpdated", "contractRemoved"}, name : Contracts]
    \cup [type : {"keyAdded", "keyRemoved"}, name : Keys]

Processing == [event : Event, account : Account \cup {None}]

TypeOK ==
    /\ chain \in Seq([account : Account, events : SUBSET Event])
    /\ account \in Heights \cup {None}                          \* its balance
    /\ contract \in [Contracts -> Heights \cup {None}]          \* code, Absent if undefined
    /\ accountKey \in [Keys -> {"active", "revoked", None}]
    /\ polling \in BOOLEAN
    /\ target \in Heights \cup {None}
    /\ height \in Heights
    /\ handlers \in SUBSET Processing
    /\ lost \in BOOLEAN

NoAccount == [ exists |-> FALSE, balance |-> 0, contracts |-> [c \in Contracts |-> Absent],
               keys |-> [k \in Keys |-> "absent"] ]

(* In the first block only the well-known accounts exist, with keys and    *)
(* contracts.                                                              *)
Genesis ==
    {NoAccount} \cup [ exists : {TRUE}, balance : {1}, contracts : [Contracts -> {Absent, 1}],
                      keys : [Keys -> {"absent", "active"}] ]

Init ==
    /\ \E a \in Genesis : chain = <<[account |-> a, events |-> {}]>>
    /\ account = None
    /\ contract = [c \in Contracts |-> None]
    /\ accountKey = [k \in Keys |-> None]
    /\ polling = FALSE
    /\ target = None
    /\ height = 0
    /\ handlers = {}
    /\ lost = FALSE

Latest == chain[Len(chain)].account

(* Is it one of getAllWellKnownAddresses()                                 *)
WellKnown == chain[1].account.exists

---------------------------------------------------------------------------
(* The chain *)

Ev(type, name) == [type |-> type, name |-> name]

(* A key that was removed stays on the account as a revoked one; it can be *)
(* added again, at another index.                                          *)
CanHappen(a, e) ==
    CASE e.type = "created" -> ~a.exists
      [] e.type = "balance" -> TRUE
      [] e.type = "contractAdded" -> a.contracts[e.name] = Absent
      [] e.type \in {"contractUpdated", "contractRemoved"} -> a.contracts[e.name] # Absent
      [] e.type = "keyAdded" -> a.keys[e.name] \in {"absent", "revoked"}
      [] e.type = "keyRemoved" -> a.keys[e.name] \in {"active", "added again"}

(* The events that a block can have.                                       *)
Batches(a) == { E \in SUBSET {e \in Event : CanHappen(a, e)} :
    /\ Cardinality({e \in E : e.name # None}) <= MaxChanges
    /\ a.exists \/ Ev("created", None) \in E
    /\ \A e, f \in E : e.name = f.name => e = f \/ e.name = None }

After(a, E, n) ==
    [ exists |-> TRUE,
      balance |-> IF {Ev("created", None), Ev("balance", None)} \cap E # {} THEN n ELSE a.balance,
      contracts |-> [c \in Contracts |->
          IF Ev("contractRemoved", c) \in E THEN Absent
          ELSE IF {Ev("contractAdded", c), Ev("contractUpdated", c)} \cap E # {} THEN n
          ELSE a.contracts[c]],
      keys |-> [k \in Keys |->
          IF Ev("keyRemoved", k) \in E THEN "revoked"
          ELSE IF Ev("keyAdded", k) \notin E THEN a.keys[k]
          ELSE IF a.keys[k] = "absent" THEN "active" ELSE "added again"] ]

Mine ==
    /\ Len(chain) < MaxHeight
    /\ \E E \in Batches(Latest) :
         chain' = Append(chain, [account |-> After(Latest, E, Len(chain) + 1), events |-> E])
    /\ UNCHANGED <<index, polling, target, height, handlers, lost>>

---------------------------------------------------------------------------
(* processBlockchain *)

Handle(E) == handlers' = {[event |-> e, account |-> None] : e \in E}

(* maybeProcessWellKnownAccounts does for an account what the event of its *)
(* creation does, at every poll: its filter compares a promise with        *)
(* undefined.                                                              *)
Begin ==
    /\ ~polling
    /\ polling' = TRUE
    /\ target' = None
    /\ Handle(IF WellKnown THEN {Ev("created", None)} ELSE {})
    /\ UNCHANGED <<chain, index, height, lost>>

LatestBlock ==
    /\ polling
    /\ target = None
    /\ target' = Len(chain)
    /\ UNCHANGED <<chain, index, polling, height, handlers, lost>>

(* All of the last block, or of the well-known accounts, is done.          *)
ProcessBlock ==
    /\ polling /\ handlers = {} /\ target # None
    /\ IF height < target
       THEN /\ height' = height + 1
            /\ Handle(chain[height + 1].events)
            /\ UNCHANGED polling
       ELSE /\ polling' = FALSE
            /\ UNCHANGED <<height, handlers>>
    /\ UNCHANGED <<chain, index, target, lost>>

---------------------------------------------------------------------------
(* processEvent *)

(* getAccount is answered, or rejects: the error is logged.                *)
GetAccount(h) ==
    /\ h.account = None /\ h.event.type # "keyRemoved"
    /\ Latest.exists
    /\ handlers' = (handlers \ {h}) \cup {[h EXCEPT !.account = Latest]}
    /\ UNCHANGED <<chain, index, polling, target, height, lost>>

GetAccountFails(h) ==
    /\ h.account = None /\ h.event.type # "keyRemoved"
    /\ handlers' = handlers \ {h}
    /\ lost' = TRUE
    /\ UNCHANGED <<chain, index, polling, target, height>>

Answered(h, type) ==
    /\ h.event.type = type /\ h.account # None
    /\ handlers' = handlers \ {h}
    /\ UNCHANGED <<chain, polling, target, height, lost>>

(* InMemoryIndex.create, which throws if there is an entry already.        *)
Create(entry, value) == IF entry = None THEN value ELSE entry

(* The key entity of a public key: the first key of the account that has   *)
(* it.                                                                     *)
KeyEntity(a, k) ==
    CASE a.keys[k] = "absent" -> None
      [] a.keys[k] = "active" -> "active"
      [] a.keys[k] \in {"revoked", "added again"} -> "revoked"

(* createAccount: the creates that throw do not stop the others.           *)
CreateAccount(h) ==
    /\ Answered(h, "created")
    /\ account' = h.account.balance
    /\ accountKey' = [k \in Keys |-> Create(accountKey[k], KeyEntity(h.account, k))]
    /\ contract' = [c \in Contracts |->
           IF h.account.contracts[c] = Absent THEN contract[c]
           ELSE Create(contract[c], h.account.contracts[c])]

\* Mutant of UpdateAccountBalance: creates the account instead of upserting it.
UpdateAccountBalanceCreates(h) ==
    /\ Answered(h, "balance")
    /\ account' = Create(account, h.account.balance)
    /\ UNCHANGED <<contract, accountKey>>

UpdateAccountBalance(h) ==
    /\ Answered(h, "balance")
    /\ account' = h.account.balance
    /\ UNCHANGED <<contract, accountKey>>

SetContract(h, value) ==
    /\ contract' = [contract EXCEPT ![h.event.name] = value]
    /\ UNCHANGED <<account, accountKey>>

Code(h) == h.account.contracts[h.event.name]

(* The code is undefined if the contract is gone by now.                   *)
OnAccountContractAdded(h) ==
    /\ Answered(h, "contractAdded")
    /\ SetContract(h, Create(contract[h.event.name], Code(h)))

\* Mutant of OnAccountContractUpdated: does not replace the code.
OnAccountContractUpdatedCreates(h) ==
    /\ Answered(h, "contractUpdated")
    /\ SetContract(h, Create(contract[h.event.name], Code(h)))

OnAccountContractUpdated(h) ==
    /\ Answered(h, "contractUpdated")
    /\ SetContract(h, IF contract[h.event.name] = None THEN None ELSE Code(h))

OnAccountContractRemoved(h) ==
    /\ Answered(h, "contractRemoved")
    /\ SetContract(h, None)

OnAccountKeyAdded(h) ==
    /\ Answered(h, "keyAdded")
    /\ accountKey' = [accountKey EXCEPT ![h.event.name] = Create(@, KeyEntity(h.account, h.event.name))]
    /\ UNCHANGED <<account, contract>>

(* Does not request the account.                                           *)
OnAccountKeyRemoved(h) ==
    /\ h.event.type = "keyRemoved"
    /\ handlers' = handlers \ {h}
    /\ accountKey' = [accountKey EXCEPT ![h.event.name] = None]
    /\ UNCHANGED <<chain, account, contract, polling, target, height, lost>>

---------------------------------------------------------------------------

HandleEvent(h) ==
    \/ CreateAccount(h) \/ UpdateAccountBalance(h)
    \/ OnAccountContractAdded(h) \/ OnAccountContractUpdated(h) \/ OnAccountContractRemoved(h)
    \/ OnAccountKeyAdded(h) \/ OnAccountKeyRemoved(h)

Step ==
    \/ Begin \/ LatestBlock \/ ProcessBlock
    \/ \E h \in handlers : GetAccount(h) \/ HandleEvent(h)

Next == Mine \/ Step \/ \E h \in handlers : GetAccountFails(h)

Spec == Init /\ [][Next]_vars

(* The scheduler begins polls, and requests are answered.                  *)
FairSpec == Spec /\ WF_vars(Step)

---------------------------------------------------------------------------

OnChain(c) == IF Latest.contracts[c] = Absent THEN None ELSE Latest.contracts[c]

(* The index says what the account is like on the chain.  A key that was   *)
(* removed is missing or shown as revoked, depending on when and how often *)
(* the account was read.                                                   *)
UpToDate ==
    /\ Latest.exists => account = Latest.balance
    /\ \A c \in Contracts : contract[c] = OnChain(c)
    /\ \A k \in Keys : (accountKey[k] = "active") <=> (Latest.keys[k] = "active")

(* When a poll has processed the latest block the index is up to date,     *)
(* although every handler reads a state that is newer than its event by an *)
(* unknown number of blocks, creates fail on what another handler has      *)
(* created, and the handlers of a block end in any order                   *)
(* (flow-indexer.service.ts:170-295, 362-397).                             *)
UpToDateAfterPoll == (~polling /\ height = Len(chain) /\ ~lost) => UpToDate

(* And it stays so, while polls go on re-creating well-known accounts.     *)
Settles == <>[](lost \/ UpToDate)

============================================================================
