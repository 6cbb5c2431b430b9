------------------------------ MODULE Resources ------------------------------
(***************************************************************************)
(* The resources that the services exchange: what the access node answers  *)
(* (packages/core/src/flow-gateway.service.ts), the entities the indexer   *)
(* makes of it (flow-indexer.service.ts:465-674) and keeps in the index    *)
(* (packages/api/src/resources.ts), and the index itself                   *)
(* (packages/core/src/in-memory-index.ts).                                 *)
(*                                                                         *)
(* A field is here when some operation reads it: ids, addresses, heights,  *)
(* statuses.  Sources, signatures, gas and data are carried along by the   *)
(* code and say nothing about the order of things.  A text that is put     *)
(* together of others (an event's id is its transaction's id and an index) *)
(* is the tuple of its parts.                                              *)
(***************************************************************************)
EXTENDS Integers, FiniteSets

CONSTANTS
    Hex,            \* the prefix 0x
    Accounts,       \* addresses without the prefix
    WellKnown,      \* those of getAllWellKnownAddresses
    Names,          \* of contracts
    BlockIds, TransactionIds, PublicKeys, Paths,
    Versions,       \* of code, balances and stored values
    None

ASSUME WellKnownAssumption == WellKnown \subseteq Accounts

Prefixed(account) == <<Hex, account>>

EnsurePrefixedAddress(address) ==
    IF address \in Accounts THEN Prefixed(address) ELSE address

(* Addresses as they come: accounts are asked for with the prefix, which   *)
(* the answers do without in a transaction.                                *)
PrefixedAddresses == {Prefixed(a) : a \in Accounts}
AnyAddress == Accounts \cup PrefixedAddresses

---------------------------------------------------------------------------
(* What the access node answers *)

FlowKey == [index : Nat, publicKey : PublicKeys, revoked : BOOLEAN]

FlowAccount ==
    [ address : PrefixedAddresses, balance : Versions, keys : SUBSET FlowKey,
      contracts : UNION {[N -> Versions] : N \in SUBSET Names} ]

FlowBlock == [id : BlockIds, parentId : BlockIds \cup {None}, height : Nat]

EventType ==
    [contract : {None}, address : {None}] \cup [contract : Names, address : Accounts]

FlowEvent == [transactionId : TransactionIds, eventIndex : Nat, type : EventType]

StatusCode == 0..5      \* unknown, pending, finalized, executed, sealed, expired

FlowTransactionStatus ==
    [blockId : BlockIds \cup {None}, status : StatusCode, statusCode : Int, errorMessage : BOOLEAN]

FlowTransaction ==
    [id : TransactionIds, payer : AnyAddress, proposer : AnyAddress, authorizers : SUBSET AnyAddress]

(* An item that was found under the public paths carries the target of its *)
(* capability, which the script makes the path itself.                     *)
FlowStorageDomain == {"public", "storage"}

Path == [domain : FlowStorageDomain, name : Paths]

StoragePathItem == [address : AnyAddress, path : Path, type : Versions]

---------------------------------------------------------------------------
(* Entities of the index *)

(* { ...fields, ...object }                                                *)
Spread(object, fields) ==
    [x \in DOMAIN object \cup DOMAIN fields |->
        IF x \in DOMAIN object THEN object[x] ELSE fields[x]]

Indexes ==
    {"accountStorage", "contract", "accountKey", "block", "event", "transaction", "account"}

AccountTags(address) ==
    {"Default" : a \in {b \in WellKnown : address = Prefixed(b)}}

AccountEntity(account) ==
    [id |-> EnsurePrefixedAddress(account.address), address |-> EnsurePrefixedAddress(account.address),
     balance |-> account.balance, tags |-> AccountTags(EnsurePrefixedAddress(account.address))]

KeyId(address, publicKey) == <<EnsurePrefixedAddress(address), publicKey>>

KeyEntity(address, key) ==
    Spread(key, [id |-> KeyId(address, key.publicKey), address |-> address])

ContractEntity(account, name) ==
    [id |-> <<account.address, name>>, address |-> EnsurePrefixedAddress(account.address),
     name |-> name, code |-> account.contracts[name]]

BlockEntity(block) == Spread(block, [blockHeight |-> block.height])

EventEntity(event) == Spread(event, [id |-> <<event.transactionId, event.eventIndex>>])

(* Some emulators answer other codes than 0 and 1.                         *)
ReMapGrcpStatus(statusCode) == IF statusCode \in {0, 1} THEN statusCode ELSE 1

Status(status) ==
    [executionStatus |-> status.status, grcpStatus |-> ReMapGrcpStatus(status.statusCode),
     errorMessage |-> status.errorMessage]

TransactionEntity(transaction, status) ==
    [id |-> transaction.id, blockId |-> status.blockId, status |-> Status(status),
     payer |-> EnsurePrefixedAddress(transaction.payer),
     proposer |-> EnsurePrefixedAddress(transaction.proposer),
     authorizers |-> {EnsurePrefixedAddress(a) : a \in transaction.authorizers}]

(* The update that a status makes.                                         *)
StatusEntity(id, status) == [id |-> id, blockId |-> status.blockId, status |-> Status(status)]

StorageEntity(item) ==
    [id |-> <<EnsurePrefixedAddress(item.address), item.path>>,
     address |-> EnsurePrefixedAddress(item.address), data |-> item.type,
     domain |-> item.path.domain, path |-> item.path,
     targetPath |-> IF item.path.domain = "public" THEN item.path ELSE None]

---------------------------------------------------------------------------
(* An index: a set of stamped entities.  An operation that throws leaves   *)
(* the index as it is.                                                     *)

Ids(index) == {e.id : e \in index}

FindAll(index) == index

FindOneById(index, id) == {e \in index : e.id = id}

Stamp(entity, created, now) == Spread(entity, [createdAt |-> created, updatedAt |-> now])

Create(index, entity, now) ==
    IF entity.id \in Ids(index) THEN index ELSE index \cup {Stamp(entity, now, now)}

Update(index, entity, now) ==
    {IF e.id = entity.id THEN Spread(entity, [e EXCEPT !.updatedAt = now]) ELSE e : e \in index}

Upsert(index, entity, now) ==
    IF entity.id \in Ids(index) THEN Update(index, entity, now) ELSE Create(index, entity, now)

Delete(index, id) == {e \in index : e.id # id}

(* The types of what an index holds.                                       *)
ContractId == PrefixedAddresses \X Names
EventId == TransactionIds \X Nat
StorageId == PrefixedAddresses \X Path

TransactionStatus == [executionStatus : StatusCode, grcpStatus : {0, 1}, errorMessage : BOOLEAN]

Resource(name, now) ==
    LET Time == 0..now IN
    CASE name = "account" ->
           [id : PrefixedAddresses, address : PrefixedAddresses, balance : Versions,
            tags : SUBSET {"Default"}, createdAt : Time, updatedAt : Time]
      [] name = "accountKey" ->
           [id : PrefixedAddresses \X PublicKeys, index : Nat, address : PrefixedAddresses,
            publicKey : PublicKeys, revoked : BOOLEAN, createdAt : Time, updatedAt : Time]
      [] name = "contract" ->
           [id : ContractId, address : PrefixedAddresses, name : Names, code : Versions,
            createdAt : Time, updatedAt : Time]
      [] name = "accountStorage" ->
           [id : StorageId, address : PrefixedAddresses, domain : FlowStorageDomain, data : Versions,
            path : Path, targetPath : Path \cup {None}, createdAt : Time, updatedAt : Time]
      [] name = "block" ->
           [id : BlockIds, height : Nat, blockHeight : Nat, parentId : BlockIds \cup {None},
            createdAt : Time, updatedAt : Time]
      [] name = "transaction" ->
           [id : TransactionIds, blockId : BlockIds \cup {None}, status : TransactionStatus,
            payer : PrefixedAddresses, proposer : PrefixedAddresses,
            authorizers : SUBSET PrefixedAddresses, createdAt : Time, updatedAt : Time]
      [] name = "event" ->
           [id : EventId, transactionId : TransactionIds, eventIndex : Nat, type : EventType,
            createdAt : Time, updatedAt : Time]

==============================================================================
