------------------------------ MODULE IndexSync ------------------------------
(***************************************************************************)
(* How what the indexer writes in the main process reaches the pages of    *)
(* the renderer:                                                           *)
(*                                                                         *)
(*   the polls of the indexer, run by the scheduler this module extends,   *)
(*   write the indexes of the main process (BlockchainIndexes);            *)
(*   every 500 ms each index of the renderer (apps/electron/src/renderer/  *)
(*   ipc-index-cache.ts) asks for the whole index, and replaces its copy   *)
(*   by the answer, whether or not an earlier request was answered;        *)
(*   the hooks of the components that are mounted (Pages) ask that copy    *)
(*   again and again, and show the last answer.                            *)
(*                                                                         *)
(* What has to be waited for is each message, not each other: nothing      *)
(* tells the renderer that an index changed, was cleared by a roll back,   *)
(* or belongs to another workspace now.                                    *)
(*                                                                         *)
(* The requests of the renderer are answered in the order they were sent:  *)
(* the handler of getAll awaits nothing but findAll.  Hooks that ask other *)
(* services are mounted, but their answers are not modelled.               *)
(***************************************************************************)
EXTENDS AsyncIntervalScheduler, Pages, Sequences, SequencesExt

CONSTANTS
    ChainAccounts, ChainBlocks, ChainTransactions, ChainStatuses, ChainEvents, ChainItems,
    Limits,         \* bounds: [indexes, polls, writes, clears, visits, requests]: the indexes
                    \*   that are written and the poll loops (none: the indexer may write at
                    \*   any time), how many writes and clears there are, which pages and
                    \*   tabs are visited one after the other, the requests a copy sends ahead
    StartOf,        \* pairs of names, of which the second starts with the first
    NoPage

ASSUME LimitsAssumption ==
    Limits \subseteq [ indexes : SUBSET Indexes, polls : SUBSET Loops, writes : Nat, clears : Nat,
                       visits : Seq(STRING), requests : Nat ]
ASSUME StartOfAssumption == StartOf \subseteq Names \X Names
ASSUME ChainAssumption ==
    /\ ChainAccounts \subseteq FlowAccount /\ ChainBlocks \subseteq FlowBlock
    /\ ChainTransactions \subseteq FlowTransaction /\ ChainStatuses \subseteq FlowTransactionStatus
    /\ ChainEvents \subseteq FlowEvent /\ ChainItems \subseteq StoragePathItem

VARIABLES
    index,          \* BlockchainIndexes, in the main process
    clock,
    cache,          \* cachedResources of each IpcIndexCache
    requests,       \* getAll on its way to the main process
    answers,        \* and back
    swr,            \* the answers of the hooks
    page,           \* the route, and the tab that is chosen
    left            \* of the bounds

main == <<index, clock>>
renderer == <<cache, swr, page>>
syncVars == <<main, renderer, requests, answers, left>>

SyncTypeOK ==
    /\ TypeOK
    /\ \A n \in Indexes : index[n] \cup cache[n] \subseteq Resource(n, clock)
    /\ requests \in Seq(Indexes)
    /\ \A i \in DOMAIN answers : answers[i].index \in Indexes
    /\ \A k \in DOMAIN swr : k.kind = "hook" /\ swr[k].error \in BOOLEAN

Page(name, of, tab) == [name |-> name, of |-> of, tab |-> tab]

SyncInit ==
    /\ Init
    /\ index = [n \in Indexes |-> {}] /\ clock = 0
    /\ cache = [n \in Indexes |-> {}]
    /\ requests = <<>> /\ answers = <<>>
    /\ swr = [k \in {} |-> None]
    /\ page = Page("interactions", None, NoPage)
    /\ left \in Limits

---------------------------------------------------------------------------
(* The indexer, while a poll is under way *)

Polling == left.polls = {} \/ \E l \in Loops : loop[l] = "executing"

Write(name, entries) ==
    /\ name \in left.indexes /\ left.writes > 0
    /\ entries # index[name]
    /\ index' = [index EXCEPT ![name] = entries]
    /\ clock' = clock + 1
    /\ left' = [left EXCEPT !.writes = @ - 1]
    /\ UNCHANGED <<renderer, requests, answers>>

WriteAccount ==
    /\ Polling
    /\ \E a \in ChainAccounts : Write("account", Upsert(index["account"], AccountEntity(a), clock + 1))

WriteKey ==
    /\ Polling
    /\ \E a \in ChainAccounts : \E k \in a.keys :
         \/ Write("accountKey", Create(index["accountKey"], KeyEntity(a.address, k), clock + 1))
         \/ Write("accountKey", Delete(index["accountKey"], KeyId(a.address, k.publicKey)))

WriteContract ==
    /\ Polling
    /\ \E a \in ChainAccounts : \E n \in DOMAIN a.contracts :
         \/ Write("contract", Create(index["contract"], ContractEntity(a, n), clock + 1))
         \/ Write("contract", Update(index["contract"], ContractEntity(a, n), clock + 1))
         \/ Write("contract", Delete(index["contract"], ContractEntity(a, n).id))

WriteBlock ==
    /\ Polling
    /\ \E b \in ChainBlocks : Write("block", Create(index["block"], BlockEntity(b), clock + 1))

WriteTransaction ==
    /\ Polling
    /\ \E t \in ChainTransactions, s \in ChainStatuses :
         Write("transaction", Create(index["transaction"], TransactionEntity(t, s), clock + 1))

(* The subscription to the status of a transaction outlives the poll.      *)
WriteStatus ==
    \E t \in ChainTransactions, s \in ChainStatuses :
        Write("transaction", Update(index["transaction"], StatusEntity(t.id, s), clock + 1))

WriteEvent ==
    /\ Polling
    /\ \E e \in ChainEvents : Write("event", Create(index["event"], EventEntity(e), clock + 1))

WriteStorage ==
    /\ Polling
    /\ \E i \in ChainItems :
         Write("accountStorage", Upsert(index["accountStorage"], StorageEntity(i), clock + 1))

(* A roll back, or another workspace.                                      *)
Clear ==
    /\ left.clears > 0
    /\ index' = [n \in Indexes |-> {}]
    /\ clock' = clock + 1
    /\ left' = [left EXCEPT !.clears = @ - 1]
    /\ UNCHANGED <<renderer, requests, answers>>

---------------------------------------------------------------------------
(* The copies in the renderer *)

(* In the order in which the renderer creates them: their timers fire in   *)
(* that order.  The copy of an index that is never written stays empty.    *)
SyncOrder ==
    <<"accountStorage", "contract", "transaction", "account", "block", "event", "accountKey">>

(* The timer of every copy: sends, and does not look at what is pending.   *)
SyncOnInterval ==
    /\ Len(requests) + Len(answers) <= (left.requests - 1) * Cardinality(left.indexes)
    /\ requests' = requests \o SelectSeq(SyncOrder, LAMBDA n : n \in left.indexes)
    /\ UNCHANGED <<main, renderer, answers, left>>

GetAll ==
    /\ requests # <<>>
    /\ answers' = Append(answers, [index |-> Head(requests), all |-> FindAll(index[Head(requests)])])
    /\ requests' = Tail(requests)
    /\ UNCHANGED <<main, renderer, left>>

\* Mutant of Sync: answers arrive in any order.
SyncUnordered ==
    /\ \E i \in DOMAIN answers :
         /\ cache' = [cache EXCEPT ![answers[i].index] = answers[i].all]
         /\ answers' = RemoveAt(answers, i)
    /\ UNCHANGED <<main, swr, page, requests, left>>

Sync ==
    /\ answers # <<>>
    /\ cache' = [cache EXCEPT ![Head(answers).index] = Head(answers).all]
    /\ answers' = Tail(answers)
    /\ UNCHANGED <<main, swr, page, requests, left>>

---------------------------------------------------------------------------
(* The hooks *)

ListHooks == {"Accounts", "Transactions", "Blocks", "Contracts", "Events",
              "KeysByAccount", "StoragesByAccount", "ContractsByAccount", "TransactionsByAccount",
              "TransactionsByBlock", "EventsByTransaction", "EventsByContract"}

ItemHooks == {"Account", "Transaction", "Block", "Contract", "Event"}

TransactionsByAccount(all, address) ==
    {t \in all : address \in t.authorizers \/ t.payer = address \/ t.proposer = address}

(* Whose types start with the name of the contract: also the events of     *)
(* contracts whose longer names do.                                        *)
EventsByContract(all, contract) ==
    {e \in all : /\ Prefixed(e.type.address) = contract[1]
                 /\ \/ e.type.contract = contract[2]
                    \/ <<contract[2], e.type.contract>> \in StartOf}

List(hook, of, copy) ==
    CASE hook = "Accounts" -> FindAll(copy["account"])
      [] hook = "Transactions" -> FindAll(copy["transaction"])
      [] hook = "Blocks" -> FindAll(copy["block"])
      [] hook = "Contracts" -> FindAll(copy["contract"])
      [] hook = "Events" -> FindAll(copy["event"])
      [] hook = "KeysByAccount" -> {k \in copy["accountKey"] : k.address = of}
      [] hook = "StoragesByAccount" -> {i \in copy["accountStorage"] : i.address = of}
      [] hook = "ContractsByAccount" -> {c \in copy["contract"] : c.address = of}
      [] hook = "TransactionsByAccount" -> TransactionsByAccount(copy["transaction"], of)
      [] hook = "TransactionsByBlock" -> {t \in copy["transaction"] : t.blockId = of}
      [] hook = "EventsByTransaction" -> {e \in copy["event"] : e.transactionId = of}
      [] hook = "EventsByContract" -> EventsByContract(copy["event"], of)

IndexOf(hook) ==
    CASE hook \in {"Account", "Accounts"} -> "account"
      [] hook \in {"Transaction", "Transactions", "TransactionsByAccount",
                   "TransactionsByBlock"} -> "transaction"
      [] hook \in {"Block", "Blocks"} -> "block"
      [] hook \in {"Contract", "Contracts", "ContractsByAccount"} -> "contract"
      [] hook \in {"Event", "Events", "EventsByTransaction", "EventsByContract"} -> "event"
      [] hook = "KeysByAccount" -> "accountKey"
      [] hook = "StoragesByAccount" -> "accountStorage"

\* Mutant of Answer: the copy answers undefined instead of throwing.
AnswerUndefined(k) ==
    IF k.name \in ListHooks THEN [data |-> List(k.name, k.of, cache), error |-> FALSE]
    ELSE LET found == FindOneById(cache[IndexOf(k.name)], k.of)
         IN [data |-> IF found # {} THEN CHOOSE e \in found : TRUE ELSE None, error |-> FALSE]

(* A hook of an entity that the copy does not have gets an error, and      *)
(* keeps the data it had.                                                  *)
Answer(k) ==
    IF k.name \in ListHooks THEN [data |-> List(k.name, k.of, cache), error |-> FALSE]
    ELSE LET found == FindOneById(cache[IndexOf(k.name)], k.of)
         IN IF found # {} THEN [data |-> CHOOSE e \in found : TRUE, error |-> FALSE]
            ELSE [data |-> IF k \in DOMAIN swr THEN swr[k].data ELSE None, error |-> TRUE]

Mounted == {k \in Hooks(swr, page) : k.name \in ListHooks \cup ItemHooks}

(* Hooks that ask a copy that stays empty have the same answer for ever,   *)
(* and are answered together.                                              *)
Batches ==
    LET written == {k \in Mounted : IndexOf(k.name) \in left.indexes}
    IN {{k} : k \in written} \cup {Mounted \ written}

(* At the mount, every 500 ms, and as a retry after an error.              *)
Revalidate ==
    \E batch \in Batches :
        /\ swr' = Spread([k \in batch |-> Answer(k)], swr)
        /\ UNCHANGED <<main, cache, page, requests, answers, left>>

(* A click on a link that is shown.                                        *)
FirstTab(name) ==
    CASE name = "account" -> "storage" [] name = "contract" -> "code"
      [] name = "transaction" -> "script" [] name = "interactions" -> "overview" [] OTHER -> NoPage

Navigate ==
    /\ left.visits # <<>>
    /\ \E l \in Links(swr, page) :
         /\ l.name = Head(left.visits)
         /\ page' = Page(l.name, l.of, FirstTab(l.name))
    /\ left' = [left EXCEPT !.visits = Tail(@)]
    /\ UNCHANGED <<main, cache, swr, requests, answers>>

ChangeTab ==
    /\ left.visits # <<>> /\ Head(left.visits) = "tab"
    /\ \E t \in Tabs(swr, page) : page' = [page EXCEPT !.tab = t]
    /\ left' = [left EXCEPT !.visits = Tail(@)]
    /\ UNCHANGED <<main, cache, swr, requests, answers>>

---------------------------------------------------------------------------

Indexing ==
    \/ WriteAccount \/ WriteKey \/ WriteContract \/ WriteBlock
    \/ WriteTransaction \/ WriteStatus \/ WriteEvent \/ WriteStorage
    \/ Clear

SyncStep == GetAll \/ Sync \/ Revalidate

SyncNext ==
    \/ /\ Indexing \/ SyncOnInterval \/ SyncStep \/ Navigate \/ ChangeTab
       /\ UNCHANGED vars
    \/ /\ \E l \in left.polls : Start(l) \/ FnSettles(l) \/ TimerFires(l)
       /\ UNCHANGED syncVars
    \/ /\ Stop \/ Tick
       /\ UNCHANGED syncVars

(* The timers of the copies fire, messages arrive, and hooks are           *)
(* revalidated for as long as they are mounted.  Each mounted hook has a   *)
(* timer of its own.                                                       *)
SyncFairness ==
    /\ WF_syncVars(SyncOnInterval) /\ WF_syncVars(GetAll) /\ WF_syncVars(Sync)
    /\ WF_syncVars(Revalidate)

SyncSpec ==
    SyncInit /\ [][SyncNext]_<<vars, syncVars>> /\ Fairness /\ SyncFairness

---------------------------------------------------------------------------

(* The entities that a hook shows.                                         *)
Shown(k, entry) ==
    IF entry.data = None THEN {} ELSE IF k.name \in ListHooks THEN entry.data ELSE {entry.data}

(* No component ever goes back to an older version of an entity, although  *)
(* the copy sends its next request without waiting for the last answer     *)
(* (ipc-index-cache.ts:34-40) and an index may be cleared and filled again *)
(* in between.                                                             *)
ShownNeverRegresses ==
    [][\A k \in DOMAIN swr : \A e \in Shown(k, swr[k]), f \in Shown(k, swr'[k]) :
           e.id = f.id => e.updatedAt <= f.updatedAt]_syncVars

ConcernsAccount(transaction, address) ==
    \E t \in ChainTransactions :
        /\ t.id = transaction.id
        /\ \E a \in t.authorizers \cup {t.payer, t.proposer} : address = EnsurePrefixedAddress(a)

(* What the main process would answer to a hook.                           *)
UpToDate(k) ==
    IF k.name = "TransactionsByAccount"
    THEN swr[k].data = {t \in index["transaction"] : ConcernsAccount(t, k.of)}
    ELSE IF k.name \in ListHooks THEN swr[k].data = List(k.name, k.of, index)
    ELSE LET found == FindOneById(index[IndexOf(k.name)], k.of)
         IN IF found = {} THEN swr[k].error ELSE swr[k].data \in found /\ ~swr[k].error

(* When nothing changes any more, every hook of the page that is open      *)
(* shows what the main process holds: lists without what was cleared and   *)
(* with all that belongs to the account, the block, the contract they are  *)
(* about, and an error for an entity that is gone, which the outcome of a  *)
(* transaction reports after a roll back                                   *)
(* (InteractionOutcomeDisplay.tsx:50-53).                                  *)
ShownSettles == <>[](\A k \in Mounted : k \in DOMAIN swr /\ UpToDate(k))

==============================================================================
