--------------------------- MODULE BlockIndexer ---------------------------
(***************************************************************************)
(* packages/core/src/flow-indexer.service.ts: processBlockchain, the poll  *)
(* that copies the blocks of the emulator into the index, against a chain  *)
(* that grows and is rolled back while the poll waits for its answers.     *)
(*                                                                         *)
(* A block is its height and the fork it was produced on.  What a poll     *)
(* learns from the gateway it learns when the emulator answers, and uses   *)
(* when the answer arrives: the block of a getBlockByHeight may be off the *)
(* chain, or the index cleared, by the time it is saved.                   *)
(*                                                                         *)
(* The contents of a block (collections, transactions, events) are one     *)
(* step here, which succeeds or fails.  Of a transaction only the          *)
(* subscription to its status is kept, because it outlives the poll, and   *)
(* indexes the block of the transaction when it does not find it.          *)
(***************************************************************************)
EXTENDS Integers, FiniteSets

CONSTANTS
    Loops,          \* the polls that can be in flight: one, unless polls overlap
    MaxHeight,      \* bound on the chain
    MaxFork,        \* bound on the number of rollbacks
    MaxFailures,    \* bound on the number of requests that fail
    MaxWatched      \* bound on the blocks with a status subscription

ASSUME BoundsAssumption ==
    /\ MaxHeight \in Nat /\ MaxFork \in Nat
    /\ MaxFailures \in Nat /\ MaxWatched \in Nat

VARIABLES
    tip,            \* height of the latest block of the emulator
    chain,          \* the fork each block up to the tip was produced on
    fork,           \* the fork that new blocks are produced on
    blocks,         \* indexes.block
    contents,       \* the blocks whose transactions and events were processed
    poll,           \* processBlockchain, per loop
    detached,       \* blocks being processed that no poll waits for any more
    status,         \* the status subscription of the transactions of a block
    clearing,       \* the emulator was rolled back, the index not yet cleared
    failures,       \* requests that failed so far
    torn,           \* history: something was in flight at the last clear()
    gaveUp          \* history: heights given up since then, and what failed

emulator == <<tip, chain, fork>>
history == <<torn, gaveUp>>
vars == <<emulator, blocks, contents, poll, detached, status, clearing, failures, history>>

Heights == 0..MaxHeight
Blocks == [height : Heights, fork : 0..MaxFork]

IdlePoll == [pc |-> "idle", height |-> 0, latest |-> 0, block |-> [height |-> 0, fork |-> 0]]

Poll == [ pc     : {"idle", "online", "latest", "block", "answered", "contents"},
          height : 0..(MaxHeight + 1),   \* nextBlockHeightToProcess, then the loop variable
          latest : Heights,              \* latestUnprocessedBlockHeight
          block  : Blocks ]              \* the block that was answered

TypeOK ==
    /\ tip \in Heights
    /\ chain \in [Heights -> 0..MaxFork]
    /\ fork \in 0..MaxFork
    /\ blocks \in SUBSET Blocks
    /\ contents \in SUBSET Blocks
    /\ poll \in [Loops -> Poll]
    /\ detached \in SUBSET Blocks
    /\ status \in [Blocks -> {"none", "watched", "requested", "answered"}]
    /\ clearing \in BOOLEAN
    /\ failures \in 0..MaxFailures
    /\ torn \in BOOLEAN
    /\ gaveUp \in SUBSET (Heights \X {"block", "contents", "storage"})

Init ==
    /\ tip = 0
    /\ chain = [h \in Heights |-> 0]
    /\ fork = 0
    /\ blocks = {}
    /\ contents = {}
    /\ poll = [l \in Loops |-> IdlePoll]
    /\ detached = {}
    /\ status = [b \in Blocks |-> "none"]
    /\ clearing = FALSE
    /\ failures = 0
    /\ torn = FALSE
    /\ gaveUp = {}

---------------------------------------------------------------------------
(* The emulator *)

BlockAt(h) == [height |-> h, fork |-> chain[h]]

OnChain(b) == b.height <= tip /\ b = BlockAt(b.height)

Mine ==
    /\ tip < MaxHeight
    /\ tip' = tip + 1
    /\ chain' = [chain EXCEPT ![tip + 1] = fork]
    /\ UNCHANGED <<fork, blocks, contents, poll, detached, status, clearing, failures, history>>

(* The emulator drops the blocks above h: a rollback to a height, a jump   *)
(* to a snapshot, or (h = 0) a restart.  The application hears of it when  *)
(* the request returns.                                                    *)
Rollback(h) ==
    /\ fork < MaxFork
    /\ ~clearing
    /\ h <= tip
    /\ tip' = h
    /\ fork' = fork + 1
    /\ clearing' = TRUE
    /\ UNCHANGED <<chain, blocks, contents, poll, detached, status, failures, history>>

(* A poll, what is left of one, or a status subscription is under way.     *)
InFlight ==
    \/ detached # {}
    \/ \E l \in Loops : poll[l].pc # "idle"
    \/ \E b \in Blocks : status[b] # "none"

(* onRollbackToBlockHeight, startAndReindexEmulator: blockchainIndexService*)
(* .clear(), whatever the poll is doing.                                   *)
Clear ==
    /\ clearing
    /\ clearing' = FALSE
    /\ blocks' = {}
    /\ contents' = {}
    /\ torn' = InFlight
    /\ gaveUp' = {}
    /\ UNCHANGED <<emulator, poll, detached, status, failures>>

---------------------------------------------------------------------------
(* processBlockchain *)

HasHeight(h) == \E b \in blocks : b.height = h

\* Mutant of NextBlockHeightToProcess: an empty index starts with block 1.
NextBlockHeightAfterGap(n) ==
    /\ \A b \in blocks : b.height < n
    /\ n = 1 \/ HasHeight(n - 1)

\* Mutant of NextBlockHeightToProcess: starts over with the latest block.
NextBlockHeightAgain(n) ==
    /\ \A b \in blocks : b.height <= n
    /\ IF blocks = {} THEN n = 0 ELSE HasHeight(n)

(* getUnprocessedBlocksInfo and findLatestBlock: n is one above the        *)
(* highest block of the index, or 0.                                       *)
NextBlockHeightToProcess(n) ==
    /\ \A b \in blocks : b.height < n
    /\ n = 0 \/ HasHeight(n - 1)

SetPoll(l, p) == poll' = [poll EXCEPT ![l] = p]

\* Mutant of AtHeight: the latest block is left for the next poll.
AtHeightExclusive(p, h) ==
    IF h < p.latest THEN [p EXCEPT !.pc = "block", !.height = h] ELSE IdlePoll

(* The head of the for loop at the given height.                           *)
AtHeight(p, h) ==
    IF h <= p.latest THEN [p EXCEPT !.pc = "block", !.height = h] ELSE IdlePoll

Begin(l) ==
    /\ poll[l].pc = "idle"
    /\ SetPoll(l, [IdlePoll EXCEPT !.pc = "online"])
    /\ UNCHANGED <<emulator, blocks, contents, detached, status, clearing, failures, history>>

(* isRestApiReachable answers: the indexed blocks are read now, the latest *)
(* block of the chain is requested.                                        *)
Online(l) ==
    /\ poll[l].pc = "online"
    /\ \E n \in 0..(MaxHeight + 1) :
         /\ NextBlockHeightToProcess(n)
         /\ SetPoll(l, [IdlePoll EXCEPT !.pc = "latest", !.height = n])
    /\ UNCHANGED <<emulator, blocks, contents, detached, status, clearing, failures, history>>

Latest(l) ==
    /\ poll[l].pc = "latest"
    /\ SetPoll(l, AtHeight([poll[l] EXCEPT !.latest = tip], poll[l].height))
    /\ UNCHANGED <<emulator, blocks, contents, detached, status, clearing, failures, history>>

(* The emulator answers getBlockByHeight.                                  *)
GetBlockByHeight(l) ==
    /\ poll[l].pc = "block"
    /\ poll[l].height <= tip
    /\ SetPoll(l, [poll[l] EXCEPT !.pc = "answered", !.block = BlockAt(poll[l].height)])
    /\ UNCHANGED <<emulator, blocks, contents, detached, status, clearing, failures, history>>

(* An error is logged and the loop goes on with the next height.           *)
GiveUp(l, what) ==
    /\ SetPoll(l, AtHeight(poll[l], poll[l].height + 1))
    /\ gaveUp' = gaveUp \cup {<<poll[l].height, what>>}
    /\ UNCHANGED torn

BlockNotFound(l) ==
    /\ poll[l].pc = "block"
    /\ poll[l].height > tip
    /\ GiveUp(l, "block")
    /\ UNCHANGED <<emulator, blocks, contents, detached, status, clearing, failures>>

(* The answer arrives: processBlock begins with indexes.block.create (that *)
(* the block exists already is logged, and processing goes on), and        *)
(* reIndexAllAccountStorage is started next to it.                         *)
ProcessBlock(l) ==
    /\ poll[l].pc = "answered"
    /\ blocks' = blocks \cup {poll[l].block}
    /\ SetPoll(l, [poll[l] EXCEPT !.pc = "contents"])
    /\ UNCHANGED <<emulator, contents, detached, status, clearing, failures, history>>

\* Mutant of BlockProcessed: the next block is started before this one is done.
BlockNotAwaited(l) ==
    /\ poll[l].pc = "contents"
    /\ SetPoll(l, AtHeight(poll[l], poll[l].height + 1))
    /\ detached' = detached \cup {poll[l].block}
    /\ UNCHANGED <<emulator, blocks, contents, status, clearing, failures, history>>

(* The rest of processBlock and the storages are done.                     *)
BlockProcessed(l) ==
    /\ poll[l].pc = "contents"
    /\ contents' = contents \cup {poll[l].block}
    /\ SetPoll(l, AtHeight(poll[l], poll[l].height + 1))
    /\ UNCHANGED <<emulator, blocks, detached, status, clearing, failures, history>>

(* The blocks whose processBlock is under way.                             *)
Processing == detached \cup {poll[l].block : l \in {k \in Loops : poll[k].pc = "contents"}}

CountFailure == failures < MaxFailures /\ failures' = failures + 1

(* A request of the poll fails: before the for loop the gateway is offline *)
(* or getLatestBlock rejects, which ends the poll; in it, the block, or a  *)
(* collection, transaction or status of the block is given up.             *)
Fail(l) ==
    /\ CountFailure
    /\ \/ /\ poll[l].pc \in {"online", "latest"}
          /\ SetPoll(l, IdlePoll)
          /\ UNCHANGED history
       \/ /\ poll[l].pc \in {"block", "contents"}
          /\ GiveUp(l, poll[l].pc)
    /\ UNCHANGED <<emulator, blocks, contents, detached, status, clearing>>

(* The storage of some account cannot be read: Promise.all rejects at      *)
(* once, and the loop goes on while processBlock is still under way.       *)
StorageFails(l) ==
    /\ CountFailure
    /\ poll[l].pc = "contents"
    /\ GiveUp(l, "storage")
    /\ detached' = detached \cup {poll[l].block}
    /\ UNCHANGED <<emulator, blocks, contents, status, clearing>>

(* What is left of such a processBlock comes to its end.                   *)
DetachedProcessed(b) ==
    /\ b \in detached
    /\ detached' = detached \ {b}
    /\ contents' = contents \cup {b}
    /\ UNCHANGED <<emulator, blocks, poll, status, clearing, failures, history>>

DetachedFails(b) ==
    /\ b \in detached
    /\ CountFailure
    /\ detached' = detached \ {b}
    /\ gaveUp' = gaveUp \cup {<<b.height, "contents">>}
    /\ UNCHANGED <<emulator, blocks, contents, poll, status, clearing, torn>>

---------------------------------------------------------------------------
(* subscribeToTransactionStatusUpdates *)

SetStatus(b, s) == status' = [status EXCEPT ![b] = s]

(* processTransaction of a transaction of a block that is being processed. *)
Subscribe(b) ==
    /\ status[b] = "none"
    /\ b \in Processing
    /\ Cardinality({c \in Blocks : status[c] # "none"}) < MaxWatched
    /\ SetStatus(b, "watched")
    /\ UNCHANGED <<emulator, blocks, contents, poll, detached, clearing, failures, history>>

(* A status arrives and its block is not in the index.  (When it is, only  *)
(* the transaction is updated.)                                            *)
RequestBlock(b) ==
    /\ status[b] = "watched"
    /\ b \notin blocks
    /\ SetStatus(b, "requested")
    /\ UNCHANGED <<emulator, blocks, contents, poll, detached, clearing, failures, history>>

(* The emulator answers getBlockById, with an error if it dropped b.       *)
GetBlockById(b) ==
    /\ status[b] = "requested"
    /\ SetStatus(b, IF OnChain(b) THEN "answered" ELSE "watched")
    /\ UNCHANGED <<emulator, blocks, contents, poll, detached, clearing, failures, history>>

(* processBlock without the transactions.                                  *)
ProcessRequestedBlock(b) ==
    /\ status[b] = "answered"
    /\ blocks' = blocks \cup {b}
    /\ SetStatus(b, "watched")
    /\ UNCHANGED <<emulator, contents, poll, detached, clearing, failures, history>>

(* The transactions are sealed, or waiting for it failed: unsubscribe().   *)
Unsubscribe(b) ==
    /\ status[b] = "watched"
    /\ SetStatus(b, "none")
    /\ UNCHANGED <<emulator, blocks, contents, poll, detached, clearing, failures, history>>

Watch(b) == RequestBlock(b) \/ GetBlockById(b) \/ ProcessRequestedBlock(b) \/ Unsubscribe(b)

---------------------------------------------------------------------------

Step(l) ==
    \/ Online(l) \/ Latest(l) \/ GetBlockByHeight(l) \/ BlockNotFound(l)
    \/ ProcessBlock(l) \/ BlockProcessed(l)

Next ==
    \/ Mine
    \/ \E h \in Heights : Rollback(h)
    \/ Clear
    \/ \E l \in Loops : Begin(l) \/ Step(l) \/ Fail(l) \/ StorageFails(l)
    \/ \E b \in Blocks : DetachedProcessed(b) \/ DetachedFails(b)
    \/ \E b \in Blocks : Subscribe(b) \/ Watch(b)

Spec == Init /\ [][Next]_vars

(* The scheduler begins polls, requests are answered, and the application  *)
(* clears the index after a rollback.                                      *)
Fairness ==
    /\ \A l \in Loops : WF_vars(Begin(l)) /\ WF_vars(Step(l))
    /\ \A b \in Blocks : WF_vars(DetachedProcessed(b))
    /\ WF_vars(Clear)

FairSpec == Spec /\ Fairness

---------------------------------------------------------------------------

(* The index can be trusted while no rollback is pending and nothing was   *)
(* in flight when it was cleared.                                          *)
Settled == ~clearing /\ ~torn

(* Blocks are indexed without a gap: nothing but blocks of the chain is    *)
(* indexed, and below an indexed block every block is indexed too, unless  *)
(* the request for it failed.  The poll reads the index and the chain at   *)
(* different times (flow-indexer.service.ts:86-101), awaits an answer per  *)
(* block and resumes above the highest block it finds.                     *)
NoGap ==
    Settled => \A b \in blocks :
        /\ OnChain(b)
        /\ \A h \in 0..b.height : BlockAt(h) \in blocks \/ <<h, "block">> \in gaveUp

(* The contents of the blocks are indexed in the order of the blocks,      *)
(* because "objects on subsequent blocks can reference objects from        *)
(* previous blocks" (lines 68-70), except where a request failed.          *)
InOrder ==
    Settled => \A b \in contents : \A h \in 0..(b.height - 1) :
        \/ BlockAt(h) \in contents
        \/ \E what \in {"block", "contents", "storage"} : <<h, what>> \in gaveUp

(* No block is processed twice: processBlock never meets its block in the  *)
(* index, however late the emulator answers.                               *)
ProcessedOnce ==
    [][\A l \in Loops : (poll[l].pc = "answered" /\ poll'[l].pc = "contents" /\ Settled)
            => poll[l].block \notin blocks]_vars

(* After a clear() that nothing was in flight at, and in spite of failing  *)
(* requests, the latest block is indexed for good once the chain stands    *)
(* still.                                                                  *)
CatchesUp == <>[](torn \/ BlockAt(tip) \in blocks)

===========================================================================
