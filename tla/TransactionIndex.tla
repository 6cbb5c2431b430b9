------------------------- MODULE TransactionIndex -------------------------
(***************************************************************************)
(* The life of one transaction in the index: processTransaction and        *)
(* subscribeToTransactionStatusUpdates of flow-indexer.service.ts, called  *)
(* by the poll of the desktop application, which has indexed the block of  *)
(* the transaction by then, or by getTransactionIndex of the web           *)
(* application, which has not (apps/web/src/common/root.tsx).              *)
(*                                                                         *)
(* The callback of a subscription is asynchronous: when it has to request  *)
(* the block of the status, callbacks of later statuses overtake it.       *)
(*                                                                         *)
(* Left out: everything about a transaction but its status.                *)
(*                                                                         *)
(* Init, Next and their like are named TransactionInit and so on: the      *)
(* proofs take this module together with AccountIndex.                     *)
(***************************************************************************)
EXTENDS Naturals

CONSTANTS
    Readers       \* calls that look the transaction up and index it

VARIABLES
    onChain,      \* status of the transaction on the access node
    block,        \* is its block in indexes.block
    tx,           \* its status in indexes.transaction, or Missing
    reader,       \* the calls
    seen,         \* the last status a subscription was told of
    callback,     \* the callbacks of a subscription that await a block
    raced         \* history: a status arrived while a callback awaited the
                  \* block, or the request for the block failed

transactionVars == <<onChain, block, tx, reader, seen, callback, raced>>

Pending == 1
Executed == 2
Sealed == 3
Statuses == Pending..Sealed
Missing == 0

Reader == [ pc  : {"idle", "fetching", "parsing", "subscribed", "found", "failed"},
            got : Statuses \cup {Missing} ]

TransactionTypeOK ==
    /\ onChain \in Statuses
    /\ block \in BOOLEAN
    /\ tx \in Statuses \cup {Missing}
    /\ reader \in [Readers -> Reader]
    /\ seen \in [Readers -> Statuses \cup {Missing}]
    /\ callback \in [Readers -> SUBSET Statuses]
    /\ raced \in BOOLEAN

TransactionInit ==
    /\ onChain = Pending
    /\ block \in BOOLEAN
    /\ tx = Missing
    /\ reader = [r \in Readers |-> [pc |-> "idle", got |-> Missing]]
    /\ seen = [r \in Readers |-> Missing]
    /\ callback = [r \in Readers |-> {}]
    /\ raced = FALSE

---------------------------------------------------------------------------

Progress ==
    /\ onChain # Sealed
    /\ onChain' = onChain + 1
    /\ UNCHANGED <<block, tx, reader, seen, callback, raced>>

(* findOneById, before the transaction is requested.                       *)
Find(r) ==
    /\ reader[r].pc = "idle"
    /\ reader' = [reader EXCEPT ![r].pc = IF tx = Missing THEN "fetching" ELSE "found"]
    /\ UNCHANGED <<onChain, block, tx, seen, callback, raced>>

(* getTransactionById and getTransactionStatusById are answered, or one    *)
(* of them rejects.                                                        *)
Fetched(r) ==
    /\ reader[r].pc = "fetching"
    /\ reader' \in {[reader EXCEPT ![r] = [pc |-> "parsing", got |-> onChain]],
                    [reader EXCEPT ![r].pc = "failed"]}
    /\ UNCHANGED <<onChain, block, tx, seen, callback, raced>>

\* Mutant of ProcessTransaction: saves the status it has been given last.
ProcessTransactionUpsert(r) ==
    /\ reader[r].pc = "parsing"
    /\ tx' = reader[r].got
    /\ reader' = [reader EXCEPT ![r].pc = "subscribed"]
    /\ UNCHANGED <<onChain, block, seen, callback, raced>>

(* processTransaction once the interaction is parsed: subscribes, and      *)
(* creates the transaction with the status that was read before; the call  *)
(* rejects if it exists already, and the subscription stays.               *)
ProcessTransaction(r) ==
    /\ reader[r].pc = "parsing"
    /\ tx' = IF tx = Missing THEN reader[r].got ELSE tx
    /\ reader' = [reader EXCEPT ![r].pc = "subscribed"]
    /\ UNCHANGED <<onChain, block, seen, callback, raced>>

(* A pending transaction is in no block yet.                               *)
NeedsBlock(s) == s # Pending /\ ~block

\* Mutant of StatusArrives: the status is not saved when it is the last one.
StatusIgnoredWhenSealed(r) ==
    /\ reader[r].pc = "subscribed"
    /\ seen[r] # onChain
    /\ seen' = [seen EXCEPT ![r] = onChain]
    /\ tx' = IF onChain = Sealed THEN tx ELSE onChain
    /\ UNCHANGED <<onChain, block, reader, callback, raced>>

(* A status is delivered to the callback.  The subscription is told of no  *)
(* status after Sealed, with which it ends.                                *)
StatusArrives(r) ==
    /\ reader[r].pc = "subscribed"
    /\ seen[r] # onChain
    /\ seen' = [seen EXCEPT ![r] = onChain]
    /\ IF NeedsBlock(onChain)
       THEN /\ callback' = [callback EXCEPT ![r] = @ \cup {onChain}]
            /\ UNCHANGED tx
       ELSE /\ tx' = onChain
            /\ UNCHANGED callback
    /\ raced' = (raced \/ \E m \in Readers : callback[m] # {})
    /\ UNCHANGED <<onChain, block, reader>>

(* getBlockById is answered: the block is indexed, then the transaction is *)
(* updated with the status of the callback.                                *)
BlockArrives(r, s) ==
    /\ s \in callback[r]
    /\ callback' = [callback EXCEPT ![r] = @ \ {s}]
    /\ block' = TRUE
    /\ tx' = s
    /\ UNCHANGED <<onChain, reader, seen, raced>>

(* It rejects: the callback ends there.                                    *)
BlockFails(r, s) ==
    /\ s \in callback[r]
    /\ callback' = [callback EXCEPT ![r] = @ \ {s}]
    /\ raced' = TRUE
    /\ UNCHANGED <<onChain, block, tx, reader, seen>>

TransactionNext ==
    \/ Progress
    \/ \E r \in Readers :
         \/ Find(r) \/ Fetched(r) \/ ProcessTransaction(r) \/ StatusArrives(r)
         \/ \E s \in Statuses : BlockArrives(r, s) \/ BlockFails(r, s)

TransactionSpec == TransactionInit /\ [][TransactionNext]_transactionVars

(* Requests are answered, and fcl.tx polls until the transaction is        *)
(* sealed.                                                                 *)
TransactionFairness ==
    /\ WF_transactionVars(Progress)
    /\ \A r \in Readers :
         /\ WF_transactionVars(Fetched(r) \/ ProcessTransaction(r))
         /\ WF_transactionVars(StatusArrives(r))
         /\ \A s \in Statuses : WF_transactionVars(BlockArrives(r, s) \/ BlockFails(r, s))

TransactionFairSpec == TransactionSpec /\ TransactionFairness

---------------------------------------------------------------------------

(* The index never goes back to an older status, whichever of several      *)
(* calls created the transaction, however stale the status was that they   *)
(* read before they subscribed (flow-indexer.service.ts:301-349), and      *)
(* whether or not a callback had to wait for the block, as long as no      *)
(* other status arrived while it did.                                      *)
NeverRegresses == [][~raced' => tx' >= tx]_transactionVars

(* A transaction that is indexed ends up sealed in the index, under the    *)
(* same condition and if the block could be read.                          *)
EndsSealed == <>(tx # Missing) => <>[](raced \/ tx = Sealed)

===========================================================================
