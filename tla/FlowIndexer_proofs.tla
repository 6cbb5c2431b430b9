------------------------- MODULE FlowIndexer_proofs -------------------------
(***************************************************************************)
(* What flow-indexer.service.ts writes to the index, for any number of     *)
(* concurrent calls, contracts, keys and blocks:                           *)
(*                                                                         *)
(*   - the indexed status of a transaction never goes back while no        *)
(*     statuses race (TransactionIndex);                                   *)
(*   - the indexed account, contracts and keys are those of the chain when *)
(*     a poll has caught up with it and no handler failed (AccountIndex).  *)
(***************************************************************************)
EXTENDS AccountIndex, TransactionIndex, TLAPS

---------------------------------------------------------------------------
(* The status of a transaction.                                            *)

(* Whoever can write a status holds one that is no newer than the chain's. *)
NotNewer ==
    /\ tx <= onChain
    /\ \A r \in Readers : reader[r].pc = "parsing" => reader[r].got <= onChain
    /\ \A r \in Readers : \A s \in callback[r] : s <= onChain

Subscribed ==
    \A r \in Readers :
        /\ callback[r] # {} => reader[r].pc = "subscribed"
        /\ reader[r].pc = "subscribed" => tx # Missing

(* The status a call has read.                                             *)
GotStatus == \A r \in Readers : reader[r].pc = "parsing" => reader[r].got \in Statuses

(* While nothing raced, at most one callback waits, with a status that is  *)
(* no older than the indexed one.                                          *)
OneWaits ==
    ~raced => \A r, m \in Readers : \A s \in callback[r], t \in callback[m] :
        r = m /\ s = t /\ tx <= s

TransactionInv == TransactionTypeOK /\ NotNewer /\ GotStatus /\ Subscribed /\ OneWaits

LEMMA TransactionInitInv == TransactionInit => TransactionInv
<1> SUFFICES ASSUME TransactionInit PROVE TransactionInv
  OBVIOUS
<1>1. block \in BOOLEAN /\ raced \in BOOLEAN
  BY Zenon DEF TransactionInit
<1>2. TransactionTypeOK
  BY <1>1 DEF TransactionInit, TransactionTypeOK, Reader, Statuses, Pending, Sealed, Missing
<1>3. NotNewer /\ GotStatus /\ Subscribed /\ OneWaits
  BY DEF TransactionInit, NotNewer, GotStatus, Subscribed, OneWaits, Pending, Missing
<1> QED
  BY <1>2, <1>3 DEF TransactionInv

LEMMA TransactionReaderStep ==
  ASSUME TransactionInv, NEW r \in Readers, Find(r) \/ Fetched(r) \/ ProcessTransaction(r)
  PROVE  TransactionInv'
<1> USE DEF TransactionInv
<1>1. reader[r] \in Reader /\ onChain \in Statuses /\ tx \in Statuses \cup {Missing}
  BY DEF TransactionTypeOK
<1>2. CASE Find(r)
  BY <1>2 DEF Find, TransactionTypeOK, Reader, NotNewer, GotStatus, Subscribed, OneWaits
<1>3. CASE Fetched(r)
  <2>1. PICK p \in Reader : /\ reader' = [reader EXCEPT ![r] = p]
                            /\ p.pc = "failed" \/ (p.pc = "parsing" /\ p.got = onChain)
    <3>1. CASE reader' = [reader EXCEPT ![r] = [pc |-> "parsing", got |-> onChain]]
      <4>1. [pc |-> "parsing", got |-> onChain] \in Reader
        BY <1>1 DEF Reader
      <4> QED
        BY <3>1, <4>1
    <3>2. CASE reader' = [reader EXCEPT ![r].pc = "failed"]
      <4>1. [reader[r] EXCEPT !.pc = "failed"] \in Reader
        BY <1>1 DEF Reader
      <4>2. [reader[r] EXCEPT !.pc = "failed"].pc = "failed"
        BY <1>1 DEF Reader
      <4>3. reader' = [reader EXCEPT ![r] = [reader[r] EXCEPT !.pc = "failed"]]
        BY <3>2
      <4> QED
        BY <4>1, <4>2, <4>3
    <3> QED
      BY <1>3, <3>1, <3>2 DEF Fetched
  <2>2. UNCHANGED <<onChain, block, tx, seen, callback, raced>> /\ reader[r].pc = "fetching"
    BY <1>3 DEF Fetched
  <2>3. NotNewer'
    BY <1>1, <2>1, <2>2 DEF TransactionTypeOK, NotNewer, Statuses, Pending, Sealed
  <2> QED
    BY <1>1, <2>1, <2>2, <2>3 DEF TransactionTypeOK, GotStatus, Subscribed, OneWaits
<1>4. CASE ProcessTransaction(r)
  <2>1. reader[r].got \in Statuses
    BY <1>4 DEF ProcessTransaction, GotStatus
  <2>2. reader[r].got \in Statuses \cup {Missing} /\ reader[r].got <= onChain
    BY <1>1, <1>4 DEF ProcessTransaction, NotNewer, Reader
  <2>3. TransactionTypeOK'
    BY <1>1, <1>4, <2>2 DEF ProcessTransaction, TransactionTypeOK, Reader
  <2>4. NotNewer'
    BY <1>4, <2>2 DEF ProcessTransaction, TransactionTypeOK, Reader, NotNewer
  <2>5. Subscribed'
    <3>1. tx' # Missing
      BY <1>1, <1>4, <2>1 DEF ProcessTransaction, Statuses, Pending, Sealed, Missing
    <3> QED
      BY <1>4, <3>1 DEF ProcessTransaction, TransactionTypeOK, Reader, Subscribed
  <2>6. GotStatus'
    BY <1>4 DEF ProcessTransaction, TransactionTypeOK, Reader, GotStatus
  <2>7. OneWaits'
    <3>1. tx = Missing => \A m \in Readers : callback[m] = {}
      BY DEF Subscribed
    <3> QED
      BY <1>4, <3>1 DEF ProcessTransaction, TransactionTypeOK, OneWaits
  <2> QED
    BY <2>3, <2>4, <2>5, <2>7, <2>6
<1> QED
  BY <1>2, <1>3, <1>4

LEMMA TransactionInvStep == TransactionInv /\ [TransactionNext]_transactionVars => TransactionInv'
<1> SUFFICES ASSUME TransactionInv, [TransactionNext]_transactionVars PROVE TransactionInv'
  OBVIOUS
<1> USE DEF TransactionInv
<1>1. CASE Progress
  BY <1>1 DEF Progress, TransactionTypeOK, NotNewer, GotStatus, Subscribed, OneWaits, Statuses, Pending, Sealed,
              Missing, Reader
<1>2. ASSUME NEW r \in Readers, Find(r) \/ Fetched(r) \/ ProcessTransaction(r) PROVE TransactionInv'
  BY <1>2, TransactionReaderStep
<1>3. ASSUME NEW r \in Readers, StatusArrives(r) PROVE TransactionInv'
  <2>1. raced' \in BOOLEAN /\ (~raced' => ~raced /\ \A m \in Readers : callback[m] = {})
    BY <1>3, Zenon DEF StatusArrives, TransactionTypeOK
  <2>2. TransactionTypeOK'
    BY <1>3, <2>1 DEF StatusArrives, TransactionTypeOK
  <2>3. NotNewer' /\ GotStatus' /\ Subscribed'
    BY <1>3 DEF StatusArrives, TransactionTypeOK, NotNewer, GotStatus, Subscribed, Statuses, Pending, Sealed, Missing
  <2>4. OneWaits'
    BY <1>3, <2>1 DEF StatusArrives, TransactionTypeOK, NotNewer, OneWaits, Statuses, Pending, Sealed, Missing
  <2> QED
    BY <2>2, <2>3, <2>4
<1>4. ASSUME NEW r \in Readers, NEW s \in Statuses, BlockArrives(r, s) PROVE TransactionInv'
  <2>1. TransactionTypeOK' /\ NotNewer' /\ GotStatus' /\ Subscribed'
    BY <1>4 DEF BlockArrives, TransactionTypeOK, NotNewer, GotStatus, Subscribed, Statuses, Pending, Sealed, Missing
  <2>2. OneWaits'
    BY <1>4 DEF BlockArrives, TransactionTypeOK, OneWaits
  <2> QED
    BY <2>1, <2>2
<1>5. ASSUME NEW r \in Readers, NEW s \in Statuses, BlockFails(r, s) PROVE TransactionInv'
  BY <1>5 DEF BlockFails, TransactionTypeOK, NotNewer, GotStatus, Subscribed, OneWaits
<1>6. CASE UNCHANGED transactionVars
  BY <1>6 DEF transactionVars, TransactionTypeOK, NotNewer, GotStatus, Subscribed, OneWaits
<1> QED
  BY <1>1, <1>2, <1>3, <1>4, <1>5, <1>6 DEF TransactionNext

(* Type correctness: what is in the index is a status or nothing.          *)
THEOREM TransactionTypeCorrect == TransactionSpec => []TransactionTypeOK
<1>1. TransactionInv => TransactionTypeOK
  BY DEF TransactionInv
<1> QED
  BY <1>1, TransactionInitInv, TransactionInvStep, PTL DEF TransactionSpec

(* While no statuses race, no step takes the indexed status back: not the  *)
(* creation with a status read earlier, nor a callback that had to wait.   *)
THEOREM StatusNeverRegresses == TransactionSpec => NeverRegresses
<1>1. ASSUME TransactionInv, [TransactionNext]_transactionVars, ~raced' PROVE tx' >= tx
  <2> USE <1>1 DEF TransactionInv, TransactionTypeOK, Statuses, Pending, Sealed, Missing
  <2>1. CASE UNCHANGED tx
    BY <2>1
  <2>2. ASSUME NEW r \in Readers, ProcessTransaction(r) PROVE tx' >= tx
    BY <2>2 DEF ProcessTransaction, Reader
  <2>3. ASSUME NEW r \in Readers, StatusArrives(r) PROVE tx' >= tx
    BY <2>3 DEF StatusArrives, NotNewer
  <2>4. ASSUME NEW r \in Readers, NEW s \in Statuses, BlockArrives(r, s) PROVE tx' >= tx
    BY <2>4 DEF BlockArrives, OneWaits
  <2> QED
    BY <2>1, <2>2, <2>3, <2>4 DEF TransactionNext, transactionVars, Progress, Find, Fetched, BlockFails
<1> QED
  BY <1>1, TransactionInitInv, TransactionInvStep, PTL DEF TransactionSpec, NeverRegresses

---------------------------------------------------------------------------
(* The account, its contracts and its keys.                                *)

(* The account after the last block that was processed, and after every    *)
(* block from there on: what a handler can have read.                      *)
Current == chain[IF height = 0 THEN 1 ELSE height].account

Versions == {chain[m].account : m \in {n \in DOMAIN chain : height <= n}}

Gone == {"revoked", "added again"}

ChainInv ==
    /\ Len(chain) \in 1..MaxHeight
    /\ chain[1].account \in Genesis /\ chain[1].events = {}
    /\ \A n \in 2..Len(chain) :
          /\ chain[n].events \in Batches(chain[n - 1].account)
          /\ chain[n].account = After(chain[n - 1].account, chain[n].events, n)
    /\ \A m, n \in DOMAIN chain : m <= n => \A k \in Keys :
          /\ chain[m].account.keys[k] # "absent" => chain[n].account.keys[k] # "absent"
          /\ chain[m].account.keys[k] \in Gone => chain[n].account.keys[k] \in Gone

PollInv ==
    /\ height <= Len(chain)
    /\ target # None => target <= Len(chain)
    /\ handlers # {} => polling
    /\ \A h \in handlers :
          /\ h.account # None => h.account \in Versions
          /\ \/ WellKnown /\ h.event = Ev("created", None)
             \/ height >= 1 /\ h.event \in chain[height].events
    /\ \A g, h \in handlers : g.event = h.event => g = h

Waiting(type, name) == \E h \in handlers : h.event = Ev(type, name)

(* The well-known account has not been created in the index yet.           *)
NotCreated == WellKnown /\ account = None

CreatedInv ==
    NotCreated =>
        /\ height = 0
        /\ \A c \in Contracts : contract[c] = None
        /\ \A k \in Keys : accountKey[k] = None
        /\ polling => handlers # {}

AccountInv ==
    \/ NotCreated \/ ~Current.exists
    \/ Waiting("created", None) \/ Waiting("balance", None)
    \/ \E a \in Versions : account = a.balance

CodeOf(c) == IF contract[c] = None THEN Absent ELSE contract[c]

Shows(c) == \E a \in Versions : a.contracts[c] = CodeOf(c)

ContractInv(c) ==
    /\ Waiting("contractAdded", c) =>
          contract[c] # Absent /\ (contract[c] = None \/ Shows(c))
    /\ Waiting("contractUpdated", c) =>
          (contract[c] = None => Shows(c))
    /\ \/ NotCreated \/ Waiting("contractAdded", c)
       \/ Waiting("contractUpdated", c) \/ Waiting("contractRemoved", c)
       \/ Shows(c) /\ (Current.contracts[c] = Absent => contract[c] # Absent)

KeyInv(k) ==
    /\ accountKey[k] = "revoked" => Latest.keys[k] \in Gone
    /\ accountKey[k] = "active" =>
          Waiting("keyRemoved", k) \/ \E a \in Versions : a.keys[k] = "active"
    /\ Current.keys[k] = "active" =>
          NotCreated \/ Waiting("keyAdded", k) \/ accountKey[k] # None

USE BoundsAssumption, NoneAssumption DEF BoundsAssumption, NoneAssumption

---------------------------------------------------------------------------

LEMMA EventIs ==
  ASSUME NEW e \in Event
  PROVE  /\ e = Ev(e.type, e.name)
         /\ \/ e.type \in {"created", "balance"} /\ e.name = None
            \/ e.type \in {"contractAdded", "contractUpdated", "contractRemoved"} /\ e.name \in Contracts
            \/ e.type \in {"keyAdded", "keyRemoved"} /\ e.name \in Keys
BY DEF Event, Ev

LEMMA GenesisType == NoAccount \in Account /\ \A a \in Genesis : a \in Account
<1>1. {0, 1} \subseteq Heights
  BY DEF Heights
<1>2. NoAccount \in Account
  BY <1>1 DEF NoAccount, Account, Absent
<1>3. ASSUME NEW a \in Genesis PROVE a \in Account
  <2>1. CASE a = NoAccount
    BY <1>2, <2>1
  <2>2. CASE a \in [ exists : {TRUE}, balance : {1}, contracts : [Contracts -> {Absent, 1}],
                     keys : [Keys -> {"absent", "active"}] ]
    <3>1. a.contracts \in [Contracts -> Heights]
      BY <1>1, <2>2 DEF Absent
    <3>2. a.keys \in [Keys -> {"absent", "active", "revoked", "added again"}]
      BY <2>2
    <3>3. a.exists \in BOOLEAN /\ a.balance \in Heights
      BY <1>1, <2>2
    <3>4. a = [exists |-> a.exists, balance |-> a.balance, contracts |-> a.contracts, keys |-> a.keys]
      BY <2>2
    <3> HIDE <2>2
    <3> QED BY <3>1, <3>2, <3>3, <3>4 DEF Account
  <2> QED BY <2>1, <2>2 DEF Genesis
<1> QED BY <1>2, <1>3

LEMMA AfterType ==
  ASSUME NEW a \in Account, NEW E, NEW n \in Heights
  PROVE  After(a, E, n) \in Account
<1> DEFINE f == After(a, E, n)
<1>1. Absent \in Heights
  BY DEF Heights, Absent
<1>2. f.exists \in BOOLEAN /\ f.balance \in Heights
  BY DEF After, Account
<1>3. f.contracts \in [Contracts -> Heights]
  <2>1. a.contracts \in [Contracts -> Heights]
    BY DEF Account
  <2> HIDE DEF Absent
  <2> QED BY <1>1, <2>1 DEF After
<1>4. f.keys \in [Keys -> {"absent", "active", "revoked", "added again"}]
  <2>1. a.keys \in [Keys -> {"absent", "active", "revoked", "added again"}]
    BY DEF Account
  <2> QED BY <2>1 DEF After
<1>5. f = [exists |-> f.exists, balance |-> f.balance, contracts |-> f.contracts, keys |-> f.keys]
  BY DEF After
<1> HIDE DEF f
<1>6. f \in Account
  BY <1>2, <1>3, <1>4, <1>5 DEF Account
<1> QED BY <1>6 DEF f

(* What the index can have read of the chain.                              *)
LEMMA ChainTypes ==
  ASSUME TypeOK, ChainInv, PollInv
  PROVE  /\ Len(chain) \in Nat \ {0} /\ Latest \in Account
         /\ \A n \in DOMAIN chain : chain[n].account \in Account /\ chain[n].events \subseteq Event
         /\ Current \in Account /\ Current \in Versions /\ Latest \in Versions
         /\ DOMAIN chain = 1..Len(chain)
         /\ \A a \in Versions : a \in Account
<1>1. Len(chain) \in Nat \ {0} /\ DOMAIN chain = 1..Len(chain)
  BY DEF TypeOK, ChainInv
<1>2. \A n \in DOMAIN chain : chain[n] \in [account : Account, events : SUBSET Event]
  <2> DEFINE Blocks == [account : Account, events : SUBSET Event]
  <2>1. chain \in Seq(Blocks)
    BY DEF TypeOK
  <2> HIDE DEF Blocks
  <2>2. \A n \in DOMAIN chain : chain[n] \in Blocks
    BY <1>1, <2>1
  <2> QED BY <2>2 DEF Blocks
<1>3. \A n \in DOMAIN chain : chain[n].account \in Account /\ chain[n].events \subseteq Event
  BY <1>2
<1>4. height \in Nat /\ height <= Len(chain)
  BY DEF TypeOK, PollInv, Heights
<1>5. Len(chain) \in {n \in DOMAIN chain : height <= n}
  BY <1>1, <1>4
<1>6. (IF height = 0 THEN 1 ELSE height) \in {n \in DOMAIN chain : height <= n}
  BY <1>1, <1>4
<1> QED BY <1>1, <1>3, <1>5, <1>6 DEF Latest, Current, Versions

(* A block is appended: what was read stays, the new state is one more.    *)
LEMMA MineChain ==
  ASSUME TypeOK, ChainInv, PollInv, Mine
  PROVE  /\ TypeOK' /\ ChainInv'
         /\ Len(chain') = Len(chain) + 1
         /\ \A n \in 1..Len(chain) : chain'[n] = chain[n]
         /\ \E E \in Batches(Latest) : Latest' = After(Latest, E, Len(chain) + 1)
         /\ \A a \in Versions : a \in Versions'
         /\ Current' = Current /\ WellKnown' = WellKnown
<1>1. PICK E \in Batches(Latest) :
        chain' = Append(chain, [account |-> After(Latest, E, Len(chain) + 1), events |-> E])
  BY DEF Mine
<1> DEFINE new == After(Latest, E, Len(chain) + 1)
           mined == [account |-> new, events |-> E]
<1>2. Len(chain) \in 1..(MaxHeight - 1) /\ DOMAIN chain = 1..Len(chain)
  BY DEF ChainInv, Mine, TypeOK
<1>3. E \subseteq Event
  BY DEF Batches
<1>4. new \in Account
  BY <1>2, AfterType, ChainTypes DEF Heights
<1>5. mined \in [account : Account, events : SUBSET Event]
  BY <1>3, <1>4
<1> HIDE DEF new
<1>6. /\ chain' \in Seq([account : Account, events : SUBSET Event])
      /\ Len(chain') = Len(chain) + 1
      /\ DOMAIN chain' = 1..(Len(chain) + 1)
      /\ \A n \in 1..Len(chain) : chain'[n] = chain[n]
      /\ chain'[Len(chain) + 1] = mined
  <2>1. chain \in Seq([account : Account, events : SUBSET Event])
    BY DEF TypeOK
  <2>2. chain' = Append(chain, mined)
    BY <1>1 DEF new
  <2> HIDE DEF mined
  <2> QED BY <2>1, <2>2, <1>5
<1>7. Latest' = new /\ Latest = chain[Len(chain)].account
  BY <1>6 DEF Latest
<1>8. TypeOK'
  BY <1>6 DEF Mine, index, TypeOK
<1>9. UNCHANGED height /\ height \in Nat /\ height <= Len(chain)
  BY DEF Mine, TypeOK, Heights, PollInv
<1>10. Current' = Current /\ WellKnown' = WellKnown
  BY <1>2, <1>6, <1>9 DEF Current, WellKnown
<1>11. \A a \in Versions : a \in Versions'
  <2> SUFFICES ASSUME NEW m \in DOMAIN chain, height <= m PROVE chain[m].account \in Versions'
    BY DEF Versions
  <2>1. m \in DOMAIN chain' /\ chain'[m] = chain[m] /\ height' <= m
    BY <1>2, <1>6, <1>9
  <2> QED BY <2>1 DEF Versions
<1>12. ASSUME NEW n \in 2..Len(chain')
       PROVE  /\ chain'[n].events \in Batches(chain'[n - 1].account)
              /\ chain'[n].account = After(chain'[n - 1].account, chain'[n].events, n)
  <2>1. CASE n <= Len(chain)
    <3>1. chain'[n] = chain[n] /\ chain'[n - 1] = chain[n - 1] /\ n \in 2..Len(chain)
      BY <2>1, <1>6, <1>2
    <3> QED BY <3>1 DEF ChainInv
  <2>2. CASE n = Len(chain) + 1
    <3>1. chain'[n - 1].account = Latest /\ chain'[n].events = E /\ chain'[n].account = new
      BY <2>2, <1>6, <1>7, <1>2
    <3> QED BY <3>1, <2>2 DEF new
  <2> QED BY <2>1, <2>2, <1>6, <1>2
<1>13. ASSUME NEW k \in Keys
       PROVE  /\ Latest.keys[k] # "absent" => new.keys[k] # "absent"
              /\ Latest.keys[k] \in Gone => new.keys[k] \in Gone
  BY DEF new, After, Gone
<1>14. ASSUME NEW m \in DOMAIN chain', NEW n \in DOMAIN chain', m <= n, NEW k \in Keys
       PROVE  /\ chain'[m].account.keys[k] # "absent" => chain'[n].account.keys[k] # "absent"
              /\ chain'[m].account.keys[k] \in Gone => chain'[n].account.keys[k] \in Gone
  <2>1. CASE n <= Len(chain)
    <3>1. chain'[n] = chain[n] /\ chain'[m] = chain[m] /\ m \in DOMAIN chain /\ n \in DOMAIN chain
      BY <2>1, <1>6, <1>2, <1>14
    <3> QED BY <3>1, <1>14 DEF ChainInv
  <2>2. CASE n = Len(chain) + 1 /\ m <= Len(chain)
    <3>1. chain'[m] = chain[m] /\ m \in DOMAIN chain /\ chain'[n].account = new
      BY <2>2, <1>6, <1>2
    <3>2. m <= Len(chain) /\ Len(chain) \in DOMAIN chain
      BY <2>2, <1>2
    <3>3. /\ chain[m].account.keys[k] # "absent" => Latest.keys[k] # "absent"
          /\ chain[m].account.keys[k] \in Gone => Latest.keys[k] \in Gone
      BY <3>1, <3>2, <1>7 DEF ChainInv
    <3> QED BY <3>1, <3>3, <1>13
  <2>3. CASE m = n
    BY <2>3
  <2> QED BY <2>1, <2>2, <2>3, <1>6, <1>2, <1>14
<1>15. ChainInv'
  <2>1. Len(chain') \in 1..MaxHeight
    BY <1>6, <1>2
  <2>2. chain'[1] = chain[1]
    BY <1>6, <1>2
  <2> QED BY <2>1, <2>2, <1>12, <1>14 DEF ChainInv
<1> QED BY <1>1, <1>6, <1>7, <1>8, <1>10, <1>11, <1>15 DEF new


(* Keys are never absent again, and stay gone.                             *)
LEMMA LaterKeys ==
  ASSUME TypeOK, ChainInv, PollInv, NEW a \in Versions, NEW k \in Keys
  PROVE  /\ Current.keys[k] # "absent" => a.keys[k] # "absent"
         /\ a.keys[k] \in Gone => Latest.keys[k] \in Gone
<1>1. PICK m \in DOMAIN chain : height <= m /\ a = chain[m].account
  BY DEF Versions
<1>2. Len(chain) \in Nat \ {0} /\ DOMAIN chain = 1..Len(chain)
  BY ChainTypes
<1>3. height \in Nat
  BY DEF TypeOK, Heights
<1> DEFINE i == IF height = 0 THEN 1 ELSE height
<1>4. i \in DOMAIN chain /\ i <= m
  BY <1>1, <1>2, <1>3 DEF PollInv
<1>5. m <= Len(chain) /\ Len(chain) \in DOMAIN chain
  BY <1>2
<1>6. Current = chain[i].account /\ Latest = chain[Len(chain)].account
  BY DEF Current, Latest
<1> HIDE DEF i
<1> QED BY <1>1, <1>4, <1>5, <1>6 DEF ChainInv

(* What the events of a block do to the account.                           *)
LEMMA BlockEffects ==
  ASSUME TypeOK, ChainInv, PollInv, NEW n \in DOMAIN chain, chain[n].events # {}
  PROVE  /\ n \in 2..Len(chain)
         /\ chain[n].events \in Batches(chain[n - 1].account)
         /\ chain[n].account = After(chain[n - 1].account, chain[n].events, n)
<1>1. DOMAIN chain = 1..Len(chain) /\ chain[1].events = {}
  BY ChainTypes DEF ChainInv
<1>2. n \in 2..Len(chain)
  BY <1>1, ChainTypes
<1> QED BY <1>2 DEF ChainInv

LEMMA OneEventPerName ==
  ASSUME TypeOK, ChainInv, PollInv, NEW n \in DOMAIN chain,
         NEW e \in chain[n].events, NEW f \in chain[n].events, e.name = f.name, e.name # None
  PROVE  e = f
BY BlockEffects DEF Batches

LEMMA AfterBalance ==
  ASSUME NEW a, NEW E, NEW n
  PROVE  After(a, E, n).balance =
           IF Ev("created", None) \in E \/ Ev("balance", None) \in E THEN n ELSE a.balance
<1>1. ({Ev("created", None), Ev("balance", None)} \cap E # {})
        <=> (Ev("created", None) \in E \/ Ev("balance", None) \in E)
  OBVIOUS
<1>2. After(a, E, n).balance =
        IF {Ev("created", None), Ev("balance", None)} \cap E # {} THEN n ELSE a.balance
  BY DEF After
<1> QED BY <1>1, <1>2

LEMMA AfterContracts ==
  ASSUME NEW a, NEW E, NEW n, NEW c \in Contracts
  PROVE  After(a, E, n).contracts[c] =
           IF Ev("contractRemoved", c) \in E THEN Absent
           ELSE IF Ev("contractAdded", c) \in E \/ Ev("contractUpdated", c) \in E THEN n
           ELSE a.contracts[c]
<1>1. ({Ev("contractAdded", c), Ev("contractUpdated", c)} \cap E # {})
        <=> (Ev("contractAdded", c) \in E \/ Ev("contractUpdated", c) \in E)
  OBVIOUS
<1>2. After(a, E, n).contracts[c] =
        IF Ev("contractRemoved", c) \in E THEN Absent
        ELSE IF {Ev("contractAdded", c), Ev("contractUpdated", c)} \cap E # {} THEN n
        ELSE a.contracts[c]
  BY DEF After
<1> QED BY <1>1, <1>2

LEMMA AfterKeys ==
  ASSUME NEW a, NEW E, NEW n, NEW k \in Keys
  PROVE  /\ Ev("keyRemoved", k) \in E => After(a, E, n).keys[k] = "revoked"
         /\ \/ Ev("keyRemoved", k) \in E \/ Ev("keyAdded", k) \in E
            \/ After(a, E, n).keys[k] = a.keys[k]
BY DEF After

LEMMA ContractEffects ==
  ASSUME TypeOK, ChainInv, PollInv, NEW n \in 2..Len(chain), NEW c \in Contracts
  PROVE  LET before == chain[n - 1].account.contracts[c]
             after == chain[n].account.contracts[c]
             Has(type) == Ev(type, c) \in chain[n].events
         IN  /\ Has("contractAdded") => before = Absent /\ after # Absent
             /\ Has("contractUpdated") => before # Absent /\ after # Absent
             /\ Has("contractRemoved") => before # Absent /\ after = Absent
             /\ \/ Has("contractAdded") \/ Has("contractUpdated") \/ Has("contractRemoved")
                \/ after = before
<1> DEFINE E == chain[n].events
           a == chain[n - 1].account
           Has(type) == Ev(type, c) \in chain[n].events
<1>1. E \in Batches(a) /\ chain[n].account = After(a, E, n)
  BY DEF ChainInv
<1>2. n # Absent
  BY DEF Absent
<1>3. ASSUME Has("contractAdded") PROVE ~Has("contractRemoved") /\ a.contracts[c] = Absent
  <2>1. CanHappen(a, Ev("contractAdded", c))
    BY <1>1, <1>3 DEF Batches
  <2>2. a.contracts[c] = Absent
    BY <2>1 DEF CanHappen, Ev
  <2>3. ASSUME Has("contractRemoved") PROVE FALSE
    <3>1. CanHappen(a, Ev("contractRemoved", c))
      BY <1>1, <2>3 DEF Batches
    <3> QED BY <3>1, <2>2 DEF CanHappen, Ev
  <2> QED BY <2>2, <2>3
<1>4. ASSUME Has("contractRemoved") PROVE a.contracts[c] # Absent
  <2>1. CanHappen(a, Ev("contractRemoved", c))
    BY <1>1, <1>4 DEF Batches
  <2> QED BY <2>1 DEF CanHappen, Ev
<1>5. ASSUME Has("contractUpdated") PROVE ~Has("contractRemoved") /\ a.contracts[c] # Absent
  <2>1. CanHappen(a, Ev("contractUpdated", c))
    BY <1>1, <1>5 DEF Batches
  <2>2. a.contracts[c] # Absent
    BY <2>1 DEF CanHappen, Ev
  <2>3. ASSUME Has("contractRemoved") PROVE FALSE
    <3>1. n \in DOMAIN chain
      BY ChainTypes
    <3>2. Ev("contractRemoved", c) = Ev("contractUpdated", c)
      BY <3>1, <2>3, <1>5, OneEventPerName DEF Ev
    <3> QED BY <3>2 DEF Ev
  <2> QED BY <2>2, <2>3
<1>6. chain[n].account.contracts[c] =
        IF Has("contractRemoved") THEN Absent
        ELSE IF Has("contractAdded") \/ Has("contractUpdated") THEN n ELSE a.contracts[c]
  <2> HIDE DEF E, a
  <2>1. After(a, E, n).contracts[c] =
          IF Ev("contractRemoved", c) \in E THEN Absent
          ELSE IF Ev("contractAdded", c) \in E \/ Ev("contractUpdated", c) \in E THEN n
          ELSE a.contracts[c]
    BY AfterContracts
  <2> QED BY <1>1, <2>1 DEF E
<1> QED BY <1>2, <1>3, <1>4, <1>5, <1>6

LEMMA KeyEffects ==
  ASSUME TypeOK, ChainInv, PollInv, NEW n \in 2..Len(chain), NEW k \in Keys
  PROVE  LET before == chain[n - 1].account.keys[k]
             after == chain[n].account.keys[k]
             Has(type) == Ev(type, k) \in chain[n].events
         IN  /\ Has("keyAdded") => before # "active"
             /\ Has("keyRemoved") => after = "revoked"
             /\ Has("keyAdded") \/ Has("keyRemoved") \/ after = before
<1> DEFINE E == chain[n].events
           a == chain[n - 1].account
           Has(type) == Ev(type, k) \in chain[n].events
<1>1. E \in Batches(a) /\ chain[n].account = After(a, E, n)
  BY DEF ChainInv
<1>2. ASSUME Has("keyAdded") PROVE a.keys[k] # "active"
  <2>1. CanHappen(a, Ev("keyAdded", k))
    BY <1>1, <1>2 DEF Batches
  <2> QED BY <2>1 DEF CanHappen, Ev
<1>3. /\ Has("keyRemoved") => chain[n].account.keys[k] = "revoked"
      /\ Has("keyAdded") \/ Has("keyRemoved") \/ chain[n].account.keys[k] = a.keys[k]
  <2> HIDE DEF E, a
  <2>1. /\ Ev("keyRemoved", k) \in E => After(a, E, n).keys[k] = "revoked"
        /\ \/ Ev("keyRemoved", k) \in E \/ Ev("keyAdded", k) \in E
           \/ After(a, E, n).keys[k] = a.keys[k]
    BY AfterKeys, SMT
  <2> QED BY <1>1, <2>1 DEF E
<1> QED BY <1>2, <1>3

LEMMA AccountEffects ==
  ASSUME TypeOK, ChainInv, PollInv, NEW n \in 2..Len(chain)
  PROVE  \/ Ev("created", None) \in chain[n].events
         \/ Ev("balance", None) \in chain[n].events
         \/ /\ chain[n - 1].account.exists
            /\ chain[n].account.balance = chain[n - 1].account.balance
<1> DEFINE E == chain[n].events
           a == chain[n - 1].account
<1>1. E \in Batches(a) /\ chain[n].account = After(a, E, n)
  BY DEF ChainInv
<1>2. a.exists \/ Ev("created", None) \in E
  BY <1>1 DEF Batches
<1> HIDE DEF E, a
<1>3. Ev("created", None) \in E \/ Ev("balance", None) \in E \/ chain[n].account.balance = a.balance
  <2>1. After(a, E, n).balance =
          IF Ev("created", None) \in E \/ Ev("balance", None) \in E THEN n ELSE a.balance
    BY AfterBalance, Zenon
  <2> QED BY <1>1, <2>1
<1> QED BY <1>2, <1>3 DEF E, a

---------------------------------------------------------------------------

Base == TypeOK /\ ChainInv /\ PollInv

Sound ==
    /\ CreatedInv /\ AccountInv
    /\ \A c \in Contracts : ContractInv(c)
    /\ \A k \in Keys : KeyInv(k)

(* The events that are not the one of the creation.                        *)
Changes == {"contractAdded", "contractUpdated", "contractRemoved", "keyAdded", "keyRemoved"}

(* Steps that neither process a block nor write the index.                 *)
LEMMA Waits ==
  ASSUME Base, Sound, UNCHANGED <<index, height>>, WellKnown' = WellKnown, Current' = Current,
         \A a \in Versions : a \in Versions',
         \A k \in Keys : Latest.keys[k] \in Gone => Latest'.keys[k] \in Gone,
         \A type \in Changes, name \in Contracts \cup Keys :
            Waiting(type, name)' <=> Waiting(type, name),
         Waiting("created", None) => Waiting("created", None)',
         Waiting("balance", None) => Waiting("balance", None)',
         WellKnown /\ polling' /\ handlers' = {} => polling /\ handlers = {}
  PROVE  Sound'
<1>1. UNCHANGED <<account, contract, accountKey>>
  BY DEF index
<1>2. NotCreated' = NotCreated
  BY <1>1 DEF NotCreated
<1>3. CreatedInv'
  BY <1>1, <1>2 DEF Sound, CreatedInv, NotCreated
<1>4. AccountInv'
  <2>1. AccountInv
    BY DEF Sound
  <2> QED BY <1>1, <1>2, <2>1 DEF AccountInv
<1>5. ASSUME NEW c \in Contracts PROVE ContractInv(c)'
  <2>1. ContractInv(c)
    BY DEF Sound
  <2>2. /\ Waiting("contractAdded", c)' <=> Waiting("contractAdded", c)
        /\ Waiting("contractUpdated", c)' <=> Waiting("contractUpdated", c)
        /\ Waiting("contractRemoved", c)' <=> Waiting("contractRemoved", c)
    BY DEF Changes
  <2>3. Shows(c) => Shows(c)'
    BY <1>1 DEF Shows, CodeOf
  <2> QED BY <1>1, <1>2, <2>1, <2>2, <2>3 DEF ContractInv
<1>6. ASSUME NEW k \in Keys PROVE KeyInv(k)'
  <2>1. KeyInv(k)
    BY DEF Sound
  <2>2. /\ Waiting("keyAdded", k)' <=> Waiting("keyAdded", k)
        /\ Waiting("keyRemoved", k)' <=> Waiting("keyRemoved", k)
    BY DEF Changes
  <2> QED BY <1>1, <1>2, <2>1, <2>2 DEF KeyInv
<1> QED BY <1>3, <1>4, <1>5, <1>6 DEF Sound

(* A handler is done, or has its answer: the events that remain.           *)
LEMMA HandlerDone ==
  ASSUME Base, NEW h \in handlers, handlers' = handlers \ {h},
         NEW type, NEW name
  PROVE  Waiting(type, name)' <=> Waiting(type, name) /\ h.event # Ev(type, name)
<1>1. ASSUME NEW g \in handlers, g.event = Ev(type, name), h.event # Ev(type, name)
      PROVE  Waiting(type, name)'
  <2>1. g \in handlers'
    BY <1>1
  <2> QED BY <1>1, <2>1 DEF Waiting
<1>2. ASSUME NEW g \in handlers', g.event = Ev(type, name)
      PROVE  Waiting(type, name) /\ h.event # Ev(type, name)
  <2>1. g \in handlers /\ g # h
    BY <1>2
  <2>2. g.event # h.event
    BY <2>1 DEF Base, PollInv
  <2> QED BY <1>2, <2>1, <2>2 DEF Waiting
<1>3. ASSUME Waiting(type, name)' PROVE \E g \in handlers' : g.event = Ev(type, name)
  BY <1>3 DEF Waiting
<1>4. ASSUME Waiting(type, name) PROVE \E g \in handlers : g.event = Ev(type, name)
  BY <1>4 DEF Waiting
<1> QED BY <1>1, <1>2, <1>3, <1>4

LEMMA HandlerAnswered ==
  ASSUME Base, NEW h \in handlers, GetAccount(h)
  PROVE  \A type, name : Waiting(type, name)' <=> Waiting(type, name)
<1>1. \E g : g.event = h.event /\ handlers' = (handlers \ {h}) \cup {g}
  <2>1. h \in Processing
    BY DEF Base, TypeOK
  <2>2. [h EXCEPT !.account = Latest].event = h.event
    BY <2>1 DEF Processing
  <2> QED BY <2>2 DEF GetAccount
<1> QED BY <1>1 DEF Waiting

LEMMA SameChain ==
  ASSUME UNCHANGED <<chain, height>>
  PROVE  Versions' = Versions /\ Current' = Current /\ Latest' = Latest /\ WellKnown' = WellKnown
BY DEF Versions, Current, Latest, WellKnown

(* A smaller set of handlers, or the same.                                 *)
LEMMA FewerHandlers ==
  ASSUME Base, UNCHANGED <<chain, height, target, polling>>, handlers' \subseteq handlers
  PROVE  ChainInv' /\ PollInv' /\ handlers' \in SUBSET Processing
<1>1. Versions' = Versions /\ WellKnown' = WellKnown
  BY SameChain
<1>2. ChainInv'
  BY DEF Base, ChainInv
<1>3. PollInv'
  BY <1>1 DEF Base, PollInv
<1> QED BY <1>2, <1>3 DEF Base, TypeOK

---------------------------------------------------------------------------

LEMMA InitBase == Init => Base /\ Sound
<1> SUFFICES ASSUME Init PROVE Base /\ Sound
  OBVIOUS
<1>1. PICK a \in Genesis : chain = <<[account |-> a, events |-> {}]>>
  BY DEF Init
<1>2. a \in Account
  BY GenesisType
<1>3. /\ chain \in Seq([account : Account, events : SUBSET Event])
      /\ Len(chain) = 1 /\ DOMAIN chain = {1}
      /\ chain[1].account = a /\ chain[1].events = {}
  <2> DEFINE genesis == [account |-> a, events |-> {}]
  <2>1. genesis \in [account : Account, events : SUBSET Event] /\ genesis.account = a /\ genesis.events = {}
    BY <1>2
  <2>2. chain = <<genesis>>
    BY <1>1
  <2> HIDE DEF genesis
  <2> QED BY <2>1, <2>2
<1>4. /\ account = None /\ height = 0 /\ target = None /\ handlers = {}
      /\ \A c \in Contracts : contract[c] = None
      /\ \A k \in Keys : accountKey[k] = None
  BY DEF Init
<1>5. polling = FALSE /\ lost = FALSE
  BY DEF Init
<1>6. TypeOK
  <2>1. contract \in [Contracts -> Heights \cup {None}] /\ accountKey \in [Keys -> {"active", "revoked", None}]
    BY DEF Init
  <2>2. height \in Heights
    BY <1>4 DEF Heights
  <2>3. polling \in BOOLEAN /\ lost \in BOOLEAN
    BY <1>5
  <2> QED BY <1>3, <1>4, <2>1, <2>2, <2>3 DEF TypeOK
<1>7. ChainInv
  BY <1>3 DEF ChainInv
<1>8. PollInv
  BY <1>3, <1>4 DEF PollInv
<1>9. Current = a /\ Latest = a /\ WellKnown = a.exists /\ a \in Versions
  BY <1>3, <1>4 DEF Current, Latest, WellKnown, Versions
<1>10. CreatedInv
  BY <1>4, <1>5 DEF CreatedInv
<1>11. AccountInv
  BY <1>4, <1>9 DEF AccountInv, NotCreated
<1>12. ASSUME ~WellKnown
       PROVE  a = NoAccount
  BY <1>9, <1>12 DEF Genesis
<1>13. ASSUME NEW c \in Contracts PROVE ContractInv(c)
  <2>1. contract[c] = None /\ contract[c] # Absent
    BY <1>4 DEF Absent
  <2>2. CASE WellKnown
    BY <1>4, <2>1, <2>2 DEF ContractInv, NotCreated, Waiting
  <2>3. CASE ~WellKnown
    <3>1. a.contracts[c] = Absent
      BY <1>12, <2>3 DEF NoAccount
    <3>2. Shows(c)
      BY <1>9, <2>1, <3>1 DEF Shows, CodeOf
    <3> QED BY <1>4, <2>1, <3>2 DEF ContractInv, Waiting
  <2> QED BY <2>2, <2>3
<1>14. ASSUME NEW k \in Keys PROVE KeyInv(k)
  <2>1. accountKey[k] # "revoked" /\ accountKey[k] # "active"
    BY <1>4
  <2>2. ~WellKnown => Current.keys[k] # "active"
    BY <1>9, <1>12 DEF NoAccount
  <2> QED BY <1>4, <2>1, <2>2 DEF KeyInv, NotCreated
<1> QED BY <1>6, <1>7, <1>8, <1>10, <1>11, <1>13, <1>14 DEF Base, Sound

LEMMA MineStep ==
  ASSUME Base, Mine
  PROVE  Base' /\ (Sound => Sound')
<1>1. /\ TypeOK' /\ ChainInv'
      /\ Len(chain') = Len(chain) + 1
      /\ \A n \in 1..Len(chain) : chain'[n] = chain[n]
      /\ \A a \in Versions : a \in Versions'
      /\ Current' = Current /\ WellKnown' = WellKnown
  BY MineChain DEF Base
<1>2. UNCHANGED <<index, polling, target, height, handlers, lost>>
  BY DEF Mine
<1>3. Len(chain) \in Nat /\ (target # None => target \in Nat) /\ height \in Nat
  BY ChainTypes DEF Base, TypeOK, Heights
<1>4. PollInv'
  <2>1. ASSUME NEW h \in handlers'
        PROVE  /\ h.account # None => h.account \in Versions'
               /\ \/ WellKnown' /\ h.event = Ev("created", None)
                  \/ height' >= 1 /\ h.event \in chain'[height'].events
    <3>1. h \in handlers
      BY <1>2
    <3>2. CASE WellKnown /\ h.event = Ev("created", None)
      BY <1>1, <3>1, <3>2 DEF Base, PollInv
    <3>3. CASE height >= 1 /\ h.event \in chain[height].events
      <4>1. chain'[height'] = chain[height]
        BY <1>1, <1>2, <1>3, <3>3 DEF Base, PollInv
      <4> QED BY <1>1, <1>2, <3>1, <3>3, <4>1 DEF Base, PollInv
    <3> QED BY <3>1, <3>2, <3>3 DEF Base, PollInv
  <2> QED BY <1>1, <1>2, <1>3, <2>1 DEF Base, PollInv
<1>5. \A type, name : Waiting(type, name)' <=> Waiting(type, name)
  BY <1>2 DEF Waiting
<1>6. ASSUME NEW k \in Keys, Latest.keys[k] \in Gone PROVE Latest'.keys[k] \in Gone
  <2>1. Len(chain) \in DOMAIN chain' /\ Len(chain') \in DOMAIN chain' /\ Len(chain) <= Len(chain')
    <3>1. Len(chain') \in Nat /\ DOMAIN chain' = 1..Len(chain')
      BY <1>1, <1>3 DEF TypeOK
    <3> QED BY <1>1, <1>3, <3>1, ChainTypes DEF Base
  <2>2. Latest = chain'[Len(chain)].account
    BY <1>1, ChainTypes DEF Latest, Base
  <2> QED BY <1>1, <1>6, <2>1, <2>2 DEF ChainInv, Latest
<1>7. Sound => Sound'
  BY <1>1, <1>2, <1>5, <1>6, Waits
<1> QED BY <1>1, <1>4, <1>7 DEF Base

LEMMA BeginStep ==
  ASSUME Base, Begin
  PROVE  Base' /\ (Sound => Sound')
<1>1. UNCHANGED <<chain, index, height, lost>> /\ polling' = TRUE /\ target' = None
  BY DEF Begin
<1>2. handlers = {}
  BY DEF Begin, Base, PollInv
<1> DEFINE h == [event |-> Ev("created", None), account |-> None]
<1>3. handlers' = IF WellKnown THEN {h} ELSE {}
  BY DEF Begin, Handle
<1>4. Versions' = Versions /\ Current' = Current /\ Latest' = Latest /\ WellKnown' = WellKnown
  BY <1>1, SameChain
<1>5. h \in Processing
  BY DEF Processing, Event, Ev
<1>6. TypeOK'
  <2>1. polling' \in BOOLEAN
    BY <1>1
  <2> QED BY <1>1, <1>3, <1>5, <2>1 DEF Base, TypeOK, index
<1>7. ChainInv'
  BY <1>1 DEF Base, ChainInv
<1>8. PollInv'
  BY <1>1, <1>3, <1>4 DEF Base, PollInv
<1>9. ASSUME NEW type \in Changes, NEW name PROVE Waiting(type, name)' <=> Waiting(type, name)
  <2>1. h.event # Ev(type, name)
    BY DEF Changes, Ev
  <2> QED BY <1>2, <1>3, <2>1 DEF Waiting
<1>10. ~Waiting("created", None) /\ ~Waiting("balance", None)
  BY <1>2 DEF Waiting
<1>11. WellKnown => handlers' # {}
  BY <1>3
<1>12. Sound => Sound'
  BY <1>1, <1>4, <1>9, <1>10, <1>11, Waits
<1> QED BY <1>6, <1>7, <1>8, <1>12 DEF Base

LEMMA LatestBlockStep ==
  ASSUME Base, LatestBlock
  PROVE  Base' /\ (Sound => Sound')
<1>1. UNCHANGED <<chain, index, polling, height, handlers, lost>> /\ target' = Len(chain)
  BY DEF LatestBlock
<1>2. Len(chain) \in Heights
  BY DEF Base, ChainInv, Heights
<1>3. ChainInv' /\ PollInv'
  BY <1>1, <1>2, FewerHandlers, SameChain DEF Base, ChainInv, PollInv, Heights
<1>4. TypeOK'
  BY <1>1, <1>2 DEF Base, TypeOK, index
<1>5. \A type, name : Waiting(type, name)' <=> Waiting(type, name)
  BY <1>1 DEF Waiting
<1>6. Sound => Sound'
  BY <1>1, <1>5, SameChain, Waits
<1> QED BY <1>3, <1>4, <1>6 DEF Base

LEMMA GetAccountStep ==
  ASSUME Base, NEW h \in handlers, GetAccount(h)
  PROVE  Base' /\ (Sound => Sound')
<1>1. UNCHANGED <<chain, index, polling, target, height, lost>>
  BY DEF GetAccount
<1> DEFINE g == [h EXCEPT !.account = Latest]
<1>2. handlers' = (handlers \ {h}) \cup {g}
  BY DEF GetAccount
<1>3. h \in Processing /\ Latest \in Account /\ Latest \in Versions
  BY ChainTypes DEF Base, TypeOK
<1>4. g \in Processing /\ g.event = h.event /\ g.account = Latest
  BY <1>3 DEF Processing
<1>5. Versions' = Versions /\ Current' = Current /\ Latest' = Latest /\ WellKnown' = WellKnown
  BY <1>1, SameChain
<1> HIDE DEF g
<1>6. TypeOK'
  BY <1>1, <1>2, <1>4 DEF Base, TypeOK, index
<1>7. ChainInv'
  BY <1>1 DEF Base, ChainInv
<1>8. PollInv'
  BY <1>1, <1>2, <1>3, <1>4, <1>5 DEF Base, PollInv
<1>9. Sound => Sound'
  <2>1. \A type, name : Waiting(type, name)' <=> Waiting(type, name)
    BY HandlerAnswered
  <2>2. handlers # {}
    OBVIOUS
  <2>3. handlers' # {}
    BY <1>2
  <2> QED BY <1>1, <1>5, <2>1, <2>3, Waits
<1> QED BY <1>6, <1>7, <1>8, <1>9 DEF Base

---------------------------------------------------------------------------
(* The next block *)

Advance == ProcessBlock /\ height < target

LEMMA AdvanceChain ==
  ASSUME Base, Advance
  PROVE  /\ height' = height + 1 /\ height' \in 1..Len(chain) /\ height' \in Heights
         /\ UNCHANGED <<chain, index, polling, target, lost>>
         /\ polling /\ handlers = {}
         /\ handlers' = {[event |-> e, account |-> None] : e \in chain[height'].events}
         /\ Current' = chain[height'].account /\ Latest' = Latest /\ WellKnown' = WellKnown
         /\ \A a \in Versions : a \in Versions' \/ a = Current
         /\ Current' \in Versions'
         /\ \/ height' = 1 /\ Current' = Current /\ chain[height'].events = {}
            \/ height' \in 2..Len(chain) /\ Current = chain[height' - 1].account
<1>1. /\ height' = height + 1
      /\ UNCHANGED <<chain, index, polling, target, lost>>
      /\ polling /\ handlers = {}
      /\ handlers' = {[event |-> e, account |-> None] : e \in chain[height'].events}
  BY DEF Advance, ProcessBlock, Handle
<1>2. Len(chain) \in Nat \ {0} /\ DOMAIN chain = 1..Len(chain)
  BY ChainTypes DEF Base
<1>3. height \in Nat /\ target \in Heights /\ target <= Len(chain) /\ height < target
  BY DEF Advance, ProcessBlock, Base, TypeOK, PollInv, Heights
<1>4. height' \in 1..Len(chain) /\ height' \in Heights
  BY <1>1, <1>2, <1>3 DEF Heights
<1>5. Current' = chain[height'].account /\ Latest' = Latest /\ WellKnown' = WellKnown
  BY <1>1, <1>4 DEF Current, Latest, WellKnown
<1>6. ASSUME NEW a \in Versions PROVE a \in Versions' \/ a = Current
  <2>1. PICK m \in DOMAIN chain : height <= m /\ a = chain[m].account
    BY DEF Versions
  <2>2. CASE m = height
    BY <2>1, <2>2, <1>2 DEF Current
  <2>3. CASE m # height
    <3>1. m \in {n \in DOMAIN chain' : height' <= n}
      BY <1>1, <1>2, <1>3, <2>1, <2>3
    <3> QED BY <1>1, <2>1, <3>1 DEF Versions
  <2> QED BY <2>2, <2>3
<1>7. Current' \in Versions'
  <2>1. height' \in {n \in DOMAIN chain' : height' <= n}
    BY <1>1, <1>2, <1>4
  <2> QED BY <1>1, <1>5, <2>1 DEF Versions
<1>8. ASSUME height = 0
      PROVE  height' = 1 /\ Current' = Current /\ chain[height'].events = {}
  BY <1>1, <1>5, <1>8 DEF Current, Base, ChainInv
<1>9. ASSUME height # 0
      PROVE  height' \in 2..Len(chain) /\ Current = chain[height' - 1].account
  <2>1. height' \in 2..Len(chain) /\ height' - 1 = height
    BY <1>1, <1>3, <1>4, <1>9
  <2> QED BY <1>9, <2>1 DEF Current
<1>10. \A a \in Versions : a \in Versions' \/ a = Current
  BY <1>6
<1> QED BY <1>1, <1>4, <1>5, <1>7, <1>8, <1>9, <1>10

LEMMA AdvanceBase ==
  ASSUME Base, Advance
  PROVE  Base'
<1>1. /\ height' = height + 1 /\ height' \in 1..Len(chain) /\ height' \in Heights
      /\ UNCHANGED <<chain, index, polling, target, lost>> /\ polling
      /\ handlers' = {[event |-> e, account |-> None] : e \in chain[height'].events}
  BY AdvanceChain
<1>2. \A h \in handlers' : h.account = None /\ h.event \in chain[height'].events /\ h \in Processing
  <2>1. \A n \in DOMAIN chain : chain[n].events \subseteq Event
    BY ChainTypes DEF Base
  <2>2. height' \in DOMAIN chain
    BY <1>1, ChainTypes DEF Base
  <2> QED BY <1>1, <2>1, <2>2 DEF Processing
<1>3. TypeOK'
  BY <1>1, <1>2 DEF Base, TypeOK, index
<1>4. ChainInv'
  BY <1>1 DEF Base, ChainInv
<1>5. \A g, h \in handlers' : g.event = h.event => g = h
  BY <1>1
<1>6. PollInv'
  BY <1>1, <1>2, <1>5 DEF Base, PollInv
<1> QED BY <1>3, <1>4, <1>6 DEF Base

LEMMA AdvanceSound ==
  ASSUME Base, Sound, Advance
  PROVE  Sound'
<1>1. /\ height' = height + 1 /\ height' \in 1..Len(chain)
      /\ UNCHANGED <<chain, index, polling, target, lost>>
      /\ polling /\ handlers = {}
      /\ handlers' = {[event |-> e, account |-> None] : e \in chain[height'].events}
      /\ Latest' = Latest /\ WellKnown' = WellKnown
      /\ \A a \in Versions : a \in Versions' \/ a = Current
      /\ Current' \in Versions'
  BY AdvanceChain
<1>2. CASE height' = 1 /\ Current' = Current /\ chain[height'].events = {}
  <2>1. handlers' = {}
    BY <1>1, <1>2
  <2>2. \A a \in Versions : a \in Versions'
    BY <1>1, <1>2
  <2>3. \A type, name : Waiting(type, name)' <=> Waiting(type, name)
    BY <1>1, <2>1 DEF Waiting
  <2>4. CreatedInv' /\ ~NotCreated
    BY <1>1 DEF CreatedInv, Sound, NotCreated, index
  <2>5. UNCHANGED <<account, contract, accountKey>> /\ NotCreated' = NotCreated
    BY <1>1 DEF index, NotCreated
  <2>6. AccountInv'
    BY <1>2, <2>2, <2>3, <2>4, <2>5 DEF Sound, AccountInv
  <2>7. ASSUME NEW c \in Contracts PROVE ContractInv(c)'
    <3>1. ContractInv(c) /\ (Shows(c) => Shows(c)')
      BY <2>2, <2>5 DEF Sound, Shows, CodeOf
    <3> QED BY <1>2, <2>3, <2>5, <3>1 DEF ContractInv
  <2>8. ASSUME NEW k \in Keys PROVE KeyInv(k)'
    <3>1. KeyInv(k)
      BY DEF Sound
    <3> QED BY <1>1, <1>2, <2>2, <2>3, <2>5, <3>1 DEF KeyInv
  <2> QED BY <2>4, <2>6, <2>7, <2>8 DEF Sound
<1>3. CASE height' \in 2..Len(chain) /\ Current = chain[height' - 1].account
  <2> DEFINE n == height + 1
             E == chain[n].events
  <2>1. /\ n \in 2..Len(chain) /\ Current = chain[n - 1].account /\ Current' = chain[n].account
        /\ handlers' = {[event |-> e, account |-> None] : e \in E}
    BY <1>1, <1>3, AdvanceChain
  <2>2. \A type, name : ~Waiting(type, name)
    BY <1>1 DEF Waiting
  <2>3. \A type, name : Ev(type, name) \in E => Waiting(type, name)'
    <3> HIDE DEF n
    <3>1. ASSUME NEW e \in E PROVE \E h \in handlers' : h.event = e
      <4> DEFINE h == [event |-> e, account |-> None]
      <4>1. h \in handlers' /\ h.event = e
        BY <2>1
      <4> QED BY <4>1
    <3> QED BY <3>1 DEF Waiting
  <2>4. \A type, name : Waiting(type, name)' => Ev(type, name) \in E
    <3> HIDE DEF n
    <3>1. \A h \in handlers' : h.event \in E
      BY <2>1
    <3> QED BY <3>1 DEF Waiting
  <2>5. UNCHANGED <<account, contract, accountKey>> /\ NotCreated' = NotCreated /\ ~NotCreated
    BY <1>1 DEF index, NotCreated, Sound, CreatedInv
  <2> HIDE DEF n
  <2>6. CreatedInv'
    BY <2>5 DEF CreatedInv
  <2>7. AccountInv'
    <3>1. \/ Waiting("created", None)' \/ Waiting("balance", None)'
          \/ Current.exists /\ Current'.balance = Current.balance
      BY <2>1, <2>3, AccountEffects DEF Base
    <3>2. CASE Current.exists /\ Current'.balance = Current.balance
      <4>1. PICK a \in Versions : account = a.balance
        BY <2>2, <2>5, <3>2 DEF Sound, AccountInv
      <4>2. account = Current'.balance \/ a \in Versions'
        BY <1>1, <3>2, <4>1
      <4> QED BY <1>1, <2>5, <4>1, <4>2 DEF AccountInv
    <3> QED BY <3>1, <3>2 DEF AccountInv
  <2>8. ASSUME NEW c \in Contracts PROVE ContractInv(c)'
    <3> DEFINE before == Current.contracts[c]
               after == Current'.contracts[c]
    <3>1. /\ Waiting("contractAdded", c)' => before = Absent /\ after # Absent
          /\ Waiting("contractUpdated", c)' => before # Absent /\ after # Absent
          /\ Waiting("contractRemoved", c)' => before # Absent /\ after = Absent
          /\ \/ Waiting("contractAdded", c)' \/ Waiting("contractUpdated", c)'
             \/ Waiting("contractRemoved", c)'
             \/ after = before
      BY <2>1, <2>3, <2>4, ContractEffects DEF Base
    <3>2. Shows(c) /\ (before = Absent => contract[c] # Absent)
      BY <2>2, <2>5 DEF Sound, ContractInv
    <3>3. CodeOf(c)' = CodeOf(c)
      BY <2>5 DEF CodeOf
    <3>4. Shows(c)' \/ CodeOf(c) = before
      BY <1>1, <3>2, <3>3 DEF Shows
    <3>5. after = CodeOf(c) => Shows(c)'
      BY <1>1, <3>3 DEF Shows
    <3>6. CodeOf(c) = Absent => contract[c] = None \/ contract[c] = Absent
      BY DEF CodeOf
    <3>7. contract[c] = None => CodeOf(c) = Absent
      BY DEF CodeOf
    <3> HIDE DEF before, after
    <3>8. Waiting("contractAdded", c)' => contract[c] # Absent /\ (contract[c] = None \/ Shows(c)')
      BY <3>1, <3>2, <3>4, <3>6
    <3>9. Waiting("contractUpdated", c)' => (contract[c] = None => Shows(c)')
      BY <3>1, <3>4, <3>7
    <3>10. \/ Waiting("contractAdded", c)' \/ Waiting("contractUpdated", c)'
           \/ Waiting("contractRemoved", c)'
           \/ Shows(c)' /\ (after = Absent => contract[c] # Absent)
      BY <3>1, <3>2, <3>4, <3>5
    <3> QED BY <2>5, <3>8, <3>9, <3>10 DEF ContractInv, after
  <2>9. ASSUME NEW k \in Keys PROVE KeyInv(k)'
    <3> DEFINE before == Current.keys[k]
               after == Current'.keys[k]
    <3>1. /\ Waiting("keyAdded", k)' => before # "active"
          /\ Waiting("keyRemoved", k)' => after = "revoked"
          /\ Waiting("keyAdded", k)' \/ Waiting("keyRemoved", k)' \/ after = before
      BY <2>1, <2>3, <2>4, KeyEffects DEF Base
    <3>2. KeyInv(k)
      BY DEF Sound
    <3>3. accountKey[k] = "revoked" => Latest'.keys[k] \in Gone
      BY <1>1, <3>2 DEF KeyInv
    <3>4. accountKey[k] = "active" => Waiting("keyRemoved", k)' \/ \E a \in Versions' : a.keys[k] = "active"
      <4> SUFFICES ASSUME accountKey[k] = "active", ~Waiting("keyRemoved", k)'
                   PROVE  \E a \in Versions' : a.keys[k] = "active"
        OBVIOUS
      <4>1. PICK a \in Versions : a.keys[k] = "active"
        BY <2>2, <3>2 DEF KeyInv
      <4>2. CASE a = Current
        <5>1. before = "active" /\ after = "active"
          BY <3>1, <4>1, <4>2
        <5> QED BY <1>1, <5>1
      <4> QED BY <1>1, <4>1, <4>2
    <3>5. after = "active" => Waiting("keyAdded", k)' \/ accountKey[k] # None
      BY <2>2, <2>5, <3>1, <3>2 DEF KeyInv
    <3> QED BY <2>5, <3>3, <3>4, <3>5 DEF KeyInv
  <2> QED BY <2>6, <2>7, <2>8, <2>9 DEF Sound
<1> QED BY <1>2, <1>3, AdvanceChain

LEMMA ProcessBlockStep ==
  ASSUME Base, ProcessBlock
  PROVE  Base' /\ (Sound => Sound')
<1>1. CASE height < target
  BY <1>1, AdvanceBase, AdvanceSound DEF Advance
<1>2. CASE ~(height < target)
  <2>1. UNCHANGED <<chain, index, target, lost, height, handlers>> /\ polling' = FALSE /\ handlers = {}
    BY <1>2 DEF ProcessBlock
  <2>2. Versions' = Versions /\ Current' = Current /\ Latest' = Latest /\ WellKnown' = WellKnown
    BY <2>1, SameChain
  <2>3. TypeOK'
    <3>1. polling' \in BOOLEAN
      BY <2>1
    <3> QED BY <2>1, <3>1 DEF Base, TypeOK, index
  <2>4. ChainInv' /\ PollInv'
    BY <2>1, <2>2 DEF Base, ChainInv, PollInv
  <2>5. \A type, name : Waiting(type, name)' <=> Waiting(type, name)
    BY <2>1 DEF Waiting
  <2>6. Sound => Sound'
    BY <2>1, <2>2, <2>5, Waits
  <2> QED BY <2>3, <2>4, <2>6 DEF Base
<1> QED BY <1>1, <1>2

---------------------------------------------------------------------------
(* processEvent *)

(* A handler that ends, of an event e.                                     *)
Ends(h) ==
    /\ h \in handlers /\ handlers' = handlers \ {h}
    /\ UNCHANGED <<chain, polling, target, height, lost>>

LEMMA EventEnds ==
  ASSUME Base, NEW h \in handlers, HandleEvent(h)
  PROVE  Ends(h)
BY DEF HandleEvent, Ends, Answered, CreateAccount, UpdateAccountBalance, OnAccountContractAdded,
       OnAccountContractUpdated, OnAccountContractRemoved, OnAccountKeyAdded, OnAccountKeyRemoved

LEMMA HandlerFacts ==
  ASSUME Base, NEW h \in handlers
  PROVE  /\ h \in Processing /\ h.event \in Event
         /\ h.account # None => h.account \in Versions /\ h.account \in Account
         /\ h.event.type # "created" =>
               height \in 2..Len(chain) /\ h.event \in chain[height].events
<1>1. h \in Processing
  BY DEF Base, TypeOK
<1>2. h.event \in Event
  BY <1>1 DEF Processing
<1>3. h.account # None => h.account \in Versions /\ h.account \in Account
  BY ChainTypes DEF Base, PollInv
<1>4. ASSUME h.event.type # "created"
      PROVE  height \in 2..Len(chain) /\ h.event \in chain[height].events
  <2>1. height >= 1 /\ h.event \in chain[height].events
    BY <1>4 DEF Base, PollInv, Ev
  <2>2. height \in DOMAIN chain
    BY <2>1, ChainTypes DEF Base, PollInv, TypeOK, Heights
  <2> QED BY <2>1, <2>2, BlockEffects DEF Base
<1> QED BY <1>1, <1>2, <1>3, <1>4

(* The current state of the account, after the block of the handler.       *)
LEMMA CurrentBlock ==
  ASSUME Base, height \in 2..Len(chain)
  PROVE  Current = chain[height].account /\ Current \in Versions
BY ChainTypes DEF Base, Current

LEMMA EndsSame ==
  ASSUME Base, NEW h, Ends(h)
  PROVE  /\ Versions' = Versions /\ Current' = Current /\ Latest' = Latest /\ WellKnown' = WellKnown
         /\ ChainInv' /\ PollInv' /\ handlers' \in SUBSET Processing
         /\ \A type, name : Waiting(type, name)' <=> Waiting(type, name) /\ h.event # Ev(type, name)
<1>1. handlers' \subseteq handlers
  BY DEF Ends
<1> QED BY <1>1, SameChain, FewerHandlers, HandlerDone DEF Ends

LEMMA ContractLeft ==
  ASSUME Base, Sound, NEW h, Ends(h), ~NotCreated, NEW c \in Contracts, contract'[c] = contract[c],
         h.event \notin {Ev("contractAdded", c), Ev("contractUpdated", c), Ev("contractRemoved", c)}
  PROVE  ContractInv(c)'
<1>1. ContractInv(c)
  BY DEF Sound
<1>2. Shows(c)' <=> Shows(c)
  BY EndsSame DEF Shows, CodeOf
<1>3. \A type \in {"contractAdded", "contractUpdated", "contractRemoved"} :
        Waiting(type, c)' <=> Waiting(type, c)
  BY EndsSame
<1> QED BY <1>1, <1>2, <1>3, EndsSame DEF ContractInv

LEMMA KeyLeft ==
  ASSUME Base, Sound, NEW h, Ends(h), ~NotCreated, NEW k \in Keys, accountKey'[k] = accountKey[k],
         h.event \notin {Ev("keyAdded", k), Ev("keyRemoved", k)}
  PROVE  KeyInv(k)'
<1>1. KeyInv(k)
  BY DEF Sound
<1>2. \A type \in {"keyAdded", "keyRemoved"} : Waiting(type, k)' <=> Waiting(type, k)
  BY EndsSame
<1> QED BY <1>1, <1>2, EndsSame DEF KeyInv

LEMMA AccountLeft ==
  ASSUME Base, Sound, NEW h, Ends(h), ~NotCreated, UNCHANGED account,
         h.event \notin {Ev("created", None), Ev("balance", None)}
  PROVE  CreatedInv' /\ AccountInv'
<1>1. AccountInv
  BY DEF Sound
<1>2. \A type \in {"created", "balance"} : Waiting(type, None)' <=> Waiting(type, None)
  BY EndsSame
<1>3. ~NotCreated'
  BY EndsSame DEF NotCreated
<1> QED BY <1>1, <1>2, <1>3, EndsSame DEF AccountInv, CreatedInv

LEMMA AccountWritten ==
  ASSUME Base, NEW h, Ends(h), NEW a \in Versions, account' = a.balance
  PROVE  ~NotCreated' /\ CreatedInv' /\ AccountInv'
<1>1. a.balance \in Heights
  BY ChainTypes DEF Base, Account
<1>2. account' # None
  BY <1>1 DEF Heights
<1> QED BY <1>2, EndsSame DEF NotCreated, CreatedInv, AccountInv

(* Only the well-known account is created before its index has anything.   *)
LEMMA OnlyCreation ==
  ASSUME Base, Sound, NotCreated, NEW h \in handlers
  PROVE  h.event.type = "created"
BY HandlerFacts DEF Sound, CreatedInv

LEMMA CreateAccountStep ==
  ASSUME Base, NEW h \in handlers, CreateAccount(h)
  PROVE  Base' /\ (Sound => Sound')
<1>1. Ends(h)
  BY DEF CreateAccount, Answered, Ends
<1>2. h.account \in Versions /\ h.account \in Account /\ h.event.type = "created"
  BY HandlerFacts DEF CreateAccount, Answered
<1>3. /\ account' = h.account.balance
      /\ accountKey' = [k \in Keys |-> Create(accountKey[k], KeyEntity(h.account, k))]
      /\ contract' = [c \in Contracts |->
             IF h.account.contracts[c] = Absent THEN contract[c]
             ELSE Create(contract[c], h.account.contracts[c])]
  BY DEF CreateAccount
<1>4. \A c \in Contracts : h.account.contracts[c] \in Heights /\ h.account.contracts[c] # None
  <2>1. h.account.contracts \in [Contracts -> Heights]
    BY <1>2 DEF Account
  <2>2. \A n \in Heights : n # None
    BY DEF Heights
  <2> QED BY <2>1, <2>2
<1>5. \A k \in Keys : KeyEntity(h.account, k) \in {"active", "revoked", None}
  BY <1>2 DEF KeyEntity, Account
<1>6. Base'
  <2>1. account' \in Heights
    BY <1>2, <1>3 DEF Account
  <2>2. contract' \in [Contracts -> Heights \cup {None}]
    BY <1>3, <1>4 DEF Create, Base, TypeOK
  <2>3. accountKey' \in [Keys -> {"active", "revoked", None}]
    BY <1>3, <1>5 DEF Create, Base, TypeOK
  <2>4. UNCHANGED <<chain, polling, target, height, lost>>
    BY <1>1 DEF Ends
  <2> QED BY <1>1, <2>1, <2>2, <2>3, <2>4, EndsSame DEF Base, TypeOK
<1>7. ASSUME Sound PROVE Sound'
  <2>1. ~NotCreated' /\ CreatedInv' /\ AccountInv'
    BY <1>1, <1>2, <1>3, AccountWritten
  <2>2. /\ Versions' = Versions /\ Current' = Current /\ Latest' = Latest
        /\ \A type \in Changes : \A name : Waiting(type, name)' <=> Waiting(type, name)
    <3>1. \A type \in Changes : \A name : h.event # Ev(type, name)
      BY <1>2 DEF Ev, Changes
    <3> QED BY <1>1, <3>1, EndsSame
  <2>3. ASSUME NEW c \in Contracts PROVE ContractInv(c)'
    <3>1. ContractInv(c)
      BY <1>7 DEF Sound
    <3>2. /\ Waiting("contractAdded", c)' <=> Waiting("contractAdded", c)
          /\ Waiting("contractUpdated", c)' <=> Waiting("contractUpdated", c)
          /\ Waiting("contractRemoved", c)' <=> Waiting("contractRemoved", c)
      BY <2>2 DEF Changes
    <3>3. CASE contract[c] # None
      <4>1. contract'[c] = contract[c] /\ ~NotCreated
        BY <1>3, <1>7, <3>3 DEF Create, Sound, CreatedInv
      <4>2. Shows(c)' <=> Shows(c)
        BY <2>2, <4>1 DEF Shows, CodeOf
      <4> QED BY <2>2, <3>1, <3>2, <3>3, <4>1, <4>2 DEF ContractInv
    <3>4. CASE contract[c] = None /\ h.account.contracts[c] = Absent
      <4>1. contract'[c] = None /\ contract'[c] # Absent
        BY <1>3, <3>4 DEF Absent
      <4>2. Shows(c)'
        BY <1>2, <2>2, <3>4, <4>1 DEF Shows, CodeOf
      <4> QED BY <4>1, <4>2 DEF ContractInv
    <3>5. CASE contract[c] = None /\ h.account.contracts[c] # Absent
      <4>1. contract'[c] = h.account.contracts[c] /\ contract'[c] # None
        BY <1>3, <1>4, <3>5 DEF Create
      <4>2. Shows(c)'
        BY <1>2, <2>2, <4>1 DEF Shows, CodeOf
      <4> QED BY <3>5, <4>1, <4>2 DEF ContractInv
    <3> QED BY <3>3, <3>4, <3>5
  <2>4. ASSUME NEW k \in Keys PROVE KeyInv(k)'
    <3>1. KeyInv(k)
      BY <1>7 DEF Sound
    <3>2. /\ Waiting("keyAdded", k)' <=> Waiting("keyAdded", k)
          /\ Waiting("keyRemoved", k)' <=> Waiting("keyRemoved", k)
      BY <2>2 DEF Changes
    <3>3. CASE accountKey[k] # None
      <4>1. accountKey'[k] = accountKey[k]
        BY <1>3, <3>3 DEF Create
      <4> QED BY <2>2, <3>1, <3>2, <3>3, <4>1 DEF KeyInv
    <3>4. CASE accountKey[k] = None
      <4>1. accountKey'[k] = KeyEntity(h.account, k)
        BY <1>3, <3>4 DEF Create
      <4>2. /\ accountKey'[k] = "revoked" => h.account.keys[k] \in Gone
            /\ accountKey'[k] = "active" => h.account.keys[k] = "active"
            /\ accountKey'[k] = None => h.account.keys[k] = "absent"
        <5>1. h.account.keys[k] \in {"absent", "active", "revoked", "added again"}
          BY <1>2 DEF Account
        <5> QED BY <4>1, <5>1 DEF KeyEntity, Gone
      <4>3. /\ Current.keys[k] # "absent" => h.account.keys[k] # "absent"
            /\ h.account.keys[k] \in Gone => Latest.keys[k] \in Gone
        BY <1>2, LaterKeys DEF Base
      <4> QED BY <1>2, <2>2, <4>2, <4>3 DEF KeyInv
    <3> QED BY <3>3, <3>4
  <2> QED BY <2>1, <2>3, <2>4 DEF Sound
<1> QED BY <1>6, <1>7

LEMMA BalanceStep ==
  ASSUME Base, NEW h \in handlers, UpdateAccountBalance(h)
  PROVE  Base' /\ (Sound => Sound')
<1>1. Ends(h)
  BY DEF UpdateAccountBalance, Answered, Ends
<1>2. h.account \in Versions /\ h.account \in Account /\ h.event.type = "balance"
  BY HandlerFacts DEF UpdateAccountBalance, Answered
<1>3. account' = h.account.balance /\ UNCHANGED <<contract, accountKey>>
  BY DEF UpdateAccountBalance
<1>4. Base'
  <2>1. account' \in Heights
    BY <1>2, <1>3 DEF Account
  <2>2. UNCHANGED <<chain, polling, target, height, lost>>
    BY <1>1 DEF Ends
  <2> QED BY <1>1, <1>3, <2>1, <2>2, EndsSame DEF Base, TypeOK
<1>5. ASSUME Sound PROVE Sound'
  <2>1. ~NotCreated
    BY <1>2, <1>5, OnlyCreation
  <2>2. ASSUME NEW c \in Contracts PROVE ContractInv(c)'
    BY <1>1, <1>2, <1>3, <1>5, <2>1, ContractLeft DEF Ev
  <2>3. ASSUME NEW k \in Keys PROVE KeyInv(k)'
    BY <1>1, <1>2, <1>3, <1>5, <2>1, KeyLeft DEF Ev
  <2> QED BY <1>1, <1>2, <1>3, <2>2, <2>3, AccountWritten DEF Sound
<1> QED BY <1>4, <1>5

(* A handler that writes one contract.                                     *)
LEMMA ContractWritten ==
  ASSUME Base, NEW h \in handlers, Ends(h), NEW c \in Contracts, NEW value \in Heights \cup {None},
         h.event \in {Ev("contractAdded", c), Ev("contractUpdated", c), Ev("contractRemoved", c)},
         contract' = [contract EXCEPT ![c] = value], UNCHANGED <<account, accountKey>>,
         Sound => ContractInv(c)'
  PROVE  Base' /\ (Sound => Sound')
<1>1. contract' \in [Contracts -> Heights \cup {None}] /\ \A d \in Contracts \ {c} : contract'[d] = contract[d]
  BY DEF Base, TypeOK
<1>2. Base'
  BY <1>1, EndsSame DEF Base, TypeOK, Ends
<1>3. ASSUME Sound PROVE Sound'
  <2>1. ~NotCreated
    BY <1>3, OnlyCreation DEF Ev
  <2>2. CreatedInv' /\ AccountInv'
    BY <1>3, <2>1, AccountLeft DEF Ev
  <2>3. ASSUME NEW d \in Contracts \ {c} PROVE ContractInv(d)'
    BY <1>1, <1>3, <2>1, ContractLeft DEF Ev
  <2>4. ASSUME NEW k \in Keys PROVE KeyInv(k)'
    BY <1>3, <2>1, KeyLeft DEF Ev
  <2> QED BY <1>3, <2>2, <2>3, <2>4 DEF Sound
<1> QED BY <1>2, <1>3

LEMMA ContractStep ==
  ASSUME Base, NEW h \in handlers,
         OnAccountContractAdded(h) \/ OnAccountContractUpdated(h) \/ OnAccountContractRemoved(h)
  PROVE  Base' /\ (Sound => Sound')
<1> DEFINE c == h.event.name
<1>1. Ends(h) /\ UNCHANGED <<account, accountKey>>
  BY DEF OnAccountContractAdded, OnAccountContractUpdated, OnAccountContractRemoved, Answered,
         SetContract, Ends
<1>2. /\ c \in Contracts /\ h.event = Ev(h.event.type, c)
      /\ h.event.type \in {"contractAdded", "contractUpdated", "contractRemoved"}
  BY HandlerFacts, EventIs
     DEF OnAccountContractAdded, OnAccountContractUpdated, OnAccountContractRemoved, Answered
<1>3. h.account \in Versions /\ h.account \in Account
  BY HandlerFacts
     DEF OnAccountContractAdded, OnAccountContractUpdated, OnAccountContractRemoved, Answered
<1>4. Code(h) \in Heights /\ Code(h) = h.account.contracts[c] /\ Code(h) # None
  <2>1. h.account.contracts \in [Contracts -> Heights]
    BY <1>3 DEF Account
  <2>2. h.account.contracts[c] \in Heights
    BY <1>2, <2>1
  <2> QED BY <2>2 DEF Code, Heights
<1>5. height \in 2..Len(chain) /\ Ev(h.event.type, c) \in chain[height].events
  BY <1>2, HandlerFacts
<1>6. Current = chain[height].account /\ Current \in Versions
  BY <1>5, CurrentBlock
<1>7. contract[c] \in Heights \cup {None} /\ DOMAIN contract = Contracts
  BY <1>2 DEF Base, TypeOK
<1>8. Versions' = Versions /\ Current' = Current
  BY <1>1, EndsSame
<1>9. /\ Waiting("contractAdded", c)' => /\ Waiting("contractAdded", c)
                                         /\ Ev("contractAdded", c) \in chain[height].events
                                         /\ h.event # Ev("contractAdded", c)
      /\ Waiting("contractUpdated", c)' => /\ Waiting("contractUpdated", c)
                                           /\ h.event # Ev("contractUpdated", c)
  <2>1. /\ Waiting("contractAdded", c)' => Waiting("contractAdded", c) /\ h.event # Ev("contractAdded", c)
        /\ Waiting("contractUpdated", c)' => Waiting("contractUpdated", c) /\ h.event # Ev("contractUpdated", c)
    BY <1>1, EndsSame
  <2>2. ASSUME Waiting("contractAdded", c) PROVE Ev("contractAdded", c) \in chain[height].events
    <3>1. PICK g \in handlers : g.event = Ev("contractAdded", c)
      BY <2>2 DEF Waiting
    <3> QED BY <3>1, HandlerFacts DEF Ev
  <2> QED BY <2>1, <2>2
<1> HIDE DEF c
<1>10. CASE OnAccountContractAdded(h)
  <2> DEFINE value == Create(contract[c], Code(h))
  <2>1. h.event = Ev("contractAdded", c) /\ contract' = [contract EXCEPT ![c] = value]
    BY <1>2, <1>10 DEF OnAccountContractAdded, Answered, SetContract, c
  <2>2. value \in Heights /\ value # None
    BY <1>4, <1>7 DEF Create
  <2>3. ASSUME Sound PROVE ContractInv(c)'
    <3>1. contract[c] # Absent /\ (contract[c] = None \/ Shows(c))
      BY <1>2, <2>1, <2>3 DEF Sound, ContractInv, Waiting
    <3>2. contract'[c] = value
      BY <1>2, <1>7, <2>1
    <3>3. Shows(c)'
      BY <1>3, <1>4, <1>8, <2>2, <3>1, <3>2 DEF Shows, CodeOf, Create
    <3>4. Current.contracts[c] # Absent
      BY <1>2, <1>5, <1>6, <2>1, ContractEffects DEF Base, Ev
    <3> QED BY <1>8, <1>9, <2>1, <2>2, <3>2, <3>3, <3>4 DEF ContractInv
  <2> HIDE DEF value
  <2> QED BY <1>1, <1>2, <2>1, <2>2, <2>3, ContractWritten
<1>11. CASE OnAccountContractUpdated(h)
  <2> DEFINE value == IF contract[c] = None THEN None ELSE Code(h)
  <2>1. h.event = Ev("contractUpdated", c) /\ contract' = [contract EXCEPT ![c] = value]
    BY <1>2, <1>11 DEF OnAccountContractUpdated, Answered, SetContract, c
  <2>2. value \in Heights \cup {None}
    BY <1>4
  <2>3. ASSUME Sound PROVE ContractInv(c)'
    <3>1. contract[c] = None => Shows(c)
      BY <1>2, <2>1, <2>3 DEF Sound, ContractInv, Waiting
    <3>2. contract'[c] = value
      BY <1>2, <1>7, <2>1
    <3>3. Shows(c)'
      BY <1>3, <1>4, <1>8, <3>1, <3>2 DEF Shows, CodeOf
    <3>4. Ev("contractUpdated", c) \in chain[height].events
      BY <1>5, <2>1 DEF Ev
    <3>5. Current.contracts[c] # Absent /\ Ev("contractAdded", c) \notin chain[height].events
      BY <1>2, <1>5, <1>6, <3>4, ContractEffects DEF Base
    <3> QED BY <1>8, <1>9, <2>1, <3>2, <3>3, <3>5 DEF ContractInv
  <2> HIDE DEF value
  <2> QED BY <1>1, <1>2, <2>1, <2>2, <2>3, ContractWritten
<1>12. CASE OnAccountContractRemoved(h)
  <2>1. h.event = Ev("contractRemoved", c) /\ contract' = [contract EXCEPT ![c] = None]
    BY <1>2, <1>12 DEF OnAccountContractRemoved, Answered, SetContract, c
  <2>2. contract'[c] = None /\ None # Absent
    BY <1>2, <1>7, <2>1 DEF Absent
  <2>3. Ev("contractRemoved", c) \in chain[height].events
    BY <1>5, <2>1 DEF Ev
  <2>4. Current.contracts[c] = Absent /\ Ev("contractAdded", c) \notin chain[height].events
    BY <1>2, <1>5, <1>6, <2>3, ContractEffects DEF Base
  <2>5. Shows(c)'
    BY <1>6, <1>8, <2>2, <2>4 DEF Shows, CodeOf
  <2>6. ContractInv(c)'
    BY <1>9, <2>2, <2>4, <2>5 DEF ContractInv
  <2>7. None \in Heights \cup {None}
    OBVIOUS
  <2> QED BY <1>1, <1>2, <2>1, <2>6, <2>7, ContractWritten
<1> QED BY <1>10, <1>11, <1>12

(* A handler that writes one key.                                          *)
LEMMA KeyWritten ==
  ASSUME Base, NEW h \in handlers, Ends(h), NEW k \in Keys, NEW value \in {"active", "revoked", None},
         h.event \in {Ev("keyAdded", k), Ev("keyRemoved", k)},
         accountKey' = [accountKey EXCEPT ![k] = value], UNCHANGED <<account, contract>>,
         Sound => KeyInv(k)'
  PROVE  Base' /\ (Sound => Sound')
<1>1. accountKey' \in [Keys -> {"active", "revoked", None}] /\ \A d \in Keys \ {k} : accountKey'[d] = accountKey[d]
  BY DEF Base, TypeOK
<1>2. Base'
  BY <1>1, EndsSame DEF Base, TypeOK, Ends
<1>3. ASSUME Sound PROVE Sound'
  <2>1. ~NotCreated
    BY <1>3, OnlyCreation DEF Ev
  <2>2. CreatedInv' /\ AccountInv'
    BY <1>3, <2>1, AccountLeft DEF Ev
  <2>3. ASSUME NEW d \in Keys \ {k} PROVE KeyInv(d)'
    BY <1>1, <1>3, <2>1, KeyLeft DEF Ev
  <2>4. ASSUME NEW c \in Contracts PROVE ContractInv(c)'
    BY <1>3, <2>1, ContractLeft DEF Ev
  <2> QED BY <1>3, <2>2, <2>3, <2>4 DEF Sound
<1> QED BY <1>2, <1>3

LEMMA KeyStep ==
  ASSUME Base, NEW h \in handlers, OnAccountKeyAdded(h) \/ OnAccountKeyRemoved(h)
  PROVE  Base' /\ (Sound => Sound')
<1> DEFINE k == h.event.name
<1>1. Ends(h) /\ UNCHANGED <<account, contract>>
  BY DEF OnAccountKeyAdded, OnAccountKeyRemoved, Answered, Ends
<1>2. k \in Keys /\ h.event = Ev(h.event.type, k) /\ h.event.type \in {"keyAdded", "keyRemoved"}
  BY HandlerFacts, EventIs DEF OnAccountKeyAdded, OnAccountKeyRemoved, Answered
<1>3. height \in 2..Len(chain) /\ Ev(h.event.type, k) \in chain[height].events
  BY <1>2, HandlerFacts
<1>4. Current = chain[height].account /\ Current \in Versions
  BY <1>3, CurrentBlock
<1>5. accountKey[k] \in {"active", "revoked", None} /\ DOMAIN accountKey = Keys
  BY <1>2 DEF Base, TypeOK
<1>6. Versions' = Versions /\ Current' = Current /\ Latest' = Latest
  BY <1>1, EndsSame
<1>7. \A type : Waiting(type, k)' <=> Waiting(type, k) /\ h.event # Ev(type, k)
  BY <1>1, EndsSame
<1> HIDE DEF k
<1>8. CASE OnAccountKeyAdded(h)
  <2> DEFINE value == Create(accountKey[k], KeyEntity(h.account, k))
  <2>1. h.event = Ev("keyAdded", k) /\ accountKey' = [accountKey EXCEPT ![k] = value]
    BY <1>2, <1>8 DEF OnAccountKeyAdded, Answered, k
  <2>2. h.account \in Versions /\ h.account.keys[k] \in {"absent", "active", "revoked", "added again"}
    BY <1>2, <1>8, HandlerFacts DEF OnAccountKeyAdded, Answered, Account
  <2>3. /\ KeyEntity(h.account, k) \in {"active", "revoked", None}
        /\ KeyEntity(h.account, k) = "revoked" => h.account.keys[k] \in Gone
        /\ KeyEntity(h.account, k) = "active" => h.account.keys[k] = "active"
        /\ KeyEntity(h.account, k) = None => h.account.keys[k] = "absent"
    BY <2>2 DEF KeyEntity, Gone
  <2>4. value \in {"active", "revoked", None}
    BY <1>5, <2>3 DEF Create
  <2>5. ASSUME Sound PROVE KeyInv(k)'
    <3>1. KeyInv(k)
      BY <1>2, <2>5 DEF Sound
    <3>2. accountKey'[k] = value
      BY <1>2, <1>5, <2>1
    <3>3. /\ Current.keys[k] # "absent" => h.account.keys[k] # "absent"
          /\ h.account.keys[k] \in Gone => Latest.keys[k] \in Gone
      BY <1>2, <2>2, LaterKeys DEF Base
    <3>4. Waiting("keyRemoved", k)' <=> Waiting("keyRemoved", k)
      <4>1. h.event # Ev("keyRemoved", k)
        BY <2>1 DEF Ev
      <4>2. Waiting("keyRemoved", k)' <=> Waiting("keyRemoved", k) /\ h.event # Ev("keyRemoved", k)
        BY <1>7
      <4> QED BY <4>1, <4>2
    <3>5. CASE accountKey[k] # None
      <4>1. accountKey'[k] = accountKey[k]
        BY <3>2, <3>5 DEF Create
      <4> QED BY <1>6, <3>1, <3>4, <3>5, <4>1 DEF KeyInv
    <3>6. CASE accountKey[k] = None
      <4>1. accountKey'[k] = KeyEntity(h.account, k)
        BY <3>2, <3>6 DEF Create
      <4> QED BY <1>6, <2>2, <2>3, <3>3, <4>1 DEF KeyInv
    <3> QED BY <3>5, <3>6
  <2> HIDE DEF value
  <2> QED BY <1>1, <1>2, <2>1, <2>4, <2>5, KeyWritten
<1>9. CASE OnAccountKeyRemoved(h)
  <2>1. h.event = Ev("keyRemoved", k) /\ accountKey' = [accountKey EXCEPT ![k] = None]
    BY <1>2, <1>9 DEF OnAccountKeyRemoved, k
  <2>2. accountKey'[k] = None
    BY <1>2, <1>5, <2>1
  <2>3. Ev("keyRemoved", k) \in chain[height].events
    BY <1>3, <2>1 DEF Ev
  <2>4. Current.keys[k] = "revoked"
    BY <1>2, <1>3, <1>4, <2>3, KeyEffects DEF Base
  <2>5. KeyInv(k)'
    BY <1>6, <2>2, <2>4 DEF KeyInv
  <2>6. None \in {"active", "revoked", None}
    OBVIOUS
  <2> QED BY <1>1, <1>2, <2>1, <2>5, <2>6, KeyWritten
<1> QED BY <1>8, <1>9

---------------------------------------------------------------------------

LEMMA Stepwise ==
  ASSUME Base, ~lost => Sound, [Next]_vars
  PROVE  Base' /\ (~lost' => Sound')
<1>1. CASE Mine
  BY <1>1, MineStep DEF Mine
<1>2. CASE Begin
  BY <1>2, BeginStep DEF Begin
<1>3. CASE LatestBlock
  BY <1>3, LatestBlockStep DEF LatestBlock
<1>4. CASE ProcessBlock
  BY <1>4, ProcessBlockStep DEF ProcessBlock
<1>5. ASSUME NEW h \in handlers, GetAccount(h) PROVE Base' /\ (~lost' => Sound')
  BY <1>5, GetAccountStep DEF GetAccount
<1>6. ASSUME NEW h \in handlers, GetAccountFails(h) PROVE Base' /\ (~lost' => Sound')
  <2>1. UNCHANGED <<chain, index, polling, target, height>> /\ handlers' \subseteq handlers /\ lost' = TRUE
    BY <1>6 DEF GetAccountFails
  <2>2. ChainInv' /\ PollInv' /\ handlers' \in SUBSET Processing
    BY <2>1, FewerHandlers
  <2>3. lost' \in BOOLEAN
    BY <2>1
  <2>4. TypeOK'
    BY <2>1, <2>2, <2>3 DEF Base, TypeOK, index
  <2> QED BY <2>1, <2>2, <2>4 DEF Base
<1>7. ASSUME NEW h \in handlers, HandleEvent(h) PROVE Base' /\ (~lost' => Sound')
  <2>1. UNCHANGED lost
    BY <1>7, EventEnds DEF Ends
  <2>2. Base' /\ (Sound => Sound')
    BY <1>7, CreateAccountStep, BalanceStep, ContractStep, KeyStep DEF HandleEvent
  <2> QED BY <2>1, <2>2
<1>8. CASE UNCHANGED vars
  <2>1. UNCHANGED <<chain, index, polling, target, height, handlers, lost>>
    BY <1>8 DEF vars
  <2>2. Versions' = Versions /\ Current' = Current /\ Latest' = Latest /\ WellKnown' = WellKnown
    BY <2>1, SameChain
  <2>3. Base'
    BY <2>1, <2>2 DEF Base, TypeOK, ChainInv, PollInv, index
  <2>4. \A type, name : Waiting(type, name)' <=> Waiting(type, name)
    BY <2>1 DEF Waiting
  <2>5. Sound => Sound'
    BY <2>1, <2>2, <2>4, Waits
  <2> QED BY <2>1, <2>3, <2>5
<1> QED BY <1>1, <1>2, <1>3, <1>4, <1>5, <1>6, <1>7, <1>8 DEF Next, Step

(* While no handler failed, every reachable state is sound: each entry of  *)
(* the index shows what a handler can have read, or its event waits.       *)
THEOREM Invariant == Spec => [](Base /\ (~lost => Sound))
<1>1. Init => Base /\ (~lost => Sound)
  BY InitBase
<1>2. Base /\ (~lost => Sound) /\ [Next]_vars => (Base /\ (~lost => Sound))'
  <2> SUFFICES ASSUME Base, ~lost => Sound, [Next]_vars PROVE Base' /\ (~lost' => Sound')
    OBVIOUS
  <2> QED BY Stepwise
<1> QED BY <1>1, <1>2, PTL DEF Spec

(* Type correctness: the index holds values an account can have had, and   *)
(* what waits are events of the chain.                                     *)
THEOREM TypeCorrect == Spec => []TypeOK
<1>1. Base => TypeOK
  BY DEF Base
<1> QED BY <1>1, Invariant, PTL

(* What the invariant says when nothing waits and no block is left.        *)
LEMMA PollDone ==
  ASSUME Base, ~lost => Sound
  PROVE  UpToDateAfterPoll
<1> SUFFICES ASSUME ~polling, height = Len(chain), Sound PROVE UpToDate
  BY DEF UpToDateAfterPoll
<1>1. handlers = {}
  BY DEF Base, PollInv
<1>2. height \in Nat \ {0} /\ Current = Latest
  BY ChainTypes DEF Base, Current, Latest
<1>3. \A a \in Versions : a = Latest
  <2>1. ASSUME NEW m \in DOMAIN chain, height <= m PROVE m = Len(chain)
    BY <2>1, ChainTypes DEF Base
  <2> QED BY <2>1 DEF Versions, Latest
<1>4. \A type, name : ~Waiting(type, name)
  BY <1>1 DEF Waiting
<1>5. ~NotCreated
  BY <1>2 DEF Sound, CreatedInv
<1>6. Latest.exists => account = Latest.balance
  BY <1>2, <1>3, <1>4, <1>5 DEF Sound, AccountInv
<1>7. ASSUME NEW c \in Contracts PROVE contract[c] = OnChain(c)
  <2>1. Shows(c) /\ (Latest.contracts[c] = Absent => contract[c] # Absent)
    BY <1>2, <1>4, <1>5 DEF Sound, ContractInv
  <2>2. CodeOf(c) = Latest.contracts[c]
    BY <1>3, <2>1 DEF Shows
  <2> QED BY <2>1, <2>2 DEF CodeOf, OnChain
<1>8. ASSUME NEW k \in Keys PROVE (accountKey[k] = "active") <=> (Latest.keys[k] = "active")
  <2>1. /\ accountKey[k] = "revoked" => Latest.keys[k] \in Gone
        /\ accountKey[k] = "active" => \E a \in Versions : a.keys[k] = "active"
        /\ Latest.keys[k] = "active" => accountKey[k] # None
    BY <1>2, <1>4, <1>5 DEF Sound, KeyInv
  <2>2. accountKey[k] \in {"active", "revoked", None}
    BY DEF Base, TypeOK
  <2>3. Latest.keys[k] = "active" => accountKey[k] # "revoked"
    BY <2>1 DEF Gone
  <2>4. accountKey[k] = "active" => Latest.keys[k] = "active"
    BY <1>3, <2>1
  <2>5. Latest.keys[k] = "active" => accountKey[k] = "active"
    BY <2>1, <2>2, <2>3
  <2> QED BY <2>4, <2>5
<1> QED BY <1>6, <1>7, <1>8 DEF UpToDate

(* Once a poll has processed every block and its handlers are done, the    *)
(* index shows the account as it is on the chain, whichever handler came   *)
(* first and however late its request was answered (processBlock,          *)
(* processEvent and the on... handlers of flow-indexer.service.ts).        *)
THEOREM IndexUpToDate == Spec => []UpToDateAfterPoll
<1> QED BY PollDone, Invariant, PTL

=============================================================================
