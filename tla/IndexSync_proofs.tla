-------------------------- MODULE IndexSync_proofs --------------------------
(***************************************************************************)
(* What the scheduler guarantees for any number of poll loops and any      *)
(* polling interval, alone and with the renderer, and that what is shown   *)
(* never goes back: for any indexes, entities, pages and number of         *)
(* requests that are under way.                                            *)
(***************************************************************************)
EXTENDS IndexSync, TLAPS

USE IntervalAssumption, NoTimeoutAssumption, LimitsAssumption, ChainAssumption
    DEF IntervalAssumption, NoTimeoutAssumption, LimitsAssumption

(* Type correctness: in particular a loop's elapsed time never runs past   *)
(* the interval.                                                           *)
THEOREM TypeCorrect == Spec => []TypeOK
<1>1. ASSUME Init PROVE TypeOK
  <2>1. isRunning \in BOOLEAN
    BY <1>1, Zenon DEF Init
  <2>2. runningTimeoutId \in Loops \cup {NoTimeout}
    BY <1>1 DEF Init
  <2>3. loop \in [Loops -> LoopState] /\ elapsed \in [Loops -> 0..PollingIntervalInMs]
    BY <1>1 DEF Init, LoopState
  <2> QED
    BY <2>1, <2>2, <2>3 DEF TypeOK
<1>2. TypeOK /\ [Next]_vars => TypeOK'
  <2> SUFFICES ASSUME TypeOK, [Next]_vars PROVE TypeOK'
    OBVIOUS
  <2> USE DEF TypeOK, LoopState
  <2>1. CASE \E l \in Loops : Start(l)
    BY <2>1 DEF Start
  <2>2. CASE Stop
    <3>1. isRunning' \in BOOLEAN
      BY <2>2, Zenon DEF Stop
    <3>2. UNCHANGED runningTimeoutId
      BY <2>2 DEF Stop
    <3>3. /\ loop' \in [Loops -> LoopState]
          /\ elapsed' \in [Loops -> 0..PollingIntervalInMs]
      BY <2>2 DEF Stop
    <3> QED
      BY <3>1, <3>2, <3>3
  <2>3. CASE \E l \in Loops : FnSettles(l)
    BY <2>3 DEF FnSettles, LoopHead
  <2>4. CASE \E l \in Loops : TimerFires(l)
    BY <2>4 DEF TimerFires, LoopHead
  <2>5. CASE Tick
    BY <2>5 DEF Tick
  <2>6. CASE UNCHANGED vars
    BY <2>6 DEF vars
  <2> QED
    BY <2>1, <2>2, <2>3, <2>4, <2>5, <2>6 DEF Next
<1> QED
  BY <1>1, <1>2, PTL DEF Spec

---------------------------------------------------------------------------

(* A running scheduler always has a loop that is alive.  The invariant is  *)
(* inductive: start() brings a loop to life, stop() gives up the claim in  *)
(* the step in which it may kill the last loop, and a loop that reaches    *)
(* the head of the while ends only if isRunning is already FALSE.          *)
THEOREM RunningIsAlive == Spec => []AliveWhileRunning
<1>1. Init => AliveWhileRunning
  BY DEF Init, AliveWhileRunning
<1>2. TypeOK /\ AliveWhileRunning /\ [Next]_vars => AliveWhileRunning'
  <2> SUFFICES ASSUME TypeOK, AliveWhileRunning, [Next]_vars
               PROVE AliveWhileRunning'
    OBVIOUS
  <2> USE DEF TypeOK, AliveWhileRunning, Alive
  <2>1. ASSUME NEW l \in Loops, Start(l) PROVE AliveWhileRunning'
    BY <2>1 DEF Start
  <2>2. CASE Stop
    BY <2>2 DEF Stop
  <2>3. ASSUME NEW l \in Loops, FnSettles(l) PROVE AliveWhileRunning'
    BY <2>3 DEF FnSettles, LoopHead
  <2>4. ASSUME NEW l \in Loops, TimerFires(l) PROVE AliveWhileRunning'
    BY <2>4 DEF TimerFires, LoopHead
  <2>5. CASE Tick
    BY <2>5 DEF Tick
  <2>6. CASE UNCHANGED vars
    BY <2>6 DEF vars
  <2> QED
    BY <2>1, <2>2, <2>3, <2>4, <2>5, <2>6 DEF Next
<1> QED
  BY <1>1, <1>2, TypeCorrect, PTL DEF Spec

---------------------------------------------------------------------------

(* One step never starts an execution too early or while stopped.          *)
LEMMA StepRateLimited ==
  ASSUME TypeOK, [Next]_vars,
         NEW l \in Loops, BeginsExecution(l)
  PROVE  isRunning' /\ (Alive(l) => elapsed[l] = PollingIntervalInMs)
<1> USE DEF TypeOK, LoopState, BeginsExecution, Alive
<1>1. ASSUME NEW m \in Loops, Start(m)
      PROVE  isRunning' /\ (Alive(l) => elapsed[l] = PollingIntervalInMs)
  BY <1>1 DEF Start
<1>2. CASE Stop
  BY <1>2 DEF Stop
<1>3. ASSUME NEW m \in Loops, FnSettles(m)
      PROVE  isRunning' /\ (Alive(l) => elapsed[l] = PollingIntervalInMs)
  BY <1>3 DEF FnSettles, LoopHead, RemainingTimeInMs
<1>4. ASSUME NEW m \in Loops, TimerFires(m)
      PROVE  isRunning' /\ (Alive(l) => elapsed[l] = PollingIntervalInMs)
  BY <1>4 DEF TimerFires, LoopHead, RemainingTimeInMs
<1>5. CASE Tick
  BY <1>5 DEF Tick
<1>6. CASE UNCHANGED vars
  BY <1>6 DEF vars
<1> QED
  BY <1>1, <1>2, <1>3, <1>4, <1>5, <1>6 DEF Next

(* The polling rate of every single loop, for any interval: executions of  *)
(* one loop start at least an interval apart, and none starts while the    *)
(* scheduler is stopped.                                                   *)
THEOREM PollingRate == Spec => RateLimited
<1>1. TypeOK /\ [Next]_vars =>
        [\A l \in Loops : BeginsExecution(l) =>
            /\ isRunning'
            /\ Alive(l) => elapsed[l] = PollingIntervalInMs]_vars
  BY StepRateLimited
<1> QED
  BY <1>1, TypeCorrect, PTL DEF Spec, RateLimited

---------------------------------------------------------------------------
(* The scheduler with what its polls write *)

(* In the composition with the renderer the scheduler still behaves as one *)
(* alone: every step is one of the scheduler, or leaves it alone.          *)
THEOREM SchedulerInside == SyncSpec => Init /\ [][Next]_vars
<1> DEFINE Bounded == "polls" \in DOMAIN left /\ left.polls \subseteq Loops
<1>1. SyncInit => Init /\ Bounded
  BY DEF SyncInit
<1>2. Bounded /\ [SyncNext]_<<vars, syncVars>> => [Next]_vars /\ Bounded'
  <2> SUFFICES ASSUME Bounded, [SyncNext]_<<vars, syncVars>>
               PROVE  [Next]_vars /\ Bounded'
    OBVIOUS
  <2>1. CASE UNCHANGED <<vars, syncVars>>
    BY <2>1 DEF syncVars
  <2>2. CASE /\ Indexing \/ SyncOnInterval \/ SyncStep \/ Navigate \/ ChangeTab
             /\ UNCHANGED vars
    <3>1. \/ UNCHANGED left
          \/ left' = [left EXCEPT !.writes = left.writes - 1]
          \/ left' = [left EXCEPT !.clears = left.clears - 1]
          \/ left' = [left EXCEPT !.visits = Tail(left.visits)]
      <4>1. CASE Indexing
        <5>1. ASSUME NEW name, NEW entries, Write(name, entries)
              PROVE  left' = [left EXCEPT !.writes = left.writes - 1]
          BY <5>1 DEF Write
        <5>2. ASSUME Clear PROVE left' = [left EXCEPT !.clears = left.clears - 1]
          BY <5>2 DEF Clear
        <5> QED BY <4>1, <5>1, <5>2
               DEF Indexing, WriteAccount, WriteKey, WriteContract, WriteBlock, WriteTransaction,
                   WriteStatus, WriteEvent, WriteStorage
      <4>2. CASE SyncOnInterval \/ SyncStep
        BY <4>2 DEF SyncOnInterval, SyncStep, GetAll, Sync, Revalidate
      <4>3. CASE Navigate \/ ChangeTab
        BY <4>3 DEF Navigate, ChangeTab
      <4> QED BY <2>2, <4>1, <4>2, <4>3
    <3>2. "polls" \in DOMAIN left' /\ left'.polls = left.polls
      BY <3>1
    <3> QED BY <2>2, <3>2
  <2>3. CASE /\ \E l \in left.polls : Start(l) \/ FnSettles(l) \/ TimerFires(l)
             /\ UNCHANGED syncVars
    BY <2>3 DEF syncVars, Next
  <2>4. CASE (Stop \/ Tick) /\ UNCHANGED syncVars
    BY <2>4 DEF syncVars, Next
  <2> QED BY <2>1, <2>2, <2>3, <2>4 DEF SyncNext
<1> QED BY <1>1, <1>2, PTL DEF SyncSpec

(* The polling rate holds while polls write and the renderer asks.         *)
THEOREM SyncPollingRate == SyncSpec => RateLimited
<1> QED BY SchedulerInside, PollingRate, PTL DEF Spec

---------------------------------------------------------------------------
(* Operations of an index *)

Before(S, U) == \A e \in S, f \in U : e.id = f.id => e.updatedAt <= f.updatedAt

HasDate(e) == "updatedAt" \in DOMAIN e /\ e.updatedAt \in Nat

Entity(e) == "id" \in DOMAIN e /\ "updatedAt" \notin DOMAIN e

(* Whatever an operation writes at a time is dated with that time.         *)
Writes(old, new, now) ==
    /\ \A f \in new : f \in old \/ (HasDate(f) /\ f.updatedAt = now)
    /\ Before(new, new)

LEMMA CreateWrites ==
  ASSUME NEW S, NEW e, Entity(e), NEW now \in Nat, Before(S, S)
  PROVE  Writes(S, Create(S, e, now), now)
<1>1. CASE e.id \in Ids(S)
  BY <1>1 DEF Create, Writes
<1>2. CASE e.id \notin Ids(S)
  <2> DEFINE new == Stamp(e, now, now)
  <2>1. new.id = e.id /\ HasDate(new) /\ new.updatedAt = now
    BY DEF Stamp, Spread, Entity, HasDate
  <2>2. Create(S, e, now) = S \cup {new}
    BY <1>2 DEF Create
  <2> HIDE DEF new
  <2>3. \A f \in S : f.id # new.id
    BY <1>2, <2>1 DEF Ids
  <2>4. Before(S \cup {new}, S \cup {new})
    BY <2>1, <2>3 DEF Before
  <2> QED BY <2>1, <2>2, <2>4 DEF Writes
<1> QED BY <1>1, <1>2

LEMMA UpdateWrites ==
  ASSUME NEW S, NEW e, Entity(e), NEW now \in Nat, Before(S, S), \A f \in S : HasDate(f)
  PROVE  Writes(S, Update(S, e, now), now)
<1> DEFINE Updated(f) == Spread(e, [f EXCEPT !.updatedAt = now])
<1>1. ASSUME NEW f \in S
      PROVE  Updated(f).id = e.id /\ HasDate(Updated(f)) /\ Updated(f).updatedAt = now
  <2> DEFINE g == [f EXCEPT !.updatedAt = now]
  <2>1. "updatedAt" \in DOMAIN g /\ g.updatedAt = now
    BY DEF HasDate
  <2> HIDE DEF g
  <2>2. Spread(e, g).id = e.id /\ HasDate(Spread(e, g)) /\ Spread(e, g).updatedAt = now
    BY <2>1 DEF Spread, Entity, HasDate
  <2> QED BY <2>2 DEF g
<1>2. Update(S, e, now) = {IF f.id = e.id THEN Updated(f) ELSE f : f \in S}
  BY DEF Update
<1> HIDE DEF Updated
<1>3. \A g \in Update(S, e, now) :
        \/ g \in S /\ g.id # e.id
        \/ g.id = e.id /\ HasDate(g) /\ g.updatedAt = now
  BY <1>1, <1>2
<1>4. Before(Update(S, e, now), Update(S, e, now))
  BY <1>3 DEF Before
<1> QED BY <1>3, <1>4 DEF Writes

LEMMA UpsertWrites ==
  ASSUME NEW S, NEW e, Entity(e), NEW now \in Nat, Before(S, S), \A f \in S : HasDate(f)
  PROVE  Writes(S, Upsert(S, e, now), now)
BY CreateWrites, UpdateWrites DEF Upsert

LEMMA DeleteWrites ==
  ASSUME NEW S, NEW id, NEW now, Before(S, S)
  PROVE  Writes(S, Delete(S, id), now)
BY DEF Delete, Writes, Before

LEMMA Entities ==
  /\ \A a \in ChainAccounts : Entity(AccountEntity(a))
  /\ \A a \in ChainAccounts : \A k \in a.keys : Entity(KeyEntity(a.address, k))
  /\ \A a, n : Entity(ContractEntity(a, n))
  /\ \A b \in ChainBlocks : Entity(BlockEntity(b))
  /\ \A t, s : Entity(TransactionEntity(t, s))
  /\ \A t, s : Entity(StatusEntity(t, s))
  /\ \A e \in ChainEvents : Entity(EventEntity(e))
  /\ \A i : Entity(StorageEntity(i))
<1>1. \A a \in ChainAccounts : Entity(AccountEntity(a))
  BY DEF Entity, AccountEntity
<1>2. ASSUME NEW a \in ChainAccounts, NEW k \in a.keys PROVE Entity(KeyEntity(a.address, k))
  <2>1. k \in FlowKey
    BY DEF ChainAssumption, FlowAccount
  <2>2. DOMAIN k = {"index", "publicKey", "revoked"}
    BY <2>1 DEF FlowKey
  <2> QED BY <2>2 DEF Entity, KeyEntity, Spread
<1>3. \A a, n : Entity(ContractEntity(a, n))
  BY DEF Entity, ContractEntity
<1>4. ASSUME NEW b \in ChainBlocks PROVE Entity(BlockEntity(b))
  <2>1. DOMAIN b = {"id", "parentId", "height"}
    BY DEF ChainAssumption, FlowBlock
  <2> QED BY <2>1 DEF Entity, BlockEntity, Spread
<1>5. \A t, s : Entity(TransactionEntity(t, s)) /\ Entity(StatusEntity(t, s))
  BY DEF Entity, TransactionEntity, StatusEntity
<1>6. ASSUME NEW e \in ChainEvents PROVE Entity(EventEntity(e))
  <2>1. DOMAIN e = {"transactionId", "eventIndex", "type"}
    BY DEF ChainAssumption, FlowEvent
  <2> QED BY <2>1 DEF Entity, EventEntity, Spread
<1>7. \A i : Entity(StorageEntity(i))
  BY DEF Entity, StorageEntity
<1> QED BY <1>1, <1>2, <1>3, <1>4, <1>5, <1>6, <1>7

---------------------------------------------------------------------------
(* What is shown never goes back *)

(* Stages of an index: what a hook shows, the copy, the answers on their   *)
(* way and the index itself.  An entity is never newer in an earlier one.  *)
Stage(S, current, now) ==
    /\ \A e \in S : HasDate(e) /\ e.updatedAt <= now
    /\ Before(S, S) /\ Before(S, current)

IndexInv ==
    /\ clock \in Nat
    /\ DOMAIN index = Indexes
    /\ \A n \in Indexes : Stage(index[n], index[n], clock)

AnswersInv ==
    /\ answers \in Seq(Range(answers))
    /\ \A i \in DOMAIN answers : answers[i].index \in Indexes =>
          /\ Stage(answers[i].all, index[answers[i].index], clock)
          /\ \A j \in i..Len(answers) :
                answers[j].index = answers[i].index => Before(answers[i].all, answers[j].all)

CacheInv ==
    /\ DOMAIN cache = Indexes
    /\ \A n \in Indexes :
          /\ Stage(cache[n], index[n], clock)
          /\ \A i \in DOMAIN answers : answers[i].index = n => Before(cache[n], answers[i].all)

HooksInv ==
    \A k \in DOMAIN swr :
        LET n == IndexOf(k.name)
            S == Shown(k, swr[k])
        IN /\ k.name \in ListHooks \cup ItemHooks
           /\ Stage(S, index[n], clock)
           /\ Before(S, cache[n])
           /\ \A i \in DOMAIN answers : answers[i].index = n => Before(S, answers[i].all)

SyncInv == IndexInv /\ AnswersInv /\ CacheInv /\ HooksInv

LEMMA InitSync == SyncInit => SyncInv
<1> SUFFICES ASSUME SyncInit PROVE SyncInv
  OBVIOUS
<1>1. /\ index = [n \in Indexes |-> {}] /\ cache = [n \in Indexes |-> {}] /\ clock = 0
      /\ answers = <<>> /\ DOMAIN swr = {}
  BY DEF SyncInit
<1>2. \A S : Stage({}, S, 0)
  BY DEF Stage, Before
<1>3. IndexInv /\ CacheInv
  BY <1>1, <1>2 DEF IndexInv, CacheInv
<1>4. AnswersInv
  BY <1>1 DEF AnswersInv
<1>5. HooksInv
  BY <1>1, Zenon DEF HooksInv
<1> QED BY <1>3, <1>4, <1>5 DEF SyncInv

(* What an operation does to one index.                                    *)
LEMMA IndexingWrites ==
  ASSUME IndexInv, Indexing
  PROVE  /\ clock' = clock + 1 /\ UNCHANGED <<renderer, requests, answers>>
         /\ DOMAIN index' = Indexes
         /\ \A n \in Indexes : Writes(index[n], index'[n], clock + 1)
<1>1. \A n \in Indexes : Before(index[n], index[n]) /\ \A f \in index[n] : HasDate(f)
  BY DEF IndexInv, Stage
<1>2. ASSUME NEW name \in Indexes, NEW entries, Write(name, entries),
             Writes(index[name], entries, clock + 1)
      PROVE  /\ clock' = clock + 1 /\ UNCHANGED <<renderer, requests, answers>>
             /\ DOMAIN index' = Indexes
             /\ \A n \in Indexes : Writes(index[n], index'[n], clock + 1)
  <2>1. index' = [index EXCEPT ![name] = entries] /\ DOMAIN index = Indexes
    BY <1>2 DEF Write, IndexInv
  <2>2. DOMAIN index' = Indexes /\ \A n \in Indexes : index'[n] = IF n = name THEN entries ELSE index[n]
    BY <2>1
  <2>3. \A n \in Indexes : Writes(index[n], index[n], clock + 1)
    BY <1>1 DEF Writes
  <2> QED BY <1>2, <2>2, <2>3 DEF Write
<1>3. CASE Clear
  <2>1. index' = [n \in Indexes |-> {}]
    BY <1>3 DEF Clear
  <2>2. \A S : Writes(S, {}, clock + 1)
    BY DEF Writes, Before
  <2> QED BY <1>3, <2>1, <2>2 DEF Clear
<1>4. clock + 1 \in Nat
  BY DEF IndexInv
<1>5. ASSUME NEW n \in Indexes, NEW e, Entity(e)
      PROVE  /\ Writes(index[n], Create(index[n], e, clock + 1), clock + 1)
             /\ Writes(index[n], Update(index[n], e, clock + 1), clock + 1)
             /\ Writes(index[n], Upsert(index[n], e, clock + 1), clock + 1)
  BY <1>1, <1>4, <1>5, CreateWrites, UpdateWrites, UpsertWrites
<1>6. ASSUME NEW n \in Indexes, NEW id
      PROVE  Writes(index[n], Delete(index[n], id), clock + 1)
  BY <1>1, DeleteWrites
<1>7. Indexes = {"accountStorage", "contract", "accountKey", "block", "event", "transaction", "account"}
  BY DEF Indexes
<1>8. CASE WriteAccount \/ WriteStorage \/ WriteTransaction \/ WriteStatus
  BY <1>2, <1>5, <1>7, <1>8, Entities, Zenon DEF WriteAccount, WriteStorage, WriteTransaction, WriteStatus
<1>9. CASE WriteBlock \/ WriteEvent
  BY <1>2, <1>5, <1>7, <1>9, Entities, Zenon DEF WriteBlock, WriteEvent
<1>10. CASE WriteKey \/ WriteContract
  BY <1>2, <1>5, <1>6, <1>7, <1>10, Entities, Zenon DEF WriteKey, WriteContract
<1> QED BY <1>3, <1>8, <1>9, <1>10 DEF Indexing

(* A stage is still one when the index has been written.                   *)
LEMMA StillStage ==
  ASSUME NEW now \in Nat, NEW S, NEW current, NEW next,
         Stage(S, current, now), Writes(current, next, now + 1)
  PROVE  Stage(S, next, now + 1)
<1>1. \A e \in S : HasDate(e) /\ e.updatedAt <= now + 1
  BY DEF Stage, HasDate
<1>2. Before(S, S) /\ Before(S, current)
  BY DEF Stage
<1>3. ASSUME NEW e \in S, NEW f \in next, e.id = f.id PROVE e.updatedAt <= f.updatedAt
  <2>1. CASE f \in current
    BY <1>2, <1>3, <2>1 DEF Before
  <2>2. CASE f.updatedAt = now + 1
    BY <1>1, <2>2
  <2> QED BY <2>1, <2>2 DEF Writes
<1> QED BY <1>1, <1>2, <1>3 DEF Stage, Before

LEMMA NextStage ==
  ASSUME NEW now \in Nat, NEW current, NEW next,
         Stage(current, current, now), Writes(current, next, now + 1)
  PROVE  Stage(next, next, now + 1)
<1>1. \A e \in next : HasDate(e) /\ e.updatedAt <= now + 1
  BY DEF Stage, Writes, HasDate
<1> QED BY <1>1 DEF Stage, Writes

LEMMA HookIndex ==
  \A name \in ListHooks \cup ItemHooks : IndexOf(name) \in Indexes
BY DEF ListHooks, ItemHooks, IndexOf, Indexes

LEMMA IndexingStep ==
  ASSUME SyncInv, Indexing
  PROVE  SyncInv'
<1> USE DEF SyncInv
<1>1. /\ clock' = clock + 1 /\ UNCHANGED <<cache, swr, answers>>
      /\ DOMAIN index' = Indexes
      /\ \A n \in Indexes : Writes(index[n], index'[n], clock + 1)
  BY IndexingWrites DEF renderer
<1>2. clock \in Nat
  BY DEF IndexInv
<1>3. ASSUME NEW n \in Indexes, NEW S, Stage(S, index[n], clock)
      PROVE  Stage(S, index'[n], clock')
  BY <1>1, <1>2, <1>3, StillStage
<1>4. IndexInv'
  <2>1. ASSUME NEW n \in Indexes PROVE Stage(index'[n], index'[n], clock')
    BY <1>1, <1>2, NextStage DEF IndexInv
  <2> QED BY <1>1, <1>2, <2>1 DEF IndexInv
<1>5. AnswersInv'
  BY <1>1, <1>3 DEF AnswersInv
<1>6. CacheInv'
  BY <1>1, <1>3 DEF CacheInv
<1>7. HooksInv'
  <2>1. ASSUME NEW k \in DOMAIN swr
        PROVE  /\ k.name \in ListHooks \cup ItemHooks
               /\ Stage(Shown(k, swr[k]), index[IndexOf(k.name)], clock)
               /\ Before(Shown(k, swr[k]), cache[IndexOf(k.name)])
               /\ \A i \in DOMAIN answers :
                     answers[i].index = IndexOf(k.name) => Before(Shown(k, swr[k]), answers[i].all)
    BY DEF HooksInv
  <2>2. ASSUME NEW k \in DOMAIN swr PROVE Stage(Shown(k, swr[k]), index'[IndexOf(k.name)], clock')
    BY <1>3, <2>1, HookIndex
  <2> QED BY <1>1, <2>1, <2>2 DEF HooksInv
<1> QED BY <1>4, <1>5, <1>6, <1>7

(* Steps that only move through the pages or send requests.                *)
LEMMA OtherStep ==
  ASSUME SyncInv, UNCHANGED <<index, clock, cache, answers, swr>>
  PROVE  SyncInv'
BY DEF SyncInv, IndexInv, AnswersInv, CacheInv, HooksInv

(* An answer is sent: the last one of the sequence.                        *)
LEMMA Appended ==
  ASSUME NEW s, s \in Seq(Range(s)), NEW new
  PROVE  LET longer == Append(s, new)
         IN /\ longer \in Seq(Range(longer))
            /\ Len(s) \in Nat /\ DOMAIN s = 1..Len(s)
            /\ Len(longer) = Len(s) + 1 /\ DOMAIN longer = 1..(Len(s) + 1)
            /\ longer[Len(s) + 1] = new /\ \A i \in DOMAIN s : longer[i] = s[i]
<1> DEFINE R == Range(s) \cup {new}
           longer == Append(s, new)
<1>1. s \in Seq(R) /\ new \in R
  OBVIOUS
<1> HIDE DEF R
<1>2. /\ longer \in Seq(R) /\ Len(s) \in Nat /\ DOMAIN s = 1..Len(s)
      /\ Len(longer) = Len(s) + 1 /\ DOMAIN longer = 1..(Len(s) + 1)
      /\ longer[Len(s) + 1] = new /\ \A i \in DOMAIN s : longer[i] = s[i]
  BY <1>1
<1> HIDE DEF longer
<1>3. \A i \in 1..Len(longer) : longer[i] \in Range(longer)
  BY <1>2 DEF Range
<1>4. longer \in Seq(Range(longer))
  BY <1>2, <1>3
<1> QED BY <1>2, <1>4 DEF longer

(* An answer is received: the first one of the sequence.                   *)
LEMMA FirstTaken ==
  ASSUME NEW s, s \in Seq(Range(s)), s # <<>>
  PROVE  LET rest == Tail(s)
         IN /\ rest \in Seq(Range(rest))
            /\ Len(s) \in Nat \ {0} /\ DOMAIN s = 1..Len(s) /\ Head(s) = s[1]
            /\ Len(rest) = Len(s) - 1 /\ DOMAIN rest = 1..(Len(s) - 1)
            /\ \A i \in DOMAIN rest : rest[i] = s[i + 1]
<1> DEFINE R == Range(s)
           rest == Tail(s)
<1>1. s \in Seq(R)
  OBVIOUS
<1> HIDE DEF R
<1>2. /\ rest \in Seq(R) /\ Len(s) \in Nat \ {0} /\ DOMAIN s = 1..Len(s) /\ Head(s) = s[1]
      /\ Len(rest) = Len(s) - 1 /\ DOMAIN rest = 1..(Len(s) - 1)
      /\ \A i \in DOMAIN rest : rest[i] = s[i + 1]
  BY <1>1
<1> HIDE DEF rest
<1>3. \A i \in 1..Len(rest) : rest[i] \in Range(rest)
  BY <1>2 DEF Range
<1>4. rest \in Seq(Range(rest))
  BY <1>2, <1>3
<1> QED BY <1>2, <1>4 DEF rest

(* What the invariant says of one hook.                                    *)
LEMMA HookFacts ==
  ASSUME HooksInv, NEW k \in DOMAIN swr
  PROVE  /\ k.name \in ListHooks \cup ItemHooks
         /\ IndexOf(k.name) \in Indexes
         /\ Stage(Shown(k, swr[k]), index[IndexOf(k.name)], clock)
         /\ Before(Shown(k, swr[k]), cache[IndexOf(k.name)])
         /\ \A i \in DOMAIN answers :
               answers[i].index = IndexOf(k.name) => Before(Shown(k, swr[k]), answers[i].all)
BY HookIndex DEF HooksInv

LEMMA GetAllStep ==
  ASSUME SyncInv, GetAll
  PROVE  SyncInv'
<1> USE DEF SyncInv
<1> DEFINE n == Head(requests)
           new == [index |-> n, all |-> index[n]]
<1>1. answers' = Append(answers, new) /\ UNCHANGED <<index, clock, cache, swr>>
  BY DEF GetAll, FindAll, main, renderer
<1>2. new.index = n /\ new.all = index[n]
  OBVIOUS
<1> HIDE DEF new, n
<1>3. /\ answers' \in Seq(Range(answers'))
      /\ Len(answers) \in Nat /\ DOMAIN answers = 1..Len(answers)
      /\ Len(answers') = Len(answers) + 1 /\ DOMAIN answers' = 1..(Len(answers) + 1)
      /\ answers'[Len(answers) + 1] = new /\ \A i \in DOMAIN answers : answers'[i] = answers[i]
  BY <1>1, Appended DEF AnswersInv
<1>4. \A i \in DOMAIN answers' : i \in DOMAIN answers \/ answers'[i] = new
  BY <1>3
<1>5. IndexInv'
  BY <1>1 DEF IndexInv
<1>6. \A m \in Indexes : \A S : Stage(S, index[m], clock) /\ n = m => Before(S, new.all)
  BY <1>2 DEF Stage
<1>7. AnswersInv'
  <2>1. ASSUME NEW i \in DOMAIN answers', answers'[i].index \in Indexes
        PROVE  Stage(answers'[i].all, index[answers'[i].index], clock)
    <3>1. CASE i \in DOMAIN answers
      BY <1>3, <2>1, <3>1 DEF AnswersInv
    <3>2. CASE answers'[i] = new
      BY <1>2, <2>1, <3>2 DEF IndexInv
    <3> QED BY <1>4, <3>1, <3>2
  <2>2. ASSUME NEW i \in DOMAIN answers', answers'[i].index \in Indexes,
               NEW j \in i..Len(answers'), answers'[j].index = answers'[i].index
        PROVE  Before(answers'[i].all, answers'[j].all)
    <3>1. CASE j \in DOMAIN answers
      <4>1. i \in DOMAIN answers /\ j \in i..Len(answers)
        BY <1>3, <3>1
      <4> QED BY <1>3, <2>2, <3>1, <4>1 DEF AnswersInv
    <3>2. CASE answers'[j] = new
      BY <1>2, <1>6, <2>1, <2>2, <3>2
    <3> QED BY <1>3, <1>4, <3>1, <3>2
  <2> QED BY <1>1, <1>3, <2>1, <2>2 DEF AnswersInv
<1>8. CacheInv'
  <2>1. ASSUME NEW m \in Indexes, NEW i \in DOMAIN answers', answers'[i].index = m
        PROVE  Before(cache[m], answers'[i].all)
    BY <1>2, <1>3, <1>4, <1>6, <2>1 DEF CacheInv
  <2> QED BY <1>1, <2>1 DEF CacheInv
<1>9. HooksInv'
  <2>1. ASSUME NEW k \in DOMAIN swr, NEW i \in DOMAIN answers', answers'[i].index = IndexOf(k.name)
        PROVE  Before(Shown(k, swr[k]), answers'[i].all)
    <3>1. CASE i \in DOMAIN answers
      BY <1>3, <2>1, <3>1, HookFacts
    <3>2. CASE answers'[i] = new
      BY <1>2, <1>6, <2>1, <3>2, HookFacts
    <3> QED BY <1>4, <3>1, <3>2
  <2> QED BY <1>1, <2>1, HookFacts DEF HooksInv
<1> QED BY <1>5, <1>7, <1>8, <1>9

LEMMA SyncMessage ==
  ASSUME SyncInv, Sync
  PROVE  SyncInv'
<1> USE DEF SyncInv
<1> DEFINE first == answers[1]
           n == first.index
<1>1. /\ answers' \in Seq(Range(answers'))
      /\ Len(answers) \in Nat \ {0} /\ DOMAIN answers = 1..Len(answers) /\ Head(answers) = first
      /\ Len(answers') = Len(answers) - 1 /\ DOMAIN answers' = 1..(Len(answers) - 1)
      /\ \A i \in DOMAIN answers' : answers'[i] = answers[i + 1]
  BY FirstTaken DEF Sync, AnswersInv
<1>2. /\ cache' = [cache EXCEPT ![n] = first.all]
      /\ UNCHANGED <<index, clock, swr>>
  BY <1>1 DEF Sync, main
<1>3. DOMAIN cache' = Indexes /\ \A m \in Indexes : cache'[m] = IF m = n THEN first.all ELSE cache[m]
  BY <1>2 DEF CacheInv
<1>4. n \in Indexes => /\ Stage(first.all, index[n], clock)
                       /\ \A j \in 1..Len(answers) :
                             answers[j].index = n => Before(first.all, answers[j].all)
  BY <1>1 DEF AnswersInv
<1>5. 1 \in DOMAIN answers /\ \A i \in DOMAIN answers' : i + 1 \in DOMAIN answers
  BY <1>1
<1> HIDE DEF n
<1>6. IndexInv'
  BY <1>2 DEF IndexInv
<1>7. AnswersInv'
  <2>1. ASSUME NEW i \in DOMAIN answers', answers'[i].index \in Indexes
        PROVE  Stage(answers'[i].all, index[answers'[i].index], clock)
    BY <1>1, <1>5, <2>1 DEF AnswersInv
  <2>2. ASSUME NEW i \in DOMAIN answers', answers'[i].index \in Indexes,
               NEW j \in i..Len(answers'), answers'[j].index = answers'[i].index
        PROVE  Before(answers'[i].all, answers'[j].all)
    <3>1. j \in DOMAIN answers' /\ j + 1 \in (i + 1)..Len(answers)
      BY <1>1
    <3> QED BY <1>1, <1>5, <2>2, <3>1 DEF AnswersInv
  <2> QED BY <1>1, <1>2, <2>1, <2>2 DEF AnswersInv
<1>8. CacheInv'
  <2>1. ASSUME NEW m \in Indexes, NEW i \in DOMAIN answers', answers'[i].index = m
        PROVE  Before(cache'[m], answers'[i].all)
    BY <1>1, <1>3, <1>4, <1>5, <2>1 DEF CacheInv
  <2>2. ASSUME NEW m \in Indexes PROVE Stage(cache'[m], index[m], clock)
    BY <1>3, <1>4 DEF CacheInv
  <2> QED BY <1>2, <1>3, <2>1, <2>2 DEF CacheInv
<1>9. HooksInv'
  <2>1. ASSUME NEW k \in DOMAIN swr
        PROVE  /\ Before(Shown(k, swr[k]), cache'[IndexOf(k.name)])
               /\ \A i \in DOMAIN answers' :
                     answers'[i].index = IndexOf(k.name) => Before(Shown(k, swr[k]), answers'[i].all)
    BY <1>1, <1>3, <1>5, HookFacts DEF n
  <2> QED BY <1>2, <2>1, HookFacts DEF HooksInv
<1> QED BY <1>6, <1>7, <1>8, <1>9

(* What a hook shows after an answer: entities of the copy, or what it has *)
(* shown before.                                                           *)
LEMMA Answered ==
  ASSUME NEW k, k.name \in ListHooks \cup ItemHooks
  PROVE  \/ Shown(k, Answer(k)) \subseteq cache[IndexOf(k.name)]
         \/ k \in DOMAIN swr /\ Shown(k, Answer(k)) = Shown(k, swr[k])
<1>1. CASE k.name \in ListHooks
  <2>1. List(k.name, k.of, cache) \subseteq cache[IndexOf(k.name)]
    <3>1. CASE k.name \in {"Accounts", "Transactions", "Blocks", "Contracts", "Events"}
      BY <3>1 DEF List, IndexOf, FindAll
    <3>2. CASE k.name \in {"KeysByAccount", "StoragesByAccount", "ContractsByAccount",
                           "TransactionsByBlock", "EventsByTransaction"}
      BY <3>2 DEF List, IndexOf
    <3>3. CASE k.name = "TransactionsByAccount"
      BY <3>3 DEF List, IndexOf, TransactionsByAccount
    <3>4. CASE k.name = "EventsByContract"
      <4>1. List(k.name, k.of, cache) = EventsByContract(cache["event"], k.of)
        BY <3>4 DEF List
      <4>2. IndexOf(k.name) = "event"
        BY <3>4 DEF IndexOf
      <4> QED BY <4>1, <4>2, Zenon DEF EventsByContract
    <3> QED BY <1>1, <3>1, <3>2, <3>3, <3>4 DEF ListHooks
  <2>2. Answer(k).data = List(k.name, k.of, cache)
    BY <1>1 DEF Answer
  <2> QED BY <1>1, <2>1, <2>2 DEF Shown
<1>2. CASE k.name \notin ListHooks
  <2> DEFINE found == FindOneById(cache[IndexOf(k.name)], k.of)
  <2>1. CASE found # {}
    <3>1. Answer(k).data = CHOOSE e \in found : TRUE
      BY <1>2, <2>1 DEF Answer
    <3>2. Answer(k).data \in cache[IndexOf(k.name)]
      BY <2>1, <3>1 DEF FindOneById
    <3> QED BY <1>2, <3>2 DEF Shown
  <2>2. CASE found = {}
    <3>1. Answer(k).data = IF k \in DOMAIN swr THEN swr[k].data ELSE None
      BY <1>2, <2>2 DEF Answer
    <3> QED BY <3>1 DEF Shown
  <2> QED BY <2>1, <2>2
<1> QED BY <1>1, <1>2

(* Every answer of a batch, and what is shown elsewhere.                   *)
LEMMA RevalidateAnswers ==
  ASSUME HooksInv, Revalidate
  PROVE  \A k \in DOMAIN swr' :
            \/ k \in DOMAIN swr /\ Shown(k, swr'[k]) = Shown(k, swr[k])
            \/ /\ k.name \in ListHooks \cup ItemHooks
               /\ Shown(k, swr'[k]) \subseteq cache[IndexOf(k.name)]
<1>1. PICK batch \in Batches : swr' = Spread([k \in batch |-> Answer(k)], swr)
  BY DEF Revalidate
<1>2. \A k \in batch : k.name \in ListHooks \cup ItemHooks
  BY DEF Batches, Mounted
<1>3. /\ DOMAIN swr' = batch \cup DOMAIN swr
      /\ \A k \in batch : swr'[k] = Answer(k)
      /\ \A k \in DOMAIN swr \ batch : swr'[k] = swr[k]
  BY <1>1 DEF Spread
<1> QED BY <1>2, <1>3, Answered

LEMMA RevalidateStep ==
  ASSUME SyncInv, Revalidate
  PROVE  SyncInv'
<1> USE DEF SyncInv
<1>1. UNCHANGED <<index, clock, cache, answers>>
  BY DEF Revalidate, main
<1>2. IndexInv' /\ AnswersInv' /\ CacheInv'
  BY <1>1 DEF IndexInv, AnswersInv, CacheInv
<1>3. ASSUME NEW k \in DOMAIN swr'
      PROVE  /\ k.name \in ListHooks \cup ItemHooks
             /\ Stage(Shown(k, swr'[k]), index[IndexOf(k.name)], clock)
             /\ Before(Shown(k, swr'[k]), cache[IndexOf(k.name)])
             /\ \A i \in DOMAIN answers :
                   answers[i].index = IndexOf(k.name) => Before(Shown(k, swr'[k]), answers[i].all)
  <2>1. CASE k \in DOMAIN swr /\ Shown(k, swr'[k]) = Shown(k, swr[k])
    BY <2>1, HookFacts
  <2>2. CASE /\ k.name \in ListHooks \cup ItemHooks
             /\ Shown(k, swr'[k]) \subseteq cache[IndexOf(k.name)]
    <3>1. IndexOf(k.name) \in Indexes
      BY <2>2, HookIndex
    <3>2. /\ Stage(cache[IndexOf(k.name)], index[IndexOf(k.name)], clock)
          /\ \A i \in DOMAIN answers : answers[i].index = IndexOf(k.name) =>
                Before(cache[IndexOf(k.name)], answers[i].all)
      BY <3>1 DEF CacheInv
    <3> QED BY <2>2, <3>2 DEF Stage, Before
  <2> QED BY <2>1, <2>2, RevalidateAnswers
<1>4. HooksInv'
  BY <1>1, <1>3 DEF HooksInv
<1> QED BY <1>2, <1>4

LEMMA SyncStepwise ==
  ASSUME SyncInv, [SyncNext]_<<vars, syncVars>>
  PROVE  SyncInv'
<1>1. CASE UNCHANGED syncVars \/ SyncOnInterval \/ Navigate \/ ChangeTab
  BY <1>1, OtherStep DEF syncVars, main, renderer, SyncOnInterval, Navigate, ChangeTab
<1>2. CASE Indexing \/ GetAll \/ Sync \/ Revalidate
  BY <1>2, IndexingStep, GetAllStep, SyncMessage, RevalidateStep
<1> QED BY <1>1, <1>2 DEF SyncNext, SyncStep

(* No component ever goes back to an older version of an entity, for any   *)
(* number of requests that are under way, any writes and clears, and any   *)
(* way through the pages (ipc-index-cache.ts:34-40).                       *)
THEOREM NothingShownRegresses == SyncSpec => ShownNeverRegresses
<1>1. SyncInv /\ [SyncNext]_<<vars, syncVars>> =>
        [\A k \in DOMAIN swr : \A e \in Shown(k, swr[k]), f \in Shown(k, swr'[k]) :
            e.id = f.id => e.updatedAt <= f.updatedAt]_syncVars
  <2> SUFFICES ASSUME SyncInv, SyncNext, NEW k \in DOMAIN swr,
                      NEW e \in Shown(k, swr[k]), NEW f \in Shown(k, swr'[k]), e.id = f.id,
                      syncVars' # syncVars
               PROVE  e.updatedAt <= f.updatedAt
    BY DEF syncVars
  <2>1. /\ Before(Shown(k, swr[k]), Shown(k, swr[k]))
        /\ Before(Shown(k, swr[k]), cache[IndexOf(k.name)])
    BY HookFacts DEF SyncInv, Stage
  <2>2. CASE UNCHANGED swr
    BY <2>1, <2>2 DEF Before
  <2>3. CASE Revalidate
    <3>1. k \in DOMAIN swr'
      BY <2>3 DEF Revalidate, Spread
    <3>2. f \in Shown(k, swr[k]) \/ f \in cache[IndexOf(k.name)]
      BY <2>3, <3>1, RevalidateAnswers DEF SyncInv
    <3> QED BY <2>1, <3>2 DEF Before
  <2>4. CASE Indexing
    BY <2>2, <2>4, IndexingWrites DEF SyncInv, renderer
  <2> QED BY <2>2, <2>3, <2>4
          DEF SyncNext, SyncStep, SyncOnInterval, GetAll, Sync, Navigate, ChangeTab, renderer, syncVars
<1>2. SyncInv /\ [SyncNext]_<<vars, syncVars>> => SyncInv'
  BY SyncStepwise
<1> QED BY <1>1, <1>2, InitSync, PTL DEF SyncSpec, ShownNeverRegresses

============================================================================
