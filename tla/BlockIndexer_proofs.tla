------------------------ MODULE BlockIndexer_proofs ------------------------
(***************************************************************************)
(* The block index has no gaps, for any chain, any number of rollbacks and *)
(* failing requests, and any number of polls that overlap.  With one poll  *)
(* at a time the contents of blocks are indexed in order, each block once. *)
(***************************************************************************)
EXTENDS BlockIndexer, TLAPS

USE BoundsAssumption DEF BoundsAssumption

InLoop == {"block", "answered", "contents"}

(* A poll inside the for loop is at a height of the range it computed.     *)
PollInRange ==
    \A l \in Loops : poll[l].pc \in InLoop => poll[l].height <= poll[l].latest

TypeInv == TypeOK /\ PollInRange

LEMMA BlockAtType == TypeOK => \A h \in Heights : BlockAt(h) \in Blocks
BY DEF TypeOK, BlockAt, Blocks, Heights

LEMMA IdlePollType == IdlePoll \in Poll /\ IdlePoll.pc \notin InLoop
BY DEF IdlePoll, Poll, Blocks, Heights, InLoop

(* The head of the for loop keeps the poll in its range.                   *)
LEMMA AtHeightType ==
  ASSUME NEW p \in Poll, NEW h \in Nat
  PROVE  /\ AtHeight(p, h) \in Poll
         /\ AtHeight(p, h).pc \in InLoop => AtHeight(p, h).height <= AtHeight(p, h).latest
<1>1. CASE h <= p.latest
  <2>1. AtHeight(p, h) = [p EXCEPT !.pc = "block", !.height = h]
    BY <1>1 DEF AtHeight
  <2>2. h \in 0..(MaxHeight + 1)
    BY <1>1 DEF Poll, Heights
  <2> QED
    BY <1>1, <2>1, <2>2 DEF Poll
<1>2. CASE ~(h <= p.latest)
  BY <1>2, IdlePollType DEF AtHeight
<1> QED
  BY <1>1, <1>2

(* A step that sets one poll to a value in range.                          *)
LEMMA SetPollType ==
  ASSUME TypeInv, NEW l \in Loops, NEW p \in Poll,
         p.pc \in InLoop => p.height <= p.latest, SetPoll(l, p)
  PROVE  poll' \in [Loops -> Poll] /\ PollInRange'
BY DEF TypeInv, TypeOK, PollInRange, SetPoll

LEMMA GiveUpType ==
  ASSUME TypeInv, NEW l \in Loops, NEW what \in {"block", "contents", "storage"},
         poll[l].pc \in InLoop, GiveUp(l, what)
  PROVE  /\ poll' \in [Loops -> Poll] /\ PollInRange'
         /\ gaveUp' \in SUBSET (Heights \X {"block", "contents", "storage"})
         /\ torn' \in BOOLEAN
<1>1. poll[l] \in Poll /\ poll[l].height \in Heights
  BY DEF TypeInv, TypeOK, PollInRange, Poll, Heights
<1>2. poll[l].height + 1 \in Nat
  BY <1>1 DEF Heights
<1>3. SetPoll(l, AtHeight(poll[l], poll[l].height + 1))
  BY DEF GiveUp
<1>4. poll' \in [Loops -> Poll] /\ PollInRange'
  BY <1>1, <1>2, <1>3, AtHeightType, SetPollType
<1> QED
  BY <1>1, <1>4 DEF GiveUp, TypeInv, TypeOK

LEMMA TypeInvStep == TypeInv /\ [Next]_vars => TypeInv'
<1> SUFFICES ASSUME TypeInv, [Next]_vars PROVE TypeInv'
  OBVIOUS
<1> USE DEF TypeInv
<1>1. CASE Mine
  BY <1>1 DEF Mine, TypeOK, Heights, PollInRange, history
<1>2. ASSUME NEW h \in Heights, Rollback(h) PROVE TypeInv'
  BY <1>2 DEF Rollback, TypeOK, Heights, PollInRange, history
<1>3. CASE Clear
  <2>1. clearing' \in BOOLEAN /\ torn' \in BOOLEAN
    BY <1>3, Zenon DEF Clear, InFlight
  <2> QED
    BY <1>3, <2>1 DEF Clear, TypeOK, PollInRange, emulator
<1>4. ASSUME NEW l \in Loops, Begin(l) PROVE TypeInv'
  <2>1. [IdlePoll EXCEPT !.pc = "online"] \in Poll
    BY IdlePollType DEF Poll
  <2>2. [IdlePoll EXCEPT !.pc = "online"].pc \notin InLoop
    BY DEF IdlePoll, InLoop
  <2> QED
    BY <1>4, <2>1, <2>2, SetPollType DEF Begin, TypeOK, emulator, history
<1>5. ASSUME NEW l \in Loops, Online(l) PROVE TypeInv'
  <2>1. PICK n \in 0..(MaxHeight + 1) :
          SetPoll(l, [IdlePoll EXCEPT !.pc = "latest", !.height = n])
    BY <1>5 DEF Online
  <2>2. [IdlePoll EXCEPT !.pc = "latest", !.height = n] \in Poll
    BY IdlePollType DEF Poll
  <2>3. [IdlePoll EXCEPT !.pc = "latest", !.height = n].pc \notin InLoop
    BY DEF IdlePoll, InLoop
  <2> QED
    BY <1>5, <2>1, <2>2, <2>3, SetPollType DEF Online, TypeOK, emulator, history
<1>6. ASSUME NEW l \in Loops, Latest(l) PROVE TypeInv'
  <2>1. [poll[l] EXCEPT !.latest = tip] \in Poll /\ poll[l].height \in Nat
    <3>1. poll[l] \in Poll /\ tip \in Heights
      BY DEF TypeOK
    <3> QED
      BY <3>1 DEF Poll
  <2> QED
    BY <1>6, <2>1, AtHeightType, SetPollType DEF Latest, TypeOK, emulator, history
<1>7. ASSUME NEW l \in Loops, GetBlockByHeight(l) PROVE TypeInv'
  <2>1. /\ poll[l] \in Poll /\ poll[l].height \in Heights
        /\ poll[l].height <= poll[l].latest
    BY <1>7 DEF GetBlockByHeight, TypeOK, PollInRange, InLoop, Poll, Heights
  <2> DEFINE p == [poll[l] EXCEPT !.pc = "answered", !.block = BlockAt(poll[l].height)]
  <2>2. p \in Poll /\ p.height <= p.latest
    BY <2>1, BlockAtType DEF Poll
  <2>3. SetPoll(l, p)
    BY <1>7 DEF GetBlockByHeight
  <2> HIDE DEF p
  <2> QED
    BY <1>7, <2>2, <2>3, SetPollType DEF GetBlockByHeight, TypeOK, emulator, history
<1>8. ASSUME NEW l \in Loops, BlockNotFound(l) PROVE TypeInv'
  BY <1>8, GiveUpType DEF BlockNotFound, InLoop, TypeOK, emulator
<1>9. ASSUME NEW l \in Loops, ProcessBlock(l) PROVE TypeInv'
  <2>1. /\ poll[l] \in Poll
        /\ poll[l].height <= poll[l].latest
    BY <1>9 DEF ProcessBlock, TypeOK, PollInRange, InLoop
  <2> DEFINE p == [poll[l] EXCEPT !.pc = "contents"]
  <2>2. p \in Poll /\ p.height <= p.latest
    BY <2>1 DEF Poll
  <2>3. SetPoll(l, p)
    BY <1>9 DEF ProcessBlock
  <2>4. poll[l].block \in Blocks
    BY <2>1 DEF Poll
  <2> HIDE DEF p
  <2> QED
    BY <1>9, <2>2, <2>3, <2>4, SetPollType DEF ProcessBlock, TypeOK, emulator, history
<1>10. ASSUME NEW l \in Loops, BlockProcessed(l) PROVE TypeInv'
  <2>1. /\ poll[l] \in Poll /\ poll[l].height + 1 \in Nat
        /\ poll[l].block \in Blocks
    BY DEF TypeOK, Poll
  <2> QED
    BY <1>10, <2>1, AtHeightType, SetPollType DEF BlockProcessed, TypeOK, emulator, history
<1>11. ASSUME NEW l \in Loops, Fail(l) PROVE TypeInv'
  <2>1. CASE poll[l].pc \in {"online", "latest"}
    BY <1>11, <2>1, IdlePollType, SetPollType
       DEF Fail, CountFailure, TypeOK, emulator, history
  <2>2. CASE poll[l].pc \in {"block", "contents"}
    BY <1>11, <2>2, GiveUpType DEF Fail, CountFailure, InLoop, TypeOK, emulator
  <2> QED
    BY <1>11, <2>1, <2>2 DEF Fail
<1>12. ASSUME NEW l \in Loops, StorageFails(l) PROVE TypeInv'
  <2>1. poll[l].block \in Blocks
    BY DEF TypeOK, Poll
  <2> QED
    BY <1>12, <2>1, GiveUpType DEF StorageFails, CountFailure, InLoop, TypeOK, emulator
<1>13. ASSUME NEW b \in Blocks, Subscribe(b) \/ Watch(b) PROVE TypeInv'
  <2>1. ASSUME NEW s \in {"none", "watched", "requested", "answered"}, SetStatus(b, s)
        PROVE  status' \in [Blocks -> {"none", "watched", "requested", "answered"}]
    BY <2>1 DEF SetStatus, TypeOK
  <2>2. status' \in [Blocks -> {"none", "watched", "requested", "answered"}]
    BY <1>13, <2>1 DEF Subscribe, Watch, RequestBlock, GetBlockById,
                       ProcessRequestedBlock, Unsubscribe
  <2>3. /\ UNCHANGED <<emulator, contents, poll, detached, clearing, failures, history>>
        /\ blocks' = blocks \/ blocks' = blocks \cup {b}
    BY <1>13 DEF Subscribe, Watch, RequestBlock, GetBlockById,
                 ProcessRequestedBlock, Unsubscribe
  <2> QED
    BY <2>2, <2>3 DEF TypeOK, PollInRange, emulator, history
<1>14. ASSUME NEW b \in Blocks, DetachedProcessed(b) \/ DetachedFails(b) PROVE TypeInv'
  <2>1. b.height \in Heights
    BY DEF Blocks
  <2> QED
    BY <1>14, <2>1 DEF DetachedProcessed, DetachedFails, CountFailure, TypeOK,
                       PollInRange, emulator, history
<1>15. CASE UNCHANGED vars
  BY <1>15 DEF vars, TypeOK, PollInRange, emulator, history
<1> QED
  BY <1>1, <1>2, <1>3, <1>4, <1>5, <1>6, <1>7, <1>8, <1>9, <1>10, <1>11, <1>12,
     <1>13, <1>14, <1>15 DEF Next, Step

LEMMA InitTypeInv == Init => TypeInv
<1> SUFFICES ASSUME Init PROVE TypeInv
  OBVIOUS
<1>1. clearing \in BOOLEAN /\ torn \in BOOLEAN
  BY Zenon DEF Init
<1>2. poll \in [Loops -> Poll] /\ PollInRange
  BY IdlePollType DEF Init, PollInRange
<1> QED
  BY <1>1, <1>2 DEF Init, TypeInv, TypeOK, Heights

THEOREM TypeInvariant == Spec => []TypeInv
BY InitTypeInv, TypeInvStep, PTL DEF Spec

(* Type correctness: heights, forks and counters stay within the bounds,   *)
(* and a poll never asks for a block above the height it read.             *)
THEOREM TypeCorrect == Spec => []TypeOK
BY TypeInvariant, PTL DEF TypeInv

---------------------------------------------------------------------------
(* The inductive invariant.  NoGap speaks of the index only; what makes it *)
(* inductive is what the polls in flight hold in their local variables:    *)
(* everything below the height they are at is covered, and a block that    *)
(* was answered is still the block of the chain.                           *)

Covered(h) == BlockAt(h) \in blocks \/ <<h, "block">> \in gaveUp

CoveredBelow(n) == \A h \in 0..(n - 1) : Covered(h)

AheadOf(p) ==
    /\ p.pc \in InLoop \cup {"latest"} =>
         /\ p.height <= tip + 1
         /\ CoveredBelow(p.height)
    /\ p.pc \in InLoop => p.latest <= tip /\ p.height <= p.latest
    /\ p.pc \in {"answered", "contents"} => p.block = BlockAt(p.height)
    /\ p.pc = "contents" => p.block \in blocks

IndexWhole == \A b \in blocks : OnChain(b) /\ CoveredBelow(b.height + 1)

PollsAhead == \A l \in Loops : AheadOf(poll[l])

(* What else is in flight belongs to blocks that are indexed.              *)
OthersIndexed ==
    /\ detached \subseteq blocks
    /\ \A b \in Blocks :
         \/ status[b] = "none"
         \/ status[b] = "watched" /\ b \in blocks

NoGapInv == Settled => IndexWhole /\ PollsAhead /\ OthersIndexed

LEMMA NoGapInvImplies == TypeOK /\ NoGapInv => NoGap
BY DEF TypeOK, NoGapInv, NoGap, IndexWhole, CoveredBelow, Covered, Blocks, Heights

(* Nothing that covers a height is taken away while the index is settled.  *)
LEMMA StaysCovered ==
  ASSUME TypeInv, UNCHANGED <<chain, fork>>, blocks \subseteq blocks', gaveUp \subseteq gaveUp',
         NEW n \in Int, CoveredBelow(n)
  PROVE  CoveredBelow(n)'
BY DEF CoveredBelow, Covered, BlockAt

(* A step that keeps the emulator and adds to the index only covered       *)
(* blocks of the chain keeps the index whole, and every poll it leaves     *)
(* alone stays ahead.                                                      *)
LEMMA StaysWhole ==
  ASSUME TypeInv, IndexWhole, UNCHANGED emulator, gaveUp \subseteq gaveUp',
         NEW new \in SUBSET Blocks, blocks' = blocks \cup new,
         \A b \in new : OnChain(b) /\ CoveredBelow(b.height)
  PROVE  IndexWhole'
<1> SUFFICES ASSUME NEW b \in blocks' PROVE OnChain(b)' /\ CoveredBelow(b.height + 1)'
  BY DEF IndexWhole
<1>1. b \in Blocks /\ b.height \in Nat
  BY DEF TypeInv, TypeOK, Blocks, Heights
<1>2. OnChain(b)'
  BY DEF IndexWhole, OnChain, BlockAt, emulator
<1>3. CASE b \in blocks
  <2>1. CoveredBelow(b.height + 1)
    BY <1>3 DEF IndexWhole
  <2> QED
    BY <1>1, <1>2, <2>1, StaysCovered DEF emulator
<1>4. CASE b \in new
  <2>1. OnChain(b) /\ CoveredBelow(b.height)
    BY <1>4
  <2>2. CoveredBelow(b.height)'
    BY <1>1, <2>1, StaysCovered DEF emulator
  <2>3. Covered(b.height)'
    BY <1>2, <1>4 DEF OnChain, Covered
  <2> QED
    BY <1>1, <1>2, <2>2, <2>3 DEF CoveredBelow
<1> QED
  BY <1>3, <1>4

LEMMA StaysAhead ==
  ASSUME TypeInv, UNCHANGED emulator, blocks \subseteq blocks', gaveUp \subseteq gaveUp',
         NEW p \in Poll, AheadOf(p)
  PROVE  AheadOf(p)'
<1>1. p.height \in Int
  BY DEF Poll
<1>2. CoveredBelow(p.height) => CoveredBelow(p.height)'
  BY <1>1, StaysCovered DEF emulator
<1> QED
  BY <1>2 DEF AheadOf, BlockAt, emulator

(* Setting one poll to a value that is ahead.                              *)
LEMMA SetPollAhead ==
  ASSUME TypeInv, PollsAhead, UNCHANGED emulator,
         blocks \subseteq blocks', gaveUp \subseteq gaveUp',
         NEW l \in Loops, NEW p \in Poll, SetPoll(l, p), AheadOf(p)'
  PROVE  PollsAhead'
<1> SUFFICES ASSUME NEW m \in Loops PROVE AheadOf(poll[m])'
  BY DEF PollsAhead
<1>1. PICK q : q = poll'[m]
  OBVIOUS
<1>2. CASE m = l
  <2>1. q = p
    BY <1>1, <1>2 DEF SetPoll, TypeInv, TypeOK
  <2> QED
    BY <1>1, <2>1
<1>3. CASE m # l
  <2>1. q = poll[m] /\ q \in Poll
    BY <1>1, <1>3 DEF SetPoll, TypeInv, TypeOK
  <2>2. AheadOf(q)
    BY <2>1 DEF PollsAhead
  <2>3. AheadOf(q)'
    BY <2>1, <2>2, StaysAhead
  <2> QED
    BY <1>1, <2>3
<1> QED
  BY <1>2, <1>3

LEMMA AtHeightAhead ==
  ASSUME TypeInv, UNCHANGED emulator, NEW p \in Poll, NEW h \in Nat,
         p.latest <= tip, CoveredBelow(h)'
  PROVE  AheadOf(AtHeight(p, h))'
<1>1. CASE h <= p.latest
  <2>1. PICK q : q = [p EXCEPT !.pc = "block", !.height = h]
    OBVIOUS
  <2>2. q.pc = "block" /\ q.height = h /\ q.latest = p.latest
    BY <2>1 DEF Poll
  <2>3. tip \in Int /\ p.latest \in Int /\ tip' = tip
    BY DEF TypeInv, TypeOK, Heights, Poll, emulator
  <2>4. AheadOf(q)'
    BY <1>1, <2>2, <2>3 DEF AheadOf, InLoop
  <2>5. AtHeight(p, h) = q
    BY <1>1, <2>1 DEF AtHeight
  <2> QED
    BY <2>4, <2>5
<1>2. CASE ~(h <= p.latest)
  BY <1>2, IdlePollType DEF AtHeight, AheadOf, InLoop, IdlePoll
<1> QED
  BY <1>1, <1>2

(* A new block on the chain: the blocks below keep their place.            *)
LEMMA MineKeeps ==
  ASSUME TypeInv, NoGapInv, Mine
  PROVE  NoGapInv'
<1> SUFFICES ASSUME Settled' PROVE IndexWhole' /\ PollsAhead' /\ OthersIndexed'
  BY DEF NoGapInv
<1>0. Settled
  BY DEF Settled, Mine, history
<1>1. \A h \in Heights : h <= tip => BlockAt(h)' = BlockAt(h)
  BY DEF Mine, BlockAt, TypeInv, TypeOK, Heights
<1>2. tip \in Int /\ tip < MaxHeight /\ tip' = tip + 1 /\ UNCHANGED <<blocks, poll, gaveUp>>
  BY DEF Mine, TypeInv, TypeOK, Heights, history
<1>3. ASSUME NEW n \in Int, n <= tip + 1, CoveredBelow(n) PROVE CoveredBelow(n)'
  <2> SUFFICES ASSUME NEW h \in 0..(n - 1) PROVE Covered(h)'
    BY DEF CoveredBelow
  <2>1. h \in Heights /\ h <= tip
    BY <1>2, <1>3 DEF Heights
  <2> QED
    BY <1>1, <1>2, <1>3, <2>1 DEF CoveredBelow, Covered
<1>4. ASSUME NEW b \in blocks PROVE OnChain(b)' /\ CoveredBelow(b.height + 1)'
  <2>1. b.height \in Heights /\ b.height <= tip /\ b = BlockAt(b.height)
    BY <1>0, <1>4 DEF NoGapInv, IndexWhole, OnChain, TypeInv, TypeOK, Blocks
  <2>2. CoveredBelow(b.height + 1)
    BY <1>0, <1>4 DEF NoGapInv, IndexWhole
  <2>3. b.height + 1 \in Int /\ b.height + 1 <= tip + 1
    BY <1>2, <2>1 DEF Heights
  <2>4. b = BlockAt(b.height)' /\ b.height <= tip'
    BY <1>1, <1>2, <2>1 DEF Heights
  <2> QED
    BY <1>3, <2>2, <2>3, <2>4 DEF OnChain
<1>5. ASSUME NEW l \in Loops PROVE AheadOf(poll[l])'
  <2>1. PICK p \in Poll : p = poll[l] /\ AheadOf(p)
    BY <1>0 DEF NoGapInv, PollsAhead, TypeInv, TypeOK
  <2>2. p.height \in Int /\ p.latest \in Int
    BY DEF Poll, Heights
  <2>3. p.pc \in InLoop \cup {"latest"} => p.height <= tip' + 1 /\ CoveredBelow(p.height)'
    BY <1>2, <1>3, <2>1, <2>2 DEF AheadOf
  <2>4. p.pc \in {"answered", "contents"} => p.block = BlockAt(p.height)'
    <3>1. p.pc \in {"answered", "contents"} => p.height <= tip /\ p.height \in Heights
      BY <1>2, <2>1, <2>2 DEF AheadOf, InLoop, Poll, Heights
    <3> QED
      BY <1>1, <2>1, <3>1 DEF AheadOf
  <2>5. AheadOf(p)'
    BY <1>2, <2>1, <2>2, <2>3, <2>4 DEF AheadOf
  <2> QED
    BY <1>2, <2>1, <2>5
<1>6. OthersIndexed'
  BY <1>0 DEF Mine, NoGapInv, OthersIndexed
<1> QED
  BY <1>2, <1>4, <1>5, <1>6 DEF IndexWhole, PollsAhead

(* A block whose processBlock is under way is indexed.                     *)
LEMMA ProcessingIndexed ==
  ASSUME TypeInv, NoGapInv, Settled
  PROVE  Processing \subseteq blocks
<1>1. ASSUME NEW m \in Loops, poll[m].pc = "contents" PROVE poll[m].block \in blocks
  BY <1>1 DEF NoGapInv, PollsAhead, AheadOf
<1> QED
  BY <1>1 DEF NoGapInv, OthersIndexed, Processing

(* The steps of one poll.                                                  *)
LEMMA PollKeeps ==
  ASSUME TypeInv, NoGapInv, NEW l \in Loops,
         Begin(l) \/ Step(l) \/ Fail(l) \/ StorageFails(l)
  PROVE  NoGapInv'
<1> SUFFICES ASSUME Settled' PROVE IndexWhole' /\ PollsAhead' /\ OthersIndexed'
  BY DEF NoGapInv
<1>0. Settled /\ UNCHANGED emulator
  <2>1. UNCHANGED <<emulator, clearing, torn>>
    <3>1. ASSUME NEW what, GiveUp(l, what) PROVE UNCHANGED torn
      BY <3>1 DEF GiveUp
    <3>2. CASE Begin(l)
      BY <3>2 DEF Begin, history
    <3>3. CASE Step(l)
      BY <3>1, <3>3 DEF Step, Online, Latest, GetBlockByHeight, BlockNotFound,
                        ProcessBlock, BlockProcessed, history
    <3>4. CASE Fail(l) \/ StorageFails(l)
      BY <3>1, <3>4 DEF Fail, StorageFails, history
    <3> QED
      BY <3>2, <3>3, <3>4
  <2> QED
    BY <2>1 DEF Settled
<1>1. IndexWhole /\ PollsAhead /\ AheadOf(poll[l]) /\ poll[l] \in Poll
  BY <1>0 DEF NoGapInv, PollsAhead, TypeInv, TypeOK
<1>2. PICK old \in Poll : old = poll[l] /\ AheadOf(old)
  BY <1>1
<1>3. /\ old.height \in Nat /\ old.latest \in Heights /\ old.block \in Blocks
      /\ tip \in Heights /\ tip' = tip
  BY <1>0 DEF Poll, TypeInv, TypeOK, Heights, emulator
<1>4. ASSUME UNCHANGED blocks, gaveUp \subseteq gaveUp',
             NEW p \in Poll, SetPoll(l, p), AheadOf(p)'
      PROVE  IndexWhole' /\ PollsAhead'
  <2>1. IndexWhole'
    <3>1. {} \in SUBSET Blocks /\ blocks' = blocks \cup {}
      BY <1>4
    <3> QED
      BY <1>0, <1>1, <1>4, <3>1, StaysWhole
  <2> QED
    BY <1>0, <1>1, <1>4, <2>1, SetPollAhead
<1>5. ASSUME UNCHANGED blocks, old.pc \in InLoop, NEW what, GiveUp(l, what),
             Covered(old.height)'
      PROVE  IndexWhole' /\ PollsAhead'
  <2>1. gaveUp \subseteq gaveUp' /\ SetPoll(l, AtHeight(old, old.height + 1))
    BY <1>2, <1>5 DEF GiveUp
  <2>2. CoveredBelow(old.height + 1)'
    <3>1. CoveredBelow(old.height)'
      BY <1>0, <1>2, <1>3, <1>5, <2>1, StaysCovered DEF AheadOf, emulator
    <3> QED
      BY <1>3, <1>5, <3>1 DEF CoveredBelow
  <2>3. old.latest <= tip
    BY <1>2, <1>5 DEF AheadOf
  <2>4. PICK p : p = AtHeight(old, old.height + 1)
    OBVIOUS
  <2>5. p \in Poll
    BY <1>3, <2>4, AtHeightType
  <2>6. AheadOf(p)'
    BY <1>0, <1>3, <2>2, <2>3, <2>4, AtHeightAhead
  <2> QED
    BY <1>4, <1>5, <2>1, <2>4, <2>5, <2>6
<1>6. ASSUME Begin(l) PROVE IndexWhole' /\ PollsAhead'
  <2>1. PICK p : p = [IdlePoll EXCEPT !.pc = "online"]
    OBVIOUS
  <2>2. p \in Poll /\ p.pc = "online"
    BY <2>1, IdlePollType DEF Poll, IdlePoll
  <2>3. AheadOf(p)'
    BY <2>2 DEF AheadOf, InLoop
  <2> QED
    BY <1>4, <1>6, <2>1, <2>2, <2>3 DEF Begin, history
<1>7. ASSUME Online(l) PROVE IndexWhole' /\ PollsAhead'
  <2>1. PICK n \in 0..(MaxHeight + 1) :
          /\ NextBlockHeightToProcess(n)
          /\ SetPoll(l, [IdlePoll EXCEPT !.pc = "latest", !.height = n])
    BY <1>7 DEF Online
  <2>2. PICK p : p = [IdlePoll EXCEPT !.pc = "latest", !.height = n]
    OBVIOUS
  <2>3. p \in Poll /\ p.pc = "latest" /\ p.height = n
    BY <2>2, IdlePollType DEF Poll, IdlePoll
  <2>4. n <= tip + 1 /\ CoveredBelow(n)
    <3>1. CASE n = 0
      BY <1>3, <3>1 DEF CoveredBelow, Heights
    <3>2. CASE n # 0
      <4>1. PICK b \in blocks : b.height = n - 1
        BY <2>1, <3>2 DEF NextBlockHeightToProcess, HasHeight
      <4>2. b.height <= tip /\ CoveredBelow(b.height + 1)
        BY <1>1 DEF IndexWhole, OnChain
      <4>3. b.height + 1 = n
        BY <4>1
      <4> QED
        BY <1>3, <4>1, <4>2, <4>3 DEF Heights
    <3> QED
      BY <3>1, <3>2
  <2>5. UNCHANGED <<blocks, gaveUp>>
    BY <1>7 DEF Online, history
  <2>6. CoveredBelow(n)'
    BY <1>0, <2>4, <2>5, StaysCovered DEF emulator
  <2>7. AheadOf(p)'
    BY <1>3, <2>3, <2>4, <2>6 DEF AheadOf, InLoop
  <2> QED
    BY <1>4, <2>1, <2>2, <2>3, <2>5, <2>7
<1>8. ASSUME Latest(l) PROVE IndexWhole' /\ PollsAhead'
  <2>1. PICK q : q = [old EXCEPT !.latest = tip]
    OBVIOUS
  <2>2. q \in Poll /\ q.latest = tip
    BY <1>3, <2>1 DEF Poll
  <2>3. UNCHANGED <<blocks, gaveUp>> /\ old.pc = "latest" /\ SetPoll(l, AtHeight(q, old.height))
    BY <1>2, <1>8, <2>1 DEF Latest, history
  <2>4. CoveredBelow(old.height)'
    BY <1>0, <1>2, <1>3, <2>3, StaysCovered DEF AheadOf, emulator
  <2>5. PICK p : p = AtHeight(q, old.height)
    OBVIOUS
  <2>6. p \in Poll
    BY <1>3, <2>2, <2>5, AtHeightType
  <2>7. AheadOf(p)'
    BY <1>0, <1>3, <2>2, <2>4, <2>5, AtHeightAhead DEF Heights
  <2> QED
    BY <1>4, <2>3, <2>5, <2>6, <2>7
<1>9. ASSUME GetBlockByHeight(l) PROVE IndexWhole' /\ PollsAhead'
  <2>1. /\ UNCHANGED <<blocks, gaveUp, chain>> /\ old.pc = "block" /\ old.height <= tip
        /\ SetPoll(l, [old EXCEPT !.pc = "answered", !.block = BlockAt(old.height)])
    BY <1>0, <1>2, <1>9 DEF GetBlockByHeight, history, emulator
  <2>2. PICK p : p = [old EXCEPT !.pc = "answered", !.block = BlockAt(old.height)]
    OBVIOUS
  <2>3. BlockAt(old.height) \in Blocks
    BY <1>3, <2>1, BlockAtType DEF TypeInv, Heights
  <2>4. /\ p \in Poll /\ p.pc = "answered" /\ p.height = old.height
        /\ p.latest = old.latest /\ p.block = BlockAt(old.height)
    BY <2>2, <2>3 DEF Poll
  <2>5. p.block = BlockAt(p.height)'
    BY <2>1, <2>4 DEF BlockAt
  <2>6. CoveredBelow(old.height)'
    BY <1>0, <1>2, <1>3, <2>1, StaysCovered DEF AheadOf, InLoop, emulator
  <2>7. AheadOf(p)'
    BY <1>2, <1>3, <2>1, <2>4, <2>5, <2>6 DEF AheadOf, InLoop
  <2> QED
    BY <1>4, <2>1, <2>2, <2>4, <2>7
<1>10. ASSUME BlockNotFound(l) PROVE IndexWhole' /\ PollsAhead'
  <2>1. old.pc = "block" /\ GiveUp(l, "block") /\ UNCHANGED blocks
    BY <1>2, <1>10 DEF BlockNotFound
  <2>2. Covered(old.height)'
    BY <1>2, <2>1 DEF GiveUp, Covered
  <2> QED
    BY <1>5, <2>1, <2>2 DEF InLoop
<1>11. ASSUME ProcessBlock(l) PROVE IndexWhole' /\ PollsAhead'
  <2>1. /\ UNCHANGED <<gaveUp, chain>> /\ old.pc = "answered"
        /\ blocks' = blocks \cup {old.block}
        /\ SetPoll(l, [old EXCEPT !.pc = "contents"])
    BY <1>0, <1>2, <1>11 DEF ProcessBlock, history, emulator
  <2>2. /\ old.block = BlockAt(old.height) /\ old.height <= tip
        /\ CoveredBelow(old.height)
    BY <1>2, <1>3, <2>1 DEF AheadOf, InLoop, Heights
  <2>3. old.block.height = old.height
    BY <2>2 DEF BlockAt
  <2>4. OnChain(old.block) /\ CoveredBelow(old.block.height)
    BY <2>2, <2>3 DEF OnChain
  <2>5. {old.block} \in SUBSET Blocks
    BY <1>3
  <2>6. IndexWhole'
    BY <1>0, <1>1, <2>1, <2>4, <2>5, StaysWhole
  <2>7. PICK p : p = [old EXCEPT !.pc = "contents"]
    OBVIOUS
  <2>8. /\ p \in Poll /\ p.pc = "contents" /\ p.height = old.height
        /\ p.latest = old.latest /\ p.block = old.block
    BY <2>7 DEF Poll
  <2>9. CoveredBelow(p.height)'
    BY <1>0, <1>3, <2>1, <2>2, <2>8, StaysCovered DEF emulator
  <2>10. p.block = BlockAt(p.height)' /\ p.block \in blocks'
    BY <2>1, <2>2, <2>8 DEF BlockAt
  <2>11. AheadOf(p)'
    BY <1>2, <1>3, <2>1, <2>8, <2>9, <2>10 DEF AheadOf, InLoop
  <2> QED
    BY <1>0, <1>1, <2>1, <2>6, <2>7, <2>8, <2>11, SetPollAhead
<1>12. ASSUME old.pc = "contents", UNCHANGED blocks PROVE Covered(old.height)'
  BY <1>0, <1>2, <1>12 DEF AheadOf, Covered, BlockAt, emulator
<1>13. ASSUME BlockProcessed(l) PROVE IndexWhole' /\ PollsAhead'
  <2>1. /\ old.pc = "contents" /\ UNCHANGED <<blocks, gaveUp>>
        /\ SetPoll(l, AtHeight(old, old.height + 1))
    BY <1>2, <1>13 DEF BlockProcessed, history
  <2>2. CoveredBelow(old.height + 1)'
    <3>1. CoveredBelow(old.height)'
      BY <1>0, <1>2, <1>3, <2>1, StaysCovered DEF AheadOf, InLoop, emulator
    <3> QED
      BY <1>3, <1>12, <2>1, <3>1 DEF CoveredBelow
  <2>3. old.latest <= tip
    BY <1>2, <2>1 DEF AheadOf, InLoop
  <2>4. PICK p : p = AtHeight(old, old.height + 1)
    OBVIOUS
  <2>5. p \in Poll
    BY <1>3, <2>4, AtHeightType
  <2>6. AheadOf(p)'
    BY <1>0, <1>3, <2>2, <2>3, <2>4, AtHeightAhead
  <2> QED
    BY <1>4, <2>1, <2>4, <2>5, <2>6
<1>14. ASSUME Fail(l) PROVE IndexWhole' /\ PollsAhead'
  <2>1. CASE old.pc \in {"online", "latest"}
    <3>1. UNCHANGED <<blocks, gaveUp>> /\ SetPoll(l, IdlePoll)
      BY <1>2, <1>14, <2>1 DEF Fail, history
    <3>2. IdlePoll \in Poll /\ AheadOf(IdlePoll)'
      BY IdlePollType DEF AheadOf, InLoop, IdlePoll
    <3> QED
      BY <1>4, <3>1, <3>2
  <2>2. CASE old.pc \in {"block", "contents"}
    <3>1. GiveUp(l, old.pc) /\ UNCHANGED blocks
      BY <1>2, <1>14, <2>2 DEF Fail
    <3>2. Covered(old.height)'
      BY <1>2, <1>12, <2>2, <3>1 DEF GiveUp, Covered
    <3> QED
      BY <1>5, <2>2, <3>1, <3>2 DEF InLoop
  <2> QED
    BY <1>2, <1>14, <2>1, <2>2 DEF Fail
<1>15. ASSUME StorageFails(l) PROVE IndexWhole' /\ PollsAhead'
  <2>1. old.pc = "contents" /\ GiveUp(l, "storage") /\ UNCHANGED blocks
    BY <1>2, <1>15 DEF StorageFails
  <2> QED
    BY <1>5, <1>12, <2>1 DEF InLoop
<1>16. IndexWhole' /\ PollsAhead'
  BY <1>6, <1>7, <1>8, <1>9, <1>10, <1>11, <1>13, <1>14, <1>15 DEF Step
<1>17. OthersIndexed'
  <2>1. status' = status /\ blocks \subseteq blocks'
    BY DEF Begin, Step, Online, Latest, GetBlockByHeight, BlockNotFound,
           ProcessBlock, BlockProcessed, Fail, StorageFails
  <2>2. detached' \subseteq detached \cup Processing
    BY DEF Begin, Step, Online, Latest, GetBlockByHeight, BlockNotFound,
           ProcessBlock, BlockProcessed, Fail, StorageFails, Processing
  <2>3. Processing \subseteq blocks
    BY <1>0, ProcessingIndexed
  <2> QED
    BY <1>0, <2>1, <2>2, <2>3 DEF NoGapInv, OthersIndexed, Processing
<1> QED
  BY <1>16, <1>17

(* Steps that leave the index and the polls alone.                         *)
LEMMA SameIndex ==
  ASSUME TypeInv, IndexWhole, PollsAhead, UNCHANGED <<emulator, blocks, poll>>,
         gaveUp \subseteq gaveUp'
  PROVE  IndexWhole' /\ PollsAhead'
<1>1. IndexWhole'
  <2>1. {} \in SUBSET Blocks /\ blocks' = blocks \cup {}
    OBVIOUS
  <2> QED
    BY <2>1, StaysWhole
<1>2. ASSUME NEW m \in Loops PROVE AheadOf(poll[m])'
  <2>1. PICK q \in Poll : q = poll[m] /\ AheadOf(q)
    BY DEF PollsAhead, TypeInv, TypeOK
  <2>2. AheadOf(q)'
    BY <2>1, StaysAhead
  <2> QED
    BY <2>1, <2>2
<1> QED
  BY <1>1, <1>2 DEF PollsAhead

LEMMA OthersKeep ==
  ASSUME TypeInv, NoGapInv, UNCHANGED <<emulator, blocks, poll, status, clearing, torn>>,
         gaveUp \subseteq gaveUp', detached' \subseteq detached
  PROVE  NoGapInv'
<1> SUFFICES ASSUME Settled' PROVE IndexWhole' /\ PollsAhead' /\ OthersIndexed'
  BY DEF NoGapInv
<1>1. IndexWhole /\ PollsAhead /\ OthersIndexed
  BY DEF NoGapInv, Settled
<1>2. OthersIndexed'
  BY <1>1 DEF OthersIndexed
<1> QED
  BY <1>1, <1>2, SameIndex

(* A status subscription finds its block in the index.                     *)
LEMMA WatchKeeps ==
  ASSUME TypeInv, NoGapInv, NEW b \in Blocks, Subscribe(b) \/ Watch(b)
  PROVE  NoGapInv'
<1> SUFFICES ASSUME Settled' PROVE IndexWhole' /\ PollsAhead' /\ OthersIndexed'
  BY DEF NoGapInv
<1>0. Settled /\ IndexWhole /\ PollsAhead /\ OthersIndexed
  <2>1. UNCHANGED <<clearing, torn>>
    BY DEF Subscribe, Watch, RequestBlock, GetBlockById, ProcessRequestedBlock,
           Unsubscribe, history
  <2> QED
    BY <2>1 DEF Settled, NoGapInv
<1>1. CASE Subscribe(b)
  <2>1. UNCHANGED <<emulator, blocks, poll, detached, gaveUp>>
    BY <1>1 DEF Subscribe, history
  <2>2. b \in blocks
    BY <1>0, <1>1, ProcessingIndexed DEF Subscribe
  <2>3. status' = [status EXCEPT ![b] = "watched"] /\ DOMAIN status = Blocks
    BY <1>1 DEF Subscribe, SetStatus, TypeInv, TypeOK
  <2>4. OthersIndexed'
    BY <1>0, <2>1, <2>2, <2>3 DEF OthersIndexed
  <2> QED
    BY <1>0, <2>1, <2>4, SameIndex
<1>2. CASE Watch(b)
  <2>1. Unsubscribe(b)
    BY <1>0, <1>2 DEF OthersIndexed, Watch, RequestBlock, GetBlockById, ProcessRequestedBlock
  <2>2. UNCHANGED <<emulator, blocks, poll, detached, gaveUp>>
    BY <2>1 DEF Unsubscribe, history
  <2>3. status' = [status EXCEPT ![b] = "none"] /\ DOMAIN status = Blocks
    BY <2>1 DEF Unsubscribe, SetStatus, TypeInv, TypeOK
  <2>4. OthersIndexed'
    BY <1>0, <2>2, <2>3 DEF OthersIndexed
  <2> QED
    BY <1>0, <2>2, <2>4, SameIndex
<1> QED
  BY <1>1, <1>2

(* A clear that finds nothing in flight starts from nothing.               *)
LEMMA ClearKeeps ==
  ASSUME TypeInv, Clear
  PROVE  NoGapInv'
<1> SUFFICES ASSUME Settled' PROVE IndexWhole' /\ PollsAhead' /\ OthersIndexed'
  BY DEF NoGapInv
<1>0. ~InFlight /\ UNCHANGED <<poll, detached, status>>
  BY DEF Clear, Settled
<1>1. IndexWhole'
  BY DEF Clear, IndexWhole
<1>2. ASSUME NEW m \in Loops PROVE AheadOf(poll[m])'
  <2>1. poll[m].pc = "idle" /\ poll' = poll
    BY <1>0 DEF InFlight
  <2> QED
    BY <2>1 DEF AheadOf, InLoop
<1>3. OthersIndexed'
  BY <1>0 DEF InFlight, OthersIndexed
<1> QED
  BY <1>1, <1>2, <1>3 DEF PollsAhead

LEMMA NoGapInvStep == TypeInv /\ NoGapInv /\ [Next]_vars => NoGapInv'
<1> SUFFICES ASSUME TypeInv, NoGapInv, [Next]_vars PROVE NoGapInv'
  OBVIOUS
<1>1. CASE Mine
  BY <1>1, MineKeeps
<1>2. ASSUME NEW h \in Heights, Rollback(h) PROVE NoGapInv'
  BY <1>2 DEF Rollback, NoGapInv, Settled
<1>3. CASE Clear
  BY <1>3, ClearKeeps
<1>4. ASSUME NEW l \in Loops, Begin(l) \/ Step(l) \/ Fail(l) \/ StorageFails(l)
      PROVE  NoGapInv'
  BY <1>4, PollKeeps
<1>5. ASSUME NEW b \in Blocks, DetachedProcessed(b) \/ DetachedFails(b) PROVE NoGapInv'
  <2>1. /\ UNCHANGED <<emulator, blocks, poll, status, clearing, torn>>
        /\ gaveUp \subseteq gaveUp' /\ detached' \subseteq detached
    BY <1>5 DEF DetachedProcessed, DetachedFails, history
  <2> QED
    BY <2>1, OthersKeep
<1>6. ASSUME NEW b \in Blocks, Subscribe(b) \/ Watch(b) PROVE NoGapInv'
  BY <1>6, WatchKeeps
<1>7. CASE UNCHANGED vars
  <2>1. /\ UNCHANGED <<emulator, blocks, poll, status, clearing, torn>>
        /\ gaveUp \subseteq gaveUp' /\ detached' \subseteq detached
    BY <1>7 DEF vars, history
  <2> QED
    BY <2>1, OthersKeep
<1> QED
  BY <1>1, <1>2, <1>3, <1>4, <1>5, <1>6, <1>7 DEF Next

(* The index is settled and has no gap: it holds only blocks of the chain, *)
(* and every block below one it holds, or a request for it failed.  Not    *)
(* inductive by itself: what the polls and the subscriptions in flight     *)
(* hold has to agree with the chain too (NoGapInv).                        *)
THEOREM IndexHasNoGap == Spec => []NoGap
<1>1. Init => NoGapInv
  BY IdlePollType DEF Init, NoGapInv, IndexWhole, PollsAhead, OthersIndexed, AheadOf,
                      InLoop, IdlePoll
<1>2. TypeInv /\ NoGapInv => NoGap
  BY NoGapInvImplies DEF TypeInv
<1> QED
  BY <1>1, <1>2, TypeInvariant, NoGapInvStep, PTL DEF Spec

---------------------------------------------------------------------------
(* One poll at a time.  The contents of the blocks are indexed in order    *)
(* because a poll that begins finds no other one whose block is in hand:   *)
(* every block of the index is done, and the poll resumes above them.      *)

OneLoop == \A k, l \in Loops : k = l

Done(h) ==
    \/ BlockAt(h) \in contents
    \/ \E what \in {"block", "contents", "storage"} : <<h, what>> \in gaveUp

DoneBelow(n) == \A h \in 0..(n - 1) : Done(h)

InHand(b) == \E l \in Loops : poll[l].pc = "contents" /\ poll[l].block = b

(* A poll in its loop has done everything below its height, and nothing of *)
(* the index is above it.                                                  *)
OrderOf(p) == p.pc \in InLoop \cup {"latest"} =>
    /\ DoneBelow(p.height)
    /\ \A b \in blocks : b.height < p.height \/ (p.pc = "contents" /\ b.height = p.height)

BlocksDone == \A b \in blocks : DoneBelow(b.height) /\ (Done(b.height) \/ InHand(b))

OrderInv == Settled => contents \subseteq blocks /\ BlocksDone /\ \A l \in Loops : OrderOf(poll[l])

LEMMA OrderInvImplies == OrderInv => InOrder
BY DEF OrderInv, InOrder, BlocksDone, DoneBelow, Done

(* What is done stays so while the index is settled.                       *)
LEMMA StaysDone ==
  ASSUME UNCHANGED emulator, contents \subseteq contents', gaveUp \subseteq gaveUp'
  PROVE  /\ \A h : Done(h) => Done(h)'
         /\ \A n \in Int : DoneBelow(n) => DoneBelow(n)'
BY DEF Done, DoneBelow, BlockAt, emulator

(* A poll moves on, having done the block it had in hand.                  *)
LEMMA OrderStep ==
  ASSUME OneLoop, TypeInv, NoGapInv, OrderInv, Settled,
         UNCHANGED <<emulator, blocks>>, contents \subseteq contents', contents' \subseteq blocks,
         gaveUp \subseteq gaveUp',
         NEW l \in Loops, NEW p \in Poll, SetPoll(l, p), OrderOf(p)',
         NEW old, old = poll[l], old.pc = "contents" => Done(old.height)'
  PROVE  OrderInv'
<1>1. \A m \in Loops : poll'[m] = p
  BY DEF OneLoop, SetPoll, TypeInv, TypeOK
<1>2. ASSUME NEW b \in blocks PROVE DoneBelow(b.height)' /\ Done(b.height)'
  <2>1. b.height \in Int /\ DoneBelow(b.height) /\ (Done(b.height) \/ InHand(b))
    BY DEF OrderInv, BlocksDone, TypeInv, TypeOK, Blocks, Heights
  <2>2. ASSUME InHand(b) PROVE Done(b.height)'
    <3>1. old.pc = "contents" /\ old.block = b
      BY <2>2 DEF InHand, OneLoop
    <3>2. b = BlockAt(old.height)
      BY <3>1 DEF NoGapInv, PollsAhead, AheadOf
    <3>3. b.height = old.height
      BY <3>2 DEF BlockAt
    <3> QED
      BY <3>1, <3>3
  <2> QED
    BY <2>1, <2>2, StaysDone
<1>3. BlocksDone'
  BY <1>2 DEF BlocksDone
<1> QED
  BY <1>1, <1>3 DEF OrderInv

(* The height of the poll is done: the loop goes on with the next one.     *)
LEMMA OrderAdvance ==
  ASSUME OneLoop, TypeInv, NoGapInv, OrderInv, Settled,
         UNCHANGED <<emulator, blocks>>, contents \subseteq contents', contents' \subseteq blocks,
         gaveUp \subseteq gaveUp',
         NEW l \in Loops, NEW old, old = poll[l], old.pc \in InLoop, Done(old.height)',
         SetPoll(l, AtHeight(old, old.height + 1))
  PROVE  OrderInv'
<1>1. old \in Poll /\ OrderOf(old)
  BY DEF TypeInv, TypeOK, OrderInv
<1>2. old.height \in Nat /\ old.height + 1 \in Nat /\ \A b \in blocks : b.height \in Int
  BY DEF Poll, TypeInv, TypeOK, Blocks, Heights
<1>3. PICK p : p = AtHeight(old, old.height + 1)
  OBVIOUS
<1>4. p \in Poll
  BY <1>1, <1>2, <1>3, AtHeightType
<1>5. CASE old.height + 1 <= old.latest
  <2>1. p.pc = "block" /\ p.height = old.height + 1
    BY <1>1, <1>3, <1>5 DEF AtHeight, Poll
  <2>2. DoneBelow(old.height)'
    BY <1>1, <1>2, StaysDone DEF OrderOf
  <2>3. DoneBelow(old.height + 1)'
    BY <1>1, <1>2, <2>2 DEF DoneBelow
  <2>4. \A b \in blocks : b.height < old.height + 1
    BY <1>1, <1>2 DEF OrderOf
  <2>5. OrderOf(p)'
    BY <2>1, <2>3, <2>4 DEF OrderOf
  <2> QED
    BY <1>1, <1>3, <1>4, <2>5, OrderStep
<1>6. CASE ~(old.height + 1 <= old.latest)
  <2>1. p = IdlePoll
    BY <1>3, <1>6 DEF AtHeight
  <2>2. OrderOf(p)'
    BY <2>1, IdlePollType DEF OrderOf, IdlePoll
  <2> QED
    BY <1>1, <1>3, <1>4, <2>2, OrderStep
<1> QED
  BY <1>5, <1>6

(* The steps of one poll.                                                  *)
LEMMA PollOrders ==
  ASSUME OneLoop, TypeInv, NoGapInv, OrderInv, Settled, NEW l \in Loops,
         Begin(l) \/ Step(l) \/ Fail(l) \/ StorageFails(l)
  PROVE  OrderInv'
<1>1. PICK old \in Poll : old = poll[l] /\ OrderOf(old) /\ AheadOf(old)
  BY DEF TypeInv, TypeOK, OrderInv, NoGapInv, PollsAhead
<1>2. /\ old.height \in Nat /\ old.block \in Blocks /\ contents \subseteq blocks
      /\ \A b \in blocks : b.height \in Nat /\ b.height <= MaxHeight
  BY DEF Poll, TypeInv, TypeOK, Blocks, Heights, OrderInv
<1>3. ASSUME UNCHANGED <<emulator, blocks, contents>>, old.pc \in InLoop,
             NEW what \in {"block", "contents", "storage"}, GiveUp(l, what)
      PROVE  OrderInv'
  <2>1. /\ gaveUp' = gaveUp \cup {<<old.height, what>>}
        /\ SetPoll(l, AtHeight(old, old.height + 1))
    BY <1>1, <1>3 DEF GiveUp
  <2>2. Done(old.height)'
    BY <2>1 DEF Done
  <2> QED
    BY <1>1, <1>2, <1>3, <2>1, <2>2, OrderAdvance
<1>4. ASSUME UNCHANGED <<emulator, blocks, contents, gaveUp>>, old.pc # "contents",
             NEW p \in Poll, SetPoll(l, p), OrderOf(p)'
      PROVE  OrderInv'
  BY <1>1, <1>2, <1>4, OrderStep
<1>5. CASE Begin(l)
  <2>1. PICK p : p = [IdlePoll EXCEPT !.pc = "online"]
    OBVIOUS
  <2>2. p \in Poll /\ OrderOf(p)'
    BY <2>1, IdlePollType DEF Poll, IdlePoll, OrderOf, InLoop
  <2> QED
    BY <1>1, <1>4, <1>5, <2>1, <2>2 DEF Begin, history
<1>6. CASE Online(l)
  <2>1. PICK n \in 0..(MaxHeight + 1) :
          /\ NextBlockHeightToProcess(n)
          /\ SetPoll(l, [IdlePoll EXCEPT !.pc = "latest", !.height = n])
    BY <1>6 DEF Online
  <2>2. PICK p : p = [IdlePoll EXCEPT !.pc = "latest", !.height = n]
    OBVIOUS
  <2>3. p \in Poll /\ p.pc = "latest" /\ p.height = n
    BY <2>2, IdlePollType DEF Poll, IdlePoll
  <2>4. UNCHANGED <<emulator, blocks, contents, gaveUp>> /\ old.pc = "online"
    BY <1>1, <1>6 DEF Online, history
  <2>5. \A b \in blocks : b.height < n
    BY <2>1 DEF NextBlockHeightToProcess
  <2>6. DoneBelow(n)
    <3>1. CASE n = 0
      BY <3>1 DEF DoneBelow
    <3>2. CASE n # 0
      <4>1. PICK b \in blocks : b.height = n - 1
        BY <2>1, <3>2 DEF NextBlockHeightToProcess, HasHeight
      <4>2. DoneBelow(b.height) /\ Done(b.height)
        BY <1>1, <2>4 DEF OrderInv, BlocksDone, InHand, OneLoop
      <4> QED
        BY <2>1, <4>1, <4>2 DEF DoneBelow
    <3> QED
      BY <3>1, <3>2
  <2>7. OrderOf(p)'
    <3>1. DoneBelow(n)'
      BY <2>4, <2>6, StaysDone
    <3> QED
      BY <2>3, <2>4, <2>5, <3>1 DEF OrderOf
  <2> QED
    BY <1>4, <2>1, <2>2, <2>3, <2>4, <2>7
<1>7. CASE Latest(l)
  <2>1. /\ UNCHANGED <<emulator, blocks, contents, gaveUp>> /\ old.pc = "latest"
        /\ SetPoll(l, AtHeight([old EXCEPT !.latest = tip], old.height))
    BY <1>1, <1>7 DEF Latest, history
  <2>2. PICK q : q = [old EXCEPT !.latest = tip]
    OBVIOUS
  <2>3. q \in Poll
    BY <2>2 DEF Poll, TypeInv, TypeOK
  <2>4. PICK p : p = AtHeight(q, old.height)
    OBVIOUS
  <2>5. p \in Poll
    BY <1>2, <2>3, <2>4, AtHeightType
  <2>6. p = IdlePoll \/ (p.pc = "block" /\ p.height = old.height)
    BY <2>3, <2>4 DEF AtHeight, Poll
  <2>7. DoneBelow(old.height)' /\ \A b \in blocks : b.height < old.height
    BY <1>1, <1>2, <2>1, StaysDone DEF OrderOf
  <2>8. OrderOf(p)'
    BY <2>1, <2>6, <2>7 DEF OrderOf, IdlePoll, InLoop
  <2> QED
    BY <1>4, <2>1, <2>2, <2>4, <2>5, <2>8
<1>8. CASE GetBlockByHeight(l)
  <2>1. /\ UNCHANGED <<emulator, blocks, contents, gaveUp>>
        /\ old.pc = "block" /\ old.height <= tip
        /\ SetPoll(l, [old EXCEPT !.pc = "answered", !.block = BlockAt(old.height)])
    BY <1>1, <1>8 DEF GetBlockByHeight, history
  <2>2. PICK p : p = [old EXCEPT !.pc = "answered", !.block = BlockAt(old.height)]
    OBVIOUS
  <2>3. BlockAt(old.height) \in Blocks
    BY <1>2, <2>1, BlockAtType DEF TypeInv, TypeOK, Heights
  <2>4. p \in Poll /\ p.pc = "answered" /\ p.height = old.height
    BY <2>2, <2>3 DEF Poll
  <2>5. DoneBelow(old.height)' /\ \A b \in blocks : b.height < old.height
    BY <1>1, <1>2, <2>1, StaysDone DEF OrderOf, InLoop
  <2>6. OrderOf(p)'
    BY <2>1, <2>4, <2>5 DEF OrderOf
  <2> QED
    BY <1>4, <2>1, <2>2, <2>4, <2>6
<1>9. CASE BlockNotFound(l)
  <2>1. old.pc \in InLoop /\ GiveUp(l, "block") /\ UNCHANGED <<emulator, blocks, contents>>
    BY <1>1, <1>9 DEF BlockNotFound, InLoop
  <2> QED
    BY <1>3, <2>1
<1>10. CASE ProcessBlock(l)
  <2>1. /\ UNCHANGED <<emulator, contents, gaveUp>> /\ old.pc = "answered"
        /\ blocks' = blocks \cup {old.block}
        /\ SetPoll(l, [old EXCEPT !.pc = "contents"])
    BY <1>1, <1>10 DEF ProcessBlock, history
  <2>2. PICK p : p = [old EXCEPT !.pc = "contents"]
    OBVIOUS
  <2>3. p.pc = "contents" /\ p.height = old.height /\ p.block = old.block
    BY <2>2 DEF Poll
  <2>4. \A m \in Loops : poll'[m] = p
    BY <2>1, <2>2 DEF OneLoop, SetPoll, TypeInv, TypeOK
  <2>5. /\ old.block.height = old.height /\ DoneBelow(old.height)'
        /\ \A b \in blocks : b.height < old.height
    BY <1>1, <1>2, <2>1, StaysDone DEF OrderOf, AheadOf, InLoop, BlockAt
  <2>6. OrderOf(p)'
    BY <2>1, <2>3, <2>5 DEF OrderOf
  <2>7. ASSUME NEW b \in blocks PROVE DoneBelow(b.height)' /\ Done(b.height)'
    <3>1. DoneBelow(b.height) /\ Done(b.height)
      BY <1>1, <2>1 DEF OrderInv, BlocksDone, InHand, OneLoop
    <3> QED
      BY <1>2, <2>1, <3>1, StaysDone
  <2>8. InHand(old.block)'
    BY <2>3, <2>4 DEF InHand
  <2>9. BlocksDone'
    <3> SUFFICES ASSUME NEW b \in blocks'
                 PROVE  DoneBelow(b.height)' /\ (Done(b.height)' \/ InHand(b)')
      BY DEF BlocksDone
    <3>1. CASE b \in blocks
      BY <2>7, <3>1
    <3>2. CASE b = old.block
      BY <2>5, <2>8, <3>2
    <3> QED
      BY <2>1, <3>1, <3>2
  <2> QED
    BY <1>2, <2>1, <2>4, <2>6, <2>9 DEF OrderInv
<1>11. CASE BlockProcessed(l)
  <2>1. /\ UNCHANGED <<emulator, blocks, gaveUp>> /\ old.pc = "contents"
        /\ contents' = contents \cup {old.block}
        /\ SetPoll(l, AtHeight(old, old.height + 1))
    BY <1>1, <1>11 DEF BlockProcessed, history
  <2>2. old.block = BlockAt(old.height)' /\ old.block \in blocks
    BY <1>1, <2>1 DEF AheadOf, BlockAt, emulator
  <2>3. Done(old.height)'
    BY <2>1, <2>2 DEF Done
  <2> QED
    BY <1>1, <1>2, <2>1, <2>2, <2>3, OrderAdvance DEF InLoop
<1>12. CASE Fail(l)
  <2>1. UNCHANGED <<emulator, blocks, contents>>
    BY <1>12 DEF Fail
  <2>2. CASE old.pc \in {"online", "latest"}
    <3>1. SetPoll(l, IdlePoll) /\ UNCHANGED gaveUp
      BY <1>1, <1>12, <2>2 DEF Fail, history
    <3>2. IdlePoll \in Poll /\ OrderOf(IdlePoll)'
      BY IdlePollType DEF OrderOf, IdlePoll
    <3> QED
      BY <1>4, <2>1, <2>2, <3>1, <3>2
  <2>3. CASE old.pc \in {"block", "contents"}
    <3>1. GiveUp(l, old.pc)
      BY <1>1, <1>12, <2>3 DEF Fail
    <3> QED
      BY <1>3, <2>1, <2>3, <3>1 DEF InLoop
  <2> QED
    BY <1>1, <1>12, <2>2, <2>3 DEF Fail
<1>13. CASE StorageFails(l)
  BY <1>1, <1>3, <1>13 DEF StorageFails, InLoop
<1> QED
  BY <1>5, <1>6, <1>7, <1>8, <1>9, <1>10, <1>11, <1>12, <1>13 DEF Step

(* What is done next to the poll only adds to what is done.                *)
LEMMA OthersOrder ==
  ASSUME OneLoop, TypeInv, NoGapInv, OrderInv, Settled,
         UNCHANGED <<emulator, blocks, poll>>,
         contents \subseteq contents', contents' \subseteq blocks, gaveUp \subseteq gaveUp'
  PROVE  OrderInv'
<1>1. ASSUME NEW l \in Loops PROVE OrderOf(poll[l])'
  <2>1. PICK p \in Poll : p = poll[l] /\ OrderOf(p)
    BY DEF TypeInv, TypeOK, OrderInv
  <2>2. p.height \in Int
    BY DEF Poll
  <2>3. OrderOf(p)'
    BY <2>1, <2>2, StaysDone DEF OrderOf
  <2> QED
    BY <2>1, <2>3
<1>2. ASSUME NEW b \in blocks PROVE DoneBelow(b.height)' /\ (Done(b.height)' \/ InHand(b)')
  <2>1. b.height \in Int /\ DoneBelow(b.height) /\ (Done(b.height) \/ InHand(b))
    BY DEF OrderInv, BlocksDone, TypeInv, TypeOK, Blocks, Heights
  <2>2. InHand(b) => InHand(b)'
    BY DEF InHand
  <2> QED
    BY <2>1, <2>2, StaysDone
<1>3. BlocksDone'
  BY <1>2 DEF BlocksDone
<1> QED
  BY <1>1, <1>3 DEF OrderInv

(* A new block is above everything that is done.                           *)
LEMMA MineOrders ==
  ASSUME TypeInv, NoGapInv, OrderInv, Settled, Mine
  PROVE  OrderInv'
<1>1. /\ \A h \in Heights : h <= tip => BlockAt(h)' = BlockAt(h)
      /\ tip \in Int /\ tip < MaxHeight /\ UNCHANGED <<blocks, contents, poll, gaveUp>>
  BY DEF Mine, BlockAt, TypeInv, TypeOK, Heights, history
<1>2. ASSUME NEW n \in Int, n <= tip + 1, DoneBelow(n) PROVE DoneBelow(n)'
  <2> SUFFICES ASSUME NEW h \in 0..(n - 1) PROVE Done(h)'
    BY DEF DoneBelow
  <2>1. h \in Heights /\ h <= tip
    BY <1>1, <1>2 DEF Heights
  <2> QED
    BY <1>1, <1>2, <2>1 DEF DoneBelow, Done
<1>3. ASSUME NEW b \in blocks PROVE DoneBelow(b.height)' /\ (Done(b.height)' \/ InHand(b)')
  <2>1. b.height \in Heights /\ b.height <= tip
    BY <1>3 DEF NoGapInv, IndexWhole, OnChain, TypeInv, TypeOK, Blocks
  <2>2. DoneBelow(b.height) /\ (Done(b.height) \/ InHand(b))
    BY DEF OrderInv, BlocksDone
  <2>3. DoneBelow(b.height)'
    BY <1>1, <1>2, <2>1, <2>2 DEF Heights
  <2> QED
    BY <1>1, <2>1, <2>2, <2>3 DEF Done, InHand
<1>4. ASSUME NEW l \in Loops PROVE OrderOf(poll[l])'
  <2>1. PICK p \in Poll : p = poll[l] /\ OrderOf(p) /\ AheadOf(p)
    BY DEF TypeInv, TypeOK, OrderInv, NoGapInv, PollsAhead
  <2>2. p.height \in Int
    BY DEF Poll
  <2>3. OrderOf(p)'
    BY <1>1, <1>2, <2>1, <2>2 DEF OrderOf, AheadOf
  <2> QED
    BY <1>1, <2>1, <2>3
<1> QED
  BY <1>1, <1>3, <1>4 DEF OrderInv, BlocksDone

LEMMA OrderInvStep == OneLoop /\ TypeInv /\ NoGapInv /\ OrderInv /\ [Next]_vars => OrderInv'
<1> SUFFICES ASSUME OneLoop, TypeInv, NoGapInv, OrderInv, [Next]_vars, Settled' PROVE OrderInv'
  BY DEF OrderInv
<1>1. CASE Mine
  <2>1. Settled
    BY <1>1 DEF Mine, Settled, history
  <2> QED
    BY <1>1, <2>1, MineOrders
<1>2. ASSUME NEW h \in Heights, Rollback(h) PROVE FALSE
  BY <1>2 DEF Rollback, Settled
<1>3. CASE Clear
  <2>1. ~InFlight /\ poll' = poll /\ blocks' = {} /\ contents' = {}
    BY <1>3 DEF Clear, Settled
  <2> QED
    BY <2>1 DEF InFlight, OrderInv, BlocksDone, OrderOf, InLoop
<1>4. ASSUME NEW l \in Loops, Begin(l) \/ Step(l) \/ Fail(l) \/ StorageFails(l) PROVE OrderInv'
  <2>1. UNCHANGED <<clearing, torn>>
    BY <1>4 DEF Begin, Step, Online, Latest, GetBlockByHeight, BlockNotFound, ProcessBlock,
                BlockProcessed, Fail, StorageFails, GiveUp, history
  <2> QED
    BY <1>4, <2>1, PollOrders DEF Settled
<1>5. ASSUME NEW b \in Blocks, DetachedProcessed(b) \/ DetachedFails(b) PROVE OrderInv'
  <2>1. /\ UNCHANGED <<emulator, blocks, poll, status, clearing, torn>> /\ gaveUp \subseteq gaveUp'
        /\ contents' = contents \/ (b \in detached /\ contents' = contents \cup {b})
    BY <1>5 DEF DetachedProcessed, DetachedFails, history
  <2>2. Settled /\ detached \subseteq blocks /\ contents \subseteq blocks
    BY <2>1 DEF Settled, NoGapInv, OthersIndexed, OrderInv
  <2> QED
    BY <2>1, <2>2, OthersOrder
<1>6. ASSUME NEW b \in Blocks, Subscribe(b) \/ Watch(b) PROVE OrderInv'
  <2>1. UNCHANGED <<emulator, contents, poll, clearing, torn, gaveUp>>
    BY <1>6 DEF Subscribe, Watch, RequestBlock, GetBlockById, ProcessRequestedBlock,
                Unsubscribe, history
  <2>2. Settled
    BY <2>1 DEF Settled
  <2>3. UNCHANGED blocks
    BY <1>6, <2>2 DEF NoGapInv, OthersIndexed, Subscribe, Watch, RequestBlock, GetBlockById,
                      ProcessRequestedBlock, Unsubscribe
  <2> QED
    BY <2>1, <2>2, <2>3, OthersOrder DEF OrderInv
<1>7. CASE UNCHANGED vars
  <2>1. Settled /\ UNCHANGED <<emulator, blocks, contents, poll, gaveUp>>
    BY <1>7 DEF vars, history, Settled
  <2> QED
    BY <2>1, OthersOrder DEF OrderInv
<1> QED
  BY <1>1, <1>2, <1>3, <1>4, <1>5, <1>6, <1>7 DEF Next

THEOREM OrderInvariant == ASSUME OneLoop PROVE Spec => [](TypeInv /\ NoGapInv /\ OrderInv)
<1>1. Init => NoGapInv /\ OrderInv
  BY IdlePollType DEF Init, NoGapInv, IndexWhole, PollsAhead, OthersIndexed, AheadOf,
                      InLoop, IdlePoll, OrderInv, BlocksDone, OrderOf
<1>2. TypeInv /\ NoGapInv /\ OrderInv /\ [Next]_vars => NoGapInv' /\ OrderInv'
  BY NoGapInvStep, OrderInvStep
<1> QED
  BY <1>1, <1>2, TypeInvariant, PTL DEF Spec

(* With one poll at a time the contents of the blocks are indexed in the   *)
(* order of the blocks, except where a request failed.                     *)
THEOREM ContentsInOrder == ASSUME OneLoop PROVE Spec => []InOrder
BY OrderInvariant, OrderInvImplies, PTL

(* And no block is processed twice: a poll is above the whole index.       *)
THEOREM BlocksProcessedOnce == ASSUME OneLoop PROVE Spec => ProcessedOnce
<1> DEFINE Once == \A l \in Loops :
                     (poll[l].pc = "answered" /\ poll'[l].pc = "contents" /\ Settled)
                       => poll[l].block \notin blocks
<1>1. TypeInv /\ NoGapInv /\ OrderInv /\ [Next]_vars => [Once]_vars
  <2> SUFFICES ASSUME TypeInv, NoGapInv, OrderInv, Settled,
                      NEW l \in Loops, poll[l].pc = "answered"
               PROVE  poll[l].block \notin blocks
    OBVIOUS
  <2>1. PICK p \in Poll : p = poll[l] /\ AheadOf(p) /\ OrderOf(p)
    BY DEF TypeInv, TypeOK, NoGapInv, PollsAhead, OrderInv
  <2>2. p.block = BlockAt(p.height) /\ \A b \in blocks : b.height < p.height
    BY <2>1 DEF AheadOf, OrderOf, InLoop
  <2>3. p.block.height = p.height /\ p.height \in Int
    BY <2>2 DEF BlockAt, Poll
  <2> QED
    BY <2>1, <2>2, <2>3
<1>2. [][Once]_vars => ProcessedOnce
  BY DEF ProcessedOnce
<1> QED
  BY <1>1, <1>2, OrderInvariant, PTL DEF Spec

===========================================================================
