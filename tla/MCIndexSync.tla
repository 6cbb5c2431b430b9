---------------------------- MODULE MCIndexSync ----------------------------
(* Model-checking instance of IndexSync, and of the scheduler it extends.  *)
(* The bounds are alternatives.  One writes no index and runs three poll   *)
(* loops (a first start and two restarts before the first loop has ended)  *)
(* with an interval of two ticks, so that an execution can be shorter than *)
(* the interval, as long as it and longer.  The second runs one loop whose *)
(* polls write an index.  The others leave the scheduler out: each writes  *)
(* the indexes that some pages show, in the order in which a user gets to  *)
(* these pages.  The third sends a second request before the first one is  *)
(* answered.                                                               *)
EXTENDS IndexSync

CONSTANTS A, D, C, CC, K, B, T, P, v1, v2

Key(revoked) == [index |-> 0, publicKey |-> K, revoked |-> revoked]

MCChainAccounts ==
    { [address |-> Prefixed(A), balance |-> v, keys |-> {Key(FALSE)}, contracts |-> [n \in {C} |-> v]] :
      v \in {v1, v2} }

MCChainBlocks == {[id |-> B, parentId |-> None, height |-> 0]}

MCChainTransactions ==
    {[id |-> T, payer |-> A, proposer |-> D, authorizers |-> {}]}

MCChainStatuses ==
    { [blockId |-> None, status |-> 1, statusCode |-> 0, errorMessage |-> FALSE],
      [blockId |-> B, status |-> 4, statusCode |-> 5, errorMessage |-> TRUE] }

MCChainEvents ==
    { [transactionId |-> T, eventIndex |-> 0, type |-> [contract |-> CC, address |-> A]],
      [transactionId |-> T, eventIndex |-> 1, type |-> [contract |-> None, address |-> None]] }

MCStartOf == {<<C, CC>>}

MCChainItems ==
    { [address |-> A, path |-> [domain |-> d, name |-> P], type |-> v1] : d \in {"public", "storage"} }

Bounds(indexes, polls, writes, clears, visits, ahead) ==
    [indexes |-> indexes, polls |-> polls, writes |-> writes, clears |-> clears,
     visits |-> visits, requests |-> ahead]

OneLoop == {CHOOSE l \in Loops : TRUE}

MCLimits ==
    { Bounds({}, Loops, 0, 0, <<>>, 1),
      Bounds({"account"}, OneLoop, 1, 1, <<"accounts">>, 1),
      Bounds({"account"}, {}, 2, 1, <<"accounts", "account", "tab">>, 2),
      Bounds({"accountKey", "account"}, {}, 2, 0, <<"accounts", "account", "tab">>, 1),
      Bounds({"accountStorage", "account"}, {}, 2, 0, <<"accounts", "account", "tab">>, 1),
      Bounds({"transaction", "account"}, {}, 2, 0, <<"accounts", "account", "tab">>, 1),
      Bounds({"transaction"}, {}, 2, 1, <<"transactions", "transaction", "interactions", "tab">>, 1),
      Bounds({"block", "transaction"}, {}, 2, 0, <<"blocks", "block">>, 1),
      Bounds({"contract", "event"}, {}, 2, 0, <<"contracts", "contract", "tab">>, 1),
      Bounds({"event"}, {}, 2, 1, <<"events", "event">>, 1) }
============================================================================
