--------------------------- MODULE MCInteractions ---------------------------
(* Model-checking instance of Interactions: a script and a transaction, a  *)
(* published template that is on the network and one that is only partly.  *)
EXTENDS Interactions, TLC

Symmetry == Permutations(Ids)

(* Two snippets without executions, or two executions without snippets.    *)
MCLimits == {[snippets |-> 2, running |-> 0], [snippets |-> 0, running |-> 2]}

MCBody == [empty |-> "", script |-> "s", tx |-> "t"]
MCKindOf == [empty |-> "UNKNOWN", script |-> "SCRIPT", tx |-> "TRANSACTION"]
MCFlix == {[id |-> "f1", code |-> "tx", dependencies |-> {{"mainnet"}}],
           [id |-> "f2", code |-> "script", dependencies |-> {{"mainnet"}, {"testnet"}}]}
=============================================================================
