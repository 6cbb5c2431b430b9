----------------------------- MODULE MCWallet -----------------------------
(* Model-checking instances of Wallet.                                     *)
EXTENDS Wallet, TLC

Symmetry == Permutations(Keys) \cup Permutations(Workspaces) \cup Permutations(Calls)

(* The properties are about what happens until calls disturb each other.   *)
Undisturbed == ~disturbed
===========================================================================
