-------------------------- MODULE MCAccountIndex --------------------------
(* Model-checking instances of AccountIndex.                               *)
EXTENDS AccountIndex
===========================================================================
