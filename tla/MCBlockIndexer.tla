-------------------------- MODULE MCBlockIndexer --------------------------
(* Model-checking instance of BlockIndexer: a chain of three blocks that   *)
(* can be rolled back once, with failing requests, and one poll at a time. *)
EXTENDS BlockIndexer
===========================================================================
