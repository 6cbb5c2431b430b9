------------------------- MODULE MCProcessManager -------------------------
(* Model-checking instances of ProcessManager: two calls at a time on one  *)
(* process, or one call at a time on two; the cfg files choose the         *)
(* operations that are called.                                             *)
EXTENDS ProcessManager
===========================================================================
