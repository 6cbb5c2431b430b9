--------------------------- MODULE MCFlowserApp ---------------------------
(* Model-checking instance of FlowserApp: two workspaces, two handlers at  *)
(* a time.                                                                 *)
EXTENDS FlowserApp
===========================================================================
