----------------------------- MODULE MCDesktop -----------------------------
(* Model-checking instance of Desktop.  The bounds are alternatives: two   *)
(* requests at the same time with two workspaces, two in sequence with     *)
(* one, one after a start with a workspace given on the command line, one  *)
(* with two edits of flow.json, and two in sequence with one edit, so that *)
(* the listeners of UPDATE, OPEN and FLOW_JSON_UPDATE are under way at     *)
(* once.                                                                   *)
EXTENDS Desktop

Bounds(actions, edits, parallel, startup, ids) ==
    [actions |-> actions, edits |-> edits, parallel |-> parallel, startup |-> startup, ids |-> ids,
     path |-> CHOOSE p \in Paths : TRUE]

OneId == {CHOOSE id \in Saved : TRUE}

MCLimits == { Bounds(2, 0, TRUE, FALSE, Saved), Bounds(2, 0, FALSE, FALSE, OneId),
              Bounds(1, 0, FALSE, TRUE, OneId), Bounds(1, 2, FALSE, FALSE, OneId),
              Bounds(2, 1, FALSE, FALSE, OneId) }
============================================================================
