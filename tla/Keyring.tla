------------------------------ MODULE Keyring ------------------------------
(***************************************************************************)
(* What the wallet promises: a set of key pairs per workspace, to which a  *)
(* new account adds its key pair and from which a synchronization takes    *)
(* the key pairs of accounts that are gone, each in one step and without   *)
(* touching the key pairs of other workspaces.  Nothing is promised once a *)
(* call has been disturbed.                                                *)
(***************************************************************************)
CONSTANTS Workspaces, Keys

VARIABLES keys, disturbed

vars == <<keys, disturbed>>

Init ==
    /\ keys = [w \in Workspaces |-> {}]
    /\ disturbed = FALSE

Add(w, k) ==
    /\ k \notin keys[w]
    /\ keys' = [keys EXCEPT ![w] = @ \cup {k}]
    /\ UNCHANGED disturbed

Retain(w, S) ==
    /\ keys' = [keys EXCEPT ![w] = @ \cap S]
    /\ UNCHANGED disturbed

Disturb == disturbed' = TRUE

Next ==
    \/ \E w \in Workspaces :
         \/ \E k \in Keys : Add(w, k)
         \/ \E S \in SUBSET Keys : Retain(w, S)
    \/ Disturb

Spec == Init /\ [][Next]_vars

============================================================================
