---------------------------- MODULE MCSnapshots ----------------------------
(* Model-checking instances of Snapshots.                                  *)
EXTENDS Snapshots, TLC

Symmetry == Permutations(Snapshots) \cup Permutations(Workspaces) \cup Permutations(Calls)

(* The properties are about what happens until calls disturb each other.   *)
Undisturbed == ~disturbed
============================================================================
