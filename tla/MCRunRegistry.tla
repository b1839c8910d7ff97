---------------------------- MODULE MCRunRegistry ----------------------------
(* Instances of RunRegistry small enough for TLC. *)
EXTENDS RunRegistry, TLC

\* The registry never compares two addresses.
Symmetric == Permutations(Nodes)
=============================================================================
