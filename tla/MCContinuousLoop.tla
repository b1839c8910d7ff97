-------------------------- MODULE MCContinuousLoop --------------------------
(* Instances of ContinuousLoop small enough for TLC. *)
EXTENDS ContinuousLoop, TLC

\* Neither the operators nor the controller tell two nodes or two activations apart.
Symmetric == Permutations(Nodes) \cup Permutations(Loops)
=============================================================================
