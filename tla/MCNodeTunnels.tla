---------------------------- MODULE MCNodeTunnels ----------------------------
(* Instances of NodeTunnels small enough for TLC. *)
EXTENDS NodeTunnels
=============================================================================
