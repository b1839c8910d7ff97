--------------------------- MODULE ExclusiveWriter ---------------------------
(***************************************************************************)
(* What the launch guards of server.js promise: the results array, the     *)
(* tunnel and the wallet have one user at a time.  A writer is a pipeline  *)
(* pass started over HTTP or the perpetual loop.                           *)
(***************************************************************************)
CONSTANT Writers

VARIABLE writing  \* the writers at work

Init == writing = {}

\* A writer enters an idle tester.
Enter(w) == writing = {} /\ writing' = {w}

\* The writer at work leaves.
Leave(w) == writing = {w} /\ writing' = {}

Next == \E w \in Writers : Enter(w) \/ Leave(w)

Spec == Init /\ [][Next]_writing
-----------------------------------------------------------------------------
\* Two writers never work at the same time.
AtMostOneWriter == \A v, w \in writing : v = w
=============================================================================
