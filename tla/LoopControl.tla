----------------------------- MODULE LoopControl -----------------------------
(***************************************************************************)
(* What the routes of server.js may rely on when they look at the loop     *)
(* through status() of audit/continuous.js: whether it is off, on, or on   *)
(* its way to end, and whether it is paused; "dead" while there is no      *)
(* process to look at.                                                     *)
(***************************************************************************)
VARIABLES shown, paused

Init == shown = "off" /\ paused = FALSE

\* A paused loop does not start.
Starts == shown = "off" /\ ~paused /\ shown' = "on" /\ paused' = FALSE

\* It is told to end, or to pause; a pause may come behind a stop.
Told == shown = "on" /\ shown' = "ending" /\ paused' \in {paused, TRUE}
Pauses == shown = "ending" /\ ~paused /\ shown' = "ending" /\ paused' = TRUE

\* Told or not, it ends, and keeps its pause; what was told is never taken back.
Ends == shown \in {"on", "ending"} /\ shown' = "off" /\ paused' = paused

\* Only a pause that has ended the loop is resumed.
Resumes == shown = "off" /\ paused /\ shown' = "on" /\ paused' = FALSE

\* The process dies, and the next one starts with the loop off, on, or paused.
Dies == shown # "dead" /\ shown' = "dead" /\ paused' = FALSE
Boots ==
  /\ shown = "dead"
  /\ \/ shown' = "off" /\ paused' \in BOOLEAN
     \/ shown' = "on" /\ paused' = FALSE

Next == Starts \/ Told \/ Pauses \/ Ends \/ Resumes \/ Dies \/ Boots

Spec == Init /\ [][Next]_<<shown, paused>>
=============================================================================
