---------------------------- MODULE AuditControl ----------------------------
(***************************************************************************)
(* Launching and ending audits: the request handlers of server.js that     *)
(* start, resume, retest and stop pipeline passes, the takeover of a       *)
(* running perpetual loop, and the flags of the one state object all of    *)
(* them share.                                                             *)
(*                                                                         *)
(* A handler runs without interruption up to its first await, and a pass   *)
(* from await to await, so each such stretch is one action.  The loop is   *)
(* the module ContinuousLoop seen from outside: off, on, or ending once    *)
(* its stop flag is raised.                                                *)
(***************************************************************************)
EXTENDS Integers, FiniteSets

CONSTANTS
  Slots,     \* pipeline passes that may be in flight
  Requests,  \* takeover requests that may be polling
  Loop,      \* the perpetual loop, as a writer beside the slots
  Hasty      \* what the environment does although the code does not guard it

\* "unwinding": a launch before a stopped pass has unwound; "beside": a retest
\* or plan test while the loop runs; "slow": the loop outlives the 10 s poll of
\* a takeover; "load": a run is loaded while a pass is in flight.
Hastes == {"unwinding", "beside", "slow", "load"}

ASSUME ControlAssumption == Hasty \subseteq Hastes /\ Loop \notin Slots

VARIABLES
  status,     \* state.status; parked stands for the three paused_* values
  stopReq,    \* state.stopRequested
  again,      \* state.continuousLoop: a start repeats its pass for ever
  launching,  \* _auditLaunching
  takeover,   \* what each polling takeover request will launch
  loop,       \* continuous.status().running, and whether it was told to end
  paused,     \* _ctrl.paused of the loop; only a restart clears it
  pass,       \* where each pass is
  repeats     \* is the pass driven by the closure of a start?

control == <<status, stopReq, again>>
vars == <<control, launching, takeover, loop, paused, pass, repeats>>

Statuses == {"idle", "running", "parked", "stopped", "done", "error"}
Points == {"off", "setup", "sweep", "parked", "probing", "unwinding"}

Init ==
  /\ status = "idle" /\ stopReq = FALSE /\ again = FALSE /\ launching = FALSE
  /\ takeover = [r \in Requests |-> "none"]
  /\ loop = "off" /\ paused = FALSE
  /\ pass = [s \in Slots |-> "off"] /\ repeats = [s \in Slots |-> FALSE]

-----------------------------------------------------------------------------
Active == {s \in Slots : pass[s] # "off"}

PipelineBusy == status \in {"running", "parked"}

\* The check at the head of every launching handler.
MayLaunch_Unclaimed == ~PipelineBusy
MayLaunch == ~PipelineBusy /\ ~launching

\* No handler asks whether a stopped pass has unwound; a patient operator waits
\* for it before the next request.
Unwound == (stopReq => Active = {}) \/ "unwinding" \in Hasty

\* From startFreshRun or the resume or retest prologue to the first await of
\* the pipeline: one stretch.
Launch(repeat) ==
  /\ \E s \in Slots \ Active :
       /\ pass' = [pass EXCEPT ![s] = "setup"]
       /\ repeats' = [repeats EXCEPT ![s] = repeat]
  /\ status' = "running" /\ stopReq' = FALSE

\* /api/start with no loop running, infinite or not.
Start ==
  /\ MayLaunch /\ Unwound /\ loop = "off"
  /\ Launch(TRUE)
  /\ again' \in BOOLEAN
  /\ UNCHANGED <<launching, takeover, loop, paused>>

\* /api/resume with no loop running and an incomplete run on display.
Resume ==
  /\ MayLaunch /\ Unwound /\ loop = "off"
  /\ Launch(FALSE)
  /\ UNCHANGED <<again, launching, takeover, loop, paused>>

\* /api/retest-skips, retest-fails, auto-retest, test-plan and test-sub-plan ask
\* only for the pipeline, not for the loop.
InPlace ==
  /\ MayLaunch /\ Unwound
  /\ loop = "off" \/ "beside" \in Hasty
  /\ \/ Launch(FALSE) /\ UNCHANGED again
     \/ Launch(TRUE) /\ again' \in BOOLEAN
  /\ UNCHANGED <<launching, takeover, loop, paused>>

\* /api/start and /api/resume with takeover: the launch is claimed, the loop
\* paused, and the handler polls for it to end.  A loop already paused refuses.
Takeover ==
  /\ MayLaunch /\ Unwound /\ loop # "off" /\ ~paused
  /\ \E r \in Requests, kind \in {"start", "resume"} :
       takeover[r] = "none" /\ takeover' = [takeover EXCEPT ![r] = kind]
  /\ launching' = TRUE
  /\ loop' = "ending" /\ paused' = TRUE
  /\ UNCHANGED <<control, pass, repeats>>

\* The poll sees the loop off, or gives up after a hundred rounds and goes on;
\* a resume may still find nothing to resume.
Released_Never == launching
Released == FALSE

PollEnds(r) ==
  /\ takeover[r] # "none"
  /\ loop = "off" \/ "slow" \in Hasty
  /\ takeover' = [takeover EXCEPT ![r] = "none"]
  /\ launching' = Released
  /\ \/ takeover[r] = "start" /\ Launch(TRUE) /\ again' \in BOOLEAN
     \/ takeover[r] = "resume" /\ Launch(FALSE) /\ UNCHANGED again
     \/ takeover[r] = "resume" /\ UNCHANGED <<control, pass, repeats>>
  /\ UNCHANGED <<loop, paused>>

\* /api/stop: the flags, the loop, then the status.
Stop ==
  /\ stopReq' = TRUE /\ again' = FALSE
  /\ status' = "stopped"
  /\ loop' = IF loop = "on" THEN "ending" ELSE loop
  /\ UNCHANGED <<launching, takeover, paused, pass, repeats>>

\* /api/runs/load: no guard on the status.
LoadRun ==
  /\ Active = {} \/ "load" \in Hasty
  /\ status' = "idle" /\ again' = FALSE
  /\ UNCHANGED <<stopReq, launching, takeover, loop, paused, pass, repeats>>

\* The public start route, through continuous.start().
PublicStart ==
  /\ ~PipelineBusy /\ loop = "off" /\ ~paused /\ Unwound
  /\ loop' = "on"
  /\ UNCHANGED <<control, launching, takeover, paused, pass, repeats>>

\* The public stop route, and the loop's own error budget.
PublicStop ==
  /\ loop = "on"
  /\ loop' = "ending"
  /\ UNCHANGED <<control, launching, takeover, paused, pass, repeats>>

LoopEnds ==
  /\ loop = "ending"
  /\ loop' = "off"
  /\ UNCHANGED <<control, launching, takeover, paused, pass, repeats>>

-----------------------------------------------------------------------------
(* A pass.                                                                 *)

\* A step of pass s that touches the shared flags no further than status.
Moves(s, to, shown) ==
  /\ pass' = [pass EXCEPT ![s] = to]
  /\ status' = shown
  /\ UNCHANGED <<stopReq, again, launching, takeover, loop, paused, repeats>>

\* Wallet, client, node list and scan are done.
SetUp(s) == pass[s] = "setup" /\ Moves(s, "sweep", status)

\* Out of funds or off line.  The checks that lead here lie behind awaits, so a
\* stop may already have turned the status.
Park(s) == pass[s] = "sweep" /\ Moves(s, "parked", "parked")

\* The poll sleeps, wakes for a stop, or asks for the balance or connectivity.
Wake_Deaf(s) == pass[s] = "parked" /\ Moves(s, "probing", status)
Wake(s) ==
  /\ pass[s] = "parked"
  /\ IF stopReq THEN Moves(s, "unwinding", status) ELSE Moves(s, "probing", status)

\* The answer.  A good one turns the status without asking for a stop again.
Answer(s) ==
  /\ pass[s] = "probing"
  /\ Moves(s, "sweep", "running") \/ Moves(s, "parked", status)

\* The sweep is over, or its loop sees the stop flag.
Unwind(s) == pass[s] = "sweep" /\ Moves(s, "unwinding", status)

\* The pass resolves; a repeating start turns over to its next run at once.
TurnsOver_Always(s) == repeats[s]
TurnsOver(s) == repeats[s] /\ again /\ ~stopReq

Finish(s) ==
  /\ pass[s] = "unwinding"
  /\ IF TurnsOver(s)
     THEN /\ pass' = [pass EXCEPT ![s] = "setup"]
          /\ status' = "running" /\ stopReq' = FALSE
          /\ UNCHANGED <<again, repeats>>
     ELSE /\ pass' = [pass EXCEPT ![s] = "off"]
          /\ status' = "done"
          /\ again' = (again /\ ~repeats[s])
          /\ repeats' = [repeats EXCEPT ![s] = FALSE]
          /\ UNCHANGED stopReq
  /\ UNCHANGED <<launching, takeover, loop, paused>>

\* The pass rejects; the catch turns the status and ends the closure.
Failed_Silent == status
Failed == "error"

Fail(s) ==
  /\ pass[s] \in {"setup", "sweep"}
  /\ pass' = [pass EXCEPT ![s] = "off"]
  /\ status' = Failed
  /\ again' = (again /\ ~repeats[s])
  /\ repeats' = [repeats EXCEPT ![s] = FALSE]
  /\ UNCHANGED <<stopReq, launching, takeover, loop, paused>>

-----------------------------------------------------------------------------
PassStep(s) ==
  SetUp(s) \/ Park(s) \/ Wake(s) \/ Answer(s) \/ Unwind(s) \/ Finish(s) \/ Fail(s)

Next ==
  \/ Start \/ Resume \/ InPlace \/ Takeover \/ Stop \/ LoadRun
  \/ PublicStart \/ PublicStop \/ LoopEnds
  \/ \E r \in Requests : PollEnds(r)
  \/ \E s \in Slots : PassStep(s)

\* Every await of a pass is bounded by a timeout or woken by the stop, a poll
\* timer fires, and a loop that was told to end does: ContinuousLoop shows it.
Fairness ==
  /\ \A s \in Slots : WF_vars(PassStep(s))
  /\ \A r \in Requests : WF_vars(PollEnds(r))
  /\ WF_vars(LoopEnds)

Spec == Init /\ [][Next]_vars /\ Fairness
-----------------------------------------------------------------------------
TypeOK ==
  /\ status \in Statuses /\ stopReq \in BOOLEAN /\ again \in BOOLEAN
  /\ launching \in BOOLEAN /\ takeover \in [Requests -> {"none", "start", "resume"}]
  /\ loop \in {"off", "on", "ending"} /\ paused \in BOOLEAN
  /\ pass \in [Slots -> Points] /\ repeats \in [Slots -> BOOLEAN]

\* The claim made before the takeover await is held exactly while one request
\* polls: a second start cannot slip in, and a throw cannot wedge every later one.
LaunchClaimed ==
  /\ launching <=> \E r \in Requests : takeover[r] # "none"
  /\ \A q, r \in Requests : takeover[q] # "none" /\ takeover[r] # "none" => q = r

\* It is held, and released, in a state that is well typed.
ClaimHolds == TypeOK /\ LaunchClaimed

\* The status answers "is a pass at work?": busy only while there is one, so no
\* launch is refused for ever, and busy all the while unless it was stopped.
BusyExactly ==
  /\ PipelineBusy => Active # {}
  /\ Active # {} /\ ~stopReq => PipelineBusy

\* The passes and the loop share the tester one at a time.
Writing == Active \cup (IF loop = "off" THEN {} ELSE {Loop})
Writer == INSTANCE ExclusiveWriter WITH Writers <- Slots \cup {Loop}, writing <- Writing
Exclusive == Writer!Spec

\* The same as an invariant: overlapping runs never write to each other's run.
NeverOverlap == Writer!AtMostOneWriter

\* The loop here is the loop ContinuousLoop shows, while the process lives.
Seen == INSTANCE LoopControl WITH shown <- loop
LoopAsShown == Seen!Spec

\* A stop ends every pass, a parked or repeating one too, unless a later request
\* takes it back.
StopEnds == \A s \in Slots : stopReq ~> (pass[s] = "off" \/ ~stopReq)

\* Only a request takes a stop back: a repeating test never turns over to its
\* next run past one.
StopKept ==
  [][stopReq /\ ~stopReq' => \E s \in Slots : pass[s] = "off" /\ pass'[s] = "setup"]_vars

\* A takeover is answered.
TakeoverSettles == \A r \in Requests : takeover[r] # "none" ~> takeover[r] = "none"

\* What an operator waits for comes: the end of what was stopped, and the answer.
RequestsSettle == StopEnds /\ TakeoverSettles
=============================================================================
