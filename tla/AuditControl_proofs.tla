------------------------- MODULE AuditControl_proofs -------------------------
(***************************************************************************)
(* In an environment that does none of the things Hasty names, the launch  *)
(* guards of server.js keep the passes and the loop apart: AuditControl    *)
(* implements ExclusiveWriter, for every number of passes and requests.    *)
(* The launch claim, and that no stop is lost, hold in every environment.  *)
(***************************************************************************)
EXTENDS AuditControl, TLAPS

\* At most one pass is in flight, none beside the loop, none under a claim.
Apart ==
  /\ \A s, t \in Active : s = t
  /\ Active # {} => loop = "off" /\ ~launching

\* The inductive invariant.  BusyExactly is what the launching handlers read,
\* LaunchClaimed what a polling takeover relies on.
Inv == TypeOK /\ LaunchClaimed /\ BusyExactly /\ Apart

\* The environment the guards are enough for.
Calm == Hasty = {}

-----------------------------------------------------------------------------
\* What moving one pass does to the set of passes in flight.
LEMMA ActiveAfter ==
  ASSUME TypeOK, NEW s \in Slots, NEW p \in Points,
         pass' = [pass EXCEPT ![s] = p]
  PROVE  Active' = IF p = "off" THEN Active \ {s} ELSE Active \cup {s}
BY DEF TypeOK, Active

\* A handler that passed its guards finds no pass in flight.
LEMMA Idle ==
  ASSUME Calm, Inv, MayLaunch, Unwound
  PROVE  Active = {} /\ ~launching
BY DEF Calm, Inv, MayLaunch, Unwound, BusyExactly

\* A takeover that still polls finds no pass in flight.
LEMMA IdleUnderClaim ==
  ASSUME Inv, NEW r \in Requests, takeover[r] # "none"
  PROVE  Active = {} /\ launching
BY DEF Inv, LaunchClaimed, Apart

-----------------------------------------------------------------------------
(* Every step that is not a pass's own does one of three things to the     *)
(* writers: it launches a pass into the idle tester, it leaves the passes  *)
(* alone, or it is a step of the one pass in flight.                       *)

\* A launch into the idle tester keeps the type, the status and the distance.
LEMMA LaunchStep ==
  ASSUME Inv, Active = {}, NEW b \in BOOLEAN, Launch(b), again' \in BOOLEAN,
         loop = "off", UNCHANGED <<loop, paused>>,
         launching' = FALSE, takeover' \in [Requests -> {"none", "start", "resume"}],
         \A r \in Requests : takeover'[r] = "none"
  PROVE  Inv' /\ \E s \in Slots : Active' = {s}
<1>1. PICK s \in Slots : /\ pass' = [pass EXCEPT ![s] = "setup"]
                         /\ repeats' = [repeats EXCEPT ![s] = b]
  BY DEF Launch
<1>2. "setup" \in Points
  BY DEF Points
<1>3. Active' = {s}
  BY <1>1, <1>2, ActiveAfter, ZenonT(60) DEF Inv
<1>4. TypeOK'
  BY <1>1, <1>2 DEF Inv, TypeOK, Launch, Statuses
<1>5. LaunchClaimed'
  BY DEF LaunchClaimed
<1>6. BusyExactly'
  BY <1>3 DEF BusyExactly, PipelineBusy, Launch
<1>7. Apart'
  BY <1>3 DEF Apart
<1>8. QED
  BY <1>3, <1>4, <1>5, <1>6, <1>7 DEF Inv

\* The step of a pass in flight: it stays in flight and the status stays busy
\* unless a stop turned it, or it was the last and the status is not busy.
LEMMA OwnStep ==
  ASSUME Inv, NEW s \in Slots, PassStep(s)
  PROVE  Inv' /\ Active = {s} /\ Active' \subseteq {s} /\ loop = "off" /\ loop' = "off"
<1>1. s \in Active
  BY DEF PassStep, SetUp, Park, Wake, Answer, Unwind, Finish, Fail, Active
<1>2. Active = {s} /\ loop = "off" /\ launching = FALSE
  BY <1>1 DEF Inv, Apart, TypeOK
<1>3. UNCHANGED <<launching, takeover, loop, paused>>
  BY DEF PassStep, SetUp, Park, Wake, Answer, Unwind, Finish, Fail, Moves
<1>4. LaunchClaimed'
  BY <1>3 DEF Inv, LaunchClaimed
<1> DEFINE Stays(p, shown) == /\ pass' = [pass EXCEPT ![s] = p]
                              /\ status' = shown
                              /\ again' = again
                              /\ repeats' = repeats
                              /\ stopReq' = stopReq
<1>5. ASSUME NEW p \in Points \ {"off"}, NEW shown \in Statuses, Stays(p, shown),
             shown \in {"running", "parked"} \/ shown = status
      PROVE  Inv' /\ Active' \subseteq {s}
  <2>1. Active' = {s}
    BY <1>2, <1>5, ActiveAfter DEF Inv
  <2>2. TypeOK'
    BY <1>3, <1>5 DEF Inv, TypeOK
  <2>3. BusyExactly'
    BY <1>2, <1>5, <2>1 DEF Inv, BusyExactly, PipelineBusy
  <2>4. Apart'
    BY <1>2, <1>3, <2>1 DEF Apart
  <2>5. QED
    BY <1>4, <2>1, <2>2, <2>3, <2>4 DEF Inv
<1>6. ASSUME NEW shown \in {"done", "error"}, status' = shown,
             pass' = [pass EXCEPT ![s] = "off"], UNCHANGED stopReq,
             again' = (again /\ ~repeats[s]), repeats' = [repeats EXCEPT ![s] = FALSE]
      PROVE  Inv' /\ Active' \subseteq {s}
  <2>1. "off" \in Points
    BY DEF Points
  <2>2. Active' = {}
    BY <1>2, <1>6, <2>1, ActiveAfter DEF Inv
  <2>3. again' \in BOOLEAN
    BY <1>6
  <2>4. TypeOK'
    BY <1>3, <1>6, <2>1, <2>3 DEF Inv, TypeOK, Statuses
  <2>5. BusyExactly'
    BY <1>6, <2>2 DEF BusyExactly, PipelineBusy
  <2>6. Apart'
    BY <2>2 DEF Apart
  <2>7. QED
    BY <1>4, <2>2, <2>4, <2>5, <2>6 DEF Inv
<1>7. status \in Statuses /\ {"setup", "sweep", "parked", "probing", "unwinding"} \subseteq Points \ {"off"}
  BY DEF Inv, TypeOK, Points
<1>8. CASE SetUp(s)
  BY <1>2, <1>3, <1>5, <1>7, <1>8 DEF SetUp, Moves
<1>9. CASE Park(s)
  BY <1>2, <1>3, <1>5, <1>7, <1>9 DEF Park, Moves, Statuses
<1>10. CASE Wake(s)
  BY <1>2, <1>3, <1>5, <1>7, <1>10 DEF Wake, Moves
<1>11. CASE Answer(s)
  BY <1>2, <1>3, <1>5, <1>7, <1>11 DEF Answer, Moves, Statuses
<1>12. CASE Unwind(s)
  BY <1>2, <1>3, <1>5, <1>7, <1>12 DEF Unwind, Moves
<1>13. CASE Finish(s) /\ TurnsOver(s)
  <2>1. /\ pass' = [pass EXCEPT ![s] = "setup"]
        /\ status' = "running" /\ stopReq' = FALSE /\ UNCHANGED <<again, repeats>>
    BY <1>13 DEF Finish
  <2>2. stopReq = FALSE
    BY <1>13 DEF TurnsOver, Inv, TypeOK
  <2>3. QED
    BY <1>2, <1>3, <1>5, <1>7, <2>1, <2>2 DEF Statuses
<1>14. CASE Finish(s) /\ ~TurnsOver(s)
  BY <1>2, <1>3, <1>6, <1>14 DEF Finish
<1>15. CASE Fail(s)
  BY <1>2, <1>3, <1>6, <1>15 DEF Fail, Failed
<1>16. QED
  BY <1>2, <1>3, <1>8, <1>9, <1>10, <1>11, <1>12, <1>13, <1>14, <1>15 DEF PassStep

\* A step that leaves the passes alone.
LEMMA AsideStep ==
  ASSUME Calm, Inv, UNCHANGED <<pass, repeats>>,
         \/ Takeover \/ Stop \/ LoadRun \/ PublicStart \/ PublicStop \/ LoopEnds
  PROVE  Inv' /\ (Active # {} => loop' = loop)
<1>1. Active' = Active
  BY DEF Active
<1>2. CASE Takeover
  <2>1. PICK r \in Requests, kind \in {"start", "resume"} :
             takeover[r] = "none" /\ takeover' = [takeover EXCEPT ![r] = kind]
    BY <1>2 DEF Takeover
  <2>2. Active = {} /\ ~launching
    BY <1>2, Idle DEF Takeover
  <2>3. TypeOK'
    BY <1>2, <2>1 DEF Takeover, Inv, TypeOK, control
  <2>4. LaunchClaimed'
    BY <1>2, <2>1, <2>2 DEF Takeover, Inv, TypeOK, LaunchClaimed
  <2>5. BusyExactly' /\ Apart'
    BY <1>1, <1>2, <2>2 DEF Takeover, Inv, BusyExactly, PipelineBusy, Apart, control
  <2>6. QED
    BY <2>2, <2>3, <2>4, <2>5 DEF Inv
<1>3. CASE Stop
  <2>1. TypeOK' /\ LaunchClaimed'
    BY <1>3 DEF Stop, Inv, TypeOK, LaunchClaimed, Statuses
  <2>2. BusyExactly' /\ Apart' /\ (Active # {} => loop' = loop)
    BY <1>1, <1>3 DEF Stop, Inv, BusyExactly, PipelineBusy, Apart
  <2>3. QED
    BY <2>1, <2>2 DEF Inv
<1>4. CASE LoadRun
  <2>1. Active = {}
    BY <1>4 DEF LoadRun, Calm
  <2>2. TypeOK' /\ LaunchClaimed'
    BY <1>4 DEF LoadRun, Inv, TypeOK, LaunchClaimed, Statuses
  <2>3. BusyExactly' /\ Apart'
    BY <1>1, <1>4, <2>1 DEF LoadRun, Inv, BusyExactly, PipelineBusy, Apart
  <2>4. QED
    BY <2>1, <2>2, <2>3 DEF Inv
<1>5. CASE PublicStart
  <2>1. Active = {}
    BY <1>5 DEF PublicStart, Calm, Unwound, Inv, BusyExactly
  <2>2. TypeOK' /\ LaunchClaimed'
    BY <1>5 DEF PublicStart, Inv, TypeOK, LaunchClaimed, control
  <2>3. BusyExactly' /\ Apart'
    BY <1>1, <1>5, <2>1 DEF PublicStart, Inv, BusyExactly, PipelineBusy, Apart, control
  <2>4. QED
    BY <2>1, <2>2, <2>3 DEF Inv
<1>6. CASE PublicStop \/ LoopEnds
  <2>1. Active = {}
    BY <1>6 DEF PublicStop, LoopEnds, Inv, Apart
  <2>2. TypeOK' /\ LaunchClaimed'
    BY <1>6 DEF PublicStop, LoopEnds, Inv, TypeOK, LaunchClaimed, control
  <2>3. BusyExactly' /\ Apart'
    BY <1>1, <1>6, <2>1
    DEF PublicStop, LoopEnds, Inv, BusyExactly, PipelineBusy, Apart, control
  <2>4. QED
    BY <2>1, <2>2, <2>3 DEF Inv
<1>7. QED
  BY <1>2, <1>3, <1>4, <1>5, <1>6

-----------------------------------------------------------------------------
\* What one step does to the writers, from a state of the invariant.
LEMMA Step ==
  ASSUME Calm, Inv, [Next]_vars
  PROVE  Inv' /\ [Writer!Next]_Writing
<1> USE DEF Writer!Next, Writer!Enter, Writer!Leave
<1>1. ASSUME Inv', Active = {}, loop = "off", loop' = "off",
             NEW s \in Slots, Active' = {s}
      PROVE  [Writer!Next]_Writing
  <2>1. Writing = {} /\ Writing' = {s}
    BY <1>1 DEF Writing
  <2>2. QED
    BY <2>1
<1>2. CASE Start \/ Resume
  <2>1. Active = {} /\ loop = "off" /\ loop' = "off"
    BY <1>2, Idle DEF Start, Resume
  <2>2. PICK b \in BOOLEAN : Launch(b)
    BY <1>2 DEF Start, Resume
  <2>3. /\ again' \in BOOLEAN /\ launching' = FALSE /\ UNCHANGED <<loop, paused, takeover>>
    BY <1>2, Idle DEF Start, Resume, Inv, TypeOK
  <2>4. /\ takeover' \in [Requests -> {"none", "start", "resume"}]
        /\ \A r \in Requests : takeover'[r] = "none"
    BY <1>2, <2>3, Idle DEF Start, Resume, Inv, TypeOK, LaunchClaimed
  <2>5. Inv' /\ \E s \in Slots : Active' = {s}
    BY <2>1, <2>2, <2>3, <2>4, LaunchStep
  <2>6. QED
    BY <1>1, <2>1, <2>5
<1>3. CASE InPlace
  <2>1. Active = {} /\ loop = "off" /\ loop' = "off"
    BY <1>3, Idle DEF InPlace, Calm
  <2>2. PICK b \in BOOLEAN : Launch(b)
    BY <1>3 DEF InPlace
  <2>3. /\ again' \in BOOLEAN /\ launching' = FALSE /\ UNCHANGED <<loop, paused, takeover>>
    BY <1>3, Idle DEF InPlace, Inv, TypeOK
  <2>4. /\ takeover' \in [Requests -> {"none", "start", "resume"}]
        /\ \A r \in Requests : takeover'[r] = "none"
    BY <1>3, <2>3, Idle DEF InPlace, Inv, TypeOK, LaunchClaimed
  <2>5. Inv' /\ \E s \in Slots : Active' = {s}
    BY <2>1, <2>2, <2>3, <2>4, LaunchStep
  <2>6. QED
    BY <1>1, <2>1, <2>5
<1>4. CASE \E r \in Requests : PollEnds(r)
  <2>1. PICK r \in Requests : PollEnds(r)
    BY <1>4
  <2>2. Active = {} /\ loop = "off" /\ loop' = "off" /\ launching' = FALSE
    BY <2>1, IdleUnderClaim DEF PollEnds, Released, Calm
  <2>3. /\ takeover' \in [Requests -> {"none", "start", "resume"}]
        /\ \A q \in Requests : takeover'[q] = "none"
    BY <2>1 DEF PollEnds, Inv, TypeOK, LaunchClaimed
  <2>4. CASE \E b \in BOOLEAN : Launch(b) /\ again' \in BOOLEAN
    <3>1. PICK b \in BOOLEAN : Launch(b) /\ again' \in BOOLEAN
      BY <2>4
    <3>2. UNCHANGED <<loop, paused>>
      BY <2>1 DEF PollEnds
    <3>3. Inv' /\ \E s \in Slots : Active' = {s}
      BY <2>2, <2>3, <3>1, <3>2, LaunchStep
    <3>4. QED
      BY <1>1, <2>2, <3>3
  <2>5. CASE UNCHANGED <<control, pass, repeats>>
    <3>1. Active' = {} /\ Writing' = Writing
      BY <2>2, <2>5 DEF Active, Writing
    <3>2. TypeOK'
      BY <2>1, <2>2, <2>3, <2>5 DEF PollEnds, Inv, TypeOK, control
    <3>3. LaunchClaimed'
      BY <2>2, <2>3 DEF LaunchClaimed
    <3>4. BusyExactly' /\ Apart'
      BY <2>2, <2>5, <3>1 DEF Inv, BusyExactly, PipelineBusy, Apart, control
    <3>5. QED
      BY <3>1, <3>2, <3>3, <3>4 DEF Inv
  <2>6. QED
    BY <2>1, <2>4, <2>5 DEF PollEnds, Inv, TypeOK
<1>5. CASE Takeover \/ Stop \/ LoadRun \/ PublicStart \/ PublicStop \/ LoopEnds
  <2>1. UNCHANGED <<pass, repeats>>
    BY <1>5 DEF Takeover, Stop, LoadRun, PublicStart, PublicStop, LoopEnds
  <2>2. Inv' /\ (Active # {} => loop' = loop) /\ Active' = Active
    BY <1>5, <2>1, AsideStep DEF Active
  <2>3. CASE Active # {}
    BY <2>2, <2>3 DEF Writing
  <2>4. CASE Active = {}
    <3>1. Writing \in {{}, {Loop}} /\ Writing' \in {{}, {Loop}}
      BY <2>2, <2>4 DEF Writing
    <3>2. QED
      BY <2>2, <3>1
  <2>5. QED
    BY <2>2, <2>3, <2>4
<1>6. CASE \E s \in Slots : PassStep(s)
  <2>1. PICK s \in Slots : PassStep(s)
    BY <1>6
  <2>2. Inv' /\ Writing = {s} /\ Writing' \in {{}, {s}}
    BY <2>1, OwnStep DEF Writing
  <2>3. QED
    BY <2>2
<1>7. CASE UNCHANGED vars
  <2>1. UNCHANGED <<status, stopReq, again, launching, takeover, loop, paused, pass, repeats>>
    BY <1>7 DEF vars, control
  <2>2. QED
    BY <2>1 DEF Inv, TypeOK, LaunchClaimed, BusyExactly, PipelineBusy, Apart, Active, Writing
<1>8. QED
  BY <1>2, <1>3, <1>4, <1>5, <1>6, <1>7 DEF Next

LEMMA Initially == Init => Inv /\ Writer!Init
BY DEF Init, Inv, TypeOK, LaunchClaimed, BusyExactly, PipelineBusy, Apart, Active,
       Statuses, Points, Writing, Writer!Init

\* The claim alone needs no calm environment: it is kept by every step there is.
LEMMA ClaimStep ==
  ASSUME ClaimHolds, [Next]_vars
  PROVE  ClaimHolds'
<1> USE DEF ClaimHolds
<1>1. CASE Start \/ Resume \/ InPlace
  <2>1. PICK b \in BOOLEAN : Launch(b)
    BY <1>1 DEF Start, Resume, InPlace
  <2>2. /\ again' \in BOOLEAN /\ loop' = loop /\ paused' = paused
        /\ launching' = launching /\ takeover' = takeover
    BY <1>1 DEF Start, Resume, InPlace, TypeOK
  <2>3. QED
    BY <2>1, <2>2 DEF Launch, TypeOK, LaunchClaimed, Statuses, Points
<1>2. CASE Takeover
  <2>1. PICK r \in Requests, kind \in {"start", "resume"} :
             takeover[r] = "none" /\ takeover' = [takeover EXCEPT ![r] = kind]
    BY <1>2 DEF Takeover
  <2>2. launching = FALSE /\ launching' = TRUE
    BY <1>2 DEF Takeover, MayLaunch, TypeOK
  <2>3. TypeOK'
    BY <1>2, <2>1, <2>2 DEF Takeover, TypeOK, control
  <2>4. QED
    BY <2>1, <2>2, <2>3 DEF TypeOK, LaunchClaimed
<1>3. CASE \E r \in Requests : PollEnds(r)
  <2>1. PICK r \in Requests : PollEnds(r)
    BY <1>3
  <2>2. /\ takeover' \in [Requests -> {"none", "start", "resume"}]
        /\ \A q \in Requests : takeover'[q] = "none"
        /\ launching' = FALSE /\ loop' = loop /\ paused' = paused
    BY <2>1 DEF PollEnds, Released, TypeOK, LaunchClaimed
  <2>3. CASE \E b \in BOOLEAN : Launch(b) /\ again' \in BOOLEAN
    BY <2>2, <2>3 DEF Launch, TypeOK, LaunchClaimed, Statuses, Points
  <2>4. CASE UNCHANGED <<control, pass, repeats>>
    BY <2>2, <2>4 DEF control, TypeOK, LaunchClaimed
  <2>5. QED
    BY <2>1, <2>3, <2>4 DEF PollEnds, TypeOK
<1>4. CASE Stop \/ LoadRun \/ PublicStart \/ PublicStop \/ LoopEnds
  <2>1. UNCHANGED <<takeover, launching, pass, repeats>> /\ status' \in Statuses
    BY <1>4 DEF Stop, LoadRun, PublicStart, PublicStop, LoopEnds, control, TypeOK, Statuses
  <2>2. /\ stopReq' \in BOOLEAN /\ again' \in BOOLEAN /\ paused' \in BOOLEAN
        /\ loop' \in {"off", "on", "ending"}
    BY <1>4 DEF Stop, LoadRun, PublicStart, PublicStop, LoopEnds, control, TypeOK
  <2>3. QED
    BY <2>1, <2>2 DEF TypeOK, LaunchClaimed
<1>5. CASE \E s \in Slots : PassStep(s)
  <2>1. PICK s \in Slots : PassStep(s)
    BY <1>5
  <2>2. UNCHANGED <<launching, takeover, loop, paused>>
    BY <2>1 DEF PassStep, SetUp, Park, Wake, Answer, Unwind, Finish, Fail, Moves
  <2>3. status' \in Statuses /\ stopReq' \in BOOLEAN /\ again' \in BOOLEAN
    BY <2>1 DEF PassStep, SetUp, Park, Wake, Answer, Unwind, Finish, Fail, Moves, Failed,
                TypeOK, Statuses
  <2>4. pass' \in [Slots -> Points] /\ repeats' \in [Slots -> BOOLEAN]
    BY <2>1 DEF PassStep, SetUp, Park, Wake, Answer, Unwind, Finish, Fail, Moves, TypeOK, Points
  <2>5. QED
    BY <2>2, <2>3, <2>4 DEF TypeOK, LaunchClaimed
<1>6. CASE UNCHANGED vars
  BY <1>6 DEF vars, control, TypeOK, LaunchClaimed
<1>7. QED
  BY <1>1, <1>2, <1>3, <1>4, <1>5, <1>6 DEF Next

\* Whatever the environment does, a second start cannot slip in beside a takeover
\* that polls, and the claim of one that is done never outlives it.
THEOREM ControlClaim == Spec => []ClaimHolds
<1>1. Init => ClaimHolds
  BY DEF Init, ClaimHolds, TypeOK, LaunchClaimed, Statuses, Points
<1>2. QED
  BY <1>1, ClaimStep, PTL DEF Spec

\* Every reachable state is well typed, the claim is held exactly while one
\* takeover polls, and the status tells the truth about the passes.
THEOREM ControlInvariant ==
  ASSUME Calm
  PROVE  Spec => [](TypeOK /\ LaunchClaimed /\ BusyExactly)
<1>1. Inv /\ [Next]_vars => Inv'
  BY Step
<1>2. Inv => TypeOK /\ LaunchClaimed /\ BusyExactly
  BY DEF Inv
<1>3. QED
  BY <1>1, <1>2, Initially, PTL DEF Spec

\* The passes and the loop use the tester one at a time: AuditControl implements
\* ExclusiveWriter under the refinement mapping Writing.
THEOREM ControlExcludes ==
  ASSUME Calm
  PROVE  Spec => Exclusive
<1>1. Inv /\ [Next]_vars => Inv' /\ [Writer!Next]_Writing
  BY Step
<1>2. QED
  BY <1>1, Initially, PTL DEF Spec, Exclusive, Writer!Spec
\* Whatever the environment does, only the launch of a pass takes a stop back: a
\* repeating test that is about to turn over never does.
THEOREM ControlStops == Spec => StopKept
<1>1. ASSUME ClaimHolds, NEW b \in BOOLEAN, Launch(b)
      PROVE  \E s \in Slots : pass[s] = "off" /\ pass'[s] = "setup"
  BY <1>1 DEF ClaimHolds, TypeOK, Launch, Active
<1>2. ASSUME ClaimHolds, Next, stopReq, ~stopReq'
      PROVE  \E s \in Slots : pass[s] = "off" /\ pass'[s] = "setup"
  <2>1. CASE Start \/ Resume \/ InPlace
    BY <1>1, <1>2, <2>1 DEF Start, Resume, InPlace
  <2>2. CASE \E r \in Requests : PollEnds(r)
    BY <1>1, <1>2, <2>2 DEF PollEnds, control
  <2>3. CASE Takeover \/ Stop \/ LoadRun \/ PublicStart \/ PublicStop \/ LoopEnds
    BY <1>2, <2>3 DEF Takeover, Stop, LoadRun, PublicStart, PublicStop, LoopEnds, control
  <2>4. CASE \E s \in Slots : PassStep(s)
    BY <1>2, <2>4 DEF PassStep, SetUp, Park, Wake, Answer, Unwind, Finish, TurnsOver, Fail, Moves
  <2>5. QED
    BY <1>2, <2>1, <2>2, <2>3, <2>4 DEF Next
<1>3. ClaimHolds /\ [Next]_vars =>
        [stopReq /\ ~stopReq' => \E s \in Slots : pass[s] = "off" /\ pass'[s] = "setup"]_vars
  BY <1>2
<1>4. QED
  BY <1>3, ControlClaim, PTL DEF Spec, StopKept

\* The loop that the handlers take over and the stop route ends is the one that
\* LoopControl promises: what is said of ContinuousLoop there may be relied on here.
THEOREM ControlSeesLoop == Spec => LoopAsShown
<1>1. Init => Seen!Init
  BY DEF Init, Seen!Init
<1>2. ASSUME ClaimHolds, Next PROVE [Seen!Next]_<<loop, paused>>
  <2>1. loop \in {"off", "on", "ending"} /\ paused \in BOOLEAN
    BY <1>2 DEF ClaimHolds, TypeOK
  <2>2. CASE Takeover
    BY <2>1, <2>2 DEF Takeover, Seen!Next, Seen!Told, Seen!Pauses
  <2>3. CASE Stop \/ PublicStop
    BY <2>1, <2>3 DEF Stop, PublicStop, Seen!Next, Seen!Told
  <2>4. CASE PublicStart
    BY <2>1, <2>4 DEF PublicStart, Seen!Next, Seen!Starts
  <2>5. CASE LoopEnds
    BY <2>1, <2>5 DEF LoopEnds, Seen!Next, Seen!Ends
  <2>6. CASE Start \/ Resume \/ InPlace \/ LoadRun \/ \E r \in Requests : PollEnds(r)
    BY <2>6 DEF Start, Resume, InPlace, LoadRun, PollEnds
  <2>7. CASE \E s \in Slots : PassStep(s)
    BY <2>7 DEF PassStep, SetUp, Park, Wake, Answer, Unwind, Finish, Fail, Moves
  <2>8. QED
    BY <1>2, <2>2, <2>3, <2>4, <2>5, <2>6, <2>7 DEF Next
<1>3. ClaimHolds /\ [Next]_vars => [Seen!Next]_<<loop, paused>>
  BY <1>2 DEF vars
<1>4. QED
  BY <1>1, <1>3, ControlClaim, PTL DEF Spec, LoopAsShown, Seen!Spec
=============================================================================
