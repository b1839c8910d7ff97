-------------------------- MODULE NodeTunnels_proofs --------------------------
(***************************************************************************)
(* For every number of nodes, tests, outbounds and retries: the types, the *)
(* watched tunnel, the clean machine after the last test, and, while the   *)
(* watchdog spares speed tests, that a speed is recorded for the node it   *)
(* was measured through.                                                   *)
(***************************************************************************)
EXTENDS NodeTunnels, FiniteSetTheorems, TLAPS

\* The stages only a WireGuard test, and only a V2Ray test, can be at.
WgStages == {"ips", "remove", "verify", "speed", "google"}
V2Stages == {"settle", "probe", "spawn", "socks", "vspeed", "vgoogle"}

\* Tests are started in order, and for nodes.
Begun == \A t \in Tests : IF t <= started THEN test[t].at # "idle" /\ test[t].node \in Nodes
                                          ELSE test[t].at = "idle"
\* A pass has a test left in the bound for every node left.
Budget == pass.phase # "off" => started + Cardinality(pass.left) <= MaxTests
\* A running pass waits for the test started last.
Latest == IF pass.phase = "run" THEN pass.cur = started /\ started # 0 ELSE pass.cur = 0
\* A test of a node is at a stage of the node's kind, with an outbound left to probe.
Fits(at, n, left) ==
  /\ at \in WgStages => n \in WireGuard
  /\ at \in V2Stages => n \notin WireGuard
  /\ at \in {"idle", "pay", "settle", "shake", "ips"} => left = Outbounds
  /\ at = "probe" => left > 0
Staged == \A t \in Tests : Fits(test[t].at, test[t].node, test[t].left)
\* A tunnel that is up is known, and used by a test that will take it down.
Used == tunnel # Direct => active /\ \E t \in Tests : test[t].at \in {"verify", "speed", "google"}
\* A V2Ray process belongs to a test that will kill it.
Owned == \A t \in Tests : proc[t] # NoProc => test[t].at \in {"socks", "vspeed", "vgoogle"}

Shape == TypeOK /\ Begun /\ Budget /\ Latest /\ Staged /\ Used /\ Owned

\* The test the pass still waits for.
Awaited(t) == pass.phase = "run" /\ t = pass.cur /\ race = "open"
\* Without company from the start it has none until its race is settled, ...
Alone == \A t, u \in Tests : Awaited(t) /\ ~test[t].company /\ u # t => ~Running(u)
\* ... and then the tunnel it installs leads to its node until it has been measured.
Line == \A t \in Tests : Awaited(t) /\ ~test[t].company =>
          /\ test[t].at = "remove" => conf = test[t].node
          /\ test[t].at \in {"verify", "speed"} => tunnel = test[t].node \/ stop
          /\ test[t].at = "google" => test[t].via = test[t].node
Socks == \A t \in Tests : test[t].at = "vgoogle" => test[t].via = test[t].node

\* The speed of an ended test may be recorded.
Sound(r) == r.at = "over" /\ (r.via = r.node \/ (r.node \in WireGuard /\ r.company))
Won == pass.phase = "run" /\ race = "ok" => Sound(test[pass.cur])
Kept == \A n \in Nodes : recorded[n] # 0 => Sound(test[recorded[n]]) /\ test[recorded[n]].node = n

Measure == Alone /\ Line /\ Socks /\ Won /\ Kept

-----------------------------------------------------------------------------
(* A step of a test changes no record but its own, and keeps that one at a *)
(* stage of its node's kind.                                               *)

Changed(t) ==
  \E r \in TestRec : /\ test' = [test EXCEPT ![t] = r] /\ r.node = test[t].node
                     /\ r.at # "idle" /\ Fits(r.at, r.node, r.left)

LEMMA MoveChanges ==
  ASSUME Shape, NEW t \in Tests, NEW at \in Stages \ {"idle"}, Move(t, at),
         Fits(at, test[t].node, test[t].left)
  PROVE  Changed(t)
<1> DEFINE r == [test[t] EXCEPT !.at = at]
<1>1. test \in [Tests -> TestRec] /\ test[t] \in TestRec
  BY DEF Shape, TypeOK
<1>2. r \in TestRec /\ r.node = test[t].node /\ r.at = at /\ r.left = test[t].left
  BY <1>1 DEF TestRec
<1>3. test' = [test EXCEPT ![t] = r]
  BY <1>1 DEF Move
<1>4. QED
  BY <1>2, <1>3 DEF Changed

LEMMA EndChanges ==
  ASSUME Shape, NEW t \in Tests, NEW how, End(t, how)
  PROVE  Changed(t)
<1> DEFINE kept == [test[t] EXCEPT !.at = "over", !.left = 0, !.extra = FALSE]
           lost == [Fresh(test[t].node) EXCEPT !.at = "over", !.left = 0]
<1>1. test \in [Tests -> TestRec] /\ test[t] \in TestRec /\ Outbounds \in Nat
  BY TunnelAssumption DEF Shape, TypeOK
<1>2. "over" \in Stages /\ 0 \in 0..Outbounds /\ Direct \in Way
  BY <1>1 DEF Stages, Way
<1>3. kept \in TestRec /\ kept.node = test[t].node /\ kept.at = "over"
  BY <1>1, <1>2 DEF TestRec
<1>4. lost \in TestRec /\ lost.node = test[t].node /\ lost.at = "over"
  BY <1>1, <1>2 DEF TestRec, Fresh
<1>5. test' = [test EXCEPT ![t] = kept] \/ test' = [test EXCEPT ![t] = lost]
  BY DEF End
<1>6. Fits("over", kept.node, kept.left) /\ Fits("over", lost.node, lost.left)
  BY DEF Fits, WgStages, V2Stages
<1>7. CASE test' = [test EXCEPT ![t] = kept]
  BY <1>3, <1>6, <1>7 DEF Changed
<1>8. CASE test' = [test EXCEPT ![t] = lost]
  BY <1>4, <1>6, <1>8 DEF Changed
<1>9. QED
  BY <1>5, <1>7, <1>8

LEMMA OwnRecord ==
  ASSUME Shape, NEW t \in Tests, TestStep(t)
  PROVE  Changed(t) /\ test[t].at \notin {"idle", "over"}
<1>1. /\ test \in [Tests -> TestRec] /\ test[t] \in TestRec
      /\ Fits(test[t].at, test[t].node, test[t].left)
      /\ Outbounds \in Nat \ {0} /\ test[t].left \in 0..Outbounds
  BY TunnelAssumption DEF Shape, TypeOK, Staged, TestRec
<1>2. CASE GiveUp(t)
  BY <1>2, EndChanges DEF GiveUp
<1>3. CASE Enter(t)
  <2>1. Fits("shake", test[t].node, test[t].left)
    BY <1>1, <1>3 DEF Enter, Fits, WgStages, V2Stages
  <2>2. test[t].node \in WireGuard => Fits("ips", test[t].node, test[t].left)
    BY <1>1, <1>3 DEF Enter, Fits, WgStages, V2Stages
  <2>3. test[t].node \notin WireGuard => Fits("settle", test[t].node, test[t].left)
    BY <1>1, <1>3 DEF Enter, Fits, WgStages, V2Stages
  <2>4. QED
    BY <1>3, <2>1, <2>2, <2>3, MoveChanges, EndChanges DEF Enter, Stages
<1>4. CASE EnterV2Ray(t)
  <2>1. /\ Fits("shake", test[t].node, test[t].left)
        /\ Fits("probe", test[t].node, test[t].left)
    BY <1>1, <1>4 DEF EnterV2Ray, Fits, WgStages, V2Stages
  <2>2. QED
    BY <1>4, <2>1, MoveChanges, EndChanges DEF EnterV2Ray, Stages
<1>5. CASE Handshake(t)
  <2>1. /\ test[t].node \in WireGuard => Fits("ips", test[t].node, test[t].left)
        /\ test[t].node \notin WireGuard => Fits("probe", test[t].node, test[t].left)
    BY <1>1, <1>5 DEF Handshake, Fits, WgStages, V2Stages
  <2>2. QED
    BY <1>5, <2>1, MoveChanges, EndChanges DEF Handshake, Stages
<1>6. CASE RemoveOld(t)
  <2>1. Fits("remove", test[t].node, test[t].left)
    BY <1>1, <1>6 DEF RemoveOld, Fits, WgStages, V2Stages
  <2>2. QED
    BY <1>6, <2>1, MoveChanges DEF RemoveOld, Stages
<1>7. CASE Install(t)
  <2>1. Fits("verify", test[t].node, test[t].left)
    BY <1>1, <1>7 DEF Install, Fits, WgStages, V2Stages
  <2>2. QED
    BY <1>7, <2>1, MoveChanges DEF Install, Stages
<1>8. CASE Verify(t)
  <2>1. Fits("speed", test[t].node, test[t].left)
    BY <1>1, <1>8 DEF Verify, Fits, WgStages, V2Stages
  <2>2. QED
    BY <1>8, <2>1, MoveChanges DEF Verify, Stages
<1>9. CASE WgFails(t)
  BY <1>9, EndChanges DEF WgFails
<1>10. CASE WgReturns(t)
  BY <1>10, EndChanges DEF WgReturns
<1>11. CASE Spawn(t)
  <2>1. Fits("socks", test[t].node, test[t].left)
    BY <1>1, <1>11 DEF Spawn, Fits, WgStages, V2Stages
  <2>2. QED
    BY <1>11, <2>1, MoveChanges DEF Spawn, Stages
<1>12. CASE SocksReady(t)
  <2>1. Fits("vspeed", test[t].node, test[t].left)
    BY <1>1, <1>12 DEF SocksReady, Fits, WgStages, V2Stages
  <2>2. QED
    BY <1>12, <2>1, MoveChanges DEF SocksReady, Stages
<1>13. CASE V2RayReturns(t)
  BY <1>13, EndChanges DEF V2RayReturns
<1>14. CASE SpeedTest(t)
  <2>1. PICK w \in Way : test' = [test EXCEPT ![t].at = "google", ![t].via = w]
    BY <1>1, <1>14 DEF SpeedTest, Shape, TypeOK, Listening, TestRec
  <2> DEFINE r == [test[t] EXCEPT !.at = "google", !.via = w]
  <2>2. r \in TestRec /\ r.node = test[t].node /\ r.at = "google"
    BY <1>1 DEF TestRec, Stages
  <2>3. Fits(r.at, r.node, r.left)
    BY <1>1, <1>14, <2>2 DEF SpeedTest, Fits, WgStages, V2Stages
  <2>4. test' = [test EXCEPT ![t] = r]
    BY <1>1, <2>1
  <2>5. QED
    BY <1>14, <2>2, <2>3, <2>4 DEF Changed, SpeedTest
<1>15. CASE Probe(t)
  <2> DEFINE r == [test[t] EXCEPT !.at = "spawn", !.left = @ - 1]
  <2>1. test[t].left - 1 \in 0..Outbounds /\ "spawn" \in Stages
    BY <1>1, <1>15 DEF Probe, Fits, Stages
  <2>2. r \in TestRec /\ r.node = test[t].node /\ r.at = "spawn"
    BY <1>1, <2>1 DEF TestRec
  <2>3. Fits(r.at, r.node, r.left)
    BY <1>1, <1>15, <2>2 DEF Probe, Fits, WgStages, V2Stages
  <2>4. ~stop => test' = [test EXCEPT ![t] = r]
    BY <1>1, <1>15 DEF Probe
  <2>5. QED
    BY <1>15, <2>2, <2>3, <2>4, EndChanges DEF Changed, Probe
<1>16. CASE ReadConfig(t)
  <2>1. test' = test /\ test[t].at \in {"socks", "vspeed", "vgoogle"}
    BY <1>16 DEF ReadConfig, Shape, Owned, NoProc, Starting
  <2>2. test' = [test EXCEPT ![t] = test[t]]
    BY <1>1, <2>1
  <2>3. QED
    BY <1>1, <2>1, <2>2 DEF Changed
<1>17. CASE SocksSpeedTest(t)
  <2>1. PICK w \in Way : test' = [test EXCEPT ![t].at = "vgoogle", ![t].via = w]
    BY <1>1, <1>17 DEF SocksSpeedTest, Shape, TypeOK, Listening, TestRec
  <2> DEFINE r == [test[t] EXCEPT !.at = "vgoogle", !.via = w]
  <2>2. r \in TestRec /\ r.node = test[t].node /\ r.at = "vgoogle"
    BY <1>1 DEF TestRec, Stages
  <2>3. Fits(r.at, r.node, r.left)
    BY <1>1, <1>17, <2>2 DEF SocksSpeedTest, Fits, WgStages, V2Stages
  <2>4. test' = [test EXCEPT ![t] = r]
    BY <1>1, <2>1
  <2>5. QED
    BY <1>17, <2>2, <2>3, <2>4 DEF Changed, SocksSpeedTest
<1>18. CASE OutboundFails(t)
  <2> DEFINE r == [test[t] EXCEPT !.at = "spawn", !.extra = TRUE]
  <2>1. r \in TestRec /\ r.node = test[t].node /\ r.at = "spawn"
    BY <1>1, <1>18 DEF TestRec, Stages
  <2>2. Fits(r.at, r.node, r.left)
    BY <1>1, <1>18, <2>1 DEF OutboundFails, Fits, WgStages, V2Stages
  <2>3. test' = [test EXCEPT ![t].at = "spawn", ![t].extra = TRUE] => test' = [test EXCEPT ![t] = r]
    BY <1>1
  <2>4. test[t].left > 0 => Fits("probe", test[t].node, test[t].left)
    BY <1>1, <1>18 DEF OutboundFails, Fits, WgStages, V2Stages
  <2>5. CASE test[t].left > 0 /\ Move(t, "probe")
    BY <1>18, <2>4, <2>5, MoveChanges DEF OutboundFails, Stages
  <2>6. QED
    BY <1>18, <2>1, <2>2, <2>3, <2>5, EndChanges DEF Changed, OutboundFails
<1>19. QED
  BY <1>2, <1>3, <1>4, <1>5, <1>6, <1>7, <1>8, <1>9, <1>10, <1>11, <1>12, <1>13, <1>14, <1>15,
     <1>16, <1>17, <1>18 DEF TestStep

\* What the platform, the race and the pass can become in a step of a test.
LEMMA TestTypes ==
  ASSUME Shape, NEW t \in Tests, TestStep(t)
  PROVE  TypeOK'
<1>1. test' \in [Tests -> TestRec]
  BY OwnRecord DEF Changed, Shape, TypeOK
<1>2. UNCHANGED <<started, pass, stop, recorded>>
  BY DEF TestStep, Rest, GiveUp, Enter, EnterV2Ray, Handshake, RemoveOld, Install, Verify,
     SpeedTest, WgFails, WgReturns, Probe, Spawn, ReadConfig, SocksReady, SocksSpeedTest,
     V2RayReturns, OutboundFails
<1>3. race' \in {"open", "ok", "fail", "late", "stopped"}
  BY DEF Shape, TypeOK, TestStep, Move, End, Settled, GiveUp, Enter, EnterV2Ray, Handshake,
     RemoveOld, Install, Verify, SpeedTest, WgFails, WgReturns, Probe, Spawn, ReadConfig,
     SocksReady, SocksSpeedTest, V2RayReturns, OutboundFails
<1>4. tunnel' \in Way /\ active' \in BOOLEAN /\ conf' \in Way
  <2>1. test[t].node \in Way /\ Direct \in Way
    BY DEF Shape, TypeOK, TestRec, Way
  <2>2. QED
    BY <2>1 DEF Shape, TypeOK, TestStep, Cleaned, EmergencyCleanup, GiveUp, Enter, EnterV2Ray,
       Handshake, RemoveOld, Install, Verify, SpeedTest, WgFails, WgReturns, Probe, Spawn,
       ReadConfig, SocksReady, SocksSpeedTest, V2RayReturns, OutboundFails
<1>5. cfg' \in {0} \cup Tests
  BY DEF Shape, TypeOK, TestStep, Rest, GiveUp, Enter, EnterV2Ray, Handshake, RemoveOld,
     Install, Verify, SpeedTest, WgFails, WgReturns, Probe, Spawn, ReadConfig, SocksReady,
     SocksSpeedTest, V2RayReturns, OutboundFails
<1>6. proc' \in [Tests -> Processes]
  <2>1. /\ AllKilled \in [Tests -> Processes] /\ NoProc \in Processes /\ Starting \in Processes
        /\ Exited \in Processes /\ Tests \subseteq Processes /\ proc \in [Tests -> Processes]
    BY DEF Shape, TypeOK, AllKilled, Processes
  <2>2. CASE ReadConfig(t)
    <3>1. cfg \in Processes
      BY DEF Shape, TypeOK, Processes, NoProc
    <3>2. QED
      BY <2>1, <2>2, <3>1 DEF ReadConfig
  <2>3. CASE OutboundFails(t)
    <3>1. [AllKilled EXCEPT ![t] = NoProc] \in [Tests -> Processes]
      BY <2>1
    <3>2. [proc EXCEPT ![t] = NoProc] \in [Tests -> Processes]
      BY <2>1
    <3>3. QED
      BY <2>3, <3>1, <3>2 DEF OutboundFails
  <2>4. CASE Spawn(t)
    BY <2>1, <2>4 DEF Spawn
  <2>5. ~ReadConfig(t) /\ ~OutboundFails(t) /\ ~Spawn(t) =>
          proc' \in {proc, AllKilled, [proc EXCEPT ![t] = NoProc]}
    BY DEF TestStep, Cleaned, GiveUp, Enter, EnterV2Ray, Handshake, RemoveOld, Install, Verify,
       SpeedTest, WgFails, WgReturns, Probe, SocksReady, SocksSpeedTest, V2RayReturns
  <2>6. QED
    BY <2>1, <2>2, <2>3, <2>4, <2>5
<1>7. QED
  BY <1>1, <1>2, <1>3, <1>4, <1>5, <1>6 DEF Shape, TypeOK

\* A test that ends after it installed a tunnel takes the tunnel down.
LEMMA TestUsed ==
  ASSUME Shape, NEW t \in Tests, TestStep(t)
  PROVE  Used'
<1>1. /\ test \in [Tests -> TestRec] /\ Fits(test[t].at, test[t].node, test[t].left)
      /\ \A u \in Tests \ {t} : test'[u] = test[u]
  BY OwnRecord DEF Changed, Shape, TypeOK, Staged
<1>2. CASE tunnel' = Direct
  BY <1>2 DEF Used
<1>3. CASE UNCHANGED <<tunnel, active>> /\ test[t].at \notin {"verify", "speed", "google"}
  BY <1>1, <1>3 DEF Shape, Used
<1>4. CASE Install(t) \/ Verify(t) \/ SpeedTest(t)
  <2>1. test'[t].at \in {"verify", "speed", "google"}
    BY <1>1, <1>4 DEF Install, Verify, SpeedTest, Move, TestRec
  <2>2. tunnel' # Direct => active'
    BY <1>4 DEF Install, Verify, SpeedTest, Shape, Used
  <2>3. QED
    BY <2>1, <2>2 DEF Used
<1>5. CASE WgFails(t) \/ WgReturns(t) \/ RemoveOld(t)
  <2>1. test[t].at \in WgStages
    BY <1>5 DEF WgFails, WgReturns, RemoveOld, WgStages
  <2>2. tunnel' = Direct
    BY <1>1, <1>5, <2>1 DEF WgFails, WgReturns, RemoveOld, Cleaned, EmergencyCleanup, Fits
  <2>3. QED
    BY <1>2, <2>2
<1>6. CASE V2RayReturns(t)
  <2>1. test[t].node \notin WireGuard
    BY <1>1, <1>6 DEF V2RayReturns, V2Stages, Fits
  <2>2. QED
    BY <1>3, <1>6, <2>1 DEF V2RayReturns, Cleaned
<1>7. CASE ReadConfig(t)
  BY <1>3, <1>7 DEF ReadConfig, Shape, Owned, NoProc, Starting
<1>8. CASE \/ GiveUp(t) \/ Enter(t) \/ EnterV2Ray(t) \/ Handshake(t) \/ Probe(t) \/ Spawn(t)
          \/ SocksReady(t) \/ SocksSpeedTest(t) \/ OutboundFails(t)
  BY <1>3, <1>8 DEF GiveUp, Enter, EnterV2Ray, Handshake, Probe, Spawn, SocksReady,
                    SocksSpeedTest, OutboundFails
<1>9. QED
  BY <1>4, <1>5, <1>6, <1>7, <1>8 DEF TestStep

\* A test that ends after it spawned a process kills the process.
LEMMA TestOwned ==
  ASSUME Shape, NEW t \in Tests, TestStep(t)
  PROVE  Owned'
<1>1. /\ test \in [Tests -> TestRec] /\ Fits(test[t].at, test[t].node, test[t].left)
      /\ \A u \in Tests \ {t} : test'[u] = test[u]
      /\ proc \in [Tests -> Processes]
  BY OwnRecord DEF Changed, Shape, TypeOK, Staged
<1>2. ASSUME \A u \in Tests \ {t} : proc[u] = NoProc => proc'[u] = NoProc,
             proc'[t] # NoProc => test'[t].at \in {"socks", "vspeed", "vgoogle"}
      PROVE  Owned'
  BY <1>1, <1>2 DEF Shape, Owned
<1>3. \A u \in Tests : proc[u] = NoProc => AllKilled[u] = NoProc
  BY DEF AllKilled
<1>4. CASE proc' \in {proc, AllKilled} /\ test[t].at \notin {"socks", "vspeed", "vgoogle"}
  BY <1>2, <1>3, <1>4 DEF Shape, Owned
<1>5. CASE proc' \in {[proc EXCEPT ![t] = NoProc], [AllKilled EXCEPT ![t] = NoProc]}
  <2>1. AllKilled \in [Tests -> Processes]
    BY <1>1 DEF AllKilled, Processes
  <2>2. QED
    BY <1>1, <1>2, <1>3, <1>5, <2>1
<1>6. CASE Spawn(t) \/ SocksReady(t) \/ SocksSpeedTest(t)
  <2>1. test'[t].at \in {"socks", "vspeed", "vgoogle"}
    BY <1>1, <1>6 DEF Spawn, SocksReady, SocksSpeedTest, Move, TestRec
  <2>2. \A u \in Tests \ {t} : proc'[u] = proc[u]
    BY <1>1, <1>6 DEF Spawn, SocksReady, SocksSpeedTest
  <2>3. QED
    BY <1>2, <2>1, <2>2
<1>7. CASE ReadConfig(t)
  <2>1. test' = test /\ \A u \in Tests \ {t} : proc'[u] = proc[u]
    BY <1>1, <1>7 DEF ReadConfig
  <2>2. test[t].at \in {"socks", "vspeed", "vgoogle"}
    BY <1>7 DEF ReadConfig, Shape, Owned, NoProc, Starting
  <2>3. QED
    BY <1>2, <2>1, <2>2
<1>8. CASE V2RayReturns(t)
  <2>1. test[t].node \notin WireGuard
    BY <1>1, <1>8 DEF V2RayReturns, V2Stages, Fits
  <2>2. QED
    BY <1>5, <1>8, <2>1 DEF V2RayReturns, Cleaned
<1>9. CASE OutboundFails(t)
  BY <1>5, <1>9 DEF OutboundFails
<1>10. CASE WgFails(t) \/ WgReturns(t)
  <2>1. test[t].at \in WgStages
    BY <1>10 DEF WgFails, WgReturns, WgStages
  <2>2. test[t].node \in WireGuard /\ test[t].at \notin {"socks", "vspeed", "vgoogle"}
    BY <1>1, <2>1 DEF Fits, WgStages
  <2>3. QED
    BY <1>4, <1>10, <2>2 DEF WgFails, WgReturns, Cleaned
<1>11. CASE \/ GiveUp(t) \/ Enter(t) \/ EnterV2Ray(t) \/ Handshake(t) \/ RemoveOld(t) \/ Install(t)
           \/ Verify(t) \/ SpeedTest(t) \/ Probe(t)
  BY <1>4, <1>11 DEF GiveUp, Enter, EnterV2Ray, Handshake, RemoveOld, Install, Verify, SpeedTest,
                     Probe
<1>12. QED
  BY <1>6, <1>7, <1>8, <1>9, <1>10, <1>11 DEF TestStep

LEMMA TestShape ==
  ASSUME Shape, NEW t \in Tests, TestStep(t)
  PROVE  Shape'
<1>1. PICK r \in TestRec : /\ test' = [test EXCEPT ![t] = r] /\ r.node = test[t].node
                          /\ r.at # "idle" /\ Fits(r.at, r.node, r.left)
  BY OwnRecord DEF Changed
<1>2. test[t].at # "idle" /\ test \in [Tests -> TestRec]
  BY OwnRecord DEF Shape, TypeOK
<1>3. UNCHANGED <<started, pass, stop, recorded>>
  BY DEF TestStep, Rest, GiveUp, Enter, EnterV2Ray, Handshake, RemoveOld, Install, Verify,
     SpeedTest, WgFails, WgReturns, Probe, Spawn, ReadConfig, SocksReady, SocksSpeedTest,
     V2RayReturns, OutboundFails
<1>4. Begun'
  BY <1>1, <1>2, <1>3 DEF Shape, Begun
<1>5. Budget' /\ Latest'
  BY <1>3 DEF Shape, Budget, Latest
<1>6. Staged'
  BY <1>1, <1>2 DEF Shape, Staged, Fits
<1>7. QED
  BY <1>4, <1>5, <1>6, TestTypes, TestUsed, TestOwned DEF Shape

-----------------------------------------------------------------------------
(* A step of the pass, of an operator or of the watchdog.                  *)

\* A launch starts one more test and tells the running ones they have company.
LEMMA LaunchShape ==
  ASSUME Shape, NEW n \in Nodes, started < MaxTests, Launch(n), UNCHANGED Platform
  PROVE  /\ started' = started + 1 /\ started' \in Tests /\ race' = "open"
         /\ test' \in [Tests -> TestRec] /\ test'[started'] = [Fresh(n) EXCEPT !.company = AnyRunning]
         /\ \A u \in Tests \ {started'} :
              test'[u] = [test[u] EXCEPT !.company = @ \/ Running(u)]
         /\ Begun' /\ Staged' /\ Used' /\ Owned'
<1> DEFINE t == started + 1
           new == [Fresh(n) EXCEPT !.company = AnyRunning]
           met(u) == [test[u] EXCEPT !.company = @ \/ Running(u)]
<1>1. started \in 0..MaxTests /\ MaxTests \in Nat /\ Outbounds \in Nat
  BY TunnelAssumption DEF Shape, TypeOK
<1>2. started' = t /\ t \in Tests /\ race' = "open"
  BY <1>1 DEF Launch, Tests
<1>3. /\ new \in TestRec /\ new.at = "pay" /\ new.node = n /\ new.left = Outbounds
  <2>1. "pay" \in Stages /\ Outbounds \in 0..Outbounds /\ Direct \in Way /\ n \in Way
        /\ AnyRunning \in BOOLEAN
    BY <1>1 DEF Stages, Way, AnyRunning
  <2>2. QED
    BY <2>1 DEF Fresh, TestRec
<1>4. ASSUME NEW u \in Tests
      PROVE  /\ met(u) \in TestRec /\ met(u).at = test[u].at /\ met(u).node = test[u].node
             /\ met(u).left = test[u].left
  <2>1. test[u] \in TestRec /\ Running(u) \in BOOLEAN
    BY DEF Shape, TypeOK, Running
  <2>2. QED
    BY <2>1 DEF TestRec
<1>5. test' = [u \in Tests |-> IF u = t THEN new ELSE met(u)]
  BY DEF Launch
<1> HIDE DEF met, new
<1>6. test'[t] = new /\ \A u \in Tests \ {t} : test'[u] = met(u)
  BY <1>2, <1>5
<1>7. test' \in [Tests -> TestRec]
  BY <1>3, <1>4, <1>5
<1>8. Begun'
  <2> SUFFICES ASSUME NEW u \in Tests
               PROVE  IF u <= started' THEN test'[u].at # "idle" /\ test'[u].node \in Nodes
                                       ELSE test'[u].at = "idle"
    BY DEF Begun
  <2>1. CASE u = t
    BY <1>1, <1>2, <1>3, <1>6, <2>1
  <2>2. CASE u # t
    <3>1. u <= started' <=> u <= started
      BY <1>1, <1>2, <2>2 DEF Tests
    <3>2. QED
      BY <1>4, <1>6, <2>2, <3>1 DEF Shape, Begun
  <2>3. QED
    BY <2>1, <2>2
<1>9. Staged'
  <2>1. Fits("pay", n, Outbounds)
    BY DEF Fits, WgStages, V2Stages
  <2>2. QED
    BY <1>3, <1>4, <1>6, <2>1 DEF Shape, Staged, Fits
<1>10. test[t].at = "idle"
  BY <1>1, <1>2 DEF Shape, Begun
<1>11. Used'
  BY <1>4, <1>6, <1>10 DEF Shape, Used, Platform
<1>12. Owned'
  BY <1>4, <1>6, <1>10 DEF Shape, Owned, Platform
<1>13. QED
  BY <1>2, <1>6, <1>7, <1>8, <1>9, <1>11, <1>12 DEF met, new

\* The type of pass.
Passes == [phase : {"off", "baseline", "run", "sweep"}, left : SUBSET Nodes,
           cur : {0} \cup Tests, retries : 0..MaxRetries]

\* Taking a node off the nodes left frees the test its launch uses.
LEMMA OneLess ==
  ASSUME NEW S \in SUBSET Nodes, NEW n \in S
  PROVE  /\ Cardinality(S) \in Nat \ {0} /\ Cardinality(S \ {n}) = Cardinality(S) - 1
<1>1. IsFiniteSet(S)
  BY FS_Subset, TunnelAssumption
<1>2. QED
  BY <1>1, FS_RemoveElement, FS_CardinalityType, FS_EmptySet

\* A step that leaves the tests alone and at most takes tunnel and processes down.
LEMMA QuietShape ==
  ASSUME Shape, UNCHANGED <<test, started, cfg>>, tunnel' = Direct \/ UNCHANGED <<tunnel, active>>,
         active' \in BOOLEAN, conf' \in Way,
         proc' \in {proc, AllKilled}
  PROVE  /\ Begun' /\ Staged' /\ Used' /\ Owned'
         /\ tunnel' \in Way /\ proc' \in [Tests -> Processes]
<1>1. AllKilled \in [Tests -> Processes] /\ \A t \in Tests : proc[t] = NoProc => AllKilled[t] = NoProc
  BY DEF AllKilled, Processes
<1>2. QED
  BY <1>1 DEF Shape, TypeOK, Begun, Staged, Fits, Used, Owned, Way

LEMMA PassShape ==
  ASSUME Shape, (\E ns \in SUBSET Nodes : StartPass(ns)) \/ PassStep \/ Stop \/ Watchdog
  PROVE  Shape'
<1> USE DEF Platform
<1>1. ASSUME NEW ns \in SUBSET Nodes, StartPass(ns)
      PROVE  Shape'
  <2>1. Budget' /\ Latest'
    BY <1>1 DEF StartPass, Budget, Latest
  <2>2. pass' \in Passes
    BY <1>1, TunnelAssumption DEF StartPass, Passes
  <2>3. TypeOK'
    BY <1>1, <2>2 DEF StartPass, Shape, TypeOK, Passes
  <2>4. QED
    BY <1>1, <2>1, <2>3, QuietShape DEF StartPass, Shape, TypeOK
<1>2. CASE NextNode
  <2>1. PICK n \in pass.left : /\ Launch(n)
          /\ pass' = [pass EXCEPT !.phase = "run", !.left = @ \ {n}, !.cur = started + 1, !.retries = 0]
    BY <1>2 DEF NextNode
  <2>2. /\ pass.left \in SUBSET Nodes /\ started \in Nat /\ MaxTests \in Nat
        /\ MaxRetries \in Nat
    BY TunnelAssumption DEF Shape, TypeOK
  <2>3. n \in Nodes /\ started + Cardinality(pass.left) <= MaxTests
    BY <1>2, <2>2 DEF NextNode, Shape, Budget
  <2>4. started < MaxTests /\ started + 1 + Cardinality(pass.left \ {n}) <= MaxTests
    BY <2>1, <2>2, <2>3, OneLess
  <2>5. /\ started' = started + 1 /\ started' \in Tests /\ race' = "open"
        /\ test' \in [Tests -> TestRec] /\ Begun' /\ Staged' /\ Used' /\ Owned'
    BY <1>2, <2>1, <2>3, <2>4, LaunchShape DEF NextNode
  <2>6. /\ pass'.phase = "run" /\ pass'.left = pass.left \ {n} /\ pass'.cur = started + 1
        /\ pass'.retries = 0 /\ pass' \in Passes
    <3>1. /\ pass.left \ {n} \in SUBSET Nodes /\ started + 1 \in {0} \cup Tests
          /\ 0 \in 0..MaxRetries /\ pass \in Passes
      BY <2>2, <2>5 DEF Shape, TypeOK, Passes
    <3>2. QED
      BY <2>1, <3>1 DEF Passes
  <2>7. Budget' /\ Latest'
    BY <2>2, <2>4, <2>5, <2>6 DEF Budget, Latest
  <2>8. TypeOK'
    BY <1>2, <2>5, <2>6 DEF NextNode, Shape, TypeOK, Tests, Passes
  <2>9. QED
    BY <2>5, <2>7, <2>8 DEF Shape
<1>3. CASE Deadline \/ StopPoll
  <2>1. TypeOK' /\ Budget' /\ Latest'
    BY <1>3 DEF Deadline, StopPoll, Shape, TypeOK, Budget, Latest
  <2>2. QED
    BY <1>3, <2>1, QuietShape DEF Deadline, StopPoll, Shape, TypeOK
<1>4. CASE Retry
  <2>1. /\ pass.left \in SUBSET Nodes /\ started \in 0..MaxTests /\ MaxTests \in Nat
        /\ MaxRetries \in Nat /\ pass.retries \in 0..MaxRetries /\ pass.cur = started
        /\ started # 0
    BY <1>4, TunnelAssumption DEF Retry, Shape, TypeOK, Latest
  <2>2. test[pass.cur].node \in Nodes
    BY <2>1 DEF Shape, Begun, Tests
  <2>3. Cardinality(pass.left) \in Nat
    BY <2>1, FS_Subset, FS_CardinalityType, TunnelAssumption
  <2>4. started < MaxTests /\ started + 1 + Cardinality(pass.left) <= MaxTests
    BY <1>4, <2>1, <2>3 DEF Retry
  <2>5. /\ started' = started + 1 /\ started' \in Tests /\ race' = "open"
        /\ test' \in [Tests -> TestRec] /\ Begun' /\ Staged' /\ Used' /\ Owned'
    BY <1>4, <2>2, <2>4, LaunchShape DEF Retry
  <2>6. /\ pass'.phase = "run" /\ pass'.left = pass.left /\ pass'.cur = started + 1
        /\ pass' \in Passes
    <3>1. /\ started + 1 \in {0} \cup Tests /\ pass.retries + 1 \in 0..MaxRetries
          /\ pass \in Passes
      BY <1>4, <2>1, <2>5 DEF Retry, Shape, TypeOK, Passes
    <3>2. QED
      BY <1>4, <3>1 DEF Retry, Passes
  <2>7. Budget' /\ Latest'
    BY <2>1, <2>4, <2>5, <2>6 DEF Budget, Latest
  <2>8. TypeOK'
    BY <1>4, <2>5, <2>6 DEF Retry, Shape, TypeOK, Tests, Passes
  <2>9. QED
    BY <2>5, <2>7, <2>8 DEF Shape
<1>5. CASE Record
  <2>1. Uninstall /\ UNCHANGED <<test, started, race, stop, cfg, proc>> /\ pass.phase = "run"
        /\ pass' = [pass EXCEPT !.phase = "sweep", !.cur = 0]
    BY <1>5 DEF Record
  <2>2. /\ tunnel' = Direct \/ UNCHANGED <<tunnel, active>>
        /\ active' \in BOOLEAN /\ conf' \in Way
    BY <2>1 DEF Uninstall, Shape, TypeOK, Way, Used
  <2>3. pass' \in Passes
        /\ pass'.phase = "sweep" /\ pass'.cur = 0 /\ pass'.left = pass.left
    BY <2>1 DEF Shape, TypeOK, Passes
  <2>4. recorded' \in [Nodes -> {0} \cup Tests]
    BY <1>5 DEF Record, Shape, TypeOK
  <2>5. Budget' /\ Latest'
    BY <2>1, <2>3 DEF Shape, Budget, Latest
  <2>6. QED
    BY <2>1, <2>2, <2>3, <2>4, <2>5, QuietShape DEF Shape, TypeOK, Passes
<1>6. CASE Sweep
  <2>1. pass' \in Passes
        /\ pass'.phase = "baseline" /\ pass'.cur = pass.cur /\ pass'.left = pass.left
    BY <1>6 DEF Sweep, Shape, TypeOK, Passes
  <2>2. Budget' /\ Latest'
    BY <1>6, <2>1 DEF Sweep, Shape, Budget, Latest
  <2>3. QED
    BY <1>6, <2>1, <2>2, QuietShape DEF Sweep, EmergencyCleanup, Shape, TypeOK, Passes
<1>7. CASE EndPass
  <2>1. pass' \in Passes
        /\ pass'.phase = "off" /\ pass'.cur = 0
    BY <1>7, TunnelAssumption DEF EndPass, Passes
  <2>2. Budget' /\ Latest'
    BY <2>1 DEF Budget, Latest
  <2>3. QED
    BY <1>7, <2>1, <2>2, QuietShape DEF EndPass, EmergencyCleanup, Shape, TypeOK, Passes
<1>8. CASE Stop \/ Watchdog
  <2>1. Budget' /\ Latest'
    BY <1>8 DEF Stop, Watchdog, Shape, Budget, Latest
  <2>2. QED
    BY <1>8, <2>1, QuietShape DEF Stop, Watchdog, EmergencyCleanup, Shape, TypeOK, Passes
<1>9. QED
  BY <1>1, <1>2, <1>3, <1>4, <1>5, <1>6, <1>7, <1>8 DEF PassStep

-----------------------------------------------------------------------------
(* What holds of the machine whatever the watchdog does.                   *)

LEMMA InitShape == Init => Shape
<1> SUFFICES ASSUME Init PROVE Shape
  OBVIOUS
<1>1. /\ MaxTests \in Nat /\ Outbounds \in Nat \ {0} /\ MaxRetries \in Nat
  BY TunnelAssumption
<1>2. [Fresh(Direct) EXCEPT !.at = "idle"] \in TestRec
  <2>1. Outbounds \in 0..Outbounds /\ Direct \in Way /\ "idle" \in Stages
    BY <1>1 DEF Way, Stages
  <2>2. QED
    BY <2>1 DEF Fresh, TestRec
<1>3. TypeOK
  <2>1. test \in [Tests -> TestRec] /\ proc \in [Tests -> Processes]
    BY <1>2 DEF Init, Processes
  <2>2. started \in 0..MaxTests /\ 0 \in 0..MaxRetries
    BY <1>1 DEF Init
  <2>3. QED
    BY <2>1, <2>2 DEF Init, TypeOK, Way
<1>4. \A t \in Tests : test[t].at = "idle" /\ test[t].left = Outbounds
  BY DEF Init, Fresh
<1>5. Begun /\ Staged
  <2>1. Begun
    BY <1>1, <1>4 DEF Init, Begun, Tests
  <2>2. Staged
    BY <1>4 DEF Staged, Fits, WgStages, V2Stages
  <2>3. QED
    BY <2>1, <2>2
<1>6. Budget /\ Latest /\ Used /\ Owned
  BY DEF Init, Budget, Latest, Used, Owned
<1>7. QED
  BY <1>3, <1>5, <1>6 DEF Shape

LEMMA NextShape == Shape /\ [Next]_vars => Shape'
<1> SUFFICES ASSUME Shape, [Next]_vars PROVE Shape'
  OBVIOUS
<1>1. CASE UNCHANGED vars
  BY <1>1 DEF vars, Shape, TypeOK, Begun, Budget, Latest, Staged, Fits, Used, Owned
<1>2. CASE Next
  BY <1>2, TestShape, PassShape DEF Next
<1>3. QED
  BY <1>1, <1>2

THEOREM ShapeAlways == Spec => []Shape
<1>1. QED
  BY InitShape, NextShape, PTL DEF Spec

\* The types of every variable, for every bound: no outbound beyond the list is
\* tried, and no test is started that the nodes left need.
THEOREM TypeCorrect == Spec => []TypeOK
<1>1. Shape => TypeOK
  BY DEF Shape
<1>2. QED
  BY <1>1, ShapeAlways, PTL

\* The watchdog and uninstallWgTunnel see every tunnel that is up.
THEOREM TunnelAlwaysWatched == Spec => []TunnelWatched
<1>1. Shape => TunnelWatched
  BY DEF Shape, Used, TunnelWatched
<1>2. QED
  BY <1>1, ShapeAlways, PTL

\* Once no test runs, ended or abandoned, neither tunnel nor process is left.
THEOREM NothingIsLeft == Spec => []NothingLeft
<1>1. Shape => NothingLeft
  BY DEF Shape, Used, Owned, NothingLeft, AnyRunning, Running
<1>2. QED
  BY <1>1, ShapeAlways, PTL

-----------------------------------------------------------------------------
(* What is recorded, while the watchdog spares speed tests.                *)

\* A test the pass goes on waiting for was waited for and keeps its company.
LEMMA StillAwaited ==
  ASSUME Shape, NEW t \in Tests, TestStep(t), NEW a \in Tests, Awaited(a)'
  PROVE  Awaited(a) /\ test'[a].company = test[a].company
<1>1. /\ test \in [Tests -> TestRec] /\ test[t] \in TestRec
      /\ \A u \in Tests \ {t} : test'[u] = test[u]
  BY OwnRecord DEF Changed, Shape, TypeOK
<1>2. UNCHANGED <<started, pass, stop, recorded>>
  BY DEF TestStep, Rest, GiveUp, Enter, EnterV2Ray, Handshake, RemoveOld, Install, Verify,
     SpeedTest, WgFails, WgReturns, Probe, Spawn, ReadConfig, SocksReady, SocksSpeedTest,
     V2RayReturns, OutboundFails
<1>3. race' # race => ~Awaited(a)'
  BY DEF TestStep, Move, Awaited, End, Settled, GiveUp, Enter, EnterV2Ray, Handshake, RemoveOld,
     Install, Verify, SpeedTest, WgFails, WgReturns, Probe, Spawn, ReadConfig, SocksReady,
     SocksSpeedTest, V2RayReturns, OutboundFails
<1>4. Awaited(a)
  BY <1>2, <1>3 DEF Awaited
<1>5. CASE a # t
  BY <1>1, <1>4, <1>5
<1>6. CASE a = t
  <2> SUFFICES test'[t].company = test[t].company
    BY <1>4, <1>6
  <2>1. ASSUME NEW how \in {"ok", "fail"}
        PROVE  ~End(t, how)
    BY <1>4, <1>6 DEF End, Settled, Awaited
  <2>2. \A at : Move(t, at) => test'[t].company = test[t].company
    BY <1>1 DEF Move, TestRec
  <2>3. CASE SpeedTest(t) \/ SocksSpeedTest(t)
    BY <1>1, <2>3 DEF SpeedTest, SocksSpeedTest, TestRec
  <2>4. CASE Probe(t)
    BY <1>1, <2>1, <2>4 DEF Probe, TestRec
  <2>5. CASE ReadConfig(t)
    BY <2>5 DEF ReadConfig
  <2>6. CASE OutboundFails(t)
    BY <1>1, <2>1, <2>2, <2>6 DEF OutboundFails, TestRec
  <2>7. CASE GiveUp(t) \/ WgFails(t) \/ WgReturns(t) \/ V2RayReturns(t)
    BY <2>1, <2>7 DEF GiveUp, WgFails, WgReturns, V2RayReturns
  <2>8. CASE Enter(t) \/ EnterV2Ray(t)
    BY <2>1, <2>2, <2>8 DEF Enter, EnterV2Ray
  <2>9. CASE \/ Handshake(t) \/ RemoveOld(t) \/ Install(t) \/ Verify(t) \/ Spawn(t)
            \/ SocksReady(t)
    BY <2>1, <2>2, <2>9 DEF Handshake, RemoveOld, Install, Verify, Spawn, SocksReady
  <2>10. QED
    BY <2>3, <2>4, <2>5, <2>6, <2>7, <2>8, <2>9 DEF TestStep
<1>7. QED
  BY <1>5, <1>6

\* Whoever steps beside an awaited test without company is that test.
LEMMA OnlyTheAwaited ==
  ASSUME Shape, Alone, NEW t \in Tests, TestStep(t), NEW a \in Tests, Awaited(a)',
         ~test'[a].company
  PROVE  a = t /\ Awaited(t) /\ ~test[t].company
BY StillAwaited, OwnRecord DEF Alone, Running

\* A test takes its measurement over its own tunnel or its own port.
LEMMA TestMeasure ==
  ASSUME Shape, Measure, NEW t \in Tests, TestStep(t)
  PROVE  Measure'
<1>1. /\ test \in [Tests -> TestRec] /\ test[t] \in TestRec
      /\ \A u \in Tests \ {t} : test'[u] = test[u]
      /\ test'[t].node = test[t].node /\ test[t].at \notin {"idle", "over"}
      /\ Fits(test[t].at, test[t].node, test[t].left)
  BY OwnRecord DEF Changed, Shape, TypeOK, Staged
<1>2. UNCHANGED <<started, pass, stop, recorded>>
  BY DEF TestStep, Rest, GiveUp, Enter, EnterV2Ray, Handshake, RemoveOld, Install, Verify,
     SpeedTest, WgFails, WgReturns, Probe, Spawn, ReadConfig, SocksReady, SocksSpeedTest,
     V2RayReturns, OutboundFails
<1>3. Alone'
  BY <1>1, OnlyTheAwaited DEF Measure, Alone, Running
<1>4. Socks'
  <2> SUFFICES test'[t].at = "vgoogle" => test'[t].via = test'[t].node
    BY <1>1 DEF Measure, Socks
  <2>1. CASE SocksSpeedTest(t)
    <3>1. PICK u \in Listening(SocksPort(t)) :
            test' = [test EXCEPT ![t].at = "vgoogle", ![t].via = test[proc[u]].node]
      BY <2>1 DEF SocksSpeedTest
    <3>2. proc[u] = t
      BY <3>1 DEF Listening, SocksPort
    <3>3. QED
      BY <1>1, <3>1, <3>2 DEF TestRec
  <2>2. CASE ReadConfig(t)
    BY <2>2 DEF ReadConfig, Measure, Socks
  <2>3. CASE ~SocksSpeedTest(t) /\ ~ReadConfig(t)
    <3>1. ASSUME NEW how, End(t, how)
          PROVE  test'[t].at = "over"
      BY <1>1, <3>1 DEF End, Fresh, TestRec
    <3>2. \A at : Move(t, at) => test'[t].at = at
      BY <1>1 DEF Move, TestRec
    <3>3. CASE Probe(t)
      BY <1>1, <3>1, <3>3 DEF Probe, TestRec
    <3>4. CASE OutboundFails(t)
      BY <1>1, <3>1, <3>2, <3>4 DEF OutboundFails, TestRec
    <3>5. CASE SpeedTest(t)
      BY <1>1, <3>5 DEF SpeedTest, TestRec
    <3>6. CASE GiveUp(t) \/ WgFails(t) \/ WgReturns(t) \/ V2RayReturns(t)
      BY <3>1, <3>6 DEF GiveUp, WgFails, WgReturns, V2RayReturns
    <3>7. CASE Enter(t) \/ EnterV2Ray(t)
      BY <3>1, <3>2, <3>7 DEF Enter, EnterV2Ray
    <3>8. CASE \/ Handshake(t) \/ RemoveOld(t) \/ Install(t) \/ Verify(t) \/ Spawn(t)
              \/ SocksReady(t)
      BY <3>1, <3>2, <3>8 DEF Handshake, RemoveOld, Install, Verify, Spawn, SocksReady
    <3>9. QED
      BY <2>3, <3>3, <3>4, <3>5, <3>6, <3>7, <3>8 DEF TestStep
  <2>4. QED
    BY <2>1, <2>2, <2>3
<1>5. Line'
  <2> SUFFICES ASSUME Awaited(t)', ~test'[t].company
               PROVE  /\ test'[t].at = "remove" => conf' = test'[t].node
                      /\ test'[t].at \in {"verify", "speed"} => tunnel' = test'[t].node \/ stop'
                      /\ test'[t].at = "google" => test'[t].via = test'[t].node
    BY OnlyTheAwaited DEF Measure, Line
  <2>1. /\ Awaited(t) /\ ~test[t].company
        /\ test[t].at = "remove" => conf = test[t].node
        /\ test[t].at \in {"verify", "speed"} => tunnel = test[t].node \/ stop
        /\ test[t].at = "google" => test[t].via = test[t].node
    BY OnlyTheAwaited DEF Measure, Line
  <2>2. \A how \in {"ok", "fail"} : ~End(t, how)
    BY <2>1 DEF End, Settled, Awaited
  <2>3. \A at : Move(t, at) => test'[t].at = at
    BY <1>1 DEF Move, TestRec
  <2>4. CASE RemoveOld(t)
    BY <1>1, <2>3, <2>4 DEF RemoveOld
  <2>5. CASE Install(t)
    BY <1>1, <2>1, <2>3, <2>5 DEF Install
  <2>6. CASE Verify(t)
    BY <1>1, <1>2, <2>1, <2>3, <2>6 DEF Verify
  <2>7. CASE SpeedTest(t)
    <3>1. tunnel = test[t].node
      BY <2>1, <2>7 DEF SpeedTest, Awaited
    <3>2. QED
      BY <1>1, <2>7, <3>1 DEF SpeedTest, TestRec
  <2>8. CASE ReadConfig(t)
    BY <1>2, <2>1, <2>8 DEF ReadConfig
  <2>9. CASE SocksSpeedTest(t)
    BY <1>1, <2>9 DEF SocksSpeedTest, TestRec
  <2>10. CASE Probe(t)
    BY <1>1, <2>2, <2>10 DEF Probe, TestRec
  <2>11. CASE OutboundFails(t)
    BY <1>1, <2>2, <2>3, <2>11 DEF OutboundFails, TestRec
  <2>12. CASE GiveUp(t) \/ WgFails(t) \/ WgReturns(t) \/ V2RayReturns(t)
    BY <2>2, <2>12 DEF GiveUp, WgFails, WgReturns, V2RayReturns
  <2>13. CASE \/ Enter(t) \/ EnterV2Ray(t) \/ Handshake(t) \/ Spawn(t) \/ SocksReady(t)
    BY <2>2, <2>3, <2>13 DEF Enter, EnterV2Ray, Handshake, Spawn, SocksReady
  <2>14. QED
    BY <2>4, <2>5, <2>6, <2>7, <2>8, <2>9, <2>10, <2>11, <2>12, <2>13 DEF TestStep
<1>6. Won'
  <2> SUFFICES ASSUME pass.phase = "run", race' = "ok"
               PROVE  Sound(test'[pass.cur])
    BY <1>2 DEF Won
  <2>1. pass.cur \in Tests
    BY DEF Shape, Latest, TypeOK, Tests
  <2>2. CASE race = "ok"
    <3>1. pass.cur # t
      BY <1>1, <2>2 DEF Measure, Won, Sound
    <3>2. QED
      BY <1>1, <2>1, <2>2, <3>1 DEF Measure, Won
  <2>3. CASE race # "ok"
    <3>1. /\ WgReturns(t) \/ V2RayReturns(t)
          /\ End(t, "ok")
      BY <2>3 DEF TestStep, Move, End, Settled, GiveUp, Enter, EnterV2Ray, Handshake, RemoveOld,
         Install, Verify, SpeedTest, WgFails, WgReturns, Probe, Spawn, ReadConfig, SocksReady,
         SocksSpeedTest, V2RayReturns, OutboundFails
    <3>2. pass.cur = t /\ race = "open"
      BY <2>3, <3>1 DEF End, Settled
    <3>3. /\ test'[t].at = "over" /\ test'[t].via = test[t].via
          /\ test'[t].company = test[t].company
      BY <1>1, <3>1, <3>2 DEF End, Settled, TestRec
    <3>4. CASE WgReturns(t)
      <4>1. test[t].node \in WireGuard
        BY <1>1, <3>4 DEF WgReturns, Fits, WgStages
      <4>2. test[t].company \/ test[t].via = test[t].node
        BY <3>2, <3>4 DEF WgReturns, Measure, Line, Awaited
      <4>3. QED
        BY <1>1, <3>2, <3>3, <4>1, <4>2 DEF Sound
    <3>5. CASE V2RayReturns(t)
      BY <1>1, <3>2, <3>3, <3>5 DEF V2RayReturns, Measure, Socks, Sound
    <3>6. QED
      BY <3>1, <3>4, <3>5
  <2>4. QED
    BY <2>2, <2>3
<1>7. Kept'
  <2> SUFFICES ASSUME NEW n \in Nodes, recorded[n] # 0
               PROVE  Sound(test'[recorded[n]]) /\ test'[recorded[n]].node = n
    BY <1>2 DEF Kept
  <2>1. recorded[n] \in Tests /\ Sound(test[recorded[n]]) /\ test[recorded[n]].node = n
    BY DEF Shape, TypeOK, Measure, Kept
  <2>2. recorded[n] # t
    BY <1>1, <2>1 DEF Sound
  <2>3. QED
    BY <1>1, <2>1, <2>2
<1>8. QED
  BY <1>3, <1>4, <1>5, <1>6, <1>7 DEF Measure

\* A launch begins to wait for a test that has measured nothing yet.
LEMMA LaunchMeasure ==
  ASSUME Shape, Measure, NEW n \in Nodes, started < MaxTests, Launch(n), UNCHANGED Platform,
         pass'.phase = "run", pass'.cur = started + 1, UNCHANGED recorded
  PROVE  Measure'
<1>1. /\ started' = started + 1 /\ started' \in Tests /\ race' = "open"
      /\ test'[started'] = [Fresh(n) EXCEPT !.company = AnyRunning]
      /\ \A u \in Tests \ {started'} : test'[u] = [test[u] EXCEPT !.company = @ \/ Running(u)]
  BY LaunchShape
<1>2. test'[started'].at = "pay" /\ test'[started'].company = AnyRunning
  BY <1>1 DEF Fresh
<1>3. ASSUME NEW u \in Tests \ {started'}
      PROVE  /\ test'[u].at = test[u].at /\ test'[u].node = test[u].node
             /\ test'[u].via = test[u].via
             /\ test[u].company => test'[u].company
  <2>1. test[u] \in TestRec /\ test'[u] = [test[u] EXCEPT !.company = @ \/ Running(u)]
    BY <1>1 DEF Shape, TypeOK
  <2>2. /\ test'[u].at = test[u].at /\ test'[u].node = test[u].node
        /\ test'[u].via = test[u].via
    BY <2>1 DEF TestRec
  <2>3. test[u].company => test'[u].company
    <3> SUFFICES ASSUME test[u].company PROVE test'[u].company
      OBVIOUS
    <3>1. test[u].company = TRUE /\ (test[u].company \/ Running(u)) = TRUE
      BY <2>1 DEF TestRec
    <3>2. test'[u] = [test[u] EXCEPT !.company = TRUE]
      BY <2>1, <3>1
    <3>3. QED
      BY <2>1, <3>2 DEF TestRec
  <2>4. QED
    BY <2>2, <2>3
<1>4. \A a \in Tests : Awaited(a)' => a = started'
  BY <1>1 DEF Awaited
<1>5. Alone'
  <2> SUFFICES ASSUME NEW u \in Tests \ {started'}, ~test'[started'].company
               PROVE  ~Running(u)'
    BY <1>1, <1>4 DEF Alone
  <2>1. ~AnyRunning
    BY <1>2
  <2>2. QED
    BY <1>3, <2>1 DEF AnyRunning, Running
<1>6. Line'
  BY <1>2, <1>4 DEF Line
<1>7. Socks'
  BY <1>2, <1>3 DEF Socks, Measure
<1>8. Won'
  BY <1>1 DEF Won
<1>9. Kept'
  <2> SUFFICES ASSUME NEW m \in Nodes, recorded[m] # 0
               PROVE  Sound(test'[recorded[m]]) /\ test'[recorded[m]].node = m
    BY DEF Kept
  <2>1. recorded[m] \in Tests /\ Sound(test[recorded[m]]) /\ test[recorded[m]].node = m
    BY DEF Shape, TypeOK, Measure, Kept
  <2>2. test[started'].at = "idle"
    <3>1. started \in 0..MaxTests
      BY DEF Shape, TypeOK
    <3>2. QED
      BY <1>1, <3>1 DEF Shape, Begun
  <2>3. recorded[m] # started'
    BY <2>1, <2>2 DEF Sound
  <2>4. QED
    BY <1>3, <2>1, <2>3 DEF Sound
<1>10. QED
  BY <1>5, <1>6, <1>7, <1>8, <1>9 DEF Measure

LEMMA PassMeasure ==
  ASSUME ~Slow, Shape, Measure, (\E ns \in SUBSET Nodes : StartPass(ns)) \/ PassStep \/ Stop \/ Watchdog
  PROVE  Measure'
<1> USE DEF Platform
<1>1. CASE NextNode
  <2>1. PICK n \in pass.left : /\ Launch(n)
          /\ pass' = [pass EXCEPT !.phase = "run", !.left = @ \ {n}, !.cur = started + 1, !.retries = 0]
    BY <1>1 DEF NextNode
  <2>2. /\ pass \in Passes /\ pass.left \in SUBSET Nodes /\ started \in Nat /\ MaxTests \in Nat
        /\ started + Cardinality(pass.left) <= MaxTests
    BY <1>1, TunnelAssumption DEF NextNode, Shape, TypeOK, Budget, Passes
  <2>3. n \in Nodes /\ started < MaxTests
    <3>1. Cardinality(pass.left) \in Nat \ {0}
      BY <2>2, OneLess
    <3>2. QED
      BY <2>2, <3>1
  <2>4. pass'.phase = "run" /\ pass'.cur = started + 1
    BY <2>1, <2>2 DEF Passes
  <2>5. QED
    BY <1>1, <2>1, <2>3, <2>4, LaunchMeasure DEF NextNode
<1>2. CASE Retry
  <2>1. /\ pass \in Passes /\ pass.left \in SUBSET Nodes /\ started \in 0..MaxTests
        /\ MaxTests \in Nat /\ pass.cur = started /\ started # 0
    BY <1>2, TunnelAssumption DEF Retry, Shape, TypeOK, Latest, Passes
  <2>2. test[pass.cur].node \in Nodes
    BY <2>1 DEF Shape, Begun, Tests
  <2>3. Cardinality(pass.left) \in Nat
    BY <2>1, FS_Subset, FS_CardinalityType, TunnelAssumption
  <2>4. started < MaxTests
    BY <1>2, <2>1, <2>3 DEF Retry
  <2>5. pass'.phase = "run" /\ pass'.cur = started + 1
    BY <1>2, <2>1 DEF Retry, Passes
  <2>6. QED
    BY <1>2, <2>2, <2>4, <2>5, LaunchMeasure DEF Retry
<1>3. CASE Deadline \/ StopPoll
  BY <1>3 DEF Deadline, StopPoll, Measure, Alone, Line, Socks, Won, Kept, Awaited, Running
<1>4. CASE Record
  <2>1. /\ pass.phase = "run" /\ UNCHANGED <<test, race, stop>> /\ pass'.phase = "sweep"
        /\ recorded' = [recorded EXCEPT ![test[pass.cur].node] = IF race = "ok" THEN pass.cur ELSE 0]
    BY <1>4 DEF Record, Shape, TypeOK
  <2>2. pass.cur \in Tests /\ test[pass.cur].node \in Nodes
    BY <2>1 DEF Shape, Latest, Begun, TypeOK, Tests
  <2>3. Kept'
    BY <2>1, <2>2 DEF Shape, TypeOK, Measure, Won, Kept
  <2>4. Alone' /\ Line' /\ Socks' /\ Won'
    BY <2>1 DEF Measure, Alone, Line, Socks, Won, Awaited
  <2>5. QED
    BY <2>3, <2>4 DEF Measure
<1>5. CASE Sweep
  <2>1. pass'.phase = "baseline" /\ UNCHANGED <<test, recorded>>
    BY <1>5 DEF Sweep, Shape, TypeOK
  <2>2. QED
    BY <2>1 DEF Measure, Alone, Line, Socks, Won, Kept, Awaited
<1>6. CASE EndPass
  BY <1>6 DEF EndPass, Measure, Alone, Line, Socks, Won, Kept, Awaited
<1>7. ASSUME NEW ns \in SUBSET Nodes, StartPass(ns)
      PROVE  Measure'
  BY <1>7 DEF StartPass, Measure, Alone, Line, Socks, Won, Kept, Awaited
<1>8. CASE Stop
  BY <1>8 DEF Stop, Measure, Alone, Line, Socks, Won, Kept, Awaited, Running
<1>9. CASE Watchdog
  <2>1. \A t \in Tests : test[t].at \notin {"verify", "speed"}
    BY <1>9 DEF Watchdog
  <2>2. QED
    BY <1>9, <2>1 DEF Watchdog, Measure, Alone, Line, Socks, Won, Kept, Awaited, Running
<1>10. QED
  BY <1>1, <1>2, <1>3, <1>4, <1>5, <1>6, <1>7, <1>8, <1>9 DEF PassStep

\* A recorded speed was measured through the node it stands beside, whatever the
\* order of stops, deadlines, retries and abandoned tests, if the watchdog never
\* removes a tunnel under a speed test (~Slow) - and, over WireGuard, no abandoned
\* test was running at the same time.
THEOREM MeasuredThroughTheNode == ~Slow => (Spec => []MeasuredThroughNode)
<1>1. Init => Measure
  BY DEF Init, Measure, Alone, Line, Socks, Won, Kept, Awaited, Fresh
<1>2. ~Slow /\ Shape /\ Measure /\ [Next]_vars => Measure'
  <2> SUFFICES ASSUME ~Slow, Shape, Measure, [Next]_vars PROVE Measure'
    OBVIOUS
  <2>1. CASE UNCHANGED vars
    BY <2>1 DEF vars, Measure, Alone, Line, Socks, Won, Kept, Awaited, Running
  <2>2. CASE Next
    BY <2>2, TestMeasure, PassMeasure DEF Next
  <2>3. QED
    BY <2>1, <2>2
<1>3. Measure => MeasuredThroughNode
  BY DEF Measure, Kept, Sound, MeasuredThroughNode
<1>4. QED
  <2>1. SUFFICES ASSUME ~Slow PROVE Spec => []MeasuredThroughNode
    OBVIOUS
  <2>2. Shape /\ Measure /\ [Next]_vars => Measure'
    BY <1>2, <2>1
  <2>3. QED
    BY <1>1, <1>3, <2>2, ShapeAlways, PTL DEF Spec
=============================================================================
