----------------------------- MODULE NodeTunnels -----------------------------
(***************************************************************************)
(* The transport half of a node test (audit/node-test.js from the          *)
(* handshake on), the two things of the machine every test shares - one    *)
(* WireGuard tunnel, one V2Ray configuration file - and the pass of        *)
(* audit/pipeline.js that runs the tests.                                  *)
(*                                                                         *)
(* testWithRetry races a test against a deadline and a stop poll.  Losing  *)
(* the race does not end the test: it runs on beside its successors, over  *)
(* the same tunnel, file and processes.  A test is a number, which is also *)
(* the SOCKS port it takes.  at names the await it is parked at:           *)
(*   pay, settle  before the handshake    shake, ips  up to the WG config  *)
(*   remove, verify, speed, google        installing and using a tunnel    *)
(*   probe, spawn, socks, vspeed, vgoogle one V2Ray outbound               *)
(*   over         returned or thrown                                       *)
(***************************************************************************)
EXTENDS Integers, FiniteSets

CONSTANTS
  Nodes,       \* nodes a pass may test
  WireGuard,   \* those whose status says wireguard
  Direct,      \* the machine's own line: the way out when no tunnel is up
  MaxTests,    \* bound: tests ever started
  Outbounds,   \* V2Ray outbounds a node's configuration lists
  MaxRetries,  \* MAX_RETRIES of retry.js
  Slow         \* may a speed test still run when its tunnel is 45 s old?

ASSUME TunnelAssumption ==
  /\ WireGuard \subseteq Nodes /\ Direct \notin Nodes /\ IsFiniteSet(Nodes)
  /\ MaxTests \in Nat /\ Outbounds \in Nat \ {0} /\ MaxRetries \in Nat
  /\ Slow \in BOOLEAN

Tests == 1..MaxTests

VARIABLES
  test,      \* per test: node, await, outbounds left, fallback used?, way measured, company?
  started,   \* tests started so far: nextSocksPort() moves with it
  tunnel,    \* whose peer the operating system's tunnel leads to, or Direct
  active,    \* activeTunnelName # null, with tunnelInstalledAt
  conf,      \* whose configuration wgsent0.conf holds, or Direct when deleted
  cfg,       \* the test whose configuration sentinel-v2ray.json holds, 0 at first
  proc,      \* per test: its V2Ray process
  pass,      \* the running pass: phase, nodes left, current test, retries
  race,      \* how the race around the current test was settled
  stop,      \* state.stopRequested
  recorded   \* per node: the recorded speed's test, 0 when none

vars == <<test, started, tunnel, active, conf, cfg, proc, pass, race, stop, recorded>>

Way == Nodes \cup {Direct}
Stages == {"idle", "pay", "settle", "shake", "ips", "remove", "verify", "speed", "google",
           "probe", "spawn", "socks", "vspeed", "vgoogle", "over"}
TestRec == [node : Way, at : Stages, left : 0..Outbounds, extra : BOOLEAN,
            via : Way, company : BOOLEAN]
\* A test's V2Ray process: not there, not yet past reading its configuration, gone,
\* or serving the port of the test whose configuration it read.
NoProc == 0
Starting == -1
Exited == -2
Processes == {NoProc, Starting, Exited} \cup Tests

TypeOK ==
  /\ test \in [Tests -> TestRec] /\ started \in 0..MaxTests
  /\ tunnel \in Way /\ active \in BOOLEAN /\ conf \in Way /\ cfg \in {0} \cup Tests
  /\ proc \in [Tests -> Processes]
  /\ pass \in [phase : {"off", "baseline", "run", "sweep"}, left : SUBSET Nodes,
               cur : {0} \cup Tests, retries : 0..MaxRetries]
  /\ race \in {"open", "ok", "fail", "late", "stopped"}
  /\ stop \in BOOLEAN /\ recorded \in [Nodes -> {0} \cup Tests]

Fresh(n) == [node |-> n, at |-> "pay", left |-> Outbounds, extra |-> FALSE,
             via |-> Direct, company |-> FALSE]

Init ==
  /\ test = [t \in Tests |-> [Fresh(Direct) EXCEPT !.at = "idle"]]
  /\ started = 0 /\ tunnel = Direct /\ active = FALSE /\ conf = Direct /\ cfg = 0
  /\ proc = [t \in Tests |-> NoProc]
  /\ pass = [phase |-> "off", left |-> {}, cur |-> 0, retries |-> 0]
  /\ race = "open" /\ stop = FALSE /\ recorded = [n \in Nodes |-> 0]

Running(t) == test[t].at \notin {"idle", "over"}
AnyRunning == \E t \in Tests : Running(t)

-----------------------------------------------------------------------------
(* The platform: what the code does to the tunnel and the processes.       *)

\* emergencyCleanupSync: every wgsent tunnel goes, whoever installed it.
EmergencyCleanup == tunnel' = Direct /\ active' = FALSE

\* uninstallWgTunnel: only what activeTunnelName names, and its file with it.
Uninstall ==
  IF active THEN tunnel' = Direct /\ active' = FALSE /\ conf' = Direct
            ELSE UNCHANGED <<tunnel, active, conf>>

\* killAllV2Ray: by image name, so whichever test started them.
AllKilled == [t \in Tests |-> IF proc[t] = NoProc THEN NoProc ELSE Exited]

\* Mutant: one fixed port for every test.
SocksPort_Fixed(t) == 1

\* The port nextSocksPort() hands to test t: no two tests get the same one.
SocksPort(t) == t

\* The process listening on a port, which serves the node of the test whose file it read.
Listening(port) == {u \in Tests : proc[u] \in Tests /\ SocksPort(proc[u]) = port}

-----------------------------------------------------------------------------
(* How a test ends: its cleanup, and the race if the pass still waits.     *)

Settled(t, how) == IF pass.cur = t /\ race = "open" THEN how ELSE race

Cleaned(t) ==
  IF test[t].node \in WireGuard
  THEN /\ tunnel' = Direct /\ active' = FALSE
       /\ conf' = IF active THEN Direct ELSE conf
       /\ UNCHANGED proc
  ELSE proc' = [proc EXCEPT ![t] = NoProc] /\ UNCHANGED <<tunnel, active, conf>>

\* What a test measured is kept only when the pass still waits for it.
End(t, how) ==
  /\ test' = [test EXCEPT ![t] = IF Settled(t, how) = "ok"
                                 THEN [@ EXCEPT !.at = "over", !.left = 0, !.extra = FALSE]
                                 ELSE [Fresh(@.node) EXCEPT !.at = "over", !.left = 0]]
  /\ race' = Settled(t, how)

Rest == UNCHANGED <<started, cfg, pass, stop, recorded>>
Move(t, at) == test' = [test EXCEPT ![t].at = at] /\ UNCHANGED race

-----------------------------------------------------------------------------
(* A node test, from one await to the next.                                *)

\* Anything before the transport fails: unreachable, unpaid, a failed wait.
GiveUp(t) ==
  /\ test[t].at \in {"pay", "settle"} /\ End(t, "fail")
  /\ Rest /\ UNCHANGED <<tunnel, active, conf, proc>>

\* The session is there. A V2Ray test kills every V2Ray process first.
Enter(t) ==
  /\ test[t].at = "pay"
  /\ IF test[t].node \in WireGuard
     THEN \/ stop /\ End(t, "fail")
          \/ ~stop /\ Move(t, "shake")
          \/ Move(t, "ips")                \* cached credentials need no handshake
     ELSE Move(t, "settle")
  /\ proc' = IF test[t].node \in WireGuard THEN proc ELSE AllKilled
  /\ Rest /\ UNCHANGED <<tunnel, active, conf>>

EnterV2Ray(t) ==
  /\ test[t].at = "settle"
  /\ \/ stop /\ End(t, "fail")
     \/ ~stop /\ Move(t, "shake")
     \/ Move(t, "probe")                   \* cached UUID
  /\ Rest /\ UNCHANGED <<tunnel, active, conf, proc>>

\* The handshake with its waits and retries; no stop check once it has succeeded.
Handshake(t) ==
  /\ test[t].at = "shake"
  /\ \/ Move(t, IF test[t].node \in WireGuard THEN "ips" ELSE "probe")
     \/ End(t, "fail")
  /\ Rest /\ UNCHANGED <<tunnel, active, conf, proc>>

\* writeWgConfig, then installWgTunnel up to its first sleep: the old tunnel goes.
RemoveOld(t) ==
  /\ test[t].at = "ips" /\ Move(t, "remove")
  /\ conf' = test[t].node /\ tunnel' = Direct
  /\ Rest /\ UNCHANGED <<active, proc>>

\* Mutant: the tunnel is marked active once its service has been verified.
Install_MarkedLater(t) ==
  /\ test[t].at = "remove" /\ tunnel = Direct /\ conf # Direct
  /\ tunnel' = conf /\ Move(t, "verify")
  /\ Rest /\ UNCHANGED <<active, conf, proc>>

\* The install command reads the file that is there now; marked active at once.
Install(t) ==
  /\ test[t].at = "remove" /\ tunnel = Direct /\ conf # Direct
  /\ tunnel' = conf /\ active' = TRUE /\ Move(t, "verify")
  /\ Rest /\ UNCHANGED <<conf, proc>>

Verify(t) ==
  /\ test[t].at = "verify" /\ tunnel # Direct /\ Move(t, "speed")
  /\ Rest /\ UNCHANGED <<tunnel, active, conf, proc>>

\* speedtestDirect goes whichever way the machine's routes lead when the level of
\* its fallback chain that succeeds runs; it outlasts the 500 ms stop poll.
SpeedTest(t) ==
  /\ test[t].at = "speed" /\ ~(stop /\ pass.cur = t /\ race = "open")
  /\ test' = [test EXCEPT ![t].at = "google", ![t].via = tunnel] /\ UNCHANGED race
  /\ Rest /\ UNCHANGED <<tunnel, active, conf, proc>>

\* Mutant: the cleanup follows a speed test instead of standing in a finally.
WgFails_NoFinally(t) ==
  /\ test[t].at \in {"remove", "verify", "speed"}
  /\ End(t, "fail") /\ Rest /\ UNCHANGED <<tunnel, active, conf, proc>>


WgFails(t) ==
  /\ End(t, "fail") /\ Rest
  /\ \/ test[t].at \in {"remove", "speed"} /\ Cleaned(t)
     \/ test[t].at = "verify" /\ EmergencyCleanup /\ UNCHANGED <<conf, proc>>

WgReturns(t) ==
  /\ test[t].at = "google"
  /\ End(t, "ok") /\ Cleaned(t) /\ Rest

\* One outbound: stop check, a port probe that only waits, a clean slate before the first.
Probe(t) ==
  /\ test[t].at = "probe" /\ UNCHANGED <<tunnel, active, conf>> /\ Rest
  /\ IF stop
     THEN End(t, "fail") /\ UNCHANGED proc
     ELSE /\ test' = [test EXCEPT ![t].at = "spawn", ![t].left = @ - 1] /\ UNCHANGED race
          /\ proc' = IF test[t].left = Outbounds THEN AllKilled ELSE proc

\* spawnV2Ray: the one configuration file is written and a process started on it.
Spawn(t) ==
  /\ test[t].at = "spawn" /\ Move(t, "socks")
  /\ cfg' = t /\ proc' = [proc EXCEPT ![t] = Starting]
  /\ UNCHANGED <<started, pass, stop, recorded, tunnel, active, conf>>

\* The process reads the file as it is by now; a taken port makes it exit.
ReadConfig(t) ==
  /\ proc[t] = Starting
  /\ proc' = [proc EXCEPT ![t] = IF Listening(SocksPort(cfg)) = {} THEN cfg ELSE Exited]
  /\ UNCHANGED <<test, race, tunnel, active, conf>> /\ Rest

SocksReady(t) ==
  /\ test[t].at = "socks" /\ Listening(SocksPort(t)) # {} /\ proc[t] # Exited
  /\ Move(t, "vspeed") /\ Rest /\ UNCHANGED <<tunnel, active, conf, proc>>

SocksSpeedTest(t) ==
  /\ test[t].at = "vspeed" /\ ~(stop /\ pass.cur = t /\ race = "open")
  /\ \E u \in Listening(SocksPort(t)) :
       test' = [test EXCEPT ![t].at = "vgoogle", ![t].via = test[proc[u]].node]
  /\ UNCHANGED race /\ Rest /\ UNCHANGED <<tunnel, active, conf, proc>>

V2RayReturns(t) == test[t].at = "vgoogle" /\ End(t, "ok") /\ Cleaned(t) /\ Rest

\* Mutant: the next outbound is tried although none is left.
OutboundFails_OneMore(t) ==
  /\ test[t].at \in {"spawn", "socks", "vspeed"}
  /\ UNCHANGED <<tunnel, active, conf>> /\ Rest
  /\ Move(t, "probe") /\ proc' = [proc EXCEPT ![t] = NoProc]

\* An outbound fails: the next, one extra try (alterId 0, the status port or a
\* discovered one; the last two kill every process first), or the end, which an
\* extra try that cannot even spawn is too.
OutboundFails(t) ==
  /\ test[t].at \in {"spawn", "socks", "vspeed"}
  /\ UNCHANGED <<tunnel, active, conf>> /\ Rest
  /\ \/ test[t].left > 0 /\ Move(t, "probe") /\ proc' = [proc EXCEPT ![t] = NoProc]
     \/ /\ ~test[t].extra
        /\ test' = [test EXCEPT ![t].at = "spawn", ![t].extra = TRUE] /\ UNCHANGED race
        /\ \/ proc' = [proc EXCEPT ![t] = NoProc]
           \/ test[t].left = 0 /\ proc' = [AllKilled EXCEPT ![t] = NoProc]
     \/ /\ test[t].left = 0 \/ (test[t].extra /\ test[t].at = "spawn")
        /\ End(t, "fail") /\ proc' = [proc EXCEPT ![t] = NoProc]

TestStep(t) ==
  \/ GiveUp(t) \/ Enter(t) \/ EnterV2Ray(t) \/ Handshake(t)
  \/ RemoveOld(t) \/ Install(t) \/ Verify(t) \/ SpeedTest(t) \/ WgFails(t) \/ WgReturns(t)
  \/ Probe(t) \/ Spawn(t) \/ ReadConfig(t) \/ SocksReady(t) \/ SocksSpeedTest(t)
  \/ V2RayReturns(t) \/ OutboundFails(t)

-----------------------------------------------------------------------------
(* The pass: one test at a time, each in a race.                           *)

Platform == <<tunnel, active, conf, cfg, proc>>

\* A start, accepted once the pass before has unwound; enough tests left in the bound.
StartPass(ns) ==
  /\ pass.phase = "off" /\ ns # {} /\ started + Cardinality(ns) <= MaxTests
  /\ pass' = [phase |-> "baseline", left |-> ns, cur |-> 0, retries |-> 0]
  /\ stop' = FALSE
  /\ UNCHANGED <<test, started, race, recorded>> /\ UNCHANGED Platform

\* Start the test of n; whoever still runs from earlier keeps it company.
Launch(n) ==
  LET t == started + 1 IN
  /\ started' = t /\ race' = "open"
  /\ test' = [u \in Tests |-> IF u = t THEN [Fresh(n) EXCEPT !.company = AnyRunning]
                              ELSE [test[u] EXCEPT !.company = @ \/ Running(u)]]

\* The baseline of the next node has been measured and its test starts.
NextNode ==
  /\ pass.phase = "baseline" /\ ~stop
  /\ \E n \in pass.left :
       /\ Launch(n)
       /\ pass' = [pass EXCEPT !.phase = "run", !.left = @ \ {n}, !.cur = started + 1,
                               !.retries = 0]
  /\ UNCHANGED <<stop, recorded>> /\ UNCHANGED Platform

\* Mutant: the deadline is looked at between two attempts only.
Deadline_Between ==
  /\ pass.phase = "run" /\ race = "open" /\ ~Running(pass.cur) /\ race' = "late"
  /\ UNCHANGED <<test, started, pass, stop, recorded>> /\ UNCHANGED Platform

\* The five-minute deadline and the 500 ms stop poll: the test itself is not told.
Deadline ==
  /\ pass.phase = "run" /\ race = "open" /\ race' = "late"
  /\ UNCHANGED <<test, started, pass, stop, recorded>> /\ UNCHANGED Platform
StopPoll ==
  /\ pass.phase = "run" /\ race = "open" /\ stop /\ race' = "stopped"
  /\ UNCHANGED <<test, started, pass, stop, recorded>> /\ UNCHANGED Platform

\* A retriable failure runs the test function once more.
Retry ==
  /\ pass.phase = "run" /\ race = "fail" /\ ~stop
  /\ pass.retries < MaxRetries /\ started + Cardinality(pass.left) < MaxTests
  /\ Launch(test[pass.cur].node)
  /\ pass' = [pass EXCEPT !.cur = started + 1, !.retries = @ + 1]
  /\ UNCHANGED <<stop, recorded>> /\ UNCHANGED Platform

\* A result is recorded even when a stop came after it; a failure only when none did.
Record ==
  /\ pass.phase = "run" /\ race \in {"ok", "fail", "late"}
  /\ race # "ok" => ~stop
  /\ recorded' = [recorded EXCEPT ![test[pass.cur].node] = IF race = "ok" THEN pass.cur ELSE 0]
  /\ pass' = [pass EXCEPT !.phase = "sweep", !.cur = 0]
  /\ Uninstall /\ UNCHANGED <<test, started, race, stop, cfg, proc>>

Sweep ==
  /\ pass.phase = "sweep" /\ EmergencyCleanup
  /\ pass' = [pass EXCEPT !.phase = "baseline"]
  /\ UNCHANGED <<test, started, race, stop, recorded, conf, cfg, proc>>

\* Nothing left, or stopped: a last cleanup and the pass is over.
EndPass ==
  /\ \/ pass.phase = "baseline" /\ (stop \/ pass.left = {})
     \/ pass.phase = "run" /\ stop /\ race \in {"fail", "late", "stopped"}
  /\ pass' = [phase |-> "off", left |-> {}, cur |-> 0, retries |-> 0] /\ race' = "open"
  /\ EmergencyCleanup
  /\ UNCHANGED <<test, started, stop, recorded, conf, cfg, proc>>

\* POST /api/stop: the flag, then every process and tunnel.
Stop ==
  /\ stop' = TRUE /\ proc' = AllKilled /\ EmergencyCleanup
  /\ UNCHANGED <<test, started, pass, race, recorded, conf, cfg>>

\* watchdogCheck: a tunnel known to be older than 45 s is killed under its user.
Watchdog ==
  /\ active /\ (Slow \/ \A t \in Tests : test[t].at \notin {"verify", "speed"})
  /\ EmergencyCleanup
  /\ UNCHANGED <<test, started, pass, race, stop, recorded, conf, cfg, proc>>

PassStep == NextNode \/ Deadline \/ StopPoll \/ Retry \/ Record \/ Sweep \/ EndPass

Next ==
  \/ \E ns \in SUBSET Nodes : StartPass(ns)
  \/ PassStep \/ Stop \/ Watchdog
  \/ \E t \in Tests : TestStep(t)

Spec == Init /\ [][Next]_vars

\* The event loop keeps running the pass's continuations and its timers. Nothing is
\* assumed of a test: it may hang at any await.
FairSpec == Spec /\ WF_vars(PassStep)

-----------------------------------------------------------------------------
(* Properties.                                                             *)

\* A recorded speed was measured through the node it is recorded for: always over
\* V2Ray, whatever abandoned tests do to the file and the processes; over WireGuard
\* as long as no abandoned test was still running beside it.
MeasuredThroughNode ==
  \A n \in Nodes : recorded[n] # 0 =>
    LET r == test[recorded[n]] IN r.via = n \/ (n \in WireGuard /\ r.company)

\* The watchdog and uninstallWgTunnel see every tunnel that is up: no order of
\* installs and cleanups, a successor's and an abandoned test's included, leaves a
\* tunnel the process has forgotten.
TunnelWatched == tunnel # Direct => active

\* When the last test has ended, in time or abandoned, no tunnel and no V2Ray process
\* is left: the next baseline is the line's own speed.
NothingLeft == ~AnyRunning => tunnel = Direct /\ \A t \in Tests : proc[t] = NoProc

\* A pass ends although its tests may hang: the race and the stop poll are enough.
PassEnds == (pass.phase # "off") ~> (pass.phase = "off")
=============================================================================
