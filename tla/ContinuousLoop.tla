--------------------------- MODULE ContinuousLoop ---------------------------
(***************************************************************************)
(* The perpetual-audit controller of audit/continuous.js: one control      *)
(* record _ctrl, the asynchronous activations of _runLoop that share it,   *)
(* the batches / batch_results tables those activations write, the results *)
(* array of audit/pipeline.js they fill, and results/.loop-config.json.    *)
(*                                                                         *)
(* JavaScript runs to completion between two awaits, so one action is the  *)
(* code from one await to the next.  pc names the await an activation is   *)
(* parked at:                                                              *)
(*   snapshot  await _resolveSnapshot()       open     await import(db)    *)
(*   retry     the 2 s sleep after a failure  seed     await import(pipe)  *)
(*   setup     runAudit before its node scan  pass     runAudit's sweep    *)
(*   collect   await import(db) when paused   close    await import(db)    *)
(*   gap       sleepInterruptible             idle     not running         *)
(***************************************************************************)
EXTENDS Integers, FiniteSets

CONSTANTS
  Nodes,          \* node addresses the chain may list
  Loops,          \* activations of _runLoop, reused once they have returned
  None,           \* JavaScript null
  MaxIterations,  \* SAFETY_MAX_ITERATIONS
  KeepBatches,    \* DEFAULT_BATCH_RETENTION
  MaxBatches,     \* bound: batch rows ever opened
  MaxLaunches,    \* bound: activations started over the whole behaviour
  MaxCrashes,     \* bound: process deaths
  EagerResume     \* may resume() be called before the paused pass has settled?

ASSUME LoopAssumption ==
  /\ Loops # {} /\ None \notin Nodes \cup Loops
  /\ IsFiniteSet(Nodes)
  /\ MaxIterations \in Nat \ {0} /\ KeepBatches \in Nat \ {0}
  /\ MaxBatches \in Nat /\ MaxLaunches \in Nat /\ MaxCrashes \in Nat
  /\ EagerResume \in BOOLEAN

BatchIds == 1..MaxBatches

VARIABLES
  ctrl,      \* _ctrl: the fields control depends on
  loop,      \* per activation: where it is parked and its local variables
  db,        \* batches joined with batch_results, per batch id
  results,   \* addresses in pipeline.js's in-memory results array
  disk,      \* .loop-config.json
  up,        \* is the process alive?
  signalled, \* history: did a signal end a loop nobody had asked to stop?
  launches, crashes

vars == <<ctrl, loop, db, results, disk, up, signalled, launches, crashes>>

-----------------------------------------------------------------------------
(* Data the code passes around.                                            *)

\* { batchId, frozenNodes, testedAddrs }, the shape of pausedBatch and resumeIntent
Paused == [batch : {0} \cup BatchIds, frozen : SUBSET Nodes, tested : SUBSET Nodes]

ASSUME NullAssumption == None \notin Paused

Ctrl == [running : BOOLEAN, stopRequested : BOOLEAN, paused : BOOLEAN,
         iteration : 0..MaxIterations,
         pausedBatch : Paused \cup {None}, resumeIntent : Paused \cup {None},
         loopState : Loops \cup {None}]

PCs == {"idle", "snapshot", "retry", "open", "seed", "setup", "pass",
        "collect", "close", "gap"}

\* frozen is the snapshot of the batch, todo what runAudit was handed and has
\* not recorded yet, cur the node under test, stop loopState.stopRequested,
\* count passed + failed, threw whether the pass rejected; refetched is
\* history: the pass was handed an empty list and fetched one of its own.
Activation == [pc : PCs, batch : {0} \cup BatchIds, frozen : SUBSET Nodes,
               todo : SUBSET Nodes, cur : Nodes \cup {None}, resuming : BOOLEAN,
               stop : BOOLEAN, count : 0..Cardinality(Nodes), threw : BOOLEAN,
               refetched : BOOLEAN]

Batch == [st : {"absent", "open", "finished"}, snap : SUBSET Nodes,
          rows : SUBSET Nodes, count : 0..Cardinality(Nodes)]

Config == [running : BOOLEAN, paused : BOOLEAN, pausedBatch : Paused \cup {None}]

FreshCtrl == [running |-> FALSE, stopRequested |-> FALSE, paused |-> FALSE,
              iteration |-> 0, pausedBatch |-> None, resumeIntent |-> None,
              loopState |-> None]

Returned == [pc |-> "idle", batch |-> 0, frozen |-> {}, todo |-> {}, cur |-> None,
             resuming |-> FALSE, stop |-> FALSE, count |-> 0, threw |-> FALSE,
             refetched |-> FALSE]

NoRow == [st |-> "absent", snap |-> {}, rows |-> {}, count |-> 0]

Active(l) == loop[l].pc # "idle"
Holds(c, b) == c.pausedBatch # None /\ c.pausedBatch.batch = b

\* _persistLoopConfig
Persisted(c) == [running |-> c.running, paused |-> c.paused,
                 pausedBatch |-> c.pausedBatch]

Init ==
  /\ ctrl = FreshCtrl
  /\ loop = [l \in Loops |-> Returned]
  /\ db = [b \in BatchIds |-> NoRow]
  /\ results = {}
  /\ disk = Persisted(FreshCtrl)
  /\ up = TRUE /\ signalled = FALSE
  /\ launches = 0 /\ crashes = 0

-----------------------------------------------------------------------------
(* The body of _runLoop, one action per stretch between two awaits.  c is  *)
(* the control record as the code before left it.                          *)

\* The finally block.
Halt_StaysRunning(l, c) ==
  /\ ctrl' = [c EXCEPT !.stopRequested = FALSE, !.loopState = None]
  /\ disk' = Persisted(c)
  /\ loop' = [loop EXCEPT ![l] = Returned]

Halt(l, c) ==
  LET d == [c EXCEPT !.running = FALSE, !.stopRequested = FALSE, !.loopState = None]
  IN /\ ctrl' = d
     /\ disk' = Persisted(d)
     /\ loop' = [loop EXCEPT ![l] = Returned]

\* What a resume still has to test.
Remainder_Whole(p) == p.frozen
Remainder(p) == p.frozen \ p.tested

\* An iteration up to its first await: a fresh loopState, and either the
\* consumed resume intent or a new snapshot.
EnterIteration(l, c) ==
  /\ ctrl' = [c EXCEPT !.iteration = @ + 1, !.loopState = l, !.resumeIntent = None]
  /\ loop' = [loop EXCEPT ![l] =
       IF c.resumeIntent = None
       THEN [Returned EXCEPT !.pc = "snapshot"]
       ELSE [Returned EXCEPT !.pc = "seed", !.resuming = TRUE,
                             !.batch = c.resumeIntent.batch,
                             !.frozen = c.resumeIntent.frozen,
                             !.todo = Remainder(c.resumeIntent)]]

\* The while test and the iteration ceiling.
LoopTop(l) ==
  \/ /\ ~ctrl.stopRequested /\ ctrl.iteration < MaxIterations
     /\ EnterIteration(l, ctrl)
     /\ UNCHANGED disk
  \/ /\ ctrl.stopRequested \/ ctrl.iteration >= MaxIterations
     /\ Halt(l, ctrl)

SnapshotResolved(l) ==
  /\ loop[l].pc = "snapshot"
  /\ \E S \in SUBSET Nodes :
       loop' = [loop EXCEPT ![l].pc = "open", ![l].frozen = S, ![l].todo = S]
  /\ UNCHANGED <<ctrl, db, results, disk>>

SnapshotFailed(l) ==
  /\ loop[l].pc = "snapshot"
  /\ \/ ctrl.stopRequested /\ Halt(l, ctrl)
     \/ /\ ~ctrl.stopRequested
        /\ loop' = [loop EXCEPT ![l].pc = "retry"]
        /\ UNCHANGED <<ctrl, disk>>
  /\ UNCHANGED <<db, results>>

RetrySnapshot(l) ==
  /\ loop[l].pc = "retry"
  /\ LoopTop(l)
  /\ UNCHANGED <<db, results>>

\* INTEGER PRIMARY KEY: one more than the largest rowid present.
NextBatchId(b) ==
  /\ \A a \in BatchIds : a >= b => db[a].st = "absent"
  /\ b > 1 => db[b - 1].st # "absent"

\* insertBatch, which may fail and leave batch id 0, and the pre-pipeline seed
\* of pausedBatch.
OpenBatch(l) ==
  /\ loop[l].pc = "open"
  /\ \E b \in {0} \cup BatchIds :
       /\ b > 0 => NextBatchId(b)
       /\ db' = IF b = 0 THEN db
                ELSE [db EXCEPT ![b] = [NoRow EXCEPT !.st = "open", !.snap = loop[l].frozen]]
       /\ loop' = [loop EXCEPT ![l].pc = "setup", ![l].batch = b]
       /\ ctrl' = [ctrl EXCEPT !.pausedBatch = [batch |-> b, frozen |-> loop[l].frozen,
                                                tested |-> {}]]
  /\ UNCHANGED <<results, disk>>

\* seedResults from batch_results when the results array is empty.
SeedResumed(l) ==
  /\ loop[l].pc = "seed"
  /\ results' = IF results = {} /\ loop[l].batch > 0 THEN db[loop[l].batch].rows
                ELSE results
  /\ loop' = [loop EXCEPT ![l].pc = "setup"]
  /\ UNCHANGED <<ctrl, db, disk>>

-----------------------------------------------------------------------------
(* The sweep: runAudit as _runOnePass drives it.                           *)

\* The rest of an iteration once the pass has settled: collect the tested
\* addresses when paused, otherwise close the batch row if there is one.
SettlePass(l, a) ==
  \/ /\ ctrl.paused
     /\ loop' = [loop EXCEPT ![l] = [a EXCEPT !.pc = "collect"]]
     /\ UNCHANGED <<ctrl, disk>>
  \/ /\ ~ctrl.paused
     /\ LET c == IF a.resuming THEN ctrl ELSE [ctrl EXCEPT !.pausedBatch = None]
        IN \/ /\ a.batch > 0
              /\ ctrl' = c
              /\ loop' = [loop EXCEPT ![l] = [a EXCEPT !.pc = "close"]]
              /\ UNCHANGED disk
           \/ /\ a.batch = 0 /\ ~ctrl.stopRequested
              /\ ctrl' = c
              /\ loop' = [loop EXCEPT ![l] = [a EXCEPT !.pc = "gap"]]
              /\ UNCHANGED disk
           \/ /\ a.batch = 0 /\ ctrl.stopRequested
              /\ Halt(l, c)

\* Wallet, RPC client or balance query rejects before anything is cleared.
PassRejects(l) ==
  /\ loop[l].pc = "setup"
  /\ SettlePass(l, [loop[l] EXCEPT !.threw = TRUE])
  /\ UNCHANGED <<db, results>>

\* runAudit wipes the results array, except on a resume.
Kept_Always(l) == results
Kept(l) == IF loop[l].resuming THEN results ELSE {}

\* The results array is reset, the handed list is swept for and
\* a resume drops what the array already holds.  An empty list makes runAudit
\* fetch the node list itself.
PassScans(l) ==
  /\ loop[l].pc = "setup"
  /\ results' = Kept(l)
  /\ \E online \in SUBSET Nodes :
       loop' = [loop EXCEPT ![l].pc = "pass", ![l].refetched = loop[l].todo = {},
                            ![l].todo = (IF @ = {} THEN online ELSE @ \cap online)
                                          \ results']
  /\ UNCHANGED <<ctrl, db, disk>>

\* The fallback fetch of the node list times out, after the array was wiped.
PassFetchFails(l) ==
  /\ loop[l].pc = "setup" /\ loop[l].todo = {}
  /\ results' = Kept(l)
  /\ SettlePass(l, [loop[l] EXCEPT !.threw = TRUE, !.count = Cardinality(results')])
  /\ UNCHANGED db

BeginNode(l) ==
  /\ loop[l].pc = "pass" /\ loop[l].cur = None /\ ~loop[l].stop
  /\ \E n \in loop[l].todo : loop' = [loop EXCEPT ![l].cur = n]
  /\ UNCHANGED <<ctrl, db, results, disk>>

\* A verdict: upsertResult, then batchBroadcast persists it when there is a row
\* to attach it to.
RecordNode(l) ==
  /\ loop[l].pc = "pass" /\ loop[l].cur # None
  /\ results' = results \cup {loop[l].cur}
  /\ db' = IF loop[l].batch = 0 THEN db
           ELSE [db EXCEPT ![loop[l].batch].rows = @ \cup {loop[l].cur}]
  /\ loop' = [loop EXCEPT ![l].cur = None, ![l].todo = @ \ {loop[l].cur}]
  /\ UNCHANGED <<ctrl, disk>>

\* isStopSignal: an interrupted node is left unrecorded.
DropNode(l) ==
  /\ loop[l].pc = "pass" /\ loop[l].cur # None /\ loop[l].stop
  /\ loop' = [loop EXCEPT ![l].cur = None]
  /\ UNCHANGED <<ctrl, db, results, disk>>

\* Nothing left, a stop, or VPN interference that did not clear: runAudit
\* recomputes its counters from the results array and resolves.
PassEnds(l) ==
  /\ loop[l].pc = "pass" /\ loop[l].cur = None
  /\ SettlePass(l, [loop[l] EXCEPT !.count = Cardinality(results)])
  /\ UNCHANGED <<db, results>>

\* The addresses batch_results holds for a batch.
TestedAddrs_Nothing(b) == {}
TestedAddrs(b) == IF b = 0 THEN {} ELSE db[b].rows

\* The paused exit: remember what the batch has recorded, persist, and return.
CollectTested(l) ==
  /\ loop[l].pc = "collect"
  /\ Halt(l, [ctrl EXCEPT !.pausedBatch =
                [batch |-> loop[l].batch, frozen |-> loop[l].frozen,
                 tested |-> TestedAddrs(loop[l].batch)]])
  /\ UNCHANGED <<db, results>>

Newest(d, k) == {b \in BatchIds : /\ d[b].st # "absent"
                                  /\ Cardinality({a \in BatchIds : d[a].st # "absent" /\ a > b}) < k}

\* pruneBatchResults right after b was closed: the newest K, every open batch
\* and the last finished one survive.
Pruned(d, b) ==
  LET keep == Newest(d, KeepBatches) \cup {a \in BatchIds : d[a].st = "open"} \cup {b}
  IN [a \in BatchIds |-> IF a \in keep THEN d[a] ELSE NoRow]

\* updateBatchOnFinish and the prune, then the stop check before the gap.
CloseBatch(l) ==
  /\ loop[l].pc = "close"
  /\ LET b == loop[l].batch
     IN db' = Pruned([db EXCEPT ![b].st = "finished", ![b].count = loop[l].count], b)
  /\ \/ ctrl.stopRequested /\ Halt(l, ctrl)
     \/ /\ ~ctrl.stopRequested
        /\ loop' = [loop EXCEPT ![l].pc = "gap"]
        /\ UNCHANGED <<ctrl, disk>>
  /\ UNCHANGED results

GapOver(l) ==
  /\ loop[l].pc = "gap"
  /\ LoopTop(l)
  /\ UNCHANGED <<db, results>>

LoopStep(l) ==
  /\ \/ SnapshotResolved(l) \/ SnapshotFailed(l) \/ RetrySnapshot(l)
     \/ OpenBatch(l) \/ SeedResumed(l)
     \/ PassRejects(l) \/ PassScans(l) \/ PassFetchFails(l)
     \/ BeginNode(l) \/ RecordNode(l) \/ DropNode(l) \/ PassEnds(l)
     \/ CollectTested(l) \/ CloseBatch(l) \/ GapOver(l)
  /\ UNCHANGED <<up, signalled, launches, crashes>>

-----------------------------------------------------------------------------
(* The exported calls, and the process around them.                        *)

\* start's tail and _runLoop's head: flags, config file, first iteration.
Launch(c) ==
  \E l \in Loops :
    /\ ~Active(l) /\ launches < MaxLaunches
    /\ LET d == [c EXCEPT !.running = TRUE, !.stopRequested = FALSE, !.iteration = 0]
       IN /\ disk' = Persisted(d)
          /\ EnterIteration(l, d)
    /\ launches' = launches + 1

Start_Unguarded ==
  /\ up /\ ~ctrl.paused
  /\ Launch(ctrl)
  /\ UNCHANGED <<db, results, up, signalled, crashes>>

Start ==
  /\ up /\ ~ctrl.running /\ ~ctrl.paused
  /\ Launch(ctrl)
  /\ UNCHANGED <<db, results, up, signalled, crashes>>

\* Raise the flag for the loop and for the pass in flight.
RequestStop_LoopOnly(c) == ctrl' = c /\ UNCHANGED loop
RequestStop(c) ==
  /\ ctrl' = c
  /\ loop' = IF c.loopState = None THEN loop
             ELSE [loop EXCEPT ![c.loopState].stop = TRUE]

Stop ==
  /\ up /\ ctrl.running
  /\ RequestStop([ctrl EXCEPT !.stopRequested = TRUE])
  /\ UNCHANGED <<db, results, disk, up, signalled, launches, crashes>>

Pause ==
  /\ up /\ ctrl.running /\ ~ctrl.paused
  /\ RequestStop([ctrl EXCEPT !.stopRequested = TRUE, !.paused = TRUE])
  /\ UNCHANGED <<db, results, disk, up, signalled, launches, crashes>>

\* resume() itself asks for paused and pausedBatch only; a caller that polls
\* status().running first, as the takeover routes do, is EagerResume = FALSE.
Resume ==
  /\ up /\ ctrl.paused /\ ctrl.pausedBatch # None
  /\ ~EagerResume => ~ctrl.running
  /\ Launch([ctrl EXCEPT !.resumeIntent = ctrl.pausedBatch,
                         !.paused = FALSE, !.pausedBatch = None])
  /\ UNCHANGED <<db, results, up, signalled, crashes>>

\* SIGINT / SIGTERM: gracefulShutdown stops the loop; the exit follows.
Shutdown ==
  /\ up /\ ctrl.running /\ ~ctrl.stopRequested /\ crashes < MaxCrashes /\ launches < MaxLaunches
  /\ RequestStop([ctrl EXCEPT !.stopRequested = TRUE])
  /\ signalled' = TRUE
  /\ UNCHANGED <<db, results, disk, up, launches, crashes>>

\* The process ends: killed, or the exit two seconds after a signal.  The
\* results array is reloaded from results.json, which saveResults keeps current.
Crash ==
  /\ up /\ crashes < MaxCrashes /\ launches < MaxLaunches
  /\ up' = FALSE /\ crashes' = crashes + 1
  /\ ctrl' = FreshCtrl /\ loop' = [l \in Loops |-> Returned]
  /\ UNCHANGED <<db, results, disk, signalled, launches>>

\* Every unfinished batch is closed with the count of its own rows.
OrphansClosed_None(d) == d
OrphansClosed(d) ==
  [b \in BatchIds |->
     IF d[b].st = "open"
     THEN [d[b] EXCEPT !.st = "finished", !.count = Cardinality(d[b].rows)]
     ELSE d[b]]

\* server.js boot: close orphaned batch rows, then resumeFromPersisted.
Boot ==
  /\ ~up
  /\ up' = TRUE /\ signalled' = FALSE
  /\ db' = OrphansClosed(db)
  /\ IF ~disk.running
     THEN UNCHANGED <<ctrl, loop, disk, launches>>
     ELSE IF disk.paused /\ disk.pausedBatch # None
          THEN /\ ctrl' = [ctrl EXCEPT !.paused = TRUE, !.pausedBatch = disk.pausedBatch]
               /\ UNCHANGED <<loop, disk, launches>>
          ELSE Launch(ctrl)
  /\ UNCHANGED <<results, crashes>>

\* A one-shot audit of server.js refills the results array while the loop is
\* paused: the takeover path of /api/start pauses the loop for exactly that.
OtherAudit ==
  /\ up /\ ctrl.paused /\ ~ctrl.running
  /\ \E R \in SUBSET Nodes : results' = R
  /\ UNCHANGED <<ctrl, loop, db, disk, up, signalled, launches, crashes>>

Environment == Start \/ Stop \/ Pause \/ Resume \/ Shutdown \/ Crash \/ Boot \/ OtherAudit

Next == Environment \/ \E l \in Loops : LoopStep(l)

Spec == Init /\ [][Next]_vars

\* The event loop runs every pending continuation and every await of the body
\* is bounded by a timeout; operators and crashes are under no obligation.
FairSpec == Spec /\ \A l \in Loops : WF_vars(LoopStep(l))
-----------------------------------------------------------------------------
(* What the controller is for.                                             *)

TypeOK ==
  /\ ctrl \in Ctrl
  /\ loop \in [Loops -> Activation]
  /\ db \in [BatchIds -> Batch]
  /\ results \in SUBSET Nodes
  /\ disk \in Config
  /\ up \in BOOLEAN /\ signalled \in BOOLEAN
  /\ launches \in 0..MaxLaunches /\ crashes \in 0..MaxCrashes

\* Two activations of _runLoop never share _ctrl, and running is true exactly
\* while one exists: the "C-2 race" of start() together with resume().
OneLoop ==
  /\ \A l, m \in Loops : Active(l) /\ Active(m) => l = m
  /\ ctrl.running <=> \E l \in Loops : Active(l)

\* One loop, and every state of it well typed.
LoopHolds == TypeOK /\ OneLoop

\* What a request sees of the loop is what LoopControl says: a stop or a pause is
\* never taken back before the loop has ended, and a paused loop starts only by a
\* resume, through deaths and boots too.
Shown ==
  IF ~up THEN "dead"
  ELSE IF ~ctrl.running THEN "off" ELSE IF ctrl.stopRequested THEN "ending" ELSE "on"
Control == INSTANCE LoopControl WITH shown <- Shown, paused <- ctrl.paused
ShownAs == Control!Spec

\* A sweep of the batch's own list never holds a node the batch has already
\* recorded, through any number of pauses and resumes, and whatever audit ran
\* in between: nothing in it is paid for twice.
NoRetest ==
  \A l \in Loops : /\ loop[l].pc = "pass" /\ loop[l].batch > 0
                    /\ ~loop[l].refetched
                     => loop[l].todo \cap db[loop[l].batch].rows = {}

\* A pause that has settled remembers exactly what the batch has recorded.
PausedBatchExact ==
  up /\ ctrl.paused /\ ~ctrl.running /\ ctrl.pausedBatch # None
    => LET p == ctrl.pausedBatch
       IN p.batch > 0 => /\ db[p.batch].st = "open"
                         /\ p.tested = db[p.batch].rows
                         /\ p.frozen = db[p.batch].snap

\* An open batch row always has an owner, a running activation or the paused
\* batch, so /live never hydrates from a phantom sweep.
NoOrphanBatch ==
  up => \A b \in BatchIds : db[b].st = "open" =>
          \/ \E l \in Loops : Active(l) /\ loop[l].batch = b
          \/ Holds(ctrl, b)

\* A fresh sweep that was not rejected closes its batch with as many outcomes
\* as it has recorded rows, whatever the results array held before.
ClosedCountExact ==
  [][\A l \in Loops : LET b == loop[l].batch
                      IN /\ loop[l].pc = "close" /\ ~loop[l].threw /\ ~loop[l].resuming
                         /\ up' /\ db[b].st = "open" /\ db'[b].st = "finished"
                         => db'[b].count = Cardinality(db'[b].rows)]_vars

\* Rows are only ever added to an open batch, and a batch that is still open
\* survives every prune: no resume seed is lost, and no finished count goes stale,
\* which was exact when the batch closed.
ClosedBatchFrozen ==
  /\ ClosedCountExact
  /\ [][\A b \in BatchIds :
       /\ db'[b].rows # db[b].rows => db[b].st = "open" \/ db'[b].st = "absent"
       /\ db[b].st = "open" => db'[b].st # "absent"]_vars

\* Once a stop or a pause is accepted no further node is begun (and paid for),
\* wherever the loop was parked when it arrived.
StopStartsNoNode ==
  [][\A l \in Loops : loop[l].cur = None /\ loop'[l].cur # None
                        => ~ctrl.stopRequested]_vars

\* A stop or a pause that was accepted ends the loop.
StopHalts == ctrl.stopRequested ~> ~ctrl.running

\* Every open batch ends closed, or held by a pause that has settled, unless
\* the process dies.
BatchSettles ==
  \A b \in BatchIds :
    db[b].st = "open" ~> db[b].st # "open" \/ ~up \/ (~ctrl.running /\ Holds(ctrl, b))

-----------------------------------------------------------------------------
(* What the documentation or the comments promise and the code does not do. *)

\* pause(): "_runLoop then captures the already-tested addresses into
\* _ctrl.pausedBatch before breaking out", so a settled pause can be resumed.
PauseResumable == up /\ ctrl.paused /\ ~ctrl.running => ctrl.pausedBatch # None

\* server.js boot: "If the loop was running when the server was stopped/killed,
\* pick it up again on boot so a perpetual public test survives restarts."
RestartPicksUp == [][~up /\ up' /\ signalled => ctrl'.running]_vars
=============================================================================
