----------------------- MODULE ContinuousLoop_proofs -----------------------
(***************************************************************************)
(* Theorems about ContinuousLoop, for every set of nodes and activations   *)
(* and every bound: type correctness and, provided resume() is called on a *)
(* settled pause, that at most one activation of _runLoop exists (Inv) and *)
(* what its batches hold (Batches): no retest, a pause that remembers its  *)
(* batch, an owner for every open batch, true counts, and a stop that      *)
(* starts no node.                                                         *)
(***************************************************************************)
EXTENDS ContinuousLoop, FiniteSetTheorems, TLAPS

\* Every set of nodes counts at most all of them.
LEMMA Counts ==
  ASSUME NEW S \in SUBSET Nodes
  PROVE  Cardinality(S) \in 0..Cardinality(Nodes)
<1>1. IsFiniteSet(Nodes)
  BY LoopAssumption
<1>2. /\ IsFiniteSet(S)
      /\ Cardinality(S) <= Cardinality(Nodes)
  BY <1>1, FS_Subset
<1>3. Cardinality(S) \in Nat /\ Cardinality(Nodes) \in Nat
  BY <1>1, <1>2, FS_CardinalityType
<1> QED
  BY <1>2, <1>3

-----------------------------------------------------------------------------
(* The parts shared by several actions keep their types.                   *)

LEMMA ReturnedType == Returned \in Activation
<1>1. 0 \in 0..Cardinality(Nodes)
  BY Counts, FS_EmptySet
<1> QED
  BY <1>1 DEF Returned, Activation, PCs

LEMMA FreshCtrlType == FreshCtrl \in Ctrl
BY LoopAssumption DEF FreshCtrl, Ctrl

LEMMA PersistedType ==
  ASSUME NEW c \in Ctrl
  PROVE  Persisted(c) \in Config
BY DEF Persisted, Config, Ctrl

LEMMA HaltType ==
  ASSUME TypeOK, NEW l \in Loops, NEW c \in Ctrl, Halt(l, c)
  PROVE  ctrl' \in Ctrl /\ loop' \in [Loops -> Activation] /\ disk' \in Config
<1> DEFINE d == [c EXCEPT !.running = FALSE, !.stopRequested = FALSE, !.loopState = None]
<1>1. d \in Ctrl
  BY DEF Ctrl
<1>2. ctrl' = d /\ disk' = Persisted(d) /\ loop' = [loop EXCEPT ![l] = Returned]
  BY DEF Halt
<1> QED
  BY <1>1, <1>2, PersistedType, ReturnedType DEF TypeOK

LEMMA EnterType ==
  ASSUME TypeOK, NEW l \in Loops, NEW c \in Ctrl, c.iteration < MaxIterations,
         EnterIteration(l, c)
  PROVE  ctrl' \in Ctrl /\ loop' \in [Loops -> Activation]
<1>1. c.iteration + 1 \in 0..MaxIterations
  BY LoopAssumption DEF Ctrl
<1>2. ctrl' \in Ctrl
  BY <1>1 DEF EnterIteration, Ctrl
<1>3. CASE c.resumeIntent = None
  <2>1. [Returned EXCEPT !.pc = "snapshot"] \in Activation
    BY ReturnedType DEF Activation, PCs
  <2> QED
    BY <1>2, <1>3, <2>1 DEF EnterIteration, TypeOK
<1>4. CASE c.resumeIntent # None
  <2>1. c.resumeIntent \in Paused
    BY <1>4 DEF Ctrl
  <2>2. [Returned EXCEPT !.pc = "seed", !.resuming = TRUE,
                         !.batch = c.resumeIntent.batch,
                         !.frozen = c.resumeIntent.frozen,
                         !.todo = Remainder(c.resumeIntent)] \in Activation
    BY <2>1, ReturnedType DEF Activation, PCs, Paused, Remainder
  <2> QED
    BY <1>2, <1>4, <2>2 DEF EnterIteration, TypeOK
<1> QED
  BY <1>3, <1>4

LEMMA LoopTopType ==
  ASSUME TypeOK, NEW l \in Loops, LoopTop(l)
  PROVE  ctrl' \in Ctrl /\ loop' \in [Loops -> Activation] /\ disk' \in Config
<1>1. CASE ctrl.iteration < MaxIterations /\ EnterIteration(l, ctrl) /\ UNCHANGED disk
  BY <1>1, EnterType DEF TypeOK
<1>2. CASE Halt(l, ctrl)
  BY <1>2, HaltType DEF TypeOK
<1> QED
  BY <1>1, <1>2 DEF LoopTop

LEMMA SettleType ==
  ASSUME TypeOK, NEW l \in Loops, NEW a \in Activation, SettlePass(l, a)
  PROVE  ctrl' \in Ctrl /\ loop' \in [Loops -> Activation] /\ disk' \in Config
<1> DEFINE c == IF a.resuming THEN ctrl ELSE [ctrl EXCEPT !.pausedBatch = None]
<1>1. c \in Ctrl
  BY DEF TypeOK, Ctrl
<1>2. \A p \in PCs : [a EXCEPT !.pc = p] \in Activation
  BY DEF Activation
<1>3. CASE Halt(l, c)
  BY <1>1, <1>3, HaltType
<1>4. CASE /\ ctrl' = ctrl \/ ctrl' = c
           /\ \E p \in PCs : loop' = [loop EXCEPT ![l] = [a EXCEPT !.pc = p]]
           /\ UNCHANGED disk
  BY <1>1, <1>2, <1>4 DEF TypeOK
<1>5. "collect" \in PCs /\ "close" \in PCs /\ "gap" \in PCs
  BY DEF PCs
<1> QED
  BY <1>3, <1>4, <1>5 DEF SettlePass

LEMMA LaunchType ==
  ASSUME TypeOK, NEW c \in Ctrl, Launch(c)
  PROVE  /\ ctrl' \in Ctrl /\ loop' \in [Loops -> Activation] /\ disk' \in Config
         /\ launches' \in 0..MaxLaunches
<1> DEFINE d == [c EXCEPT !.running = TRUE, !.stopRequested = FALSE, !.iteration = 0]
<1>1. PICK l \in Loops : /\ launches < MaxLaunches
                         /\ disk' = Persisted(d) /\ EnterIteration(l, d)
                         /\ launches' = launches + 1
  BY DEF Launch
<1>2. d \in Ctrl
  <2>1. 0 \in 0..MaxIterations
    BY LoopAssumption
  <2> QED
    BY <2>1 DEF Ctrl
<1>3. d.iteration < MaxIterations
  <2>1. d.iteration = 0
    BY DEF Ctrl
  <2> QED
    BY <2>1, LoopAssumption
<1>4. ctrl' \in Ctrl /\ loop' \in [Loops -> Activation]
  <2> HIDE DEF d
  <2> QED
    BY <1>1, <1>2, <1>3, EnterType
<1>5. disk' \in Config
  <2> HIDE DEF d
  <2> QED
    BY <1>1, <1>2, PersistedType
<1>6. launches' \in 0..MaxLaunches
  BY <1>1, LoopAssumption DEF TypeOK
<1> QED
  BY <1>4, <1>5, <1>6

LEMMA RequestStopType ==
  ASSUME TypeOK, NEW c \in Ctrl, RequestStop(c)
  PROVE  ctrl' \in Ctrl /\ loop' \in [Loops -> Activation]
<1>1. CASE c.loopState = None
  BY <1>1 DEF RequestStop, TypeOK
<1>2. CASE c.loopState # None
  <2>1. c.loopState \in Loops
    BY <1>2 DEF Ctrl
  <2>2. [loop[c.loopState] EXCEPT !.stop = TRUE] \in Activation
    <3>1. loop[c.loopState] \in Activation
      BY <2>1 DEF TypeOK
    <3> QED
      BY <3>1 DEF Activation
  <2>3. /\ ctrl' = c
        /\ loop' = [loop EXCEPT ![c.loopState] = [loop[c.loopState] EXCEPT !.stop = TRUE]]
    BY <1>2 DEF RequestStop
  <2> QED
    BY <2>1, <2>2, <2>3 DEF TypeOK
<1> QED
  BY <1>1, <1>2

LEMMA NoRowType == NoRow \in Batch
BY Counts, FS_EmptySet DEF NoRow, Batch

LEMMA PrunedType ==
  ASSUME NEW d \in [BatchIds -> Batch], NEW b
  PROVE  Pruned(d, b) \in [BatchIds -> Batch]
BY NoRowType DEF Pruned

LEMMA OrphansClosedType ==
  ASSUME NEW d \in [BatchIds -> Batch]
  PROVE  OrphansClosed(d) \in [BatchIds -> Batch]
<1>1. ASSUME NEW b \in BatchIds
      PROVE  [d[b] EXCEPT !.st = "finished", !.count = Cardinality(d[b].rows)] \in Batch
  <2>1. d[b].rows \in SUBSET Nodes
    BY DEF Batch
  <2> QED
    BY <2>1, Counts DEF Batch
<1> QED
  BY <1>1 DEF OrphansClosed

-----------------------------------------------------------------------------
(* Type correctness.                                                       *)

LEMMA UpdatedLoop ==
  ASSUME TypeOK, NEW l \in Loops, NEW a \in Activation,
         loop' = [loop EXCEPT ![l] = a]
  PROVE  loop' \in [Loops -> Activation]
BY DEF TypeOK

LEMMA StepType ==
  ASSUME TypeOK, NEW l \in Loops, LoopStep(l)
  PROVE  TypeOK'
<1> DEFINE x == loop[l]
<1>1. /\ x \in Activation
      /\ UNCHANGED <<up, signalled, launches, crashes>>
  BY DEF TypeOK, LoopStep
<1> SUFFICES /\ ctrl' \in Ctrl /\ loop' \in [Loops -> Activation]
             /\ db' \in [BatchIds -> Batch] /\ results' \in SUBSET Nodes
             /\ disk' \in Config
  BY <1>1 DEF TypeOK
<1>2. CASE SnapshotResolved(l)
  <2>1. PICK S \in SUBSET Nodes :
          loop' = [loop EXCEPT ![l] = [x EXCEPT !.pc = "open", !.frozen = S, !.todo = S]]
    BY <1>2, ZenonT(60) DEF SnapshotResolved
  <2>2. [x EXCEPT !.pc = "open", !.frozen = S, !.todo = S] \in Activation
    BY <1>1 DEF Activation, PCs
  <2> QED
    BY <1>2, <2>1, <2>2 DEF SnapshotResolved, TypeOK
<1>3. CASE SnapshotFailed(l)
  <2>1. CASE Halt(l, ctrl)
    BY <1>3, <2>1, HaltType DEF SnapshotFailed, TypeOK
  <2>2. CASE /\ loop' = [loop EXCEPT ![l] = [x EXCEPT !.pc = "retry"]]
             /\ UNCHANGED <<ctrl, disk>>
    <3>1. [x EXCEPT !.pc = "retry"] \in Activation
      BY <1>1 DEF Activation, PCs
    <3> QED
      BY <1>3, <2>2, <3>1 DEF SnapshotFailed, TypeOK
  <2> QED
    BY <1>3, <2>1, <2>2 DEF SnapshotFailed
<1>4. CASE RetrySnapshot(l)
  BY <1>4, LoopTopType DEF RetrySnapshot, TypeOK
<1>5. CASE OpenBatch(l)
  <2>0. PICK b \in {0} \cup BatchIds :
          /\ db' = IF b = 0 THEN db
                   ELSE [db EXCEPT ![b] = [NoRow EXCEPT !.st = "open", !.snap = loop[l].frozen]]
          /\ loop' = [loop EXCEPT ![l].pc = "setup", ![l].batch = b]
          /\ ctrl' = [ctrl EXCEPT !.pausedBatch =
                        [batch |-> b, frozen |-> loop[l].frozen, tested |-> {}]]
    BY <1>5 DEF OpenBatch
  <2>1. /\ db' = IF b = 0 THEN db
                 ELSE [db EXCEPT ![b] = [NoRow EXCEPT !.st = "open", !.snap = x.frozen]]
        /\ loop' = [loop EXCEPT ![l] = [x EXCEPT !.pc = "setup", !.batch = b]]
        /\ ctrl' = [ctrl EXCEPT !.pausedBatch =
                      [batch |-> b, frozen |-> x.frozen, tested |-> {}]]
    BY <2>0 DEF TypeOK
  <2>2. [x EXCEPT !.pc = "setup", !.batch = b] \in Activation
    BY <1>1 DEF Activation, PCs
  <2>3. x.frozen \in SUBSET Nodes
    BY <1>1 DEF Activation
  <2>4. [NoRow EXCEPT !.st = "open", !.snap = x.frozen] \in Batch
    BY <2>3, NoRowType DEF Batch
  <2>5. [batch |-> b, frozen |-> x.frozen, tested |-> {}] \in Paused
    BY <2>3 DEF Paused
  <2>6. ctrl' \in Ctrl
    BY <2>1, <2>5 DEF TypeOK, Ctrl
  <2>7. db' \in [BatchIds -> Batch]
    BY <2>1, <2>4 DEF TypeOK
  <2> QED
    BY <1>5, <2>1, <2>2, <2>6, <2>7, UpdatedLoop DEF OpenBatch, TypeOK
<1>6. CASE SeedResumed(l)
  <2>1. [x EXCEPT !.pc = "setup"] \in Activation
    BY <1>1 DEF Activation, PCs
  <2>2. loop' = [loop EXCEPT ![l] = [x EXCEPT !.pc = "setup"]]
    BY <1>6 DEF SeedResumed
  <2>3. results' \in SUBSET Nodes
    <3>1. x.batch \in {0} \cup BatchIds
      BY <1>1 DEF Activation
    <3>2. CASE x.batch > 0
      <4>1. x.batch \in BatchIds
        BY <3>1, <3>2
      <4>2. db[x.batch].rows \in SUBSET Nodes
        BY <4>1 DEF TypeOK, Batch
      <4> QED
        BY <1>6, <4>2 DEF SeedResumed, TypeOK
    <3>3. CASE ~(x.batch > 0)
      BY <1>6, <3>3 DEF SeedResumed, TypeOK
    <3> QED
      BY <3>2, <3>3
  <2> QED
    BY <1>6, <2>1, <2>2, <2>3, UpdatedLoop DEF SeedResumed, TypeOK
<1>7. CASE PassRejects(l)
  <2>1. [x EXCEPT !.threw = TRUE] \in Activation
    BY <1>1 DEF Activation
  <2> QED
    BY <1>7, <2>1, SettleType DEF PassRejects, TypeOK
<1>8. CASE PassScans(l)
  <2>1. Kept(l) \in SUBSET Nodes
    BY DEF Kept, TypeOK
  <2>2. x.todo \in SUBSET Nodes
    BY <1>1 DEF Activation
  <2>0. PICK online \in SUBSET Nodes :
          loop' = [loop EXCEPT ![l].pc = "pass", ![l].refetched = loop[l].todo = {},
                               ![l].todo = (IF @ = {} THEN online ELSE @ \cap online)
                                             \ results']
    BY <1>8 DEF PassScans
  <2>3. loop' = [loop EXCEPT ![l] =
          [x EXCEPT !.pc = "pass", !.refetched = x.todo = {},
                    !.todo = (IF x.todo = {} THEN online ELSE x.todo \cap online)
                               \ results']]
    BY <1>1, <2>0 DEF TypeOK, Activation
  <2>4. (IF x.todo = {} THEN online ELSE x.todo \cap online) \ results' \in SUBSET Nodes
    BY <2>2
  <2>5. [x EXCEPT !.pc = "pass", !.refetched = x.todo = {},
                  !.todo = (IF x.todo = {} THEN online ELSE x.todo \cap online)
                             \ results'] \in Activation
    BY <1>1, <2>4 DEF Activation, PCs
  <2> QED
    BY <1>8, <2>1, <2>3, <2>5, UpdatedLoop DEF PassScans, TypeOK
<1>9. CASE PassFetchFails(l)
  <2>1. results' \in SUBSET Nodes
    BY <1>9 DEF PassFetchFails, Kept, TypeOK
  <2>2. [x EXCEPT !.threw = TRUE, !.count = Cardinality(results')] \in Activation
    BY <1>1, <2>1, Counts DEF Activation
  <2> QED
    BY <1>9, <2>1, <2>2, SettleType DEF PassFetchFails, TypeOK
<1>10. CASE BeginNode(l)
  <2>1. PICK n \in x.todo : loop' = [loop EXCEPT ![l] = [x EXCEPT !.cur = n]]
    BY <1>10 DEF BeginNode
  <2>2. n \in Nodes
    BY <1>1 DEF Activation
  <2>3. [x EXCEPT !.cur = n] \in Activation
    BY <1>1, <2>2 DEF Activation
  <2> QED
    BY <1>10, <2>1, <2>3, UpdatedLoop DEF BeginNode, TypeOK
<1>11. CASE RecordNode(l)
  <2>1. x.cur \in Nodes /\ x.batch \in {0} \cup BatchIds
    BY <1>1, <1>11 DEF RecordNode, Activation
  <2>2. results' \in SUBSET Nodes
    BY <1>11, <2>1 DEF RecordNode, TypeOK
  <2>3. [x EXCEPT !.cur = None, !.todo = x.todo \ {x.cur}] \in Activation
    BY <1>1 DEF Activation
  <2>4. loop' = [loop EXCEPT ![l] = [x EXCEPT !.cur = None, !.todo = x.todo \ {x.cur}]]
    BY <1>11 DEF RecordNode
  <2>5. db' \in [BatchIds -> Batch]
    <3>1. CASE x.batch = 0
      BY <1>11, <3>1 DEF RecordNode, TypeOK
    <3>2. CASE x.batch # 0
      <4>1. x.batch \in BatchIds
        BY <2>1, <3>2
      <4>2. db[x.batch] \in Batch
        BY <4>1 DEF TypeOK
      <4>3. [db[x.batch] EXCEPT !.rows = db[x.batch].rows \cup {x.cur}] \in Batch
        BY <2>1, <4>2 DEF Batch
      <4>4. db' = [db EXCEPT ![x.batch] =
                     [db[x.batch] EXCEPT !.rows = db[x.batch].rows \cup {x.cur}]]
        BY <1>11, <3>2 DEF RecordNode
      <4> QED
        BY <4>1, <4>3, <4>4 DEF TypeOK
    <3> QED
      BY <3>1, <3>2
  <2> QED
    BY <1>11, <2>2, <2>3, <2>4, <2>5, UpdatedLoop DEF RecordNode, TypeOK
<1>12. CASE DropNode(l)
  <2>1. [x EXCEPT !.cur = None] \in Activation
    BY <1>1 DEF Activation
  <2> QED
    BY <1>12, <2>1, UpdatedLoop DEF DropNode, TypeOK
<1>13. CASE PassEnds(l)
  <2>1. [x EXCEPT !.count = Cardinality(results)] \in Activation
    BY <1>1, Counts DEF Activation, TypeOK
  <2> QED
    BY <1>13, <2>1, SettleType DEF PassEnds, TypeOK
<1>14. CASE CollectTested(l)
  <2> DEFINE p == [batch |-> x.batch, frozen |-> x.frozen, tested |-> TestedAddrs(x.batch)]
  <2>1. x.batch \in {0} \cup BatchIds /\ x.frozen \in SUBSET Nodes
    BY <1>1 DEF Activation
  <2>2. TestedAddrs(x.batch) \in SUBSET Nodes
    BY <2>1 DEF TestedAddrs, TypeOK, Batch
  <2>3. p \in Paused
    BY <2>1, <2>2 DEF Paused
  <2>4. [ctrl EXCEPT !.pausedBatch = p] \in Ctrl
    BY <2>3 DEF TypeOK, Ctrl
  <2>5. Halt(l, [ctrl EXCEPT !.pausedBatch = p])
    BY <1>14 DEF CollectTested
  <2> HIDE DEF p
  <2> QED
    BY <1>14, <2>4, <2>5, HaltType DEF CollectTested, TypeOK
<1>15. CASE CloseBatch(l)
  <2> DEFINE d == [db EXCEPT ![x.batch] = [db[x.batch] EXCEPT !.st = "finished",
                                                              !.count = x.count]]
  <2>1. d \in [BatchIds -> Batch]
    <3>1. x.count \in 0..Cardinality(Nodes)
      BY <1>1 DEF Activation
    <3>2. \A b \in BatchIds : [db[b] EXCEPT !.st = "finished", !.count = x.count] \in Batch
      BY <3>1 DEF TypeOK, Batch
    <3> QED
      BY <3>2 DEF TypeOK
  <2>2. db' = Pruned(d, x.batch)
    BY <1>15 DEF CloseBatch
  <2>3. db' \in [BatchIds -> Batch]
    <3> HIDE DEF d
    <3> QED
      BY <2>1, <2>2, PrunedType
  <2>4. CASE Halt(l, ctrl)
    BY <1>15, <2>3, <2>4, HaltType DEF CloseBatch, TypeOK
  <2>5. CASE loop' = [loop EXCEPT ![l] = [x EXCEPT !.pc = "gap"]] /\ UNCHANGED <<ctrl, disk>>
    <3>1. [x EXCEPT !.pc = "gap"] \in Activation
      BY <1>1 DEF Activation, PCs
    <3> QED
      BY <1>15, <2>3, <2>5, <3>1, UpdatedLoop DEF CloseBatch, TypeOK
  <2> QED
    BY <1>15, <2>4, <2>5 DEF CloseBatch
<1>16. CASE GapOver(l)
  BY <1>16, LoopTopType DEF GapOver, TypeOK
<1> QED
  BY <1>2, <1>3, <1>4, <1>5, <1>6, <1>7, <1>8, <1>9, <1>10, <1>11, <1>12, <1>13,
     <1>14, <1>15, <1>16 DEF LoopStep

LEMMA EnvironmentType ==
  ASSUME TypeOK, Environment
  PROVE  TypeOK'
<1>1. CASE Start
  BY <1>1, LaunchType DEF Start, TypeOK
<1>2. CASE Stop
  <2>1. [ctrl EXCEPT !.stopRequested = TRUE] \in Ctrl
    BY DEF TypeOK, Ctrl
  <2> QED
    BY <1>2, <2>1, RequestStopType DEF Stop, TypeOK
<1>3. CASE Pause
  <2>1. [ctrl EXCEPT !.stopRequested = TRUE, !.paused = TRUE] \in Ctrl
    BY DEF TypeOK, Ctrl
  <2> QED
    BY <1>3, <2>1, RequestStopType DEF Pause, TypeOK
<1>4. CASE Resume
  <2>1. [ctrl EXCEPT !.resumeIntent = ctrl.pausedBatch,
                     !.paused = FALSE, !.pausedBatch = None] \in Ctrl
    BY DEF TypeOK, Ctrl
  <2> QED
    BY <1>4, <2>1, LaunchType DEF Resume, TypeOK
<1>5. CASE Shutdown
  <2>1. [ctrl EXCEPT !.stopRequested = TRUE] \in Ctrl
    BY DEF TypeOK, Ctrl
  <2> QED
    BY <1>5, <2>1, RequestStopType DEF Shutdown, TypeOK
<1>6. CASE Crash
  <2>1. crashes' \in 0..MaxCrashes
    BY <1>6, LoopAssumption DEF Crash, TypeOK
  <2> QED
    BY <1>6, <2>1, FreshCtrlType, ReturnedType DEF Crash, TypeOK
<1>7. CASE Boot
  <2>1. db' \in [BatchIds -> Batch]
    BY <1>7, OrphansClosedType DEF Boot, TypeOK
  <2>2. CASE UNCHANGED <<ctrl, loop, disk, launches>>
    BY <1>7, <2>1, <2>2 DEF Boot, TypeOK
  <2>3. CASE /\ ctrl' = [ctrl EXCEPT !.paused = TRUE, !.pausedBatch = disk.pausedBatch]
             /\ UNCHANGED <<loop, disk, launches>>
    <3>1. ctrl' \in Ctrl
      BY <2>3 DEF TypeOK, Ctrl, Config
    <3> QED
      BY <1>7, <2>1, <2>3, <3>1 DEF Boot, TypeOK
  <2>4. CASE Launch(ctrl)
    BY <1>7, <2>1, <2>4, LaunchType DEF Boot, TypeOK
  <2> QED
    BY <1>7, <2>2, <2>3, <2>4 DEF Boot
<1>8. CASE OtherAudit
  BY <1>8 DEF OtherAudit, TypeOK
<1> QED
  BY <1>1, <1>2, <1>3, <1>4, <1>5, <1>6, <1>7, <1>8 DEF Environment

LEMMA InitType == Init => TypeOK
<1> SUFFICES ASSUME Init PROVE TypeOK
  OBVIOUS
<1>1. loop \in [Loops -> Activation] /\ db \in [BatchIds -> Batch]
  BY ReturnedType, NoRowType DEF Init
<1>2. ctrl \in Ctrl /\ disk \in Config
  BY FreshCtrlType, PersistedType DEF Init
<1>3. 0 \in 0..MaxLaunches /\ 0 \in 0..MaxCrashes
  BY LoopAssumption
<1> QED
  BY <1>1, <1>2, <1>3 DEF Init, TypeOK

\* The state of the controller keeps its type: in particular every batch id
\* handed out is in range and the iteration ceiling is never passed.
THEOREM TypeCorrect == Spec => []TypeOK
<1>1. TypeOK /\ [Next]_vars => TypeOK'
  <2> SUFFICES ASSUME TypeOK, [Next]_vars PROVE TypeOK'
    OBVIOUS
  <2>1. CASE UNCHANGED vars
    BY <2>1 DEF vars, TypeOK
  <2>2. CASE Next
    BY <2>2, StepType, EnvironmentType DEF Next
  <2> QED
    BY <2>1, <2>2
<1> QED
  BY <1>1, InitType, PTL DEF Spec

-----------------------------------------------------------------------------
(* One activation.  The invariant adds to OneLoop that nothing runs in a    *)
(* dead process, which the boot relies on before it launches.               *)

Inv == TypeOK /\ OneLoop /\ (~up => ~ctrl.running)

\* What a stretch of an activation's own code does to who is running.
LEMMA StepEffect ==
  ASSUME TypeOK, NEW l \in Loops, LoopStep(l)
  PROVE  /\ Active(l)
         /\ \A m \in Loops \ {l} : loop'[m] = loop[m]
         /\ \/ loop'[l].pc # "idle" /\ ctrl'.running = ctrl.running
            \/ loop'[l].pc = "idle" /\ ctrl'.running = FALSE
         /\ up' = up
<1> DEFINE Effect == /\ \A m \in Loops \ {l} : loop'[m] = loop[m]
                     /\ \/ loop'[l].pc # "idle" /\ ctrl'.running = ctrl.running
                        \/ loop'[l].pc = "idle" /\ ctrl'.running = FALSE
<1>1. Active(l) /\ up' = up
  BY DEF LoopStep, Active, SnapshotResolved, SnapshotFailed, RetrySnapshot, OpenBatch,
         SeedResumed, PassRejects, PassScans, PassFetchFails, BeginNode, RecordNode,
         DropNode, PassEnds, CollectTested, CloseBatch, GapOver
<1> SUFFICES Effect
  BY <1>1
<1>2. ASSUME NEW c \in Ctrl, Halt(l, c) PROVE Effect
  BY <1>2 DEF TypeOK, Halt, Returned, Ctrl
<1>3. ASSUME EnterIteration(l, ctrl) PROVE Effect
  <2>1. loop' = [loop EXCEPT ![l] = loop'[l]] /\ loop'[l].pc \in {"snapshot", "seed"}
    BY <1>3 DEF EnterIteration, TypeOK, Returned
  <2> QED
    BY <1>3, <2>1 DEF EnterIteration, TypeOK, Ctrl
<1>4. ASSUME LoopTop(l) PROVE Effect
  BY <1>2, <1>3, <1>4 DEF LoopTop, TypeOK
<1>5. ASSUME NEW a \in Activation, SettlePass(l, a) PROVE Effect
  <2> DEFINE c == IF a.resuming THEN ctrl ELSE [ctrl EXCEPT !.pausedBatch = None]
  <2>1. c \in Ctrl /\ c.running = ctrl.running
    BY DEF TypeOK, Ctrl
  <2>2. CASE Halt(l, c)
    BY <1>2, <2>1, <2>2
  <2>3. CASE /\ ctrl' = ctrl \/ ctrl' = c
             /\ \E p \in {"collect", "close", "gap"} : loop' = [loop EXCEPT ![l] = [a EXCEPT !.pc = p]]
    BY <2>1, <2>3, ZenonT(60) DEF TypeOK, Activation
  <2> QED
    BY <1>5, <2>2, <2>3 DEF SettlePass
<1>6. ASSUME NEW p \in PCs, p # "idle", NEW a \in Activation, a.pc = p,
             loop' = [loop EXCEPT ![l] = a], ctrl'.running = ctrl.running
      PROVE Effect
  BY <1>6 DEF TypeOK
<1>7. CASE SnapshotResolved(l)
  BY <1>7 DEF SnapshotResolved, TypeOK, Activation
<1>8. CASE SnapshotFailed(l)
  <2>1. CASE Halt(l, ctrl)
    BY <1>2, <2>1 DEF TypeOK
  <2>2. CASE loop' = [loop EXCEPT ![l].pc = "retry"] /\ UNCHANGED <<ctrl, disk>>
    BY <2>2 DEF TypeOK, Activation
  <2> QED
    BY <1>8, <2>1, <2>2 DEF SnapshotFailed
<1>9. CASE RetrySnapshot(l) \/ GapOver(l)
  BY <1>4, <1>9 DEF RetrySnapshot, GapOver
<1>10. CASE OpenBatch(l)
  BY <1>10 DEF OpenBatch, TypeOK, Activation, Ctrl
<1>11. CASE SeedResumed(l)
  BY <1>11 DEF SeedResumed, TypeOK, Activation
<1>12. CASE PassRejects(l)
  <2>1. [loop[l] EXCEPT !.threw = TRUE] \in Activation
    BY DEF TypeOK, Activation
  <2> QED
    BY <1>5, <1>12, <2>1 DEF PassRejects
<1>13. CASE PassScans(l)
  <2>1. PICK S : loop' = [loop EXCEPT ![l].pc = "pass", ![l].refetched = loop[l].todo = {},
                                      ![l].todo = S]
    BY <1>13 DEF PassScans
  <2>2. loop[l] \in Activation
    BY DEF TypeOK
  <2>3. loop'[l].pc = "pass" /\ \A m \in Loops \ {l} : loop'[m] = loop[m]
    BY <2>1, <2>2 DEF TypeOK, Activation
  <2> QED
    BY <1>13, <2>3 DEF PassScans
<1>14. CASE PassFetchFails(l)
  <2>1. Kept(l) \in SUBSET Nodes
    BY DEF Kept, TypeOK
  <2>2. results' \in SUBSET Nodes
    BY <1>14, <2>1 DEF PassFetchFails
  <2>3. [loop[l] EXCEPT !.threw = TRUE, !.count = Cardinality(results')] \in Activation
    BY <2>2, Counts DEF TypeOK, Activation
  <2> QED
    BY <1>5, <1>14, <2>3 DEF PassFetchFails
<1>15. CASE BeginNode(l) \/ RecordNode(l) \/ DropNode(l)
  <2>1. loop[l] \in Activation /\ loop[l].pc = "pass" /\ ctrl' = ctrl
    BY <1>15 DEF BeginNode, RecordNode, DropNode, TypeOK
  <2>2. CASE BeginNode(l)
    BY <2>1, <2>2 DEF BeginNode, TypeOK, Activation
  <2>3. CASE RecordNode(l)
    BY <2>1, <2>3 DEF RecordNode, TypeOK, Activation
  <2>4. CASE DropNode(l)
    BY <2>1, <2>4 DEF DropNode, TypeOK, Activation
  <2> QED
    BY <1>15, <2>2, <2>3, <2>4
<1>16. CASE PassEnds(l)
  <2>1. [loop[l] EXCEPT !.count = Cardinality(results)] \in Activation
    BY Counts DEF TypeOK, Activation
  <2> QED
    BY <1>5, <1>16, <2>1 DEF PassEnds
<1>17. CASE CollectTested(l)
  BY <1>17 DEF CollectTested, Halt, TypeOK, Ctrl, Returned
<1>18. CASE CloseBatch(l)
  <2>1. CASE Halt(l, ctrl)
    BY <1>2, <2>1 DEF TypeOK
  <2>2. CASE loop' = [loop EXCEPT ![l].pc = "gap"] /\ UNCHANGED <<ctrl, disk>>
    BY <2>2 DEF TypeOK, Activation
  <2> QED
    BY <1>18, <2>1, <2>2 DEF CloseBatch
<1> QED
  BY <1>1, <1>7, <1>8, <1>9, <1>10, <1>11, <1>12, <1>13, <1>14, <1>15, <1>16, <1>17,
     <1>18 DEF LoopStep

LEMMA RequestStopEffect ==
  ASSUME TypeOK, NEW c \in Ctrl, c.running = ctrl.running, RequestStop(c)
  PROVE  /\ ctrl'.running = ctrl.running
         /\ \A m \in Loops : loop'[m].pc = loop[m].pc
<1>1. CASE c.loopState = None
  BY <1>1 DEF RequestStop
<1>2. CASE c.loopState # None
  <2>1. c.loopState \in Loops
    BY <1>2 DEF Ctrl
  <2>2. \A m \in Loops : loop[m] \in Activation
    BY DEF TypeOK
  <2> QED
    BY <1>2, <2>1, <2>2 DEF RequestStop, TypeOK, Activation
<1> QED
  BY <1>1, <1>2

LEMMA LaunchEffect ==
  ASSUME TypeOK, NEW c \in Ctrl, Launch(c)
  PROVE  /\ ctrl'.running = TRUE
         /\ \E l \in Loops : /\ ~Active(l) /\ loop'[l].pc # "idle"
                            /\ \A m \in Loops \ {l} : loop'[m] = loop[m]
<1> DEFINE d == [c EXCEPT !.running = TRUE, !.stopRequested = FALSE, !.iteration = 0]
<1>1. PICK l \in Loops : ~Active(l) /\ EnterIteration(l, d)
  BY DEF Launch
<1>2. ctrl'.running = TRUE
  BY <1>1 DEF EnterIteration, Ctrl
<1>3. loop'[l].pc # "idle" /\ \A m \in Loops \ {l} : loop'[m] = loop[m]
  BY <1>1 DEF EnterIteration, TypeOK, Returned
<1> QED
  BY <1>1, <1>2, <1>3

LEMMA OneLoopInit == Init => Inv
<1>1. Init => OneLoop /\ up
  BY DEF Init, OneLoop, Active, Returned, FreshCtrl
<1> QED
  BY <1>1, InitType DEF Inv

LEMMA OneLoopStep ==
  ASSUME EagerResume = FALSE, Inv, [Next]_vars
  PROVE  Inv'
<1>1. TypeOK /\ OneLoop /\ (~up => ~ctrl.running)
  BY DEF Inv
<1>2. TypeOK'
  <2>1. CASE UNCHANGED vars
    BY <1>1, <2>1 DEF vars, TypeOK
  <2> QED
    BY <1>1, <2>1, StepType, EnvironmentType DEF Next
<1> SUFFICES OneLoop' /\ (~up' => ~ctrl'.running)
  BY <1>2 DEF Inv
<1>3. CASE UNCHANGED vars
  BY <1>1, <1>3 DEF vars, OneLoop, Active
<1>4. ASSUME NEW l \in Loops, LoopStep(l) PROVE OneLoop' /\ (~up' => ~ctrl'.running)
  <2>1. \A m \in Loops : Active(m) => m = l
    BY <1>1, <1>4, StepEffect DEF OneLoop
  <2>2. ctrl.running /\ up
    BY <1>1, <1>4, StepEffect DEF OneLoop
  <2>3. \A m \in Loops \ {l} : loop'[m].pc = "idle"
    BY <1>1, <1>4, <2>1, StepEffect DEF Active
  <2> QED
    BY <1>1, <1>4, <2>2, <2>3, StepEffect DEF OneLoop, Active
<1>5. ASSUME NEW c \in Ctrl, Launch(c), ~ctrl.running, up'
      PROVE OneLoop' /\ (~up' => ~ctrl'.running)
  <2>1. \A m \in Loops : ~Active(m)
    BY <1>1, <1>5 DEF OneLoop
  <2> QED
    BY <1>1, <1>5, <2>1, LaunchEffect DEF OneLoop, Active
<1>6. CASE Start
  BY <1>1, <1>5, <1>6 DEF Start, TypeOK
<1>7. CASE Resume
  <2>1. [ctrl EXCEPT !.resumeIntent = ctrl.pausedBatch,
                     !.paused = FALSE, !.pausedBatch = None] \in Ctrl
    BY <1>1 DEF TypeOK, Ctrl
  <2> QED
    BY <1>5, <1>7, <2>1 DEF Resume
<1>8. CASE Stop \/ Pause \/ Shutdown
  <2>1. /\ ctrl'.running = ctrl.running /\ up' = up
        /\ \A m \in Loops : loop'[m].pc = loop[m].pc
    <3>1. PICK c \in Ctrl : c.running = ctrl.running /\ RequestStop(c)
      <4>1. /\ [ctrl EXCEPT !.stopRequested = TRUE] \in Ctrl
            /\ [ctrl EXCEPT !.stopRequested = TRUE].running = ctrl.running
            /\ [ctrl EXCEPT !.stopRequested = TRUE, !.paused = TRUE] \in Ctrl
            /\ [ctrl EXCEPT !.stopRequested = TRUE, !.paused = TRUE].running = ctrl.running
        BY <1>1 DEF TypeOK, Ctrl
      <4> QED
        BY <1>8, <4>1 DEF Stop, Pause, Shutdown
    <3>2. up' = up
      BY <1>8 DEF Stop, Pause, Shutdown
    <3> QED
      BY <1>1, <3>1, <3>2, RequestStopEffect
  <2> QED
    BY <1>1, <2>1 DEF OneLoop, Active
<1>9. CASE Crash
  BY <1>9 DEF Crash, OneLoop, Active, Returned, FreshCtrl
<1>10. CASE Boot
  <2>1. ~ctrl.running /\ up'
    BY <1>1, <1>10 DEF Boot
  <2>2. CASE Launch(ctrl)
    BY <1>1, <1>5, <2>1, <2>2 DEF TypeOK
  <2>3. CASE /\ UNCHANGED loop
             /\ \/ UNCHANGED ctrl
                \/ ctrl' = [ctrl EXCEPT !.paused = TRUE, !.pausedBatch = disk.pausedBatch]
    <3>1. ctrl'.running = ctrl.running
      BY <1>1, <2>3 DEF TypeOK, Ctrl
    <3> QED
      BY <1>1, <2>1, <2>3, <3>1 DEF OneLoop, Active
  <2> QED
    BY <1>10, <2>2, <2>3 DEF Boot
<1>11. CASE OtherAudit
  BY <1>1, <1>11 DEF OtherAudit, OneLoop, Active
<1> QED
  BY <1>3, <1>4, <1>6, <1>7, <1>8, <1>9, <1>10, <1>11 DEF Next, Environment

\* Two activations never share _ctrl, and running says whether one exists,
\* whatever the operator calls, as long as resume() waits for the pause to settle.
THEOREM OneLoopAlways ==
  ASSUME EagerResume = FALSE
  PROVE  Spec => []LoopHolds
<1>1. Inv /\ [Next]_vars => Inv'
  BY OneLoopStep
<1>2. Inv => LoopHolds
  BY DEF Inv, LoopHolds
<1> QED
  BY <1>1, <1>2, OneLoopInit, PTL DEF Spec

-----------------------------------------------------------------------------
(* What a request sees of the loop.                                         *)

\* A stretch of an activation's own code keeps the pause, and the stop too
\* unless it is its last.
LEMMA StepTells ==
  ASSUME TypeOK, NEW l \in Loops, LoopStep(l)
  PROVE  /\ ctrl'.paused = ctrl.paused
         /\ ctrl'.stopRequested = ctrl.stopRequested \/ ~ctrl'.running
<1> DEFINE Tells == /\ ctrl'.paused = ctrl.paused
                    /\ ctrl'.stopRequested = ctrl.stopRequested \/ ~ctrl'.running
<1> SUFFICES Tells
  OBVIOUS
<1>1. ASSUME NEW c \in Ctrl, c.paused = ctrl.paused, Halt(l, c) PROVE Tells
  BY <1>1 DEF Halt, Ctrl
<1>2. CASE ctrl' = ctrl
  BY <1>2
<1>3. ASSUME LoopTop(l) PROVE Tells
  <2>1. CASE EnterIteration(l, ctrl)
    BY <2>1 DEF EnterIteration, TypeOK, Ctrl
  <2>2. CASE Halt(l, ctrl)
    BY <1>1, <2>2 DEF TypeOK
  <2> QED BY <1>3, <2>1, <2>2 DEF LoopTop
<1>4. ASSUME NEW a, SettlePass(l, a) PROVE Tells
  <2>1. PICK c : c = IF a.resuming THEN ctrl ELSE [ctrl EXCEPT !.pausedBatch = None]
    OBVIOUS
  <2>2. c \in Ctrl /\ c.paused = ctrl.paused /\ c.stopRequested = ctrl.stopRequested
    BY <2>1 DEF TypeOK, Ctrl
  <2>3. ctrl' = ctrl \/ ctrl' = c \/ Halt(l, c)
    BY <1>4, <2>1 DEF SettlePass
  <2> QED BY <1>1, <2>2, <2>3
<1>5. CASE \/ SnapshotResolved(l) \/ SeedResumed(l) \/ PassScans(l) \/ BeginNode(l)
           \/ RecordNode(l) \/ DropNode(l)
  BY <1>2, <1>5 DEF SnapshotResolved, SeedResumed, PassScans, BeginNode, RecordNode, DropNode
<1>6. CASE SnapshotFailed(l) \/ CloseBatch(l)
  <2>1. ctrl' = ctrl \/ Halt(l, ctrl)
    BY <1>6 DEF SnapshotFailed, CloseBatch
  <2> QED BY <1>1, <1>2, <2>1 DEF TypeOK
<1>7. CASE RetrySnapshot(l) \/ GapOver(l)
  BY <1>3, <1>7 DEF RetrySnapshot, GapOver
<1>8. CASE OpenBatch(l)
  BY <1>8 DEF OpenBatch, TypeOK, Ctrl
<1>9. CASE PassRejects(l) \/ PassFetchFails(l) \/ PassEnds(l)
  BY <1>4, <1>9 DEF PassRejects, PassFetchFails, PassEnds
<1>10. CASE CollectTested(l)
  BY <1>10 DEF CollectTested, Halt, TypeOK, Ctrl
<1> QED BY <1>5, <1>6, <1>7, <1>8, <1>9, <1>10 DEF LoopStep

\* A launch clears what an earlier stop or pause has left.
LEMMA LaunchTells ==
  ASSUME NEW c \in Ctrl, Launch(c)
  PROVE  ctrl'.running = TRUE /\ ctrl'.stopRequested = FALSE /\ ctrl'.paused = c.paused
BY DEF Launch, EnterIteration, Ctrl

\* A dead process is not paused: what it paused is in the config file alone.
Inert == ~up => ~ctrl.paused

LEMMA RequestsTell ==
  ASSUME EagerResume = FALSE, Inv, Inert, Environment
  PROVE  Inert' /\ [Control!Next]_<<Shown, ctrl.paused>>
<1>1. /\ TypeOK /\ (~up => ~ctrl.running)
      /\ ctrl.paused \in BOOLEAN /\ ctrl.running \in BOOLEAN /\ ctrl.stopRequested \in BOOLEAN
  BY DEF Inv, TypeOK, Ctrl
<1> USE DEF Inert, Shown
<1>2. CASE Start
  <2>1. ctrl'.running = TRUE /\ ctrl'.stopRequested = FALSE /\ ctrl'.paused = ctrl.paused
    BY <1>1, <1>2, LaunchTells DEF Start, TypeOK
  <2>2. up /\ up' /\ ~ctrl.running /\ ~ctrl.paused
    BY <1>2 DEF Start
  <2> QED BY <1>1, <2>1, <2>2 DEF Control!Next, Control!Starts
<1>3. CASE Resume
  <2>1. PICK c \in Ctrl : c.paused = FALSE /\ Launch(c)
    <3>1. [ctrl EXCEPT !.resumeIntent = ctrl.pausedBatch, !.paused = FALSE, !.pausedBatch = None]
            \in Ctrl
      BY <1>1 DEF TypeOK, Ctrl
    <3>2. [ctrl EXCEPT !.resumeIntent = ctrl.pausedBatch, !.paused = FALSE,
                       !.pausedBatch = None].paused = FALSE
      BY <1>1 DEF TypeOK, Ctrl
    <3> QED BY <1>3, <3>1, <3>2 DEF Resume
  <2>2. ctrl'.running = TRUE /\ ctrl'.stopRequested = FALSE /\ ctrl'.paused = FALSE
    BY <2>1, LaunchTells
  <2>3. up /\ up' /\ ~ctrl.running /\ ctrl.paused
    BY <1>1, <1>3 DEF Resume
  <2> QED BY <1>1, <2>2, <2>3 DEF Control!Next, Control!Resumes
<1>4. CASE Stop \/ Shutdown
  <2>1. /\ up /\ up' /\ ctrl.running /\ ctrl'.running = ctrl.running
        /\ ctrl'.stopRequested = TRUE /\ ctrl'.paused = ctrl.paused
    BY <1>1, <1>4 DEF Stop, Shutdown, RequestStop, TypeOK, Ctrl
  <2> QED BY <1>1, <2>1 DEF Control!Next, Control!Told
<1>5. CASE Pause
  <2>1. /\ up /\ up' /\ ctrl.running /\ ~ctrl.paused /\ ctrl'.running = ctrl.running
        /\ ctrl'.stopRequested = TRUE /\ ctrl'.paused = TRUE
    BY <1>1, <1>5 DEF Pause, RequestStop, TypeOK, Ctrl
  <2> QED BY <1>1, <2>1 DEF Control!Next, Control!Told, Control!Pauses
<1>6. CASE Crash
  <2>1. up /\ ~up' /\ ctrl'.paused = FALSE
    BY <1>6 DEF Crash, FreshCtrl
  <2> QED BY <1>1, <2>1 DEF Control!Next, Control!Dies
<1>7. CASE Boot
  <2>1. ~up /\ up' /\ ~ctrl.running /\ ~ctrl.paused
    BY <1>1, <1>7 DEF Boot
  <2>2. CASE Launch(ctrl)
    <3>1. ctrl'.running = TRUE /\ ctrl'.stopRequested = FALSE /\ ctrl'.paused = FALSE
      BY <1>1, <2>1, <2>2, LaunchTells DEF TypeOK
    <3> QED BY <2>1, <3>1 DEF Control!Next, Control!Boots
  <2>3. CASE \/ UNCHANGED ctrl
             \/ ctrl' = [ctrl EXCEPT !.paused = TRUE, !.pausedBatch = disk.pausedBatch]
    <3>1. ~ctrl'.running /\ ctrl'.paused \in BOOLEAN
      BY <1>1, <2>1, <2>3 DEF TypeOK, Ctrl
    <3> QED BY <2>1, <3>1 DEF Control!Next, Control!Boots
  <2> QED BY <1>7, <2>2, <2>3 DEF Boot
<1>8. CASE OtherAudit
  BY <1>8 DEF OtherAudit
<1> QED BY <1>2, <1>3, <1>4, <1>5, <1>6, <1>7, <1>8 DEF Environment

\* What the routes see through status() is LoopControl: no stop and no pause is
\* taken back before the loop has ended, and a paused loop starts only by a resume.
THEOREM LoopIsControlled ==
  ASSUME EagerResume = FALSE
  PROVE  Spec => ShownAs
<1>1. Init => Inert /\ Control!Init
  BY DEF Init, FreshCtrl, Inert, Shown, Control!Init
<1>2. ASSUME Inv, Inert, NEW l \in Loops, LoopStep(l)
      PROVE  Inert' /\ [Control!Next]_<<Shown, ctrl.paused>>
  <2>1. up /\ up' /\ ctrl.running
    BY <1>2, StepEffect DEF Inv, OneLoop
  <2>2. /\ ctrl'.paused = ctrl.paused
        /\ ctrl'.stopRequested = ctrl.stopRequested \/ ~ctrl'.running
        /\ ctrl'.running = ctrl.running \/ ctrl'.running = FALSE
    BY <1>2, StepTells, StepEffect DEF Inv
  <2> QED BY <2>1, <2>2 DEF Inert, Shown, Control!Next, Control!Ends
<1>3. Inv /\ Inert /\ [Next]_vars =>
        Inv' /\ Inert' /\ [Control!Next]_<<Shown, ctrl.paused>>
  <2>1. CASE UNCHANGED vars
    BY <2>1, OneLoopStep DEF vars, Inert, Shown
  <2>2. CASE Next
    BY <1>2, <2>2, OneLoopStep, RequestsTell DEF Next
  <2> QED BY <2>1, <2>2
<1> QED
  BY <1>1, <1>3, OneLoopInit, PTL DEF Spec, ShownAs, Control!Spec

-----------------------------------------------------------------------------
(* The batches.  The invariant says, of the one activation, what its batch   *)
(* row and the results array hold at each await, and who an open row         *)
(* belongs to while nothing runs.                                            *)

Sweeping == {"seed", "setup", "pass", "collect", "close"}

\* The activation works on a batch row it has opened or resumed.
Sweeps(l) == loop[l].pc \in Sweeping /\ loop[l].batch > 0

\* stop() and pause() reach the activation's own loopState.
Steered(l) ==
  Active(l) => /\ ctrl.loopState = l
               /\ ctrl.stopRequested => loop[l].stop
               /\ loop[l].pc = "collect" => ctrl.paused

Early(l) ==
  /\ loop[l].pc \in {"snapshot", "retry", "open"} => loop[l].batch = 0 /\ ~loop[l].resuming
  /\ loop[l].pc = "seed" => loop[l].resuming
  /\ loop[l].pc = "close" => loop[l].batch > 0

Own(l) ==
  Sweeps(l) => /\ db[loop[l].batch].st = "open"
               /\ db[loop[l].batch].snap = loop[l].frozen

\* What is still to be tested has not been recorded.
Ahead(l) ==
  /\ Sweeps(l)
  /\ \/ loop[l].pc \in {"seed", "setup"}
     \/ loop[l].pc = "pass" /\ ~loop[l].refetched
  => loop[l].todo \cap db[loop[l].batch].rows = {}

\* A fresh sweep's results array is its batch's rows, and so is their count.
Counted(l) ==
  Sweeps(l) /\ ~loop[l].resuming =>
    /\ loop[l].pc = "setup" => db[loop[l].batch].rows = {}
    /\ loop[l].pc = "pass" => results = db[loop[l].batch].rows
    /\ loop[l].pc = "close" /\ ~loop[l].threw
         => loop[l].count = Cardinality(db[loop[l].batch].rows)

\* pausedBatch is seeded for the sweep of a fresh batch only.
Seeded(l) ==
  Active(l) /\ ctrl.pausedBatch # None
    => loop[l].pc \in {"setup", "pass", "collect"} /\ ~loop[l].resuming

Good(l) == Steered(l) /\ Early(l) /\ Own(l) /\ Ahead(l) /\ Counted(l) /\ Seeded(l)

Exact(p) ==
  p.batch > 0 => /\ db[p.batch].st = "open"
                 /\ p.tested = db[p.batch].rows
                 /\ p.frozen = db[p.batch].snap

PauseKept == ~ctrl.running /\ ctrl.pausedBatch # None => ctrl.paused /\ Exact(ctrl.pausedBatch)

Owned ==
  up => \A b \in BatchIds : db[b].st = "open" =>
          \/ \E l \in Loops : Sweeps(l) /\ loop[l].batch = b
          \/ ~ctrl.running /\ Holds(ctrl, b)

Quiet ==
  /\ ctrl.resumeIntent = None
  /\ ~up => ctrl = FreshCtrl
  /\ disk.running => ~disk.paused
  /\ \A b \in BatchIds : db[b].st = "absent" => db[b].rows = {}

Batches == Quiet /\ Owned /\ PauseKept /\ \A l \in Loops : Good(l)

LEMMA IdleIsGood ==
  ASSUME NEW l \in Loops, ~Active(l)
  PROVE  Good(l)
BY DEF Active, Good, Steered, Early, Own, Ahead, Counted, Seeded, Sweeps, Sweeping

\* The one activation owns every open row.
LEMMA TheOwner ==
  ASSUME Inv, Batches, NEW l \in Loops, Active(l), NEW b \in BatchIds, db[b].st = "open"
  PROVE  Sweeps(l) /\ loop[l].batch = b
<1>1. ctrl.running /\ up
  BY DEF Inv, OneLoop
<1>2. PICK m \in Loops : Sweeps(m) /\ loop[m].batch = b
  BY <1>1 DEF Batches, Owned
<1>3. m = l
  BY <1>2 DEF Inv, OneLoop, Active, Sweeps, Sweeping
<1> QED
  BY <1>2, <1>3

\* It is enough to look at the activation that moves while it stays active ...
LEMMA StaysGood ==
  ASSUME Inv, Inv', Batches, NEW l \in Loops, LoopStep(l), Active(l)', Good(l)', Quiet',
         \A b \in BatchIds : db'[b].st = "open" => Sweeps(l)' /\ loop'[l].batch = b
  PROVE  Batches'
<1>1. \A m \in Loops \ {l} : Good(m)'
  <2>1. \A m \in Loops \ {l} : ~Active(m)'
    BY DEF Inv, OneLoop, Active
  <2> QED
    BY <2>1, IdleIsGood DEF Active, Good, Steered, Early, Own, Ahead, Counted, Seeded, Sweeps, Sweeping
<1>2. ctrl'.running
  BY DEF Inv, OneLoop
<1>3. Owned' /\ PauseKept'
  BY <1>2 DEF Owned, PauseKept
<1> QED
  BY <1>1, <1>3 DEF Batches

\* ... and at what it leaves behind when it returns.
LEMMA LeavesGood ==
  ASSUME Inv, Inv', Batches, NEW l \in Loops, LoopStep(l), NEW c \in Ctrl, Halt(l, c),
         c.resumeIntent = None,
         c.pausedBatch # None => c.paused /\ Exact(c.pausedBatch)',
         \A b \in BatchIds : db'[b].st = "open" => Holds(c, b),
         \A b \in BatchIds : db'[b].st = "absent" => db'[b].rows = {}
  PROVE  Batches'
<1> DEFINE d == [c EXCEPT !.running = FALSE, !.stopRequested = FALSE, !.loopState = None]
<1>1. /\ d.running = FALSE /\ d.resumeIntent = None /\ d.paused = c.paused
      /\ d.pausedBatch = c.pausedBatch
  BY DEF Ctrl
<1>2. ctrl' = d /\ disk' = Persisted(d) /\ loop'[l].pc = "idle"
  BY DEF Halt, Inv, TypeOK, Returned
<1> HIDE DEF d
<1>3. up /\ up'
  BY StepEffect DEF LoopStep, Inv, OneLoop
<1>4. \A m \in Loops : ~Active(m)'
  BY <1>1, <1>2 DEF Inv, OneLoop, Active
<1>5. \A m \in Loops : Good(m)'
  BY <1>4, IdleIsGood DEF Active, Good, Steered, Early, Own, Ahead, Counted, Seeded, Sweeps, Sweeping
<1>6. Quiet'
  BY <1>1, <1>2, <1>3 DEF Quiet, Persisted
<1>7. Owned' /\ PauseKept'
  BY <1>1, <1>2 DEF Owned, PauseKept, Holds
<1> QED
  BY <1>5, <1>6, <1>7 DEF Batches

LEMMA PrunedKeeps ==
  ASSUME NEW d \in [BatchIds -> Batch], NEW b \in BatchIds
  PROVE  /\ Pruned(d, b)[b] = d[b]
         /\ \A a \in BatchIds : d[a].st = "open" => Pruned(d, b)[a] = d[a]
         /\ \A a \in BatchIds : Pruned(d, b)[a] \in {d[a], NoRow}
BY DEF Pruned
\* The loop's top: nothing is open or held when an iteration is entered or refused.
LEMMA TopGood ==
  ASSUME Inv, Inv', Batches, NEW l \in Loops, LoopStep(l), LoopTop(l),
         loop[l].pc \in {"retry", "gap"}, ~Sweeps(l), UNCHANGED <<db, results>>
  PROVE  Batches'
<1>1. Active(l) /\ up /\ up'
  BY StepEffect DEF Active, LoopStep, Inv, OneLoop
<1>2. ctrl.pausedBatch = None /\ ctrl.resumeIntent = None
  BY <1>1 DEF Batches, Good, Seeded, Quiet
<1>3. \A b \in BatchIds : db'[b].st # "open"
  BY <1>1, TheOwner
<1>4. CASE Halt(l, ctrl)
  BY <1>2, <1>3, <1>4, LeavesGood DEF Inv, TypeOK, Batches, Quiet
<1>5. CASE ~ctrl.stopRequested /\ EnterIteration(l, ctrl) /\ UNCHANGED disk
  <2>1. /\ ctrl' = [ctrl EXCEPT !.iteration = @ + 1, !.loopState = l, !.resumeIntent = None]
        /\ loop' = [loop EXCEPT ![l] = [Returned EXCEPT !.pc = "snapshot"]]
    BY <1>2, <1>5 DEF EnterIteration
  <2>2. /\ ctrl'.loopState = l /\ ctrl'.stopRequested = ctrl.stopRequested
        /\ ctrl'.resumeIntent = None /\ ctrl'.pausedBatch = ctrl.pausedBatch
    BY <2>1 DEF Inv, TypeOK, Ctrl
  <2>3. /\ loop'[l].pc = "snapshot" /\ loop'[l].batch = 0 /\ loop'[l].resuming = FALSE
    BY <2>1 DEF Inv, TypeOK, Returned
  <2>4. Good(l)' /\ Active(l)'
    BY <1>2, <1>5, <2>2, <2>3 DEF Good, Steered, Early, Own, Ahead, Counted, Seeded, Sweeps,
                                   Sweeping, Active
  <2>5. Quiet'
    BY <1>1, <1>5, <2>2 DEF Quiet, Batches
  <2> QED
    BY <1>3, <2>4, <2>5, StaysGood
<1> QED
  BY <1>4, <1>5 DEF LoopTop

\* A pass that settles, with everything its batch row and its counters say.
LEMMA SettledGood ==
  ASSUME Inv, Inv', Batches, NEW l \in Loops, LoopStep(l), NEW a \in Activation,
         SettlePass(l, a), loop[l].pc \in {"setup", "pass"}, UNCHANGED db,
         a.batch = loop[l].batch, a.frozen = loop[l].frozen, a.stop = loop[l].stop,
         a.resuming = loop[l].resuming,
         a.batch > 0 /\ ~a.resuming /\ ~a.threw => a.count = Cardinality(db[a.batch].rows)
  PROVE  Batches'
<1> DEFINE c == IF a.resuming THEN ctrl ELSE [ctrl EXCEPT !.pausedBatch = None]
<1>1. Active(l) /\ up /\ up' /\ (Sweeps(l) <=> loop[l].batch > 0) /\ Good(l) /\ Quiet
  BY StepEffect DEF Active, LoopStep, Inv, OneLoop, Sweeps, Sweeping, Batches
<1>2. /\ c \in Ctrl /\ c.pausedBatch = None /\ c.resumeIntent = None
      /\ c.loopState = ctrl.loopState /\ c.stopRequested = ctrl.stopRequested
  BY <1>1 DEF Inv, TypeOK, Ctrl, Good, Seeded, Quiet
<1> HIDE DEF c
<1>3. \A b \in BatchIds : db[b].st = "open" => Sweeps(l) /\ loop[l].batch = b
  BY <1>1, TheOwner
<1>4. a.batch \in {0} \cup BatchIds
  BY DEF Activation
<1>5. CASE /\ ctrl.paused /\ UNCHANGED <<ctrl, disk>>
           /\ loop' = [loop EXCEPT ![l] = [a EXCEPT !.pc = "collect"]]
  <2>1. /\ loop'[l].pc = "collect" /\ loop'[l].batch = a.batch /\ loop'[l].frozen = a.frozen
        /\ loop'[l].stop = a.stop /\ loop'[l].resuming = a.resuming
    BY <1>5 DEF Inv, TypeOK, Activation
  <2>2. Good(l)' /\ Active(l)'
    BY <1>1, <1>5, <2>1 DEF Good, Steered, Early, Own, Ahead, Counted, Seeded, Sweeps, Sweeping, Active
  <2>3. Quiet'
    BY <1>1, <1>5 DEF Quiet
  <2>4. \A b \in BatchIds : db'[b].st = "open" => Sweeps(l)' /\ loop'[l].batch = b
    BY <1>1, <1>3, <2>1 DEF Sweeps, Sweeping
  <2> QED
    BY <2>2, <2>3, <2>4, StaysGood
<1>6. CASE /\ a.batch > 0 /\ ctrl' = c /\ UNCHANGED disk
           /\ loop' = [loop EXCEPT ![l] = [a EXCEPT !.pc = "close"]]
  <2>1. /\ loop'[l].pc = "close" /\ loop'[l].batch = a.batch /\ loop'[l].frozen = a.frozen
        /\ loop'[l].stop = a.stop /\ loop'[l].resuming = a.resuming
        /\ loop'[l].count = a.count /\ loop'[l].threw = a.threw
    BY <1>6 DEF Inv, TypeOK, Activation
  <2>2. Good(l)' /\ Active(l)'
    BY <1>1, <1>2, <1>6, <2>1 DEF Good, Steered, Early, Own, Ahead, Counted, Seeded, Sweeps, Sweeping, Active
  <2>3. Quiet'
    BY <1>1, <1>2, <1>6 DEF Quiet
  <2>4. \A b \in BatchIds : db'[b].st = "open" => Sweeps(l)' /\ loop'[l].batch = b
    BY <1>3, <1>6, <2>1 DEF Sweeps, Sweeping
  <2> QED
    BY <2>2, <2>3, <2>4, StaysGood
<1>7. CASE /\ a.batch = 0 /\ ctrl' = c /\ UNCHANGED disk
           /\ loop' = [loop EXCEPT ![l] = [a EXCEPT !.pc = "gap"]]
  <2>1. /\ loop'[l].pc = "gap" /\ loop'[l].batch = a.batch
        /\ loop'[l].stop = a.stop
    BY <1>7 DEF Inv, TypeOK, Activation
  <2>2. Good(l)' /\ Active(l)'
    BY <1>1, <1>2, <1>7, <2>1 DEF Good, Steered, Early, Own, Ahead, Counted, Seeded, Sweeps, Sweeping, Active
  <2>3. Quiet'
    BY <1>1, <1>2, <1>7 DEF Quiet
  <2>4. \A b \in BatchIds : db'[b].st # "open"
    BY <1>3, <1>7 DEF Sweeps
  <2> QED
    BY <2>2, <2>3, <2>4, StaysGood
<1>8. CASE a.batch = 0 /\ Halt(l, c)
  <2>1. \A b \in BatchIds : db'[b].st # "open"
    BY <1>3, <1>8 DEF Sweeps
  <2>2. \A b \in BatchIds : db'[b].st = "absent" => db'[b].rows = {}
    BY <1>1 DEF Quiet
  <2> QED
    BY <1>2, <1>8, <2>1, <2>2, LeavesGood
<1> QED
  BY <1>5, <1>6, <1>7, <1>8 DEF SettlePass, c
\* A stretch that moves one activation on, and leaves the row it sweeps open.
LEMMA StepGood ==
  ASSUME Inv, Inv', Batches, NEW l \in Loops, LoopStep(l)
  PROVE  Batches'
<1> DEFINE x == loop[l]
<1>1. /\ Active(l) /\ up /\ up' /\ x \in Activation /\ Good(l) /\ Quiet
      /\ x.batch \in {0} \cup BatchIds
  BY StepEffect DEF LoopStep, Inv, OneLoop, Batches, TypeOK, Activation
<1>2. \A b \in BatchIds : db[b].st = "open" => Sweeps(l) /\ x.batch = b
  BY <1>1, TheOwner
<1>3. ctrl \in Ctrl /\ ctrl.resumeIntent = None
  BY <1>1 DEF Quiet, Inv, TypeOK
<1>4. CASE SnapshotResolved(l)
  <2>1. /\ loop'[l].pc = "open" /\ loop'[l].batch = x.batch /\ loop'[l].stop = x.stop
        /\ loop'[l].resuming = x.resuming
    BY <1>1, <1>4 DEF SnapshotResolved, Inv, TypeOK, Activation
  <2>2. Good(l)' /\ Active(l)' /\ Quiet'
    BY <1>1, <1>4, <2>1 DEF SnapshotResolved, Good, Steered, Early, Own, Ahead, Counted, Seeded,
                            Sweeps, Sweeping, Active, Quiet
  <2>3. \A b \in BatchIds : db'[b].st # "open"
    BY <1>2, <1>4 DEF SnapshotResolved, Sweeps, Sweeping
  <2> QED
    BY <2>2, <2>3, StaysGood
<1>5. CASE SnapshotFailed(l)
  <2>1. ctrl.pausedBatch = None
    BY <1>1, <1>5 DEF SnapshotFailed, Good, Seeded
  <2>2. \A b \in BatchIds : db'[b].st # "open"
    BY <1>2, <1>5 DEF SnapshotFailed, Sweeps, Sweeping
  <2>3. \A b \in BatchIds : db'[b].st = "absent" => db'[b].rows = {}
    BY <1>1, <1>5 DEF SnapshotFailed, Quiet
  <2>4. CASE Halt(l, ctrl)
    BY <1>3, <2>1, <2>2, <2>3, <2>4, LeavesGood
  <2>5. CASE loop' = [loop EXCEPT ![l].pc = "retry"] /\ UNCHANGED <<ctrl, disk>>
    <3>1. /\ loop'[l].pc = "retry" /\ loop'[l].batch = x.batch /\ loop'[l].stop = x.stop
          /\ loop'[l].resuming = x.resuming
      BY <1>1, <2>5 DEF Inv, TypeOK, Activation
    <3>2. Good(l)' /\ Active(l)' /\ Quiet'
      BY <1>1, <1>5, <2>5, <3>1 DEF SnapshotFailed, Good, Steered, Early, Own, Ahead, Counted, Seeded,
                              Sweeps, Sweeping, Active, Quiet
    <3> QED
      BY <2>2, <3>2, StaysGood
  <2> QED
    BY <1>5, <2>4, <2>5 DEF SnapshotFailed
<1>6. CASE RetrySnapshot(l)
  BY <1>6, TopGood DEF RetrySnapshot, Sweeps, Sweeping
<1>7. CASE OpenBatch(l)
  <2>1. PICK b \in {0} \cup BatchIds :
          /\ b > 0 => NextBatchId(b)
          /\ db' = IF b = 0 THEN db
                   ELSE [db EXCEPT ![b] = [NoRow EXCEPT !.st = "open", !.snap = x.frozen]]
          /\ loop' = [loop EXCEPT ![l].pc = "setup", ![l].batch = b]
          /\ ctrl' = [ctrl EXCEPT !.pausedBatch =
                        [batch |-> b, frozen |-> x.frozen, tested |-> {}]]
    BY <1>7 DEF OpenBatch
  <2>2. /\ loop'[l].pc = "setup" /\ loop'[l].batch = b /\ loop'[l].stop = x.stop
        /\ loop'[l].resuming = x.resuming /\ loop'[l].frozen = x.frozen
        /\ ~x.resuming
    BY <1>1, <1>7, <2>1 DEF OpenBatch, Inv, TypeOK, Activation, Good, Early
  <2>3. /\ ctrl'.loopState = ctrl.loopState /\ ctrl'.stopRequested = ctrl.stopRequested
        /\ ctrl'.resumeIntent = ctrl.resumeIntent /\ ctrl'.paused = ctrl.paused
    BY <1>3, <2>1 DEF Ctrl
  <2>4. \A c \in BatchIds : db[c].st # "open"
    BY <1>2, <1>7 DEF OpenBatch, Sweeps, Sweeping
  <2>5. /\ b > 0 => db'[b].st = "open" /\ db'[b].snap = x.frozen /\ db'[b].rows = {}
        /\ \A c \in BatchIds : c # b => db'[c] = db[c]
    BY <2>1 DEF NoRow, Inv, TypeOK, BatchIds
  <2>6. Good(l)' /\ Active(l)'
    BY <1>1, <2>2, <2>3, <2>5 DEF Good, Steered, Early, Own, Ahead, Counted, Seeded,
                            Sweeps, Sweeping, Active
  <2>7. Quiet'
    BY <1>1, <1>7, <2>3, <2>5 DEF OpenBatch, Quiet, BatchIds
  <2>8. \A c \in BatchIds : db'[c].st = "open" => Sweeps(l)' /\ loop'[l].batch = c
    BY <2>2, <2>4, <2>5 DEF Sweeps, Sweeping, BatchIds
  <2> QED
    BY <2>6, <2>7, <2>8, StaysGood
<1>8. CASE SeedResumed(l)
  <2>1. /\ loop'[l] = [x EXCEPT !.pc = "setup"] /\ UNCHANGED <<ctrl, db, disk>>
    BY <1>8 DEF SeedResumed, Inv, TypeOK
  <2>2. /\ loop'[l].pc = "setup" /\ loop'[l].batch = x.batch /\ loop'[l].stop = x.stop
        /\ loop'[l].resuming = x.resuming /\ loop'[l].frozen = x.frozen
        /\ loop'[l].todo = x.todo /\ x.pc = "seed"
    BY <1>1, <1>8, <2>1 DEF SeedResumed, Activation
  <2>3. Good(l)' /\ Active(l)' /\ Quiet'
    BY <1>1, <2>1, <2>2 DEF Good, Steered, Early, Own, Ahead, Counted, Seeded,
                            Sweeps, Sweeping, Active, Quiet
  <2>4. \A b \in BatchIds : db'[b].st = "open" => Sweeps(l)' /\ loop'[l].batch = b
    BY <1>2, <2>1, <2>2 DEF Sweeps, Sweeping
  <2> QED
    BY <2>3, <2>4, StaysGood
<1>9. CASE PassRejects(l)
  <2> DEFINE a == [x EXCEPT !.threw = TRUE]
  <2>1. /\ a \in Activation /\ a.batch = x.batch /\ a.frozen = x.frozen /\ a.stop = x.stop
        /\ a.resuming = x.resuming /\ a.threw
    BY <1>1 DEF Activation
  <2>2. SettlePass(l, a) /\ x.pc = "setup" /\ UNCHANGED db
    BY <1>9 DEF PassRejects
  <2> HIDE DEF a
  <2> QED
    BY <2>1, <2>2, SettledGood
<1>10. CASE PassScans(l)
  <2>1. PICK online \in SUBSET Nodes :
          loop' = [loop EXCEPT ![l].pc = "pass", ![l].refetched = loop[l].todo = {},
                               ![l].todo = (IF @ = {} THEN online ELSE @ \cap online)
                                             \ results']
    BY <1>10 DEF PassScans
  <2>2. /\ loop'[l].pc = "pass" /\ loop'[l].batch = x.batch /\ loop'[l].stop = x.stop
        /\ loop'[l].resuming = x.resuming /\ loop'[l].frozen = x.frozen
        /\ loop'[l].refetched = (x.todo = {})
        /\ loop'[l].todo = (IF x.todo = {} THEN online ELSE x.todo \cap online) \ results'
    BY <1>1, <2>1 DEF Inv, TypeOK, Activation
  <2>3. /\ x.pc = "setup" /\ UNCHANGED <<ctrl, db, disk>>
        /\ ~x.resuming => results' = {}
    BY <1>10 DEF PassScans, Kept
  <2>4. Good(l)' /\ Active(l)'
    BY <1>1, <2>2, <2>3 DEF Good, Steered, Early, Own, Ahead, Counted, Seeded,
                            Sweeps, Sweeping, Active
  <2>5. Quiet'
    BY <1>1, <2>3 DEF Quiet
  <2>6. \A b \in BatchIds : db'[b].st = "open" => Sweeps(l)' /\ loop'[l].batch = b
    BY <1>2, <2>2, <2>3 DEF Sweeps, Sweeping
  <2> QED
    BY <2>4, <2>5, <2>6, StaysGood
<1>11. CASE PassFetchFails(l)
  <2> DEFINE a == [x EXCEPT !.threw = TRUE, !.count = Cardinality(results')]
  <2>0. Cardinality(results') \in 0..Cardinality(Nodes)
    BY Counts DEF Inv, TypeOK
  <2>1. /\ a \in Activation /\ a.batch = x.batch /\ a.frozen = x.frozen /\ a.stop = x.stop
        /\ a.resuming = x.resuming /\ a.threw
    BY <1>1, <2>0 DEF Activation
  <2>2. SettlePass(l, a) /\ x.pc = "setup" /\ UNCHANGED db
    BY <1>11 DEF PassFetchFails
  <2> HIDE DEF a
  <2> QED
    BY <2>1, <2>2, SettledGood
<1>12. CASE BeginNode(l) \/ DropNode(l)
  <2>1. PICK n : loop' = [loop EXCEPT ![l].cur = n]
    BY <1>12 DEF BeginNode, DropNode
  <2>2. /\ loop'[l].pc = "pass" /\ loop'[l].batch = x.batch /\ loop'[l].stop = x.stop
        /\ loop'[l].resuming = x.resuming /\ loop'[l].frozen = x.frozen
        /\ loop'[l].refetched = x.refetched /\ loop'[l].todo = x.todo
        /\ x.pc = "pass" /\ UNCHANGED <<ctrl, db, disk, results>>
    BY <1>1, <1>12, <2>1 DEF BeginNode, DropNode, Inv, TypeOK, Activation
  <2>3. Good(l)' /\ Active(l)' /\ Quiet'
    BY <1>1, <2>2 DEF Good, Steered, Early, Own, Ahead, Counted, Seeded,
                            Sweeps, Sweeping, Active, Quiet
  <2>4. \A b \in BatchIds : db'[b].st = "open" => Sweeps(l)' /\ loop'[l].batch = b
    BY <1>2, <2>2 DEF Sweeps, Sweeping
  <2> QED
    BY <2>3, <2>4, StaysGood
<1>13. CASE RecordNode(l)
  <2>1. /\ loop' = [loop EXCEPT ![l].cur = None, ![l].todo = @ \ {x.cur}]
        /\ db' = IF x.batch = 0 THEN db
                 ELSE [db EXCEPT ![x.batch].rows = @ \cup {x.cur}]
        /\ results' = results \cup {x.cur}
        /\ x.pc = "pass" /\ UNCHANGED <<ctrl, disk>>
    BY <1>13 DEF RecordNode
  <2>2. /\ loop'[l].pc = "pass" /\ loop'[l].batch = x.batch /\ loop'[l].stop = x.stop
        /\ loop'[l].resuming = x.resuming /\ loop'[l].frozen = x.frozen
        /\ loop'[l].refetched = x.refetched /\ loop'[l].todo = x.todo \ {x.cur}
    BY <1>1, <2>1 DEF Inv, TypeOK, Activation
  <2>3. /\ x.batch > 0 => /\ db'[x.batch].st = db[x.batch].st
                          /\ db'[x.batch].snap = db[x.batch].snap
                          /\ db'[x.batch].rows = db[x.batch].rows \cup {x.cur}
        /\ \A c \in BatchIds : c # x.batch => db'[c] = db[c]
    BY <1>1, <2>1 DEF Inv, TypeOK, BatchIds, Batch
  <2>4. Good(l)' /\ Active(l)'
    <3>1. Steered(l)' /\ Early(l)' /\ Seeded(l)' /\ Active(l)'
      BY <1>1, <2>1, <2>2 DEF Good, Steered, Early, Seeded, Active
    <3>2. Own(l)' /\ Ahead(l)' /\ Counted(l)'
      <4>1. CASE x.batch > 0
        <5>1. db[x.batch].st = "open" /\ db[x.batch].snap = x.frozen
          BY <1>1, <2>1, <4>1 DEF Good, Own, Sweeps, Sweeping
        <5>2. ~x.refetched => x.todo \cap db[x.batch].rows = {}
          BY <1>1, <2>1, <4>1 DEF Good, Ahead, Sweeps, Sweeping
        <5>3. ~x.resuming => results = db[x.batch].rows
          BY <1>1, <2>1, <4>1 DEF Good, Counted, Sweeps, Sweeping
        <5> QED
          BY <2>1, <2>2, <2>3, <4>1, <5>1, <5>2, <5>3 DEF Own, Ahead, Counted
      <4>2. CASE ~(x.batch > 0)
        BY <2>2, <4>2 DEF Own, Ahead, Counted, Sweeps
      <4> QED
        BY <4>1, <4>2
    <3> QED
      BY <3>1, <3>2 DEF Good
  <2>5. Quiet'
    BY <1>1, <2>1, <2>3 DEF Quiet, BatchIds, Good, Own, Sweeps, Sweeping
  <2>6. \A b \in BatchIds : db'[b].st = "open" => Sweeps(l)' /\ loop'[l].batch = b
    BY <1>1, <1>2, <2>1, <2>2, <2>3 DEF Sweeps, Sweeping, BatchIds
  <2> QED
    BY <2>4, <2>5, <2>6, StaysGood
<1>14. CASE PassEnds(l)
  <2> DEFINE a == [x EXCEPT !.count = Cardinality(results)]
  <2>0. Cardinality(results) \in 0..Cardinality(Nodes)
    BY Counts DEF Inv, TypeOK
  <2>1. /\ a \in Activation /\ a.batch = x.batch /\ a.frozen = x.frozen /\ a.stop = x.stop
        /\ a.resuming = x.resuming /\ a.count = Cardinality(results)
    BY <1>1, <2>0 DEF Activation
  <2>2. SettlePass(l, a) /\ x.pc = "pass" /\ UNCHANGED db
    BY <1>14 DEF PassEnds
  <2>3. a.batch > 0 /\ ~a.resuming => a.count = Cardinality(db[a.batch].rows)
    BY <1>1, <2>1, <2>2 DEF Good, Counted, Sweeps, Sweeping
  <2> HIDE DEF a
  <2> QED
    BY <2>1, <2>2, <2>3, SettledGood
<1>15. CASE CollectTested(l)
  <2>1. PICK p : p = [batch |-> x.batch, frozen |-> x.frozen, tested |-> TestedAddrs(x.batch)]
    OBVIOUS
  <2>2. p \in Paused /\ p # None
    <3>1. TestedAddrs(x.batch) \in SUBSET Nodes
      BY <1>1 DEF TestedAddrs, Inv, TypeOK, Batch
    <3>2. p \in Paused
      BY <1>1, <2>1, <3>1 DEF Paused, Activation
    <3> QED
      BY <3>2, NullAssumption
  <2>3. PICK c : c = [ctrl EXCEPT !.pausedBatch = p]
    OBVIOUS
  <2>4. /\ c \in Ctrl /\ c.resumeIntent = None /\ c.paused = ctrl.paused
        /\ c.pausedBatch = p
    BY <1>3, <2>2, <2>3 DEF Ctrl
  <2>5. Halt(l, c) /\ x.pc = "collect" /\ UNCHANGED db
    BY <1>15, <2>1, <2>3 DEF CollectTested
  <2>6. ctrl.paused
    BY <1>1, <2>5 DEF Good, Steered
  <2>7. Exact(p)'
    BY <1>1, <2>1, <2>5 DEF Exact, Good, Own, Sweeps, Sweeping, TestedAddrs, BatchIds
  <2>8. \A b \in BatchIds : db'[b].st = "open" => Holds(c, b)
    BY <1>2, <2>1, <2>2, <2>4, <2>5 DEF Holds
  <2>9. \A b \in BatchIds : db'[b].st = "absent" => db'[b].rows = {}
    BY <1>1, <2>5 DEF Quiet
  <2> QED
    BY <2>4, <2>5, <2>6, <2>7, <2>8, <2>9, LeavesGood
<1>16. CASE CloseBatch(l)
  <2> DEFINE b == x.batch
             d == [db EXCEPT ![b] = [db[b] EXCEPT !.st = "finished", !.count = x.count]]
  <2>1. db' = Pruned(d, b) /\ x.pc = "close"
    BY <1>16 DEF CloseBatch
  <2>2. d \in [BatchIds -> Batch]
    <3>1. x.count \in 0..Cardinality(Nodes)
      BY <1>1 DEF Activation
    <3>2. \A a \in BatchIds : [db[a] EXCEPT !.st = "finished", !.count = x.count] \in Batch
      BY <3>1 DEF Inv, TypeOK, Batch
    <3> QED
      BY <3>2 DEF Inv, TypeOK
  <2>3. \A a \in BatchIds : d[a].st # "open" /\ (d[a].st = "absent" => d[a].rows = {})
    <3>1. \A a \in BatchIds : a # b => d[a] = db[a]
      BY DEF Inv, TypeOK
    <3>2. b \in BatchIds => d[b].st = "finished"
      BY DEF Inv, TypeOK, Batch
    <3> QED
      BY <1>1, <1>2, <3>1, <3>2 DEF Quiet
  <2>4. \A a \in BatchIds : db'[a].st # "open" /\ (db'[a].st = "absent" => db'[a].rows = {})
    <3>1. \A a \in BatchIds : db'[a] = d[a] \/ db'[a] = NoRow
      <4> HIDE DEF d
      <4> QED
        BY <2>1, <2>2 DEF Pruned
    <3> HIDE DEF d
    <3> QED
      BY <2>3, <3>1 DEF NoRow
  <2>5. ctrl.pausedBatch = None
    BY <1>1, <2>1 DEF Good, Seeded
  <2>6. CASE Halt(l, ctrl)
    BY <1>3, <2>4, <2>5, <2>6, LeavesGood
  <2>7. CASE loop' = [loop EXCEPT ![l].pc = "gap"] /\ UNCHANGED <<ctrl, disk>>
    <3>1. loop'[l].pc = "gap" /\ loop'[l].stop = x.stop
      BY <1>1, <2>7 DEF Inv, TypeOK, Activation
    <3>2. Good(l)' /\ Active(l)'
      BY <1>1, <2>5, <2>7, <3>1 DEF Good, Steered, Early, Own, Ahead, Counted, Seeded,
                              Sweeps, Sweeping, Active
    <3>3. Quiet'
      BY <1>1, <2>4, <2>7 DEF Quiet
    <3> QED
      BY <2>4, <3>2, <3>3, StaysGood
  <2> QED
    BY <1>16, <2>6, <2>7 DEF CloseBatch
<1>17. CASE GapOver(l)
  BY <1>17, TopGood DEF GapOver, Sweeps, Sweeping
<1> QED
  BY <1>4, <1>5, <1>6, <1>7, <1>8, <1>9, <1>10, <1>11, <1>12, <1>13,
     <1>14, <1>15, <1>16, <1>17 DEF LoopStep
LEMMA BatchesInit == Init => Batches
BY DEF Init, Batches, Quiet, Owned, PauseKept, Good, Steered, Early, Own, Ahead, Counted,
       Seeded, Sweeps, Sweeping, Active, FreshCtrl, Persisted, Returned, NoRow

\* A launch while nothing runs: fresh, or with the intent a settled pause left.
LEMMA LaunchGood ==
  ASSUME Inv, Inv', Batches, NEW c \in Ctrl, Launch(c), ~ctrl.running, up',
         c.pausedBatch = None, ~c.paused,
         c.resumeIntent # None => Exact(c.resumeIntent)',
         \A b \in BatchIds : db'[b].st = "open" => c.resumeIntent # None /\ c.resumeIntent.batch = b,
         \A b \in BatchIds : db'[b].st = "absent" => db'[b].rows = {}
  PROVE  Batches'
<1> DEFINE d == [c EXCEPT !.running = TRUE, !.stopRequested = FALSE, !.iteration = 0]
<1>1. PICK l \in Loops : disk' = Persisted(d) /\ EnterIteration(l, d)
  BY DEF Launch
<1>2. /\ d.stopRequested = FALSE /\ d.pausedBatch = None /\ d.paused = FALSE
      /\ d.resumeIntent = c.resumeIntent /\ d \in Ctrl
  <2>1. 0 \in 0..MaxIterations
    BY LoopAssumption
  <2> QED
    BY <2>1 DEF Ctrl
<1> HIDE DEF d
<1>3. /\ ctrl'.stopRequested = FALSE /\ ctrl'.pausedBatch = None
      /\ ctrl'.loopState = l /\ ctrl'.resumeIntent = None
  BY <1>1, <1>2 DEF EnterIteration, Ctrl
<1>4. Active(l)' /\ loop'[l].pc \in {"snapshot", "seed"}
  BY <1>1 DEF EnterIteration, Active, Inv, TypeOK, Returned
<1>5. \A m \in Loops \ {l} : ~Active(m)'
  BY <1>4 DEF Inv, OneLoop, Active
<1>6. \A m \in Loops \ {l} : Good(m)'
  BY <1>5 DEF Active, Good, Steered, Early, Own, Ahead, Counted, Seeded, Sweeps, Sweeping
<1>7. ctrl'.running
  BY <1>4 DEF Inv, OneLoop
<1>8. Quiet' /\ PauseKept'
  BY <1>1, <1>2, <1>3, <1>7 DEF Quiet, PauseKept, Batches, Persisted
<1>9. CASE c.resumeIntent = None
  <2>1. /\ loop'[l].pc = "snapshot" /\ loop'[l].batch = 0 /\ loop'[l].resuming = FALSE
    BY <1>1, <1>2, <1>9 DEF EnterIteration, Inv, TypeOK, Returned
  <2>2. Good(l)'
    BY <1>3, <2>1 DEF Good, Steered, Early, Own, Ahead, Counted, Seeded, Sweeps, Sweeping
  <2>3. Owned'
    BY <1>9 DEF Owned
  <2> QED
    BY <1>6, <1>8, <2>2, <2>3 DEF Batches
<1>10. CASE c.resumeIntent # None
  <2> DEFINE p == c.resumeIntent
  <2>0. p \in Paused
    BY <1>10 DEF Ctrl
  <2>1. /\ loop'[l].pc = "seed" /\ loop'[l].batch = p.batch /\ loop'[l].resuming = TRUE
        /\ loop'[l].frozen = p.frozen /\ loop'[l].todo = p.frozen \ p.tested
    BY <1>1, <1>2, <1>10 DEF EnterIteration, Inv, TypeOK, Returned, Remainder
  <2>2. Good(l)'
    BY <1>3, <1>10, <2>1 DEF Good, Steered, Early, Own, Ahead, Counted, Seeded, Sweeps, Sweeping, Exact
  <2>3. Owned'
    BY <1>10, <2>1 DEF Owned, Sweeps, Sweeping, BatchIds
  <2> QED
    BY <1>6, <1>8, <2>2, <2>3 DEF Batches
<1> QED
  BY <1>9, <1>10

LEMMA RequestStopGood ==
  ASSUME Inv, Inv', Batches, NEW c \in Ctrl, RequestStop(c), ctrl.running,
         UNCHANGED <<db, results, disk, up>>,
         c.resumeIntent = ctrl.resumeIntent, c.pausedBatch = ctrl.pausedBatch,
         c.loopState = ctrl.loopState, ctrl.paused => c.paused
  PROVE  Batches'
<1>1. PICK l \in Loops : Active(l)
  BY DEF Inv, OneLoop
<1>2. Good(l) /\ ctrl.loopState = l /\ up /\ loop[l] \in Activation /\ Quiet
  BY <1>1 DEF Batches, Good, Steered, Inv, TypeOK, OneLoop
<1>3. ctrl' = c /\ loop' = [loop EXCEPT ![l].stop = TRUE]
  BY <1>2, LoopAssumption DEF RequestStop
<1>4. /\ loop'[l].stop = TRUE /\ loop'[l].pc = loop[l].pc /\ loop'[l].batch = loop[l].batch
      /\ loop'[l].resuming = loop[l].resuming /\ loop'[l].frozen = loop[l].frozen
      /\ loop'[l].todo = loop[l].todo /\ loop'[l].refetched = loop[l].refetched
      /\ loop'[l].count = loop[l].count /\ loop'[l].threw = loop[l].threw
  BY <1>2, <1>3 DEF Inv, TypeOK, Activation
<1>5. Good(l)' /\ Active(l)'
  BY <1>1, <1>2, <1>3, <1>4 DEF Good, Steered, Early, Own, Ahead, Counted, Seeded, Sweeps, Sweeping, Active
<1>6. \A m \in Loops \ {l} : Good(m)'
  <2>1. \A m \in Loops \ {l} : ~Active(m)'
    BY <1>5 DEF Inv, OneLoop, Active
  <2> QED
    BY <2>1 DEF Active, Good, Steered, Early, Own, Ahead, Counted, Seeded, Sweeps, Sweeping
<1>7. ctrl'.running
  BY <1>5 DEF Inv, OneLoop
<1>8. Quiet' /\ PauseKept'
  BY <1>2, <1>3, <1>7 DEF Quiet, PauseKept
<1>9. Owned'
  <2>1. \A b \in BatchIds : db[b].st = "open" => Sweeps(l)' /\ loop'[l].batch = b
    BY <1>1, <1>4, TheOwner DEF Sweeps
  <2> QED
    BY <2>1 DEF Owned
<1> QED
  BY <1>5, <1>6, <1>8, <1>9 DEF Batches

\* Between two runs only the results array may change.
LEMMA RestGood ==
  ASSUME Inv, Inv', Batches, ~ctrl.running, UNCHANGED <<ctrl, loop, db, disk, up>>
  PROVE  Batches'
<1>1. \A m \in Loops : ~Active(m)'
  BY DEF Inv, OneLoop, Active
<1>2. \A m \in Loops : Good(m)'
  BY <1>1 DEF Active, Good, Steered, Early, Own, Ahead, Counted, Seeded, Sweeps, Sweeping
<1> QED
  BY <1>2 DEF Batches, Quiet, Owned, Holds, Sweeps, PauseKept, Exact

LEMMA EnvironmentGood ==
  ASSUME EagerResume = FALSE, Inv, Inv', Batches, Environment
  PROVE  Batches'
<1>1. /\ ctrl \in Ctrl /\ ctrl.resumeIntent = None
      /\ TypeOK /\ Quiet /\ PauseKept
  BY DEF Batches, Quiet, Inv, TypeOK
<1>2. ~ctrl.running => \A b \in BatchIds : up /\ db[b].st = "open" => Holds(ctrl, b)
  BY DEF Batches, Owned, Inv, OneLoop, Active, Sweeps, Sweeping
<1>3. CASE Start
  <2>1. /\ up /\ up' /\ ~ctrl.running /\ ~ctrl.paused /\ Launch(ctrl)
        /\ UNCHANGED <<db, results>>
    BY <1>3 DEF Start
  <2>2. ctrl.pausedBatch = None
    BY <1>1, <2>1 DEF PauseKept
  <2>3. \A b \in BatchIds : db'[b].st = "absent" => db'[b].rows = {}
    BY <1>1, <2>1 DEF Quiet
  <2> QED
    BY <1>1, <1>2, <2>1, <2>2, <2>3, LaunchGood DEF Holds
<1>4. CASE Resume
  <2>1. PICK c : c = [ctrl EXCEPT !.resumeIntent = ctrl.pausedBatch,
                                  !.paused = FALSE, !.pausedBatch = None]
    OBVIOUS
  <2>2. /\ c \in Ctrl /\ c.resumeIntent = ctrl.pausedBatch /\ c.paused = FALSE
        /\ c.pausedBatch = None
    BY <1>1, <2>1 DEF Ctrl
  <2>3. /\ up /\ up' /\ ~ctrl.running /\ ctrl.pausedBatch # None /\ Launch(c)
        /\ UNCHANGED <<db, results>>
    BY <1>4, <2>1 DEF Resume
  <2>4. Exact(c.resumeIntent)'
    BY <1>1, <2>2, <2>3 DEF PauseKept, Exact
  <2>5. \A b \in BatchIds : db'[b].st = "absent" => db'[b].rows = {}
    BY <1>1, <2>3 DEF Quiet
  <2> QED
    BY <1>2, <2>2, <2>3, <2>4, <2>5, LaunchGood DEF Holds
<1>5. CASE Stop \/ Pause \/ Shutdown
  <2>1. PICK c \in Ctrl : /\ RequestStop(c)
                          /\ c.resumeIntent = ctrl.resumeIntent
                          /\ c.pausedBatch = ctrl.pausedBatch
                          /\ c.loopState = ctrl.loopState
                          /\ ctrl.paused => c.paused
    <3>1. PICK s : s = [ctrl EXCEPT !.stopRequested = TRUE]
      OBVIOUS
    <3>2. PICK p : p = [ctrl EXCEPT !.stopRequested = TRUE, !.paused = TRUE]
      OBVIOUS
    <3>3. /\ s \in Ctrl /\ s.resumeIntent = ctrl.resumeIntent
          /\ s.pausedBatch = ctrl.pausedBatch /\ s.loopState = ctrl.loopState
          /\ s.paused = ctrl.paused
      BY <1>1, <3>1 DEF Ctrl
    <3>4. /\ p \in Ctrl /\ p.resumeIntent = ctrl.resumeIntent
          /\ p.pausedBatch = ctrl.pausedBatch /\ p.loopState = ctrl.loopState
          /\ p.paused = TRUE
      BY <1>1, <3>2 DEF Ctrl
    <3>5. RequestStop(s) \/ RequestStop(p)
      BY <1>5, <3>1, <3>2 DEF Stop, Pause, Shutdown
    <3> QED
      BY <3>3, <3>4, <3>5
  <2>2. ctrl.running /\ UNCHANGED <<db, results, disk, up>>
    BY <1>5 DEF Stop, Pause, Shutdown
  <2> QED
    BY <2>1, <2>2, RequestStopGood
<1>6. CASE Crash
  <2>1. \A l \in Loops : Good(l)'
    BY <1>6 DEF Crash, Good, Steered, Early, Own, Ahead, Counted, Seeded, Sweeps, Sweeping,
                Active, Returned
  <2> QED
    BY <1>1, <1>6, <2>1 DEF Crash, Batches, Quiet, Owned, PauseKept, FreshCtrl
<1>7. CASE Boot
  <2>1. ~up /\ up' /\ ctrl = FreshCtrl /\ db' = OrphansClosed(db)
    BY <1>1, <1>7 DEF Boot, Quiet
  <2>2. /\ ctrl.running = FALSE /\ ctrl.paused = FALSE /\ ctrl.pausedBatch = None
    BY <2>1 DEF FreshCtrl
  <2>3. \A b \in BatchIds : /\ db'[b].st # "open"
                            /\ db'[b].st = "absent" => db'[b].rows = {}
    <3>1. \A b \in BatchIds : db[b] \in Batch
      BY <1>1 DEF TypeOK
    <3> QED
      BY <1>1, <2>1, <3>1 DEF OrphansClosed, Quiet, Batch
  <2>4. CASE Launch(ctrl)
    BY <1>1, <2>1, <2>2, <2>3, <2>4, LaunchGood
  <2>5. CASE UNCHANGED <<ctrl, loop, disk>>
    <3>1. \A m \in Loops : ~Active(m)'
      BY <2>2, <2>5 DEF Inv, OneLoop, Active
    <3>2. \A m \in Loops : Good(m)'
      BY <3>1 DEF Active, Good, Steered, Early, Own, Ahead, Counted, Seeded, Sweeps, Sweeping
    <3> QED
      BY <1>1, <2>1, <2>2, <2>3, <2>5, <3>2 DEF Batches, Quiet, Owned, PauseKept
  <2> QED
    BY <1>1, <1>7, <2>4, <2>5 DEF Boot, Quiet
<1>8. CASE OtherAudit
  BY <1>8, RestGood DEF OtherAudit
<1> QED
  BY <1>3, <1>4, <1>5, <1>6, <1>7, <1>8 DEF Environment
IInv == Inv /\ Batches

LEMMA IInvStep ==
  ASSUME EagerResume = FALSE, IInv, [Next]_vars
  PROVE  IInv'
<1>1. Inv /\ Inv' /\ Batches
  BY OneLoopStep DEF IInv
<1>2. CASE UNCHANGED vars
  BY <1>1, <1>2 DEF IInv, vars, Batches, Quiet, Owned, PauseKept, Good, Steered, Early, Own, Ahead,
                 Counted, Seeded, Exact, Holds, Sweeps, Active
<1>3. CASE Next
  BY <1>1, <1>3, StepGood, EnvironmentGood DEF Next, IInv
<1> QED
  BY <1>2, <1>3

THEOREM Accounting ==
  ASSUME EagerResume = FALSE
  PROVE  Spec => []IInv
<1>1. Init => IInv
  BY OneLoopInit, BatchesInit DEF IInv
<1>2. IInv /\ [Next]_vars => IInv'
  BY IInvStep
<1> QED
  BY <1>1, <1>2, PTL DEF Spec

\* Nothing is paid for twice: a sweep of the batch's own list never holds a node
\* the batch has recorded, through any number of pauses and resumes.
THEOREM NothingRetested ==
  ASSUME EagerResume = FALSE
  PROVE  Spec => []NoRetest
<1>1. IInv => NoRetest
  BY DEF IInv, Batches, Good, Ahead, NoRetest, Sweeps, Sweeping
<1> QED
  BY <1>1, Accounting, PTL

\* A settled pause holds an open row, its snapshot and exactly its rows.
THEOREM PauseRemembers ==
  ASSUME EagerResume = FALSE
  PROVE  Spec => []PausedBatchExact
<1>1. IInv => PausedBatchExact
  BY DEF IInv, Batches, PauseKept, Exact, PausedBatchExact
<1> QED
  BY <1>1, Accounting, PTL

\* While the process is up every open row belongs to the loop or to the pause.
THEOREM OpenBatchesAreOwned ==
  ASSUME EagerResume = FALSE
  PROVE  Spec => []NoOrphanBatch
<1>1. IInv => NoOrphanBatch
  BY DEF IInv, Batches, Owned, NoOrphanBatch, Active, Sweeps, Sweeping
<1> QED
  BY <1>1, Accounting, PTL
-----------------------------------------------------------------------------
(* What a step may do to a node and to a batch row.                          *)

Begins(l) == loop[l].cur = None /\ loop'[l].cur # None

LEMMA SettleBeginsNone ==
  ASSUME TypeOK, NEW l \in Loops, NEW a \in Activation, SettlePass(l, a), a.cur = loop[l].cur
  PROVE  ~Begins(l)
<1>1. \A p \in PCs : [a EXCEPT !.pc = p].cur = a.cur
  BY DEF Activation
<1>2. Returned.cur = None
  BY DEF Returned
<1> QED
  BY <1>1, <1>2 DEF SettlePass, Halt, Begins, TypeOK, PCs

LEMMA TopBeginsNone ==
  ASSUME TypeOK, NEW l \in Loops, LoopTop(l)
  PROVE  ~Begins(l)
<1>1. Returned.cur = None
  BY DEF Returned
<1>2. CASE Halt(l, ctrl)
  BY <1>1, <1>2 DEF Halt, Begins, TypeOK
<1>3. CASE EnterIteration(l, ctrl)
  <2>1. CASE ctrl.resumeIntent = None
    BY <1>3, <2>1 DEF EnterIteration, Returned, Begins, TypeOK
  <2>2. CASE ctrl.resumeIntent # None
    BY <1>3, <2>2 DEF EnterIteration, Returned, Begins, TypeOK
  <2> QED
    BY <2>1, <2>2
<1> QED
  BY <1>2, <1>3 DEF LoopTop

\* Only BeginNode begins a node, and it reads loopState.stopRequested first.
LEMMA BeginsUnstopped ==
  ASSUME TypeOK, NEW l \in Loops, LoopStep(l), Begins(l)
  PROVE  ~loop[l].stop /\ Active(l)
<1> DEFINE x == loop[l]
<1>1. x \in Activation
  BY DEF TypeOK
<1>2. CASE BeginNode(l)
  BY <1>2 DEF BeginNode, Active
<1>3. CASE \/ SnapshotResolved(l) \/ OpenBatch(l) \/ SeedResumed(l) \/ PassScans(l)
           \/ RecordNode(l) \/ DropNode(l)
  <2>0. CASE SnapshotResolved(l)
    <3>1. PICK S : loop' = [loop EXCEPT ![l].pc = "open", ![l].frozen = S, ![l].todo = S]
      BY <2>0 DEF SnapshotResolved
    <3> QED
      BY <1>1, <3>1 DEF Begins, TypeOK, Activation
  <2>1. CASE SeedResumed(l)
    BY <1>1, <2>1 DEF SeedResumed, Begins, TypeOK, Activation
  <2>2. CASE OpenBatch(l)
    <3>1. PICK b : loop' = [loop EXCEPT ![l].pc = "setup", ![l].batch = b]
      BY <2>2 DEF OpenBatch
    <3> QED
      BY <1>1, <3>1 DEF Begins, TypeOK, Activation
  <2>3. CASE PassScans(l)
    <3>1. PICK S : loop' = [loop EXCEPT ![l].pc = "pass", ![l].refetched = loop[l].todo = {},
                                        ![l].todo = S]
      BY <2>3 DEF PassScans
    <3> QED
      BY <1>1, <3>1 DEF Begins, TypeOK, Activation
  <2>4. CASE RecordNode(l) \/ DropNode(l)
    BY <1>1, <2>4 DEF RecordNode, DropNode, Begins, TypeOK, Activation
  <2> QED
    BY <1>3, <2>0, <2>1, <2>2, <2>3, <2>4
<1>4. CASE SnapshotFailed(l) \/ CollectTested(l) \/ CloseBatch(l)
  BY <1>1, <1>4 DEF SnapshotFailed, CollectTested, CloseBatch, Halt, Returned, Begins, TypeOK,
                    Activation
<1>5. CASE RetrySnapshot(l) \/ GapOver(l)
  BY <1>5, TopBeginsNone DEF RetrySnapshot, GapOver
<1>6. CASE PassRejects(l)
  <2>1. [x EXCEPT !.threw = TRUE] \in Activation /\ [x EXCEPT !.threw = TRUE].cur = x.cur
    BY <1>1 DEF Activation
  <2> QED
    BY <1>6, <2>1, SettleBeginsNone DEF PassRejects
<1>7. CASE PassFetchFails(l)
  <2> DEFINE a == [x EXCEPT !.threw = TRUE, !.count = Cardinality(results')]
  <2>1. results' \in SUBSET Nodes
    BY <1>7 DEF PassFetchFails, Kept, TypeOK
  <2>2. a \in Activation /\ a.cur = x.cur
    BY <1>1, <2>1, Counts DEF Activation
  <2> QED
    BY <1>7, <2>2, SettleBeginsNone DEF PassFetchFails
<1>8. CASE PassEnds(l)
  <2> DEFINE a == [x EXCEPT !.count = Cardinality(results)]
  <2>1. a \in Activation /\ a.cur = x.cur
    BY <1>1, Counts DEF TypeOK, Activation
  <2> QED
    BY <1>8, <2>1, SettleBeginsNone DEF PassEnds
<1> QED
  BY <1>2, <1>3, <1>4, <1>5, <1>6, <1>7, <1>8 DEF LoopStep

\* Nothing an operator or the process does begins a node.
LEMMA EnvironmentBeginsNone ==
  ASSUME TypeOK, NEW l \in Loops, Environment
  PROVE  ~Begins(l)
<1>1. ASSUME NEW c, Launch(c) PROVE ~Begins(l)
  BY <1>1 DEF Launch, EnterIteration, Returned, Begins, TypeOK
<1>2. ASSUME NEW c, RequestStop(c) PROVE ~Begins(l)
  <2>1. \A m \in Loops : loop[m] \in Activation
    BY DEF TypeOK
  <2> QED
    BY <1>2, <2>1 DEF RequestStop, Begins, TypeOK, Activation
<1>3. CASE Start \/ Resume \/ Boot
  BY <1>1, <1>3 DEF Start, Resume, Boot, Begins
<1>4. CASE Stop \/ Pause \/ Shutdown
  BY <1>2, <1>4 DEF Stop, Pause, Shutdown
<1>5. CASE Crash \/ OtherAudit
  BY <1>5 DEF Crash, OtherAudit, Returned, Begins
<1> QED
  BY <1>3, <1>4, <1>5 DEF Environment

\* Once a stop or a pause is accepted no further node is begun, wherever the loop
\* was parked when it arrived.
THEOREM StopIsObeyed ==
  ASSUME EagerResume = FALSE
  PROVE  Spec => StopStartsNoNode
<1>1. IInv /\ [Next]_vars =>
        [\A l \in Loops : loop[l].cur = None /\ loop'[l].cur # None => ~ctrl.stopRequested]_vars
  <2> SUFFICES ASSUME IInv, Next, NEW l \in Loops, Begins(l) PROVE ~ctrl.stopRequested
    BY DEF Begins
  <2>1. TypeOK
    BY DEF IInv, Inv
  <2>2. PICK m \in Loops : LoopStep(m)
    BY <2>1, EnvironmentBeginsNone DEF Next
  <2>3. m = l
    BY <2>1, <2>2, StepEffect DEF Begins
  <2>4. ~loop[l].stop /\ Active(l)
    BY <2>1, <2>2, <2>3, BeginsUnstopped
  <2> QED
    BY <2>4 DEF IInv, Batches, Good, Steered
<1> QED
  BY <1>1, Accounting, PTL DEF Spec, StopStartsNoNode

\* What one step does to the rows of one batch.
RowStep(b) ==
  /\ db'[b].rows # db[b].rows => db[b].st = "open" \/ db'[b].st = "absent"
  /\ db[b].st = "open" => db'[b].st # "absent"

CountStep(l) ==
  LET b == loop[l].batch
  IN /\ loop[l].pc = "close" /\ ~loop[l].threw /\ ~loop[l].resuming
     /\ up' /\ db[b].st = "open" /\ db'[b].st = "finished"
     => db'[b].count = Cardinality(db'[b].rows)

LEMMA StepRows ==
  ASSUME IInv, NEW l \in Loops, LoopStep(l)
  PROVE  /\ \A b \in BatchIds : RowStep(b)
         /\ CountStep(l)
<1> DEFINE x == loop[l]
<1>1. /\ TypeOK /\ Batches /\ Quiet /\ Good(l) /\ x \in Activation
  BY DEF IInv, Inv, Batches, TypeOK
<1>2. CASE UNCHANGED db
  BY <1>2 DEF RowStep, CountStep
<1>3. CASE OpenBatch(l)
  <2>1. PICK b \in {0} \cup BatchIds :
          /\ b > 0 => NextBatchId(b)
          /\ db' = IF b = 0 THEN db
                   ELSE [db EXCEPT ![b] = [NoRow EXCEPT !.st = "open", !.snap = x.frozen]]
    BY <1>3 DEF OpenBatch
  <2>2. b > 0 => /\ db[b].st = "absent" /\ db[b].rows = {}
                 /\ db'[b].st = "open" /\ db'[b].rows = {}
    BY <1>1, <2>1 DEF TypeOK, Quiet, NoRow, NextBatchId, BatchIds
  <2>3. \A a \in BatchIds : a # b => db'[a] = db[a]
    BY <1>1, <2>1 DEF TypeOK
  <2>4. \A a \in BatchIds : RowStep(a)
    <3>1. b \in BatchIds => RowStep(b)
      BY <2>2 DEF RowStep, BatchIds
    <3> QED
      BY <2>3, <3>1 DEF RowStep
  <2>5. x.pc = "open"
    BY <1>3 DEF OpenBatch
  <2> QED
    BY <2>4, <2>5 DEF CountStep
<1>4. CASE RecordNode(l)
  <2>1. /\ db' = IF x.batch = 0 THEN db
                 ELSE [db EXCEPT ![x.batch].rows = @ \cup {x.cur}]
        /\ x.pc = "pass"
    BY <1>4 DEF RecordNode
  <2>2. /\ \A a \in BatchIds : a # x.batch => db'[a] = db[a]
        /\ x.batch \in BatchIds => db'[x.batch].st = db[x.batch].st
    BY <1>1, <2>1 DEF TypeOK, Batch
  <2>3. x.batch \in BatchIds => db[x.batch].st = "open"
    BY <1>1, <2>1 DEF Good, Own, Sweeps, Sweeping, BatchIds
  <2> QED
    BY <2>1, <2>2, <2>3 DEF RowStep, CountStep
<1>5. CASE CloseBatch(l)
  <2> DEFINE b == x.batch
             d == [db EXCEPT ![b] = [db[b] EXCEPT !.st = "finished", !.count = x.count]]
  <2>1. db' = Pruned(d, b) /\ x.pc = "close"
    BY <1>5 DEF CloseBatch
  <2>2. d \in [BatchIds -> Batch]
    <3>1. x.count \in 0..Cardinality(Nodes)
      BY <1>1 DEF Activation
    <3>2. \A a \in BatchIds : [db[a] EXCEPT !.st = "finished", !.count = x.count] \in Batch
      BY <1>1, <3>1 DEF TypeOK, Batch
    <3> QED
      BY <1>1, <3>2 DEF TypeOK
  <2>3. /\ \A a \in BatchIds : a # b => d[a] = db[a]
        /\ b \in BatchIds => d[b].st = "finished" /\ d[b].rows = db[b].rows /\ d[b].count = x.count
    BY <1>1 DEF TypeOK, Batch
  <2>4. /\ b \in BatchIds => db'[b] = d[b]
        /\ \A a \in BatchIds : d[a].st = "open" => db'[a] = d[a]
        /\ \A a \in BatchIds : db'[a] \in {d[a], NoRow}
    <3> HIDE DEF d
    <3> QED
      BY <2>1, <2>2 DEF Pruned
  <2>5. b \in BatchIds /\ ~x.threw /\ ~x.resuming => x.count = Cardinality(db[b].rows)
    BY <1>1, <2>1 DEF Good, Counted, Sweeps, Sweeping, BatchIds
  <2>6. b \in BatchIds
    BY <1>1, <2>1 DEF Activation, Good, Early
  <2> HIDE DEF d
  <2>7. \A a \in BatchIds : RowStep(a)
    BY <2>3, <2>4 DEF RowStep, NoRow
  <2> QED
    BY <2>3, <2>4, <2>5, <2>6, <2>7 DEF CountStep
<1> QED
  BY <1>2, <1>3, <1>4, <1>5 DEF LoopStep, SnapshotResolved, SnapshotFailed, RetrySnapshot, SeedResumed, PassRejects,
         PassScans, PassFetchFails, BeginNode, DropNode, PassEnds, CollectTested, GapOver

LEMMA EnvironmentRows ==
  ASSUME IInv, Environment
  PROVE  /\ \A b \in BatchIds : RowStep(b)
         /\ \A l \in Loops : CountStep(l)
<1>1. CASE UNCHANGED db
  BY <1>1 DEF RowStep, CountStep
<1>2. CASE Boot
  <2>1. \A l \in Loops : loop[l].pc = "idle"
    BY <1>2 DEF Boot, IInv, Inv, OneLoop, Active
  <2>2. \A b \in BatchIds : db[b] \in Batch
    BY DEF IInv, Inv, TypeOK
  <2> QED
    BY <1>2, <2>1, <2>2 DEF Boot, OrphansClosed, RowStep, CountStep, Batch
<1> QED
  BY <1>1, <1>2 DEF Environment, Start, Stop, Pause, Resume, Shutdown, Crash, OtherAudit

\* Rows are only added to open batches, an open batch survives every prune, and
\* a fresh sweep that was not rejected closes with the count of its rows.
THEOREM BatchesCloseExactly ==
  ASSUME EagerResume = FALSE
  PROVE  Spec => ClosedBatchFrozen
<1>1. IInv /\ [Next]_vars => [\A l \in Loops : CountStep(l)]_vars /\ [\A b \in BatchIds : RowStep(b)]_vars
  <2> SUFFICES ASSUME IInv, Next
               PROVE  (\A l \in Loops : CountStep(l)) /\ (\A b \in BatchIds : RowStep(b))
    OBVIOUS
  <2>1. CASE Environment
    BY <2>1, EnvironmentRows
  <2>2. ASSUME NEW m \in Loops, LoopStep(m)
        PROVE  (\A l \in Loops : CountStep(l)) /\ (\A b \in BatchIds : RowStep(b))
    <3>1. \A l \in Loops \ {m} : CountStep(l)
      BY <2>2, StepEffect DEF IInv, Inv, OneLoop, Active, CountStep
    <3> QED
      BY <2>2, <3>1, StepRows
  <2> QED
    BY <2>1, <2>2 DEF Next
<1> QED
  BY <1>1, Accounting, PTL DEF Spec, ClosedBatchFrozen, ClosedCountExact, RowStep, CountStep
=============================================================================
