------------------------------ MODULE PlanRuns ------------------------------
(***************************************************************************)
(* Tests of the nodes of a plan: runSubPlanTest, whose sessions the plan    *)
(* owner's fee grant pays for (or the wallet, when it is the owner), and    *)
(* the older runPlanTest, which subscribes and pays itself; the handlers    *)
(* that launch, repeat, resume and stop them; and the batch each pass       *)
(* writes.                                                                  *)
(*                                                                          *)
(* A pass is cut at its awaits.  AuditControl has the passes that overlap   *)
(* and those that park; here a request comes when no pass is in flight.     *)
(* There is one plan.                                                       *)
(***************************************************************************)
EXTENDS BatchTracking

CONSTANTS
  Nobody,     \* no node
  Faults,     \* what goes wrong beside refusals and dead nodes
  MaxPasses,  \* bound on the passes
  MaxDeaths,  \* bound on the deaths of the process
  MaxLeavers, \* bound on the nodes the plan loses
  MaxFresh    \* a test pays for a fresh session while the run has cost less

\* "rpc": a query of the plan's nodes fails after the first one; "conflict": a
\* node keeps answering that the session exists, so the test pays for another.
ASSUME PlanAssumption == Faults \subseteq {"rpc", "conflict"} /\ Nobody \notin Nodes

VARIABLES
  state,    \* the fields of the shared state object the passes work with
  results,  \* the working rows
  pass,     \* the pass in flight
  wrapper,  \* its batch wrapper
  batches,  \* the batches table
  disk,     \* results.json and the spend in the snapshot
  chain,    \* members of the plan, the fee grant, the wallet's subscription
  ledger    \* what the wallet paid for the run, and what befell the run

vars == <<state, results, pass, wrapper, batches, disk, chain, ledger>>

Verdicts == {"none", "pass", "fail", "evicted"}
Points == {"off", "setup", "check", "fetch", "next", "session", "testing", "retesting"}
Off == [at |-> "off", kind |-> "sub", resume |-> FALSE, loop |-> FALSE,
        todo |-> {}, first |-> Nobody, known |-> {}, node |-> Nobody]

\* createState
Blank == [status |-> "idle", stop |-> FALSE, again |-> FALSE, total |-> 0,
          tested |-> 0, failed |-> 0, active |-> 0, head |-> Nobody,
          granter |-> "none", spent |-> 0]

Init ==
  /\ state = Blank
  /\ results = [n \in Nodes |-> "none"]
  /\ pass = Off /\ wrapper = Unopened /\ batches = <<>>
  /\ disk = [rows |-> results, spent |-> 0]
  /\ chain \in [members : {Nodes}, granted : {TRUE},
                subscribed : BOOLEAN]
  /\ ledger = [paid |-> 0, passes |-> 0, deaths |-> 0, cut |-> Nobody,
               mixed |-> FALSE, bounced |-> FALSE, early |-> FALSE]

-----------------------------------------------------------------------------
Rows == {n \in Nodes : results[n] # "none"}

\* recomputeCounters over a working set.
Passed(rows) == Cardinality({n \in Nodes : rows[n] = "pass"})
Failed(rows) == Cardinality({n \in Nodes : rows[n] \in {"fail", "evicted"}})
Recounted(s, rows) == [s EXCEPT !.tested = Passed(rows), !.failed = Failed(rows)]

NoRows == [n \in Nodes |-> "none"]

\* A state event of the pass, under the status it has by then; it also reaches
\* the snapshot.
StateEvent(s) ==
  /\ batches' = AfterState(batches, wrapper, s.status, s.tested, s.failed)
  /\ wrapper' = [wrapper EXCEPT !.closed = @ \/ Closes(wrapper, s.status)]
  /\ disk' = [disk EXCEPT !.spent = s.spent]

-----------------------------------------------------------------------------
(* Launches                                                                *)

Quiet == pass.at = "off" /\ ledger.passes < MaxPasses

\* startFreshRun: the rows go (saved under their number), the counters too.
Fresh(s) ==
  [s EXCEPT !.stop = FALSE, !.total = 0, !.tested = 0, !.failed = 0, !.spent = 0]

NewRun(l) == [l EXCEPT !.paid = 0, !.passes = @ + 1, !.cut = Nobody,
                       !.mixed = FALSE, !.bounced = FALSE, !.early = FALSE]

\* The bound on passes ends a repetition that would go on.
Repeats == ledger.passes + 2 <= MaxPasses

\* POST /api/test-sub-plan: a fresh run with a batch of its own.
TestSubPlan(granter, again) ==
  /\ Quiet /\ (again => Repeats)
  /\ state' = [Fresh(state) EXCEPT !.status = "running", !.again = again,
                 !.granter = granter, !.active = 0, !.head = Nobody]
  /\ results' = NoRows
  /\ pass' = [Off EXCEPT !.at = "setup", !.loop = TRUE]
  /\ wrapper' = Unopened
  /\ disk' = [disk EXCEPT !.spent = 0]
  /\ ledger' = NewRun(ledger)
  /\ UNCHANGED <<batches, chain>>

\* POST /api/test-plan: no fresh run; its rows go among those on display.
TestPlan ==
  /\ Quiet
  /\ state' = [Recounted(state, results) EXCEPT !.status = "running", !.stop = FALSE,
                                                !.total = 0]
  /\ disk' = [disk EXCEPT !.spent = state.spent]
  /\ pass' = [Off EXCEPT !.at = "setup", !.kind = "plan"]
  /\ wrapper' = Unopened
  /\ ledger' = [ledger EXCEPT !.passes = @ + 1, !.mixed = TRUE]
  /\ UNCHANGED <<results, batches, chain>>

\* POST /api/resume asks for rows, and for nodes the counters do not show done.
Resumable ==
  /\ Rows # {}
  /\ state.total > state.tested + state.failed

\* Mutant: the resume does not hand the batch of the stopped pass on.
Handed_None == 0
Handed == state.active

Resume ==
  /\ Quiet /\ Resumable /\ state.granter # "none"
  /\ state' = [Recounted(state, results) EXCEPT !.status = "running", !.stop = FALSE]
  /\ pass' = [Off EXCEPT !.at = "setup", !.resume = TRUE]
  /\ wrapper' = Attached(Handed)
  /\ batches' = Reopened(batches, Handed)
  /\ disk' = [disk EXCEPT !.spent = state.spent]
  /\ ledger' = [ledger EXCEPT !.passes = @ + 1]
  /\ UNCHANGED <<results, chain>>

\* A plan test left no subscription and no granter to resume with.
ResumeRefused ==
  /\ Quiet /\ Resumable /\ state.granter = "none"
  /\ state.status # "error"
  /\ state' = [state EXCEPT !.status = "error", !.stop = FALSE]
  /\ UNCHANGED <<results, pass, wrapper, batches, disk, chain, ledger>>

\* POST /api/stop looks at nothing; its state event does not pass the wrapper.
Stop ==
  /\ ledger.passes > 0
  /\ state' = [state EXCEPT !.stop = TRUE, !.again = FALSE, !.status = "stopped"]
  /\ disk' = [disk EXCEPT !.spent = state.spent]
  /\ UNCHANGED <<results, pass, wrapper, batches, chain, ledger>>

-----------------------------------------------------------------------------
(* The way to the first node                                               *)

At(point) == pass.at = point
Go(point) == pass' = [pass EXCEPT !.at = point]

\* What follows a return of the pass is the same stretch: the state event, then
\* the next pass of a repeated test, or the end.
Goes(s) == pass.loop /\ s.again /\ ~s.stop

Leaves(s, told) ==
  /\ batches' = AfterState(batches, wrapper, s.status, s.tested, s.failed)
  /\ \/ /\ Goes(s)
        /\ state' = [Fresh(s) EXCEPT !.status = "running", !.again = Repeats]
        /\ results' = NoRows
        /\ pass' = [Off EXCEPT !.at = "setup", !.loop = TRUE]
        /\ ledger' = NewRun(told)
     \/ /\ ~Goes(s)
        /\ state' = [s EXCEPT !.again = @ /\ ~pass.loop]
        /\ pass' = Off
        /\ ledger' = told
        /\ UNCHANGED results
  /\ wrapper' = Unopened
  /\ disk' = [disk EXCEPT !.spent = state'.spent]
  /\ UNCHANGED chain

\* An early return, for an error or because there is nothing to test.
Returns(status) == Leaves([state EXCEPT !.status = status], ledger)

\* The body throws: the catch of the launch ends a repeated test as well.
Throws ==
  /\ At("setup")
  /\ Leaves([state EXCEPT !.status = "error", !.again = @ /\ ~pass.loop], ledger)

\* Wallet, client and balance are there; the spend of a fresh pass starts at zero.
Setup ==
  /\ At("setup")
  /\ IF pass.resume THEN UNCHANGED <<state, ledger>>
     ELSE /\ state' = [state EXCEPT !.spent = 0]
          /\ ledger' = [ledger EXCEPT !.paid = 0]
  /\ StateEvent(state')
  /\ Go("check")
  /\ UNCHANGED <<results, chain>>

SelfPaid == pass.kind = "plan" \/ state.granter = "self"

Charged(k) ==
  /\ state' = [state EXCEPT !.spent = @ + k]
  /\ ledger' = [ledger EXCEPT !.paid = @ + k]

\* The fee grant, unless the wallet is the owner, and the subscription; either query
\* may fail, and ends the pass then.  A lapsed subscription passes too: its sessions
\* are refused, as any may be.
CheckSub ==
  /\ At("check") /\ pass.kind = "sub"
  /\ \/ /\ SelfPaid \/ chain.granted
        /\ chain.subscribed
        /\ Go("fetch")
        /\ UNCHANGED <<state, results, wrapper, batches, disk, chain, ledger>>
     \/ Returns("error")

\* runPlanTest pays for a subscription it does not see.
CheckPlan ==
  /\ At("check") /\ pass.kind = "plan"
  /\ \/ /\ chain.subscribed
        /\ Go("fetch")
        /\ UNCHANGED <<state, results, wrapper, batches, disk, chain, ledger>>
     \/ /\ Charged(1)
        /\ chain' = [chain EXCEPT !.subscribed = TRUE]
        /\ Go("fetch")
        /\ UNCHANGED <<results, wrapper, batches, disk>>
     \/ Returns("error")

\* Nodes of a resumed run that have no row yet.
Remaining(online) == IF pass.resume THEN online \ Rows ELSE online

\* The interrupted node comes first, the others as they answered the scan.
\* Mutant: the order of the scan is kept.
Hoisted_Not(todo) == Nobody
Hoisted(todo) == IF pass.resume /\ state.head \in todo THEN state.head ELSE Nobody

\* The plan's nodes, then the scan: the nodes that answer.  A plan test takes five
\* of them, more than the instances have.
Fetch ==
  /\ At("fetch")
  /\ \/ Returns("error")
     \/ Returns("done")
     \/ \E online \in SUBSET chain.members :
          LET todo == Remaining(online)
              done == IF pass.resume THEN Cardinality(Rows) ELSE 0 IN
          /\ todo # {}
          /\ state' = [state EXCEPT !.total = done + Cardinality(todo)]
          /\ pass' = [pass EXCEPT !.at = "next", !.todo = todo,
                         !.first = Hoisted(todo), !.known = chain.members]
          /\ StateEvent(state')
          /\ UNCHANGED <<results, chain, ledger>>

-----------------------------------------------------------------------------
(* The nodes                                                               *)

Here == pass.node

\* upsertResult, saveResults and the result event, one stretch; the interrupted
\* node of a subscription test is no longer pending.
Pending(s) == IF pass.kind = "sub" THEN Nobody ELSE s.head

Record(s, n, verdict) ==
  /\ results' = [results EXCEPT ![n] = verdict]
  /\ disk' = [rows |-> results', spent |-> s.spent]
  /\ batches' = WithRow(batches, wrapper, n, verdict, s.total)
  /\ wrapper' = [wrapper EXCEPT !.batch = IF Listening(wrapper)
                                          THEN BatchFor(batches, wrapper) ELSE @]
  /\ state' = [s EXCEPT !.head = Pending(s),
                        !.active = IF Listening(wrapper) /\ wrapper.batch = 0
                                   THEN BatchFor(batches, wrapper) ELSE @]

\* The end of the sweep: the counters are set from the rows, a stop forgotten.
Reconciled(s) == Recounted(s, results)

Finish(told) == Leaves([Reconciled(state) EXCEPT !.status = "done"], told)

Sweep ==
  /\ At("next") /\ (state.stop \/ pass.todo = {})
  /\ Finish(ledger)

\* The next node is taken up; a subscription test notes it as the one in flight.
\* A node missing from the known members costs a refresh unless there was one
\* within the minute.
Refreshed == {chain.members} \cup (IF "rpc" \in Faults THEN {{}, pass.known} ELSE {})

Noted(n) == IF pass.kind = "sub" THEN [state EXCEPT !.head = n] ELSE state

NextUp == IF pass.first # Nobody THEN {pass.first} ELSE pass.todo

TakeUp ==
  /\ At("next") /\ ~state.stop
  /\ \E n \in NextUp, known \in {pass.known} \cup Refreshed :
       /\ n \in pass.known => known = pass.known
       /\ \/ /\ pass.kind = "plan" \/ n \in known
             /\ state' = Noted(n)
             /\ pass' = [pass EXCEPT !.at = "session", !.todo = @ \ {n},
                            !.first = Nobody, !.known = known, !.node = n]
             /\ disk' = [disk EXCEPT !.spent = state.spent]
             /\ UNCHANGED <<results, wrapper, batches>>
          \/ /\ pass.kind = "sub" /\ n \notin known
             /\ Record(Noted(n), n, "evicted")
             /\ pass' = [pass EXCEPT !.todo = @ \ {n}, !.first = Nobody,
                                     !.known = known]
  /\ ledger' = [ledger EXCEPT !.cut = Nobody]
  /\ UNCHANGED chain

NextNode(known) == pass' = [pass EXCEPT !.at = "next", !.node = Nobody, !.known = known]

\* The chain takes a session for a member of a plan the wallet is subscribed to,
\* and someone to pay its gas.
Accepted == /\ chain.subscribed /\ Here \in chain.members
            /\ SelfPaid \/ chain.granted

\* Mutant: the fee-granted session is booked to the wallet.
Gas_Always == 1
Gas == IF SelfPaid THEN 1 ELSE 0

Payment == [state EXCEPT !.spent = @ + Gas]

\* The session transaction lands and the session shows; or it lands and its id or
\* the session does not, which fails the node all the same.
SessionOpens ==
  /\ At("session") /\ Accepted
  /\ ledger' = [ledger EXCEPT !.paid = @ + (IF SelfPaid THEN 1 ELSE 0)]
  /\ \/ /\ state' = Payment
        /\ Go("testing")
        /\ UNCHANGED <<results, wrapper, batches, disk>>
     \/ Record(Payment, Here, "fail") /\ NextNode(pass.known)
  /\ UNCHANGED chain

\* The transaction fails; a subscription test that hears the node is not in the
\* plan refreshes its list.
\* Mutant: every refusal is taken for one.
Denied_Any == TRUE
Denied == Here \notin chain.members

SessionFails ==
  /\ At("session")
  /\ \/ /\ Record(state, Here, "fail")
        /\ NextNode(pass.known)
     \/ /\ pass.kind = "sub" /\ Denied
        /\ Record(state, Here, "evicted")
        /\ \E known \in Refreshed : NextNode(known)
  /\ UNCHANGED <<chain, ledger>>

\* A node that answers 409 to the last makes the test pay for a session of its own
\* (payForFreshSession), whoever pays for the run.  Its state event shows the status
\* a stop has set by then.
PayFresh ==
  /\ At("testing") /\ "conflict" \in Faults /\ ledger.paid < MaxFresh
  /\ state' = [state EXCEPT !.spent = @ + 1]
  /\ ledger' = [ledger EXCEPT !.paid = @ + 1, !.early = @ \/ state.stop]
  /\ StateEvent(state')
  /\ Go("retesting")
  /\ UNCHANGED <<results, chain>>

\* testWithRetry: a speed, a row without one, or an error; an error after a stop
\* leaves the node untouched.  The live counters see these rows only.
UnderTest == At("testing") \/ At("retesting")

Tested ==
  /\ UnderTest
  /\ \E verdict \in {"pass", "fail"} :
       Record([state EXCEPT !.tested = @ + (IF verdict = "pass" THEN 1 ELSE 0),
                            !.failed = @ + (IF verdict = "fail" THEN 1 ELSE 0)],
              Here, verdict)
  /\ NextNode(pass.known)
  /\ UNCHANGED <<chain, ledger>>

Interrupted ==
  /\ UnderTest /\ state.stop
  /\ Finish([ledger EXCEPT !.cut = Here])

-----------------------------------------------------------------------------
(* The chain and the machine                                               *)

\* Between passes nothing looks at the chain: what changes then may as well change
\* when the next pass has begun.
Evict ==
  /\ pass.at # "off" /\ Cardinality(Nodes \ chain.members) < MaxLeavers
  /\ \E n \in chain.members : chain' = [chain EXCEPT !.members = @ \ {n}]
  /\ UNCHANGED <<state, results, pass, wrapper, batches, disk, ledger>>

Revoke ==
  /\ pass.at # "off" /\ chain.granted /\ chain' = [chain EXCEPT !.granted = FALSE]
  /\ UNCHANGED <<state, results, pass, wrapper, batches, disk, ledger>>

\* The process dies and starts again: rows and snapshot are read back, the snapshot
\* only beside rows, and open batches closed.  Every state and result event has
\* reached the snapshot.
Crash ==
  /\ ledger.deaths < MaxDeaths /\ ledger.passes > 0
  /\ results' = disk.rows
  /\ state' = IF disk.rows = NoRows THEN Blank
              ELSE [Recounted(state, disk.rows) EXCEPT !.status = "idle",
                                                       !.stop = FALSE, !.spent = disk.spent]
  /\ pass' = Off /\ wrapper' = Unopened
  /\ batches' = Swept(batches)
  /\ ledger' = [ledger EXCEPT !.deaths = @ + 1, !.bounced = TRUE,
                  !.cut = IF pass.node # Nobody THEN pass.node ELSE @,
                  !.mixed = @ \/ disk.rows # results]
  /\ UNCHANGED <<disk, chain>>

Operator ==
  \/ \E granter \in {"self", "owner"}, again \in BOOLEAN : TestSubPlan(granter, again)
  \/ TestPlan \/ Resume \/ ResumeRefused \/ Stop

Pipeline ==
  \/ Throws \/ Setup \/ CheckSub \/ CheckPlan \/ Fetch
  \/ Sweep \/ TakeUp \/ SessionOpens \/ SessionFails \/ PayFresh \/ Tested \/ Interrupted

Next == Operator \/ Pipeline \/ Evict \/ Revoke \/ Crash

Spec == Init /\ [][Next]_vars

-----------------------------------------------------------------------------
(* What the runs are for.  ledger.mixed marks a run that took in rows of a  *)
(* plan test, or booted with the rows of the run before it; ledger.early one *)
(* whose batch a payment after a stop has closed before its last row.        *)

TypeOK ==
  /\ state.status \in Final \cup {"idle", "running"}
  /\ results \in [Nodes -> Verdicts] /\ disk.rows \in [Nodes -> Verdicts]
  /\ pass.at \in Points /\ pass.known \subseteq Nodes
  /\ \A b \in DOMAIN batches : batches[b].rows \in [Nodes -> Seq(Verdicts)]
  /\ state.active \in {0} \cup DOMAIN batches

\* The rows of a subscription run, each node once, and nothing else.
HoldsRun(b) ==
  /\ b # 0
  /\ \A n \in Nodes : batches[b].rows[n] = IF n \in Rows THEN <<results[n]>> ELSE <<>>

\* While a subscription run goes on, and while it shows as stopped, the page that
\* asks for the current run gets all its rows, those before a stop or a death
\* included; a batch the run has left behind closed carries its true counts
\* (withBatchTracking, /api/resume, /api/public/runs/current).
RunInOneBatch ==
  /\ TypeOK
  /\ ~ledger.mixed /\ ~ledger.early /\ pass.kind = "sub" /\ Rows # {} =>
       /\ pass.at # "off" \/ state.status = "stopped" =>
            HoldsRun(CurrentRun(batches, state.status, state.active))
       /\ pass.at = "off" =>
            /\ HoldsRun(state.active) /\ ~batches[state.active].open
            /\ batches[state.active].passed = Passed(results)
            /\ batches[state.active].failed = Failed(results)

\* Within a subscription run, over stops, deaths and resumes, a row is never
\* replaced and no session is started for a node that has one; and the node a
\* stop or a death cut short comes first when it answers the scan of the resume
\* (the resume filter and resumeHeadAddr of runSubPlanTest).
SameRun == ~ledger.mixed /\ ~ledger'.mixed /\ results' # NoRows
ResumeContinues ==
  [][SameRun =>
       /\ \A n \in Rows : results'[n] = results[n]
       /\ At("next") /\ pass'.at = "session" => pass'.node \notin Rows
       /\ At("fetch") /\ ledger.cut \in pass'.todo => NextUp' = {ledger.cut}]_vars

\* The spend of the run on display is what the wallet paid for it, over resumes
\* too; a death may lose the payment since the last snapshot, nothing more is
\* ever shown than was paid (runSpentUdvpn).
SpendTrue ==
  /\ state.spent <= ledger.paid
  /\ ~ledger.bounced => state.spent = ledger.paid

\* A run the plan owner pays for costs the wallet nothing ("the wallet pays ZERO
\* gas", pipeline.js:1839; "Wallet paid: 0 P2P", 2333).
GrantedIsFree == ~ledger.mixed /\ state.granter = "owner" => ledger.paid = 0

\* A node reported PLAN_EVICTED is one the chain has dropped from the plan ("chain
\* refresh confirmed node not in plan", pipeline.js:2155).
EvictedIsGone == \A n \in chain.members : results[n] # "evicted"

\* A batch is open only while its own pass goes on: an open one without a pass keeps
\* a ghost run on the public page, and a second one hides the run going on
\* (withBatchTracking, getActiveBatch, the sweep at boot).
NoGhostRun ==
  \A b \in DOMAIN batches : batches[b].open => pass.at # "off" /\ wrapper.batch = b
=============================================================================
