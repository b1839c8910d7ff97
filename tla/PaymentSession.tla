---------------------------- MODULE PaymentSession ----------------------------
(***************************************************************************)
(* The money of one audit pass: which sessions the wallet pays for, which  *)
(* session each node test uses, and which sessions are cancelled for their *)
(* deposit.  One batch of runAudit, the tests of its nodes and the retest  *)
(* sweeps after it.                                                        *)
(*                                                                         *)
(*   chain     the wallet's sessions, in the order they were bought        *)
(*   paid      paidNodesThisRun of session.js                              *)
(*   poisoned  poisonedSessions of session.js                              *)
(*   cache     sessionMap of session.js: the session to use for a node     *)
(*   cred      the credential store: the session last connected with       *)
(*   batchMap  batchSessionMap of runAudit, orphans its _orphanSessionIds  *)
(*   fresh     state._freshSessionIds                                      *)
(*   job       the calls of testNode, one per node and round               *)
(*   pass      the loop of runAudit; it races a call against the deadline  *)
(*             and the stop button, and an abandoned call keeps running    *)
(*   denied    history: the nodes whose last individual payment failed     *)
(*                                                                         *)
(* Prices are one unit a session, so spent counts sessions; the wallet is  *)
(* never empty, so the pauses for a top-up are left out.  What the events  *)
(* of a payment never carry is the node address, as in the code.           *)
(***************************************************************************)
EXTENDS Integers, FiniteSets, Sequences

CONSTANTS
  Nodes,        \* the nodes of the batch
  NoMap,        \* sessionMap is null
  MaxRetries,   \* MAX_RETRIES of retry.js
  MaxSweeps,    \* bound: retest sweeps (the code has two)
  MaxSessions,  \* bound: sessions ever on the chain
  Faults        \* what may go wrong beyond rejected payments and failed tests

\* lost:    a payment lands but its broadcast reports an error
\* noid:    a payment lands and its events name no session
\* blind:   a chain query fails or misses sessions, however long after a payment
\* late:    a test outlives its five-minute deadline
ASSUME PaymentAssumption ==
  /\ IsFiniteSet(Nodes) /\ Nodes # {}
  /\ MaxRetries \in Nat /\ MaxSweeps \in Nat /\ MaxSessions \in Nat \ {0}
  /\ Faults \subseteq {"lost", "noid", "blind", "late"}
  /\ NoMap \notin [Nodes -> 0..MaxSessions]

Ids == 1..MaxSessions
Lookup == [Nodes -> {0} \cup Ids]
Nothing == [n \in Nodes |-> 0]
Rounds == 0..MaxSweeps
Tasks == Nodes \X Rounds

VARIABLES chain, paid, poisoned, cache, cred, batchMap, orphans, fresh,
          job, pass, stop, spent, denied

money == <<chain, spent, paid, denied>>
maps == <<batchMap, orphans, fresh>>
vars == <<money, poisoned, cache, cred, maps, job, pass, stop>>

Session == [node : Nodes, by : {"old", "batch", "single", "fresh"}, live : BOOLEAN]
Job == [pc : {"off", "open", "query", "pay", "shake", "fresh", "reshake", "connect",
              "passed", "unmapped", "failed", "broken"},
        pre : {0} \cup Ids, sid : {0} \cup Ids, cached : BOOLEAN, tries : 0..MaxRetries]
Pass == [pc : {"pay", "map", "pick", "wait", "cancel", "sweep", "done"},
         round : Rounds, node : Nodes, todo : SUBSET Nodes, again : SUBSET Nodes]

TypeOK ==
  /\ chain \in Seq(Session) /\ Len(chain) <= MaxSessions
  /\ paid \subseteq Nodes /\ denied \subseteq Nodes /\ poisoned \subseteq Ids
  /\ cache \in Lookup \cup {NoMap} /\ cred \in Lookup
  /\ batchMap \in Lookup /\ orphans \subseteq Ids /\ fresh \in Lookup
  /\ job \in [Tasks -> Job] /\ pass \in Pass
  /\ stop \in BOOLEAN /\ spent \in Nat

Off == [pc |-> "off", pre |-> 0, sid |-> 0, cached |-> FALSE, tries |-> 0]

\* A wallet may still hold a session of an earlier run for some node.
Init ==
  /\ \/ chain = <<>>
     \/ \E n \in Nodes : chain = <<[node |-> n, by |-> "old", live |-> TRUE]>>
  /\ paid = {} /\ denied = {} /\ poisoned = {} /\ cache = NoMap /\ cred = Nothing
  /\ batchMap = Nothing /\ orphans = {} /\ fresh = Nothing
  /\ job = [t \in Tasks |-> Off]
  /\ \E n \in Nodes :
       pass = [pc |-> "pay", round |-> 0, node |-> n, todo |-> Nodes, again |-> {}]
  /\ stop = FALSE /\ spent = 0

---------------------------------------------------------------------------
(* The chain and the session map. *)

Known == 1..Len(chain)
Usable == {i \in Known : chain[i].live /\ i \notin poisoned}
Of(n) == {i \in Known : chain[i].node = n}

\* The maps buildSessionMap may build from the sessions seen: one session per
\* node, whichever has the most bytes left.
MapsOf(seen) ==
  {f \in Lookup : \A n \in Nodes :
     IF seen \cap Of(n) = {} THEN f[n] = 0 ELSE f[n] \in seen \cap Of(n)}

\* What a rebuild leaves in sessionMap.  Seconds after a payment the chain may
\* not show all of it yet; later only a blind query misses anything.
Lagging == (UNION {MapsOf(seen) : seen \in SUBSET Usable}) \cup {NoMap}
Rebuilt == IF "blind" \in Faults THEN Lagging ELSE MapsOf(Usable)

Found(f, n) == IF f = NoMap THEN 0 ELSE f[n]

\* addToSessionMap: a null map becomes a map of this one node.
AddToMap(f, n, i) == [(IF f = NoMap THEN Nothing ELSE f) EXCEPT ![n] = i]

Room(k) == Len(chain) + k <= MaxSessions
New(n, by) == [node |-> n, by |-> by, live |-> TRUE]
NextId == Len(chain) + 1
Buys(n, by) == Room(1) /\ chain' = Append(chain, New(n, by))

---------------------------------------------------------------------------
(* submitBatchPayment and the batch loop. *)

\* The orders in which the chain may number the sessions of one transaction.
Orders(S) == {f \in [1..Cardinality(S) -> S] : \A i, j \in DOMAIN f : f[i] = f[j] => i = j}

LandBatch ==
  /\ Room(Cardinality(Nodes \ paid))
  /\ \E f \in Orders(Nodes \ paid) : chain' = chain \o [i \in DOMAIN f |-> New(f[i], "batch")]

\* The transaction is accepted: every node of it is marked paid, and its events
\* give the new ids as orphans.
PayBatch ==
  /\ pass.pc = "pay" /\ ~stop
  /\ LandBatch
  /\ paid' = paid \cup Nodes
  /\ orphans' = (1..Len(chain')) \ Known
  /\ spent' = spent + (Len(chain') - Len(chain))
  /\ cache' = NoMap
  /\ pass' = [pass EXCEPT !.pc = "map"]
  /\ UNCHANGED <<denied, poisoned, cred, batchMap, fresh, job, stop>>

\* The payment throws; the nodes are left to individual payments.
BatchFails ==
  /\ pass.pc = "pay" /\ ~stop
  /\ \/ UNCHANGED chain
     \/ "lost" \in Faults /\ LandBatch
  /\ pass' = [pass EXCEPT !.pc = "pick"]
  /\ UNCHANGED <<paid, denied, spent, poisoned, cache, cred, maps, job, stop>>

\* Three seconds later the chain is asked which session belongs to which node.
\* A lookup can come back empty although the map has the node (no LCD, an error).
\* Mutant: the ids are dealt out in the order of the nodes.
BatchResult_ByIndex(f, heard) ==
  CHOOSE h \in Lookup : \A i \in orphans : \E n \in Nodes : h[n] = i
BatchResult(f, heard) == [n \in Nodes |-> IF n \in heard THEN Found(f, n) ELSE 0]
\* Mutant: sessions no node could be found for are forgotten.
Unmapped_Forgotten(r) == {}
Unmapped(r) == orphans \ {r[n] : n \in Nodes}
MapBatch ==
  /\ pass.pc = "map"
  /\ \E f \in Lagging, heard \in SUBSET Nodes :
       /\ cache' = f
       /\ batchMap' = BatchResult(f, heard)
       /\ orphans' = Unmapped(batchMap')
  /\ pass' = [pass EXCEPT !.pc = "pick"]
  /\ UNCHANGED <<money, poisoned, cred, fresh, job, stop>>

\* The next node is handed to testNode, with the session of the batch if this
\* is the main loop and with none in a retest sweep.
Pick(n) ==
  /\ pass.pc = "pick" /\ ~stop /\ n \in pass.todo
  /\ pass' = [pass EXCEPT !.pc = "wait", !.node = n, !.todo = @ \ {n}]
  /\ job' = [job EXCEPT ![<<n, pass.round>>] =
               [Off EXCEPT !.pc = "open", !.pre = IF pass.round = 0 THEN batchMap[n] ELSE 0]]
  /\ UNCHANGED <<money, poisoned, cache, cred, maps, stop>>

Current == <<pass.node, pass.round>>

\* testWithRetry: another attempt of the same call.  A session conflict clears
\* the credential first.
Retry ==
  /\ pass.pc = "wait" /\ ~stop
  /\ job[Current].pc = "failed" /\ job[Current].tries < MaxRetries
  /\ job' = [job EXCEPT ![Current].pc = "open", ![Current].sid = 0,
                        ![Current].cached = FALSE, ![Current].tries = @ + 1]
  /\ \E c \in {cred[pass.node], 0} : cred' = [cred EXCEPT ![pass.node] = c]
  /\ UNCHANGED <<money, poisoned, cache, maps, pass, stop>>

\* The row is recorded; a failure may be swept later (internet outage, peers).
Record ==
  /\ pass.pc = "wait" /\ job[Current].pc \in {"passed", "unmapped", "failed", "broken"}
  /\ \E a \in {pass.again, pass.again \cup {pass.node}} :
       /\ stop \/ job[Current].pc = "passed" => a = pass.again
       /\ pass' = [pass EXCEPT !.pc = "pick", !.again = a]
  /\ job' = [job EXCEPT ![Current] = Off]
  /\ UNCHANGED <<money, poisoned, cache, cred, maps, stop>>

\* The stop poll or the deadline wins the race; the call itself runs on.
Abandon ==
  /\ pass.pc = "wait" /\ ("late" \notin Faults => stop)
  /\ \E a \in {pass.again, pass.again \cup {pass.node}} :
       /\ stop => a = pass.again
       /\ pass' = [pass EXCEPT !.pc = "pick", !.again = a]
  /\ UNCHANGED <<money, poisoned, cache, cred, maps, job, stop>>

Stop ==
  /\ ~stop /\ pass.pc # "done" /\ stop' = TRUE
  /\ UNCHANGED <<money, poisoned, cache, cred, maps, job, pass>>

\* The loop over a round is over; the batch goes to the cancel step, whatever
\* ended it, and a sweep to the next sweep.
EndRound ==
  /\ \/ pass.pc = "pick" /\ (pass.todo = {} \/ stop)
     \/ pass.pc = "pay" /\ stop
  /\ pass' = [pass EXCEPT !.todo = {},
                         !.pc = IF @ = "pay" \/ pass.round > 0 THEN "sweep" ELSE "cancel"]
  /\ UNCHANGED <<money, poisoned, cache, cred, maps, job, stop>>

\* The ids the batch cancels: the map, fresh sessions folded in, and orphans.
Folded == [n \in Nodes |-> IF fresh[n] # 0 THEN fresh[n] ELSE batchMap[n]]
ToCancel == ({Folded[n] : n \in Nodes} \ {0}) \cup orphans

CancelBatch ==
  /\ pass.pc = "cancel"
  /\ \/ chain' = [i \in Known |-> IF i \in ToCancel
                                    THEN [chain[i] EXCEPT !.live = FALSE] ELSE chain[i]]
     \/ UNCHANGED chain    \* autoCancelAfterTest is off, or the cancel failed
  /\ fresh' = Nothing
  /\ batchMap' = Nothing /\ orphans' = {}    \* the scope of the batch ends
  /\ pass' = [pass EXCEPT !.pc = "sweep"]
  /\ UNCHANGED <<paid, denied, spent, poisoned, cache, cred, job, stop>>

\* The internet-failure retest, then the retest of failures with peers.
\* Mutant: the sweep starts by forgetting who was paid (clearPaidNodes).
Sweep_ForgetsPaid ==
  /\ pass.pc = "sweep"
  /\ IF stop \/ pass.again = {} \/ pass.round = MaxSweeps
       THEN pass' = [pass EXCEPT !.pc = "done"] /\ UNCHANGED <<poisoned, paid>>
       ELSE /\ pass' = [pass EXCEPT !.pc = "pick", !.round = @ + 1, !.todo = pass.again, !.again = {}]
            /\ poisoned' = {} /\ paid' = {}
  /\ UNCHANGED <<chain, spent, denied, cache, cred, maps, job, stop>>
Sweep ==
  /\ pass.pc = "sweep"
  /\ IF stop \/ pass.again = {} \/ pass.round = MaxSweeps
       THEN pass' = [pass EXCEPT !.pc = "done"] /\ UNCHANGED poisoned
       ELSE /\ pass' = [pass EXCEPT !.pc = "pick", !.round = @ + 1, !.todo = pass.again, !.again = {}]
            /\ poisoned' = {}
  /\ UNCHANGED <<money, cache, cred, maps, job, stop>>

---------------------------------------------------------------------------
(* testNode *)

At(t, pc) == job[t].pc = pc
Goto(t, pc) == job' = [job EXCEPT ![t].pc = pc]
Holding(t, pc, i) == job' = [job EXCEPT ![t].pc = pc, ![t].sid = i]

\* An error: the catch block may poison the session, and drops the credential
\* the call was using.
Throws(t, pc, drop) ==
  /\ Goto(t, pc)
  /\ \E p \in {{}, {job[t].sid} \ {0}} : poisoned' = poisoned \cup p
  /\ cred' = IF drop THEN [cred EXCEPT ![t[1]] = 0] ELSE cred

\* Session resolution: a credential first, then the session handed in, then
\* the chain for a node already paid, else a payment.
Open(t) ==
  LET n == t[1]
      pre == job[t].pre IN
  /\ At(t, "open")
  /\ job' = [job EXCEPT ![t] =
       IF cred[n] # 0 THEN [@ EXCEPT !.pc = "connect", !.sid = cred[n], !.cached = TRUE]
       ELSE IF pre # 0 THEN [@ EXCEPT !.pc = "shake", !.sid = pre]
       ELSE [@ EXCEPT !.pc = IF n \in paid THEN "query" ELSE "pay"]]
  /\ UNCHANGED <<money, poisoned, cache, cred, maps, pass, stop>>

\* Paid, but no session at hand: the map if it has one, ...
QueryHit(t) ==
  /\ At(t, "query") /\ Found(cache, t[1]) # 0
  /\ Holding(t, "shake", cache[t[1]])
  /\ UNCHANGED <<money, poisoned, cache, cred, maps, pass, stop>>

\* ... else, or once the map is two minutes old, one rebuilt from the chain.
\* Without any the main loop gives the node up; a retest pays again.
\* Mutant: the second look does not drop the map of the first.
Requeried_Stale == IF cache = NoMap THEN Rebuilt ELSE {cache}
Requeried == Rebuilt
Query(t) ==
  /\ At(t, "query")
  /\ \E f \in Requeried :
       /\ cache' = f
       /\ IF Found(f, t[1]) # 0
            THEN Holding(t, "shake", f[t[1]]) /\ UNCHANGED paid
            ELSE IF t[2] = 0
              THEN Goto(t, "unmapped") /\ UNCHANGED paid
              ELSE Goto(t, "pay") /\ paid' = paid \ {t[1]}
  /\ UNCHANGED <<chain, spent, denied, poisoned, cred, maps, pass, stop>>

\* The individual payment.
Pay(t) ==
  /\ At(t, "pay") /\ Buys(t[1], "single")
  /\ spent' = spent + 1
  /\ cache' = AddToMap(cache, t[1], NextId)
  /\ paid' = paid \cup {t[1]} /\ denied' = denied \ {t[1]}
  /\ Holding(t, "shake", NextId)
  /\ UNCHANGED <<poisoned, cred, maps, pass, stop>>

PayFails(t) ==
  /\ At(t, "pay")
  /\ \/ UNCHANGED <<chain, spent>>
     \/ "lost" \in Faults /\ Buys(t[1], "single") /\ UNCHANGED spent
     \/ "noid" \in Faults /\ Buys(t[1], "single") /\ spent' = spent + 1
  /\ Throws(t, "failed", FALSE)
  /\ denied' = denied \cup {t[1]}
  /\ UNCHANGED <<paid, cache, maps, pass, stop>>

\* handshakeWithRetry: accepted, ...
Shake(t) ==
  /\ \/ At(t, "shake") /\ ~stop
     \/ At(t, "reshake")
  /\ cred' = [cred EXCEPT ![t[1]] = job[t].sid]
  /\ Goto(t, "connect")
  /\ UNCHANGED <<money, poisoned, cache, maps, pass, stop>>

\* ... refused because the node holds an older session of ours, ...
Conflict(t) ==
  /\ At(t, "shake") /\ ~stop
  /\ Goto(t, "fresh")
  /\ UNCHANGED <<money, poisoned, cache, cred, maps, pass, stop>>

\* ... or failed; after a fresh payment for good.
ShakeFails(t) ==
  /\ \/ At(t, "shake") /\ Throws(t, "failed", FALSE)
     \/ At(t, "reshake") /\ Throws(t, "broken", FALSE)
  /\ UNCHANGED <<money, cache, maps, pass, stop>>

\* payForFreshSession
\* Mutant: the fresh payment is not added to the amount spent.
PayFresh_Unspent(t) ==
  /\ At(t, "fresh") /\ Buys(t[1], "fresh")
  /\ poisoned' = poisoned \cup {job[t].sid}
  /\ cache' = AddToMap(cache, t[1], NextId)
  /\ fresh' = [fresh EXCEPT ![t[1]] = NextId]
  /\ Holding(t, "reshake", NextId)
  /\ UNCHANGED <<spent, paid, denied, cred, batchMap, orphans, pass, stop>>
PayFresh(t) ==
  /\ At(t, "fresh") /\ Buys(t[1], "fresh")
  /\ spent' = spent + 1
  /\ poisoned' = poisoned \cup {job[t].sid}
  /\ cache' = AddToMap(cache, t[1], NextId)
  /\ fresh' = [fresh EXCEPT ![t[1]] = NextId]
  /\ Holding(t, "reshake", NextId)
  /\ UNCHANGED <<paid, denied, cred, batchMap, orphans, pass, stop>>

FreshFails(t) ==
  /\ At(t, "fresh")
  /\ \/ UNCHANGED chain
     \/ Faults \cap {"lost", "noid"} # {} /\ Buys(t[1], "fresh")
  /\ Throws(t, "broken", FALSE)
  /\ UNCHANGED <<spent, paid, denied, cache, maps, pass, stop>>

\* The tunnel and the speed test.  A failed V2Ray test drops the credential, as
\* does any failed test that came from one.
Connect(t) ==
  /\ At(t, "connect")
  /\ \/ Goto(t, "passed") /\ UNCHANGED <<poisoned, cred>>
     \/ \E drop \in {TRUE, job[t].cached} : Throws(t, "failed", drop)
  /\ UNCHANGED <<money, cache, maps, pass, stop>>

Done == pass.pc = "done" /\ UNCHANGED vars

Next ==
  \/ PayBatch \/ BatchFails \/ MapBatch
  \/ \E n \in Nodes : Pick(n)
  \/ Retry \/ Record \/ Abandon \/ Stop \/ EndRound \/ CancelBatch \/ Sweep
  \/ \E t \in Tasks : \/ Open(t) \/ QueryHit(t) \/ Query(t) \/ Pay(t) \/ PayFails(t)
                      \/ Shake(t) \/ Conflict(t) \/ ShakeFails(t)
                      \/ PayFresh(t) \/ FreshFails(t) \/ Connect(t)
  \/ Done

Spec == Init /\ [][Next]_vars

---------------------------------------------------------------------------
(* Properties. *)

\* No test connects to a node with another node's session: ids come from the
\* chain's own mapping and never from the order of the events (session.js
\* 257-258), in the batch map, the cache, the credentials and every running test.
RightNode ==
  TypeOK /\ \A n \in Nodes :
    /\ {batchMap[n], Found(cache, n), cred[n], fresh[n]} \subseteq {0} \cup Of(n)
    /\ \A r \in Rounds : job[<<n, r>>].sid \in {0} \cup Of(n)

\* A node is never paid individually while the chain holds a usable session
\* this run bought for it: the duplicate-payment guard, across the batch, its
\* fallback, the retries and the retest sweeps (node-test.js 225-321).  But the
\* guard forgets a node when a retest finds its session poisoned, before it
\* pays (clearPaidNode); if that payment fails, the next sweep clears the poison
\* and pays again.
PaidOnce ==
  [][\A n \in Nodes \ denied :
       (\E i \in DOMAIN chain' \ Known : chain'[i].node = n /\ chain'[i].by = "single")
         => ~ \E i \in Usable : chain[i].node = n /\ chain[i].by # "old"]_vars

\* The amount reported as spent is the number of sessions bought in this run.
SpendReported == spent = Cardinality({i \in Known : chain[i].by # "old"})

\* A charged node is given up untested only if the chain shows no usable
\* session for it: the batch's query may have missed it, so it is asked again.
ChargedIsTested ==
  [][\A t \in Tasks : ~At(t, "unmapped") /\ At(t, "unmapped")' => Usable \cap Of(t[1]) = {}]_vars

\* The cancel leaves no deposit of the batch locked: every session the batch
\* transaction bought is cancelled, mapped to a node or not, unless its node
\* was given a fresh session, and then that one is (sessions bought by
\* individual payments are in no cancel set).
DepositsReleased ==
  [][CancelBatch /\ chain' # chain =>
       \A i \in Known :
         /\ chain[i].by = "batch" /\ chain'[i].live => fresh[chain[i].node] # 0
         /\ fresh[chain[i].node] = i => ~chain'[i].live]_vars

\* What the comment of the retest branch says (node-test.js 297-301): a retest
\* reuses a session that is still active, and pays when it was cancelled.
RetestReusesLive ==
  [][\A t \in Tasks : t[2] > 0 /\ At(t, "query") /\ At(t, "shake")' =>
       chain[job'[t].sid].live]_vars
=============================================================================
