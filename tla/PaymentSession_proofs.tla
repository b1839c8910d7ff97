----------------------- MODULE PaymentSession_proofs -----------------------
(***************************************************************************)
(* Proofs about PaymentSession, for every batch of nodes and every bound.  *)
(* Which session belongs to which node is proved under all faults, what a  *)
(* fault may break without that fault.                                     *)
(***************************************************************************)
EXTENDS PaymentSession, FiniteSetTheorems, SequenceTheorems, TLAPS

-----------------------------------------------------------------------------
(* Whose session it is. *)

\* Of(n) and the sessions of this run, for any chain s.
Own(s, n) == {i \in 1..Len(s) : s[i].node = n}
Recent(s) == {i \in 1..Len(s) : s[i].by # "old"}

MapFine(f, s) == f \in Lookup /\ \A n \in Nodes : f[n] \in {0} \cup Own(s, n)
\* A call that shakes hands, or is to pay anew after it, has a session.
JobFine(r, n, s) ==
  /\ r \in Job /\ r.sid \in {0} \cup Own(s, n) /\ r.pre \in {0} \cup Own(s, n)
  /\ r.pc \in {"shake", "fresh"} => r.sid # 0

Plain ==
  /\ chain \in Seq(Session) /\ Len(chain) <= MaxSessions
  /\ paid \subseteq Nodes /\ denied \subseteq Nodes
  /\ poisoned \subseteq Ids /\ orphans \subseteq Ids
  /\ pass \in Pass /\ stop \in BOOLEAN /\ spent \in Nat

Maps ==
  /\ cache = NoMap \/ MapFine(cache, chain)
  /\ MapFine(cred, chain) /\ MapFine(batchMap, chain) /\ MapFine(fresh, chain)

Jobs == job \in [Tasks -> Job] /\ \A t \in Tasks : JobFine(job[t], t[1], chain)

\* Every session id anywhere is one of the node it is kept for.  A job's pre
\* counts as well: it becomes the sid.
Placed == Plain /\ Maps /\ Jobs

-----------------------------------------------------------------------------
(* What the batch bought. *)

Batched == {i \in Known : chain[i].by = "batch"}

\* Until the batch is cancelled, each of its sessions is an orphan or its
\* node's entry in the map.
Banked ==
  /\ pass.pc \in {"pay", "map", "cancel"} => pass.round = 0
  /\ pass.pc = "pay" => Batched = {}
  /\ pass.pc = "map" => Batched \subseteq orphans
  /\ pass.pc \in {"pick", "wait", "cancel"} /\ pass.round = 0 =>
       \A i \in Batched \ orphans : batchMap[chain[i].node] = i

-----------------------------------------------------------------------------
(* The duplicate-payment guard, when nothing goes wrong but rejections and *)
(* payments without a session in their events.                             *)

\* One call of testNode at a time, but for what a stop abandons.
Solo == \A t \in Tasks : job[t] = Off \/ (t = Current /\ (pass.pc = "wait" \/ stop))

\* A call past its payment has its node marked paid.
Marked ==
  /\ pass.pc = "map" => paid = Nodes
  /\ pass.round = 0 => \A n \in Nodes : batchMap[n] # 0 => n \in paid
  /\ \A t \in Tasks :
       /\ job[t].pre # 0 => t[1] \in paid /\ t[2] = 0
       /\ job[t].pc \in {"query", "shake", "fresh", "reshake"} => t[1] \in paid
       /\ job[t].pc = "pay" => t[1] \notin paid

\* A node not marked has no session of this run, unless it was poisoned and a
\* retest is about to pay, or did and failed.
Guarded ==
  \A n \in Nodes \ (paid \cup denied) : \A i \in Own(chain, n) \cap Recent(chain) :
    \/ ~chain[i].live
    \/ i \in poisoned /\ \E r \in Rounds : job[<<n, r>>].pc = "pay"

Once == Solo /\ Marked /\ Guarded
-----------------------------------------------------------------------------
(* The chain of one step. *)

\* u follows s: sessions are added, and whose they are and who bought them stays.
Grown(s, u) ==
  /\ u \in Seq(Session) /\ Len(u) <= MaxSessions /\ Len(s) <= Len(u)
  /\ \A i \in 1..Len(s) : u[i].node = s[i].node /\ u[i].by = s[i].by

LEMMA Kept ==
  ASSUME NEW s \in Seq(Session), NEW u, Grown(s, u)
  PROVE  /\ \A n \in Nodes : Own(s, n) \subseteq Own(u, n)
         /\ \A f : MapFine(f, s) => MapFine(f, u)
         /\ \A n \in Nodes : \A r : JobFine(r, n, s) => JobFine(r, n, u)
<1>1. \A n \in Nodes : Own(s, n) \subseteq Own(u, n)
  BY DEF Grown, Own
<1> QED BY <1>1 DEF MapFine, JobFine

LEMMA SameChain == Plain => Grown(chain, chain)
BY DEF Plain, Grown

\* The session bought is the node's own and gets the next id.
LEMMA Bought ==
  ASSUME Plain, NEW n \in Nodes, NEW by \in {"single", "fresh"}, Buys(n, by)
  PROVE  /\ Grown(chain, chain') /\ NextId \in Ids
         /\ NextId \in Own(chain', n) /\ Len(chain') = NextId
         /\ chain'[NextId].by = by /\ \A i \in Known : chain'[i] = chain[i]
<1>1. New(n, by) \in Session
  BY DEF New, Session
<1>2. Len(chain) \in Nat /\ MaxSessions \in Nat
  BY PaymentAssumption DEF Plain
<1>3. chain' = Append(chain, New(n, by)) /\ Len(chain) + 1 <= MaxSessions
  BY DEF Buys, Room
<1>4. /\ chain' \in Seq(Session) /\ Len(chain') = NextId
      /\ chain'[NextId] = New(n, by) /\ \A i \in Known : chain'[i] = chain[i]
  BY <1>1, <1>3 DEF Plain, NextId, Known
<1> QED BY <1>1, <1>2, <1>3, <1>4 DEF Grown, Own, NextId, Ids, New, Known

LEMMA Landed ==
  ASSUME Plain, LandBatch
  PROVE  /\ Grown(chain, chain') /\ Len(chain') = Len(chain) + Cardinality(Nodes \ paid)
         /\ \A i \in Known : chain'[i] = chain[i]
         /\ \A i \in (1..Len(chain')) \ Known : chain'[i].by = "batch"
<1> DEFINE k == Cardinality(Nodes \ paid)
<1>1. k \in Nat
  BY PaymentAssumption, FS_Difference, FS_CardinalityType
<1> HIDE DEF k
<1>2. PICK f \in [1..k -> Nodes \ paid] : chain' = chain \o [i \in DOMAIN f |-> New(f[i], "batch")]
  BY DEF LandBatch, Orders, k
<1> DEFINE b == [i \in DOMAIN f |-> New(f[i], "batch")]
<1>3. b \in Seq(Session) /\ Len(b) = k /\ \A i \in 1..k : b[i].by = "batch"
  <2>1. b \in [1..k -> Session]
    BY <1>2 DEF New, Session
  <2> QED BY <1>1, <2>1, <1>2 DEF New
<1> HIDE DEF b
<1>4. chain' = chain \o b /\ Len(chain) + k <= MaxSessions /\ Len(chain) \in Nat
  <2>1. chain' = chain \o b
    BY <1>2 DEF b
  <2>2. Len(chain) + k <= MaxSessions
    BY DEF LandBatch, Room, k
  <2> QED BY <2>1, <2>2 DEF Plain
<1>5. /\ chain' \in Seq(Session) /\ Len(chain') = Len(chain) + k
      /\ \A i \in Known : chain'[i] = chain[i]
      /\ \A i \in (1..Len(chain')) \ Known : chain'[i] = b[i - Len(chain)] /\ i - Len(chain) \in 1..k
  <2>1. chain \in Seq(Session) /\ b \in Seq(Session) /\ chain' = chain \o b /\ Len(b) = k
    BY <1>3, <1>4 DEF Plain
  <2>2. chain' \in Seq(Session) /\ Len(chain') = Len(chain) + k
    BY <2>1
  <2>3. \A i \in 1..Len(chain) : chain'[i] = chain[i]
    BY <2>1
  <2>4. \A i \in (Len(chain) + 1)..(Len(chain) + k) : chain'[i] = b[i - Len(chain)]
    BY <2>1
  <2> QED BY <1>1, <1>4, <2>2, <2>3, <2>4 DEF Known
<1>6. \A i \in (1..Len(chain')) \ Known : chain'[i].by = "batch"
  BY <1>3, <1>5
<1>7. Len(chain') <= MaxSessions /\ Len(chain) <= Len(chain')
  BY <1>1, <1>4, <1>5
<1> QED BY <1>5, <1>6, <1>7 DEF Grown, Known, k

LEMMA Cancelled ==
  ASSUME Plain, CancelBatch
  PROVE  /\ Grown(chain, chain') /\ Len(chain') = Len(chain)
         /\ \A i \in Known : chain'[i].live => chain[i].live
<1>1. CASE chain' = chain
  BY <1>1, SameChain DEF Known
<1>2. CASE chain' = [i \in Known |-> IF i \in ToCancel
                                       THEN [chain[i] EXCEPT !.live = FALSE] ELSE chain[i]]
  <2>1. Len(chain) \in Nat /\ \A i \in Known : chain[i] \in Session
    BY DEF Plain, Known
  <2>2. chain' \in [Known -> Session]
    BY <1>2, <2>1 DEF Session
  <2>3. chain' \in Seq(Session) /\ Len(chain') = Len(chain)
    BY <2>1, <2>2 DEF Known
  <2>4. \A i \in Known : /\ chain'[i].node = chain[i].node /\ chain'[i].by = chain[i].by
                         /\ chain'[i].live => chain[i].live
    BY <1>2, <2>1 DEF Session
  <2> QED BY <2>1, <2>3, <2>4 DEF Plain, Grown, Known
<1> QED BY <1>1, <1>2 DEF CancelBatch
-----------------------------------------------------------------------------
(* Maps and jobs of one step. *)

Pcs == {"off", "open", "query", "pay", "shake", "fresh", "reshake", "connect",
        "passed", "unmapped", "failed", "broken"}

LEMMA OwnIds ==
  ASSUME NEW s \in Seq(Session), Len(s) <= MaxSessions, NEW n PROVE Own(s, n) \subseteq Ids
BY PaymentAssumption DEF Own, Ids

LEMMA MapNone == ASSUME NEW s PROVE MapFine(Nothing, s)
BY DEF MapFine, Nothing, Lookup

LEMMA MapPut ==
  ASSUME NEW s \in Seq(Session), Len(s) <= MaxSessions,
         NEW f, MapFine(f, s), NEW n \in Nodes, NEW i \in {0} \cup Own(s, n)
  PROVE  MapFine([f EXCEPT ![n] = i], s)
<1>1. i \in {0} \cup Ids
  BY OwnIds
<1> QED BY <1>1 DEF MapFine, Lookup

LEMMA JobGoes ==
  ASSUME NEW r, NEW n, NEW s, JobFine(r, n, s), NEW pc \in Pcs,
         pc \in {"shake", "fresh"} => r.sid # 0
  PROVE  JobFine([r EXCEPT !.pc = pc], n, s)
BY DEF JobFine, Job, Pcs

LEMMA JobHolds ==
  ASSUME NEW r, NEW n, NEW s \in Seq(Session), Len(s) <= MaxSessions, JobFine(r, n, s),
         NEW pc \in Pcs, NEW i \in {0} \cup Own(s, n), pc \in {"shake", "fresh"} => i # 0
  PROVE  JobFine([r EXCEPT !.pc = pc, !.sid = i], n, s)
<1>1. i \in {0} \cup Ids
  BY OwnIds
<1> DEFINE q == [r EXCEPT !.pc = pc]
<1>3. [r EXCEPT !.pc = pc, !.sid = i] = [q EXCEPT !.sid = i]
  OBVIOUS
<1>4. q \in Job /\ q.pre \in {0} \cup Own(s, n) /\ q.pc = pc
  BY DEF JobFine, Job, Pcs
<1> HIDE DEF q
<1>5. [q EXCEPT !.sid = i] \in Job
  BY <1>1, <1>4 DEF Job
<1>6. /\ [q EXCEPT !.sid = i].sid = i /\ [q EXCEPT !.sid = i].pre = q.pre
      /\ [q EXCEPT !.sid = i].pc = pc
  BY <1>4 DEF Job
<1> QED BY <1>3, <1>4, <1>5, <1>6 DEF JobFine

LEMMA JobsKept ==
  ASSUME Placed, Grown(chain, chain'), UNCHANGED job
  PROVE  Jobs'
<1>1. \A t \in Tasks : t[1] \in Nodes
  BY DEF Tasks
<1> QED BY <1>1, Kept DEF Placed, Plain, Jobs

LEMMA JobTurns ==
  ASSUME Placed, Grown(chain, chain'), NEW t \in Tasks, NEW r, JobFine(r, t[1], chain'),
         job' = [job EXCEPT ![t] = r]
  PROVE  Jobs'
<1>1. \A d \in Tasks : d[1] \in Nodes
  BY DEF Tasks
<1>2. r \in Job
  BY DEF JobFine
<1>3. job' \in [Tasks -> Job] /\ job'[t] = r /\ \A d \in Tasks : d # t => job'[d] = job[d]
  BY <1>2 DEF Placed, Jobs
<1>4. \A d \in Tasks : JobFine(job[d], d[1], chain')
  BY <1>1, Kept DEF Placed, Plain, Jobs
<1>5. \A d \in Tasks : JobFine(job'[d], d[1], chain')
  BY <1>3, <1>4
<1> QED BY <1>3, <1>5 DEF Jobs

LEMMA MapsKept ==
  ASSUME Placed, Grown(chain, chain'), cache' = NoMap \/ MapFine(cache', chain'),
         cred' = cred \/ MapFine(cred', chain'),
         batchMap' = batchMap \/ MapFine(batchMap', chain'),
         fresh' = fresh \/ MapFine(fresh', chain')
  PROVE  Maps'
BY Kept DEF Placed, Plain, Maps

\* A rebuilt map shows each node sessions of its own.
LEMMA MapRebuilt == ASSUME NEW f \in Lagging PROVE f = NoMap \/ MapFine(f, chain)
<1> SUFFICES ASSUME f # NoMap PROVE MapFine(f, chain)
  OBVIOUS
<1>1. PICK seen \in SUBSET Usable : f \in MapsOf(seen)
  BY DEF Lagging
<1> QED BY <1>1 DEF MapsOf, MapFine, Of, Own, Known

LEMMA RebuiltLags == Rebuilt \subseteq Lagging
BY DEF Rebuilt, Lagging

LEMMA Throw ==
  ASSUME Placed, NEW t \in Tasks, NEW pc, NEW drop, Throws(t, pc, drop)
  PROVE  /\ poisoned' \subseteq Ids /\ (cred' = cred \/ MapFine(cred', chain))
         /\ job' = [job EXCEPT ![t] = [job[t] EXCEPT !.pc = pc]]
<1>1. t[1] \in Nodes /\ job[t].sid \in {0} \cup Ids
  BY DEF Tasks, Placed, Jobs, Job
<1>2. poisoned' \subseteq Ids
  BY <1>1 DEF Throws, Placed, Plain
<1>3. cred' = cred \/ MapFine(cred', chain)
  <2>1. cred' = cred \/ cred' = [cred EXCEPT ![t[1]] = 0]
    BY DEF Throws
  <2> QED BY <2>1, <1>1, MapPut DEF Placed, Plain, Maps
<1>4. job' = [job EXCEPT ![t] = [job[t] EXCEPT !.pc = pc]]
  BY DEF Throws, Goto
<1> QED BY <1>2, <1>3, <1>4

LEMMA PlacedInit == Init => Placed
<1> SUFFICES ASSUME Init PROVE Placed
  OBVIOUS
<1>1. Plain
  <2>1. chain \in Seq(Session) /\ Len(chain) <= MaxSessions
    <3>1. CASE chain = <<>>
      BY <3>1, PaymentAssumption
    <3>2. ASSUME NEW n \in Nodes, chain = <<[node |-> n, by |-> "old", live |-> TRUE]>>
          PROVE  chain \in Seq(Session) /\ Len(chain) <= MaxSessions
      <4>1. [node |-> n, by |-> "old", live |-> TRUE] \in Session
        BY DEF Session
      <4> QED BY <3>2, <4>1, PaymentAssumption
    <3> QED BY <3>1, <3>2 DEF Init
  <2>2. pass \in Pass
    BY PaymentAssumption DEF Init, Pass, Rounds
  <2> QED BY <2>1, <2>2 DEF Init, Plain
<1>2. Maps
  BY MapNone DEF Init, Maps
<1>3. Jobs
  <2>1. \A n, s : JobFine(Off, n, s)
    BY PaymentAssumption DEF JobFine, Job, Off
  <2> QED BY <2>1 DEF Init, Jobs, JobFine
<1> QED BY <1>1, <1>2, <1>3 DEF Placed
-----------------------------------------------------------------------------
(* Every step keeps the sessions in their places. *)

LEMMA PassStep ==
  ASSUME Placed, Abandon \/ Stop \/ EndRound \/ Sweep \/ UNCHANGED vars
  PROVE  Placed'
<1>1. UNCHANGED <<chain, spent, paid, denied, cache, cred, batchMap, orphans, fresh, job>>
  BY DEF Abandon, Stop, EndRound, Sweep, vars, money, maps
<1>2. Plain'
  <2>1. pass \in Pass /\ MaxSweeps \in Nat
    BY PaymentAssumption DEF Placed, Plain
  <2>2. pass' \in Pass
    <3>1. CASE Abandon
      <4>1. PICK a \in {pass.again, pass.again \cup {pass.node}} :
              pass' = [pass EXCEPT !.pc = "pick", !.again = a]
        BY <3>1 DEF Abandon
      <4>2. a \subseteq Nodes
        BY <2>1 DEF Pass
      <4> QED BY <2>1, <4>1, <4>2 DEF Pass
    <3>2. CASE Stop \/ UNCHANGED vars
      BY <2>1, <3>2 DEF Stop, vars
    <3>3. CASE EndRound
      BY <2>1, <3>3 DEF EndRound, Pass
    <3>4. CASE Sweep
      <4>1. CASE pass' = [pass EXCEPT !.pc = "done"]
        BY <2>1, <4>1 DEF Pass
      <4>2. CASE ~(pass' = [pass EXCEPT !.pc = "done"])
        <5> DEFINE q == [pass EXCEPT !.pc = "pick", !.round = @ + 1]
        <5>1. /\ pass' = [pass EXCEPT !.pc = "pick", !.round = @ + 1, !.todo = pass.again, !.again = {}]
              /\ pass.round # MaxSweeps
          BY <3>4, <4>2 DEF Sweep
        <5>2. pass.round + 1 \in Rounds /\ pass.again \subseteq Nodes
          BY <2>1, <5>1 DEF Pass, Rounds
        <5>3. q \in Pass
          BY <2>1, <5>2 DEF Pass
        <5>4. pass' = [q EXCEPT !.todo = pass.again, !.again = {}]
          BY <5>1
        <5> HIDE DEF q
        <5> QED BY <5>2, <5>3, <5>4 DEF Pass
      <4> QED BY <4>1, <4>2
    <3> QED BY <3>1, <3>2, <3>3, <3>4
  <2>3. poisoned' \subseteq Ids /\ stop' \in BOOLEAN
    BY DEF Abandon, Stop, EndRound, Sweep, vars, Placed, Plain
  <2> QED BY <1>1, <2>2, <2>3 DEF Placed, Plain
<1>3. Maps' /\ Jobs'
  BY <1>1 DEF Placed, Maps, Jobs
<1> QED BY <1>2, <1>3 DEF Placed

LEMMA LoopStep ==
  ASSUME Placed, Retry \/ Record \/ \E n \in Nodes : Pick(n)
  PROVE  Placed'
<1>1. UNCHANGED <<chain, spent, paid, denied, poisoned, cache, batchMap, orphans, fresh, stop>>
  BY DEF Retry, Record, Pick, money, maps
<1>2. pass \in Pass /\ Current \in Tasks /\ Grown(chain, chain')
  BY <1>1, SameChain DEF Placed, Plain, Pass, Current, Tasks
<1>3. JobFine(Off, Current[1], chain)
  BY PaymentAssumption DEF JobFine, Job, Off
<1>4. ASSUME NEW n \in Nodes, Pick(n) PROVE pass' \in Pass /\ cred' = cred /\ Jobs'
  <2>1. pass' \in Pass
    BY <1>2, <1>4 DEF Pick, Pass
  <2> DEFINE i == IF pass.round = 0 THEN batchMap[n] ELSE 0
             r == [Off EXCEPT !.pc = "open", !.pre = i]
  <2>2. i \in {0} \cup Own(chain, n) /\ i \in {0} \cup Ids
    BY OwnIds DEF Placed, Plain, Maps, MapFine
  <2>3. JobFine(r, n, chain)
    <3> HIDE DEF i
    <3>1. Off \in Job /\ Off.sid = 0
      BY PaymentAssumption DEF Job, Off
    <3> HIDE DEF r
    <3>2. r = [Off EXCEPT !.pc = "open", !.pre = i]
      BY DEF r
    <3>3. r \in Job /\ r.sid = Off.sid /\ r.pre = i /\ r.pc = "open"
      BY <2>2, <3>1, <3>2 DEF Job
    <3> QED BY <2>2, <3>1, <3>3 DEF JobFine
  <2>4. <<n, pass.round>> \in Tasks /\ job' = [job EXCEPT ![<<n, pass.round>>] = r]
    BY <1>2, <1>4 DEF Pick, Pass, Tasks
  <2>5. <<n, pass.round>>[1] = n
    OBVIOUS
  <2> HIDE DEF r
  <2>6. Jobs'
    BY <1>1, <1>2, <2>3, <2>4, <2>5, JobTurns
  <2> QED BY <1>4, <2>1, <2>6 DEF Pick
<1>5. ASSUME Retry PROVE pass' \in Pass /\ (cred' = cred \/ MapFine(cred', chain)) /\ Jobs'
  <2> DEFINE r == [job[Current] EXCEPT !.pc = "open", !.sid = 0, !.cached = FALSE, !.tries = @ + 1]
             q == [job[Current] EXCEPT !.pc = "open", !.sid = 0]
  <2>1. job' = [job EXCEPT ![Current] = r] /\ pass' = pass
    BY <1>5 DEF Retry
  <2>2. JobFine(r, Current[1], chain)
    <3>1. JobFine(job[Current], Current[1], chain) /\ job[Current].tries + 1 \in 0..MaxRetries
      BY <1>2, <1>5, PaymentAssumption DEF Placed, Jobs, Job, Retry
    <3>2. JobFine(q, Current[1], chain) /\ q.tries = job[Current].tries
      <4>1. JobFine(q, Current[1], chain)
        BY <3>1, JobHolds DEF Placed, Plain, Pcs
      <4>2. job[Current] \in Job
        BY <3>1 DEF JobFine
      <4> QED BY <4>1, <4>2 DEF Job
    <3>3. r = [q EXCEPT !.cached = FALSE, !.tries = @ + 1]
      OBVIOUS
    <3> HIDE DEF q, r
    <3> QED BY <3>1, <3>2, <3>3 DEF JobFine, Job
  <2> HIDE DEF r
  <2>3. Jobs'
    BY <1>1, <1>2, <2>1, <2>2, JobTurns
  <2>4. cred' = cred \/ MapFine(cred', chain)
    <3>1. PICK c \in {cred[pass.node], 0} : cred' = [cred EXCEPT ![pass.node] = c]
      BY <1>5 DEF Retry
    <3>2. pass.node \in Nodes
      BY <1>2 DEF Pass
    <3>3. c \in {0} \cup Own(chain, pass.node)
      BY <3>2 DEF Placed, Maps, MapFine
    <3> QED BY <3>1, <3>2, <3>3, MapPut DEF Placed, Plain, Maps
  <2> QED BY <1>2, <2>1, <2>3, <2>4
<1>6. ASSUME Record PROVE pass' \in Pass /\ cred' = cred /\ Jobs'
  <2>1. pass' \in Pass
    <3>1. PICK a \in {pass.again, pass.again \cup {pass.node}} :
            pass' = [pass EXCEPT !.pc = "pick", !.again = a]
      BY <1>6 DEF Record
    <3>2. a \subseteq Nodes
      BY <1>2 DEF Pass
    <3> QED BY <1>2, <3>1, <3>2 DEF Pass
  <2>2. job' = [job EXCEPT ![Current] = Off] /\ cred' = cred
    BY <1>6 DEF Record
  <2> QED BY <1>1, <1>2, <1>3, <2>1, <2>2, JobTurns
<1>7. pass' \in Pass /\ Jobs' /\ (cred' = cred \/ MapFine(cred', chain))
  BY <1>4, <1>5, <1>6
<1>8. Plain'
  BY <1>1, <1>7 DEF Placed, Plain
<1>9. Maps'
  BY <1>1, <1>7 DEF Placed, Maps
<1> QED BY <1>7, <1>8, <1>9 DEF Placed
\* The steps of a call that buy nothing.
LEMMA CallStep ==
  ASSUME Placed, NEW t \in Tasks,
         Open(t) \/ QueryHit(t) \/ Query(t) \/ Shake(t) \/ Conflict(t) \/ ShakeFails(t) \/ Connect(t)
  PROVE  Placed'
<1>1. UNCHANGED <<chain, spent, denied, batchMap, orphans, fresh, pass, stop>>
  BY DEF Open, QueryHit, Query, Shake, Conflict, ShakeFails, Connect, money, maps
<1>2. t[1] \in Nodes /\ JobFine(job[t], t[1], chain) /\ Grown(chain, chain')
  BY <1>1, SameChain DEF Tasks, Placed, Plain, Jobs
<1> DEFINE Fits == /\ paid' \subseteq Nodes /\ poisoned' \subseteq Ids
                   /\ cache' = NoMap \/ MapFine(cache', chain)
                   /\ cred' = cred \/ MapFine(cred', chain)
                   /\ Jobs'
<1>3. ASSUME NEW pc \in Pcs, Goto(t, pc), pc \in {"shake", "fresh"} => job[t].sid # 0 PROVE Jobs'
  BY <1>1, <1>2, <1>3, JobGoes, JobTurns DEF Goto
<1>4. ASSUME NEW pc \in Pcs, NEW i \in Own(chain, t[1]), Holding(t, pc, i) PROVE Jobs'
  <2>1. JobFine([job[t] EXCEPT !.pc = pc, !.sid = i], t[1], chain)
    <3>1. i # 0
      BY <1>4 DEF Own
    <3> QED BY <1>2, <3>1, JobHolds DEF Placed, Plain
  <2>2. job' = [job EXCEPT ![t] = [job[t] EXCEPT !.pc = pc, !.sid = i]]
    BY <1>4 DEF Holding
  <2> QED BY <1>1, <1>2, <2>1, <2>2, JobTurns
<1>5. ASSUME NEW pc \in {"failed", "broken"}, NEW drop, Throws(t, pc, drop),
             UNCHANGED <<paid, cache>>
      PROVE  Fits
  <2>1. /\ poisoned' \subseteq Ids /\ (cred' = cred \/ MapFine(cred', chain))
        /\ job' = [job EXCEPT ![t] = [job[t] EXCEPT !.pc = pc]]
    BY <1>5, Throw
  <2>2. Jobs'
    BY <1>1, <1>2, <2>1, JobGoes, JobTurns DEF Pcs
  <2> QED BY <1>5, <2>1, <2>2 DEF Placed, Plain, Maps
<1>6. ASSUME Open(t) PROVE Fits
  <2> DEFINE n == t[1]
             a == [job[t] EXCEPT !.pc = "connect", !.sid = cred[n], !.cached = TRUE]
             b == [job[t] EXCEPT !.pc = "shake", !.sid = job[t].pre]
             d == [job[t] EXCEPT !.pc = IF n \in paid THEN "query" ELSE "pay"]
             r == IF cred[n] # 0 THEN a ELSE IF job[t].pre # 0 THEN b ELSE d
  <2>1. job' = [job EXCEPT ![t] = r]
    BY <1>6 DEF Open
  <2>2. cred[n] \in {0} \cup Own(chain, n) /\ job[t].pre \in {0} \cup Own(chain, n)
    BY <1>2 DEF Placed, Maps, MapFine, JobFine
  <2>3. JobFine(a, n, chain)
    <3> DEFINE q == [job[t] EXCEPT !.pc = "connect", !.sid = cred[n]]
    <3>1. JobFine(q, n, chain)
      BY <1>2, <2>2, JobHolds DEF Placed, Plain, Pcs
    <3>2. a = [q EXCEPT !.cached = TRUE]
      OBVIOUS
    <3> HIDE DEF q, a
    <3> QED BY <3>1, <3>2 DEF JobFine, Job
  <2>4. job[t].pre # 0 => JobFine(b, n, chain)
    BY <1>2, <2>2, JobHolds DEF Placed, Plain, Pcs
  <2>5. JobFine(d, n, chain)
    BY <1>2, JobGoes DEF Pcs
  <2> HIDE DEF a, b, d
  <2>6. Jobs'
    BY <1>1, <1>2, <2>1, <2>3, <2>4, <2>5, JobTurns
  <2> QED BY <1>6, <2>6 DEF Open, Placed, Plain, Maps, money, maps
<1>7. ASSUME QueryHit(t) PROVE Fits
  <2>1. cache[t[1]] \in Own(chain, t[1])
    BY <1>2, <1>7 DEF QueryHit, Found, Placed, Maps, MapFine
  <2>2. Jobs'
    BY <1>4, <1>7, <2>1 DEF QueryHit, Pcs
  <2> QED BY <1>7, <2>2 DEF QueryHit, Placed, Plain, Maps, money, maps
<1>8. ASSUME Query(t) PROVE Fits
  <2>1. PICK f \in Rebuilt :
          /\ cache' = f
          /\ IF Found(f, t[1]) # 0
               THEN Holding(t, "shake", f[t[1]]) /\ UNCHANGED paid
               ELSE IF t[2] = 0
                 THEN Goto(t, "unmapped") /\ UNCHANGED paid
                 ELSE Goto(t, "pay") /\ paid' = paid \ {t[1]}
    BY <1>8 DEF Query, Requeried
  <2>2. f = NoMap \/ MapFine(f, chain)
    BY RebuiltLags, MapRebuilt
  <2>3. Found(f, t[1]) # 0 => f[t[1]] \in Own(chain, t[1])
    BY <1>2, <2>2 DEF Found, MapFine
  <2>4. Jobs'
    BY <1>3, <1>4, <2>1, <2>3 DEF Pcs
  <2> QED BY <1>8, <2>1, <2>2, <2>4 DEF Query, Placed, Plain
<1>9. ASSUME Shake(t) PROVE Fits
  <2>1. cred' = [cred EXCEPT ![t[1]] = job[t].sid] /\ job[t].sid \in {0} \cup Own(chain, t[1])
    BY <1>2, <1>9 DEF Shake, JobFine
  <2>2. MapFine(cred', chain)
    BY <1>2, <2>1, MapPut DEF Placed, Plain, Maps
  <2>3. Jobs'
    BY <1>3, <1>9 DEF Shake, Pcs
  <2> QED BY <1>9, <2>2, <2>3 DEF Shake, Placed, Plain, Maps, money, maps
<1>10. ASSUME Conflict(t) PROVE Fits
  <2>1. Jobs'
    BY <1>2, <1>3, <1>10 DEF Conflict, At, JobFine, Pcs
  <2> QED BY <1>10, <2>1 DEF Conflict, Placed, Plain, Maps, money, maps
<1>11. ASSUME ShakeFails(t) PROVE Fits
  <2> HIDE DEF Fits
  <2> QED BY <1>5, <1>11 DEF ShakeFails, Pcs, money
<1>12. ASSUME Connect(t) PROVE Fits
  <2>1. CASE Goto(t, "passed") /\ UNCHANGED <<poisoned, cred>>
    <3>1. Jobs'
      BY <1>3, <2>1 DEF Pcs
    <3> QED BY <1>12, <2>1, <3>1 DEF Connect, Placed, Plain, Maps, money, maps
  <2>2. CASE \E drop \in {TRUE, job[t].cached} : Throws(t, "failed", drop)
    <3> HIDE DEF Fits
    <3> QED BY <1>5, <1>12, <2>2 DEF Connect, Pcs, money
  <2> QED BY <1>12, <2>1, <2>2 DEF Connect
<1>13. Fits
  <2> HIDE DEF Fits
  <2> QED BY <1>6, <1>7, <1>8, <1>9, <1>10, <1>11, <1>12
<1>14. Plain'
  BY <1>1, <1>13 DEF Placed, Plain
<1>15. Maps'
  BY <1>1, <1>13 DEF Placed, Maps
<1> QED BY <1>13, <1>14, <1>15 DEF Placed

\* The steps that buy or cancel, and the batch's lookup.
LEMMA MoneyStep ==
  ASSUME Placed,
         \/ PayBatch \/ BatchFails \/ MapBatch \/ CancelBatch
         \/ \E t \in Tasks : Pay(t) \/ PayFails(t) \/ PayFresh(t) \/ FreshFails(t)
  PROVE  Placed'
<1> DEFINE Fits == /\ Grown(chain, chain')
                   /\ paid' \subseteq Nodes /\ denied' \subseteq Nodes
                   /\ poisoned' \subseteq Ids /\ orphans' \subseteq Ids
                   /\ pass' \in Pass /\ stop' \in BOOLEAN /\ spent' \in Nat
           Mapped == /\ cache' = NoMap \/ MapFine(cache', chain')
                     /\ cred' = cred \/ MapFine(cred', chain')
                     /\ batchMap' = batchMap \/ MapFine(batchMap', chain')
                     /\ fresh' = fresh \/ MapFine(fresh', chain')
<1>1. /\ Grown(chain, chain) /\ chain \in Seq(Session) /\ Len(chain) \in Nat
      /\ MaxSessions \in Nat /\ pass \in Pass
  BY SameChain, PaymentAssumption DEF Placed, Plain
<1>2. ASSUME NEW pc \in {"map", "pick", "sweep"} PROVE [pass EXCEPT !.pc = pc] \in Pass
  BY <1>1 DEF Pass
<1>3. ASSUME Grown(chain, chain') PROVE cache = NoMap \/ MapFine(cache, chain')
  BY <1>1, <1>3, Kept DEF Placed, Maps
<1>4. ASSUME PayBatch PROVE Fits /\ Mapped /\ UNCHANGED job
  <2>0. Grown(chain, chain')
    BY <1>4, Landed DEF PayBatch, Placed
  <2>1. Grown(chain, chain') /\ Len(chain') \in Nat
    BY <2>0 DEF Grown
  <2>2. orphans' \subseteq Ids /\ spent' \in Nat
    BY <1>1, <1>4, <2>1 DEF PayBatch, Grown, Ids, Placed, Plain
  <2> QED BY <1>2, <1>4, <2>1, <2>2 DEF PayBatch, Placed, Plain
<1>5. ASSUME BatchFails PROVE Fits /\ Mapped /\ UNCHANGED job
  <2>1. Grown(chain, chain')
    BY <1>1, <1>5, Landed DEF BatchFails, Placed
  <2> QED BY <1>2, <1>3, <1>5, <2>1 DEF BatchFails, Placed, Plain, maps
<1>6. ASSUME MapBatch PROVE Fits /\ Mapped /\ UNCHANGED job
  <2>1. PICK f \in Lagging, heard \in SUBSET Nodes :
          cache' = f /\ batchMap' = BatchResult(f, heard) /\ orphans' = Unmapped(batchMap')
    BY <1>6 DEF MapBatch
  <2>2. f = NoMap \/ MapFine(f, chain)
    BY MapRebuilt
  <2>3. MapFine(batchMap', chain)
    BY <2>1, <2>2 DEF BatchResult, Found, MapFine, Lookup
  <2>4. orphans' \subseteq Ids
    BY <2>1 DEF Unmapped, Placed, Plain
  <2> QED BY <1>1, <1>2, <1>6, <2>1, <2>2, <2>3, <2>4 DEF MapBatch, Placed, Plain, money
<1>7. ASSUME CancelBatch PROVE Fits /\ Mapped /\ UNCHANGED job
  <2>1. Grown(chain, chain')
    BY <1>7, Cancelled DEF Placed
  <2> QED BY <1>2, <1>3, <1>7, <2>1, MapNone DEF CancelBatch, Placed, Plain
<1>8. ASSUME NEW t \in Tasks, NEW pc \in {"failed", "broken"}, NEW drop, Throws(t, pc, drop),
             Grown(chain, chain')
      PROVE  /\ poisoned' \subseteq Ids /\ (cred' = cred \/ MapFine(cred', chain')) /\ Jobs'
  <2>1. /\ poisoned' \subseteq Ids /\ (cred' = cred \/ MapFine(cred', chain))
        /\ job' = [job EXCEPT ![t] = [job[t] EXCEPT !.pc = pc]]
    BY <1>8, Throw
  <2>2. t[1] \in Nodes /\ JobFine(job[t], t[1], chain)
    BY DEF Tasks, Placed, Jobs
  <2>3. JobFine(job[t], t[1], chain') /\ (MapFine(cred', chain) => MapFine(cred', chain'))
    BY <1>1, <1>8, <2>2, Kept
  <2>4. Jobs'
    BY <1>8, <2>1, <2>3, JobGoes, JobTurns DEF Pcs
  <2> QED BY <2>1, <2>3, <2>4
\* A payment that is answered: its session goes into the map and to the call.
<1>9. ASSUME NEW t \in Tasks, NEW by \in {"single", "fresh"}, Buys(t[1], by),
             NEW pc \in Pcs, Holding(t, pc, NextId), cache' = AddToMap(cache, t[1], NextId)
      PROVE  /\ Grown(chain, chain') /\ MapFine(cache', chain') /\ Jobs'
             /\ MapFine([fresh EXCEPT ![t[1]] = NextId], chain')
  <2>1. t[1] \in Nodes /\ JobFine(job[t], t[1], chain)
    BY DEF Tasks, Placed, Jobs
  <2>2. Grown(chain, chain') /\ NextId \in {0} \cup Own(chain', t[1])
    BY <1>9, <2>1, Bought DEF Placed
  <2>3. /\ chain' \in Seq(Session) /\ Len(chain') <= MaxSessions
        /\ JobFine(job[t], t[1], chain') /\ MapFine(fresh, chain')
        /\ (cache = NoMap \/ MapFine(cache, chain'))
    BY <1>1, <1>3, <2>1, <2>2, Kept DEF Grown, Placed, Maps
  <2>4. Jobs'
    <3>1. JobFine([job[t] EXCEPT !.pc = pc, !.sid = NextId], t[1], chain')
      <4>1. NextId \in {0} \cup Own(chain', t[1]) /\ NextId # 0
        BY <1>1, <2>2 DEF NextId
      <4> HIDE DEF NextId
      <4> QED BY <1>9, <2>3, <4>1, JobHolds
    <3>2. job' = [job EXCEPT ![t] = [job[t] EXCEPT !.pc = pc, !.sid = NextId]]
      BY <1>9 DEF Holding
    <3> QED BY <2>2, <3>1, <3>2, JobTurns
  <2>5. MapFine([fresh EXCEPT ![t[1]] = NextId], chain')
    BY <2>1, <2>2, <2>3, MapPut
  <2>6. MapFine(cache', chain')
    <3> DEFINE f == IF cache = NoMap THEN Nothing ELSE cache
    <3>1. MapFine(f, chain')
      BY <2>3, MapNone
    <3>2. cache' = [f EXCEPT ![t[1]] = NextId]
      BY <1>9 DEF AddToMap
    <3> HIDE DEF f
    <3> QED BY <2>1, <2>2, <2>3, <3>1, <3>2, MapPut
  <2> QED BY <2>2, <2>4, <2>5, <2>6
<1>10. ASSUME NEW t \in Tasks, Pay(t) PROVE Fits /\ Mapped /\ Jobs'
  <2>1. Grown(chain, chain') /\ MapFine(cache', chain') /\ Jobs'
    BY <1>9, <1>10 DEF Pay, Pcs
  <2> QED BY <1>10, <2>1 DEF Pay, Tasks, Placed, Plain, maps
<1>11. ASSUME NEW t \in Tasks, PayFails(t) PROVE Fits /\ Mapped /\ Jobs'
  <2>1. Grown(chain, chain') /\ spent' \in Nat
    <3>1. t[1] \in Nodes
      BY DEF Tasks
    <3> QED BY <1>1, <1>11, <3>1, Bought DEF PayFails, Placed, Plain
  <2>2. poisoned' \subseteq Ids /\ (cred' = cred \/ MapFine(cred', chain')) /\ Jobs'
    BY <1>8, <1>11, <2>1 DEF PayFails, Pcs
  <2> QED BY <1>3, <1>11, <2>1, <2>2 DEF PayFails, Tasks, Placed, Plain, maps
<1>12. ASSUME NEW t \in Tasks, PayFresh(t) PROVE Fits /\ Mapped /\ Jobs'
  <2>1. Grown(chain, chain') /\ MapFine(cache', chain') /\ Jobs' /\ MapFine(fresh', chain')
    BY <1>9, <1>12 DEF PayFresh, Pcs
  <2>2. job[t].sid \in Ids
    BY <1>12 DEF PayFresh, At, Placed, Jobs, JobFine, Job
  <2> QED BY <1>12, <2>1, <2>2 DEF PayFresh, Tasks, Placed, Plain
<1>13. ASSUME NEW t \in Tasks, FreshFails(t) PROVE Fits /\ Mapped /\ Jobs'
  <2>1. Grown(chain, chain')
    <3>1. t[1] \in Nodes
      BY DEF Tasks
    <3> QED BY <1>1, <1>13, <3>1, Bought DEF FreshFails, Placed
  <2>2. poisoned' \subseteq Ids /\ (cred' = cred \/ MapFine(cred', chain')) /\ Jobs'
    BY <1>8, <1>13, <2>1 DEF FreshFails, Pcs
  <2> QED BY <1>3, <1>13, <2>1, <2>2 DEF FreshFails, Tasks, Placed, Plain, maps
<1>14. Fits /\ Mapped /\ (Jobs' \/ UNCHANGED job)
  <2> HIDE DEF Fits, Mapped
  <2> QED BY <1>4, <1>5, <1>6, <1>7, <1>10, <1>11, <1>12, <1>13
<1>15. Plain'
  BY <1>14 DEF Plain, Grown
<1>16. Jobs'
  BY <1>14, JobsKept
<1>17. Maps'
  BY <1>14, MapsKept
<1> QED BY <1>15, <1>16, <1>17 DEF Placed
LEMMA PlacedStep == ASSUME Placed, [Next]_vars PROVE Placed'
BY PassStep, LoopStep, CallStep, MoneyStep DEF Next, Done

LEMMA PlacedGives == Placed => RightNode
<1> SUFFICES ASSUME Placed PROVE RightNode
  OBVIOUS
<1>1. \A n \in Nodes : Of(n) = Own(chain, n)
  BY DEF Of, Own, Known
<1>2. TypeOK
  BY DEF Placed, Plain, Maps, Jobs, MapFine, TypeOK
<1>3. \A n \in Nodes : {batchMap[n], Found(cache, n), cred[n], fresh[n]} \subseteq {0} \cup Own(chain, n)
  BY DEF Placed, Maps, MapFine, Found
<1>4. \A n \in Nodes, r \in Rounds : job[<<n, r>>].sid \in {0} \cup Own(chain, n)
  <2>1. \A n \in Nodes, r \in Rounds : <<n, r>> \in Tasks /\ <<n, r>>[1] = n
    BY DEF Tasks
  <2> QED BY <2>1 DEF Placed, Jobs, JobFine
<1> QED BY <1>1, <1>2, <1>3, <1>4 DEF RightNode

\* No test connects to a node with another node's session, under every fault:
\* the batch map, the cache, the credentials, the fresh sessions and the running
\* calls hold only sessions of the node they are for.
THEOREM SessionsStayWithTheirNodes == Spec => []RightNode
BY PlacedInit, PlacedStep, PlacedGives, PTL DEF Spec

-----------------------------------------------------------------------------
(* The amount spent. *)

LEMMA RecentGrows ==
  ASSUME NEW s \in Seq(Session), NEW u \in Seq(Session), Len(s) <= Len(u),
         \A i \in 1..Len(s) : u[i].by = s[i].by,
         \A i \in (1..Len(u)) \ (1..Len(s)) : u[i].by # "old"
  PROVE  Cardinality(Recent(u)) = Cardinality(Recent(s)) + (Len(u) - Len(s))
<1> DEFINE new == (Len(s) + 1)..Len(u)
<1>1. Len(s) \in Nat /\ Len(u) \in Nat
  OBVIOUS
<1>2. IsFiniteSet(new) /\ Cardinality(new) = Len(u) - Len(s)
  <2>1. Len(s) + 1 \in Int /\ Len(u) \in Int
    BY <1>1
  <2>2. /\ IsFiniteSet(new)
        /\ Cardinality(new) = IF Len(s) + 1 > Len(u) THEN 0 ELSE Len(u) - (Len(s) + 1) + 1
    BY <2>1, FS_Interval
  <2> HIDE DEF new
  <2> QED BY <1>1, <2>2
<1>3. IsFiniteSet(Recent(s)) /\ Cardinality(Recent(s)) \in Nat
  <2>1. Recent(s) \subseteq 1..Len(s) /\ IsFiniteSet(1..Len(s))
    BY <1>1, FS_Interval DEF Recent
  <2> QED BY <2>1, FS_Subset, FS_CardinalityType
<1>4. Recent(u) = Recent(s) \cup new /\ Recent(s) \cap new = {}
  BY <1>1 DEF Recent
<1>5. Cardinality(Recent(s) \cap new) = 0
  BY <1>4, FS_EmptySet
<1> HIDE DEF new
<1>6. Cardinality(Recent(s) \cup new)
        = Cardinality(Recent(s)) + Cardinality(new) - Cardinality(Recent(s) \cap new)
  BY <1>2, <1>3, FS_Union
<1> QED BY <1>1, <1>2, <1>3, <1>4, <1>5, <1>6

LEMMA SpendCounts == SpendReported <=> spent = Cardinality(Recent(chain))
BY DEF SpendReported, Recent, Known

LEMMA SpendInit == Init => SpendReported
<1> SUFFICES ASSUME Init PROVE Recent(chain) = {} /\ spent = 0
  BY SpendCounts, FS_EmptySet
<1> QED BY DEF Init, Recent

\* A session bought is counted in the step that buys it.
LEMMA SpendBuys ==
  ASSUME Placed, SpendReported, NEW n \in Nodes, NEW by \in {"single", "fresh"}, Buys(n, by),
         spent' = spent + 1
  PROVE  SpendReported'
<1>1. /\ Grown(chain, chain') /\ chain'[NextId].by = by /\ Len(chain') = Len(chain) + 1
      /\ chain \in Seq(Session) /\ Len(chain) \in Nat
  BY Bought DEF Placed, Plain, NextId
<1>2. /\ chain' \in Seq(Session) /\ Len(chain) <= Len(chain')
      /\ \A i \in 1..Len(chain) : chain'[i].by = chain[i].by
      /\ \A i \in (1..Len(chain')) \ (1..Len(chain)) : chain'[i].by # "old"
  BY <1>1 DEF Grown, NextId
<1>3. Cardinality(Recent(chain')) = Cardinality(Recent(chain)) + (Len(chain') - Len(chain))
  BY <1>1, <1>2, RecentGrows
<1>4. Cardinality(Recent(chain)) = spent /\ spent \in Nat
  BY SpendCounts DEF Placed, Plain
<1>5. spent' = Cardinality(Recent(chain'))
  BY <1>1, <1>3, <1>4
<1> QED BY <1>5 DEF SpendReported, Recent, Known

LEMMA SpendStep ==
  ASSUME Placed, SpendReported, [Next]_vars, Faults \cap {"lost", "noid"} = {}
  PROVE  SpendReported'
<1>1. ASSUME UNCHANGED <<chain, spent>> PROVE SpendReported'
  BY <1>1 DEF SpendReported, Known
<1>2. CASE PayBatch
  <2>1. /\ Grown(chain, chain') /\ chain \in Seq(Session) /\ spent' = spent + (Len(chain') - Len(chain))
        /\ \A i \in (1..Len(chain')) \ Known : chain'[i].by = "batch"
    BY <1>2, Landed DEF PayBatch, Placed, Plain
  <2>2. /\ chain' \in Seq(Session) /\ Len(chain) <= Len(chain')
        /\ \A i \in 1..Len(chain) : chain'[i].by = chain[i].by
        /\ \A i \in (1..Len(chain')) \ (1..Len(chain)) : chain'[i].by # "old"
    BY <2>1 DEF Grown, Known
  <2>3. Cardinality(Recent(chain')) = Cardinality(Recent(chain)) + (Len(chain') - Len(chain))
    BY <2>1, <2>2, RecentGrows
  <2>4. spent' = Cardinality(Recent(chain'))
    BY <2>1, <2>3, SpendCounts
  <2> QED BY <2>4 DEF SpendReported, Recent, Known
<1>3. CASE CancelBatch
  <2>1. /\ Len(chain') = Len(chain) /\ spent' = spent
        /\ \A i \in Known : chain'[i].by = chain[i].by
    BY <1>3, Cancelled DEF CancelBatch, Placed, Grown, Known
  <2>2. Known' = Known /\ {i \in Known : chain'[i].by # "old"} = {i \in Known : chain[i].by # "old"}
    BY <2>1 DEF Known
  <2> QED BY <2>1, <2>2 DEF SpendReported
<1>4. ASSUME NEW t \in Tasks, Pay(t) \/ PayFresh(t) PROVE SpendReported'
  <2>1. t[1] \in Nodes
    BY DEF Tasks
  <2> QED BY <1>4, <2>1, SpendBuys DEF Pay, PayFresh
<1>5. ASSUME NEW t \in Tasks, PayFails(t) \/ FreshFails(t) PROVE SpendReported'
  <2>1. UNCHANGED <<chain, spent>>
    BY <1>5 DEF PayFails, FreshFails
  <2> QED BY <1>1, <2>1
<1>6. CASE BatchFails
  BY <1>1, <1>6 DEF BatchFails
<1>7. CASE MapBatch \/ Retry \/ Record \/ Abandon \/ Stop \/ EndRound \/ Sweep \/ Done \/ UNCHANGED vars
  BY <1>1, <1>7 DEF MapBatch, Retry, Record, Abandon, Stop, EndRound, Sweep, Done, vars, money
<1>8. ASSUME NEW n \in Nodes, Pick(n) PROVE SpendReported'
  BY <1>1, <1>8 DEF Pick, money
<1>9. ASSUME NEW t \in Tasks,
             \/ Open(t) \/ QueryHit(t) \/ Query(t) \/ Shake(t) \/ Conflict(t) \/ ShakeFails(t) \/ Connect(t)
      PROVE  SpendReported'
  BY <1>1, <1>9 DEF Open, QueryHit, Query, Shake, Conflict, ShakeFails, Connect, money
<1> QED BY <1>2, <1>3, <1>4, <1>5, <1>6, <1>7, <1>8, <1>9 DEF Next

\* The amount reported as spent is the number of sessions this run bought, in
\* every batch and sweep, while no payment lands that its call does not hear of.
THEOREM SpendIsReported ==
  ASSUME Faults \cap {"lost", "noid"} = {} PROVE Spec => []SpendReported
<1>1. Placed /\ SpendReported /\ [Next]_vars => (Placed /\ SpendReported)'
  BY PlacedStep, SpendStep
<1>2. Init => Placed /\ SpendReported
  BY PlacedInit, SpendInit
<1> QED BY <1>1, <1>2, PTL DEF Spec
-----------------------------------------------------------------------------
(* The deposits of a batch. *)

LEMMA BankInit == Init => Banked
<1> SUFFICES ASSUME Init PROVE Banked
  OBVIOUS
<1>1. Batched = {}
  BY DEF Init, Batched, Known
<1>2. pass.pc = "pay" /\ pass.round = 0
  BY DEF Init
<1> QED BY <1>1, <1>2 DEF Banked

\* A step that neither maps nor buys a batch leaves its sessions and their places.
LEMMA BankSame ==
  ASSUME Banked, Batched' = Batched, \A i \in Batched : chain'[i].node = chain[i].node,
         UNCHANGED <<batchMap, orphans>>,
         pass'.pc \in {"pay", "map", "cancel"} => pass'.round = 0,
         pass'.pc = "pay" => pass.pc = "pay", pass'.pc = "map" => pass.pc = "map",
         pass'.pc \in {"pick", "wait", "cancel"} /\ pass'.round = 0 =>
           (pass.pc \in {"pick", "wait", "cancel"} /\ pass.round = 0) \/ Batched = {}
  PROVE  Banked'
BY DEF Banked

LEMMA BankBuys ==
  ASSUME Placed, NEW n \in Nodes, NEW by \in {"single", "fresh"}, Buys(n, by)
  PROVE  Batched' = Batched /\ \A i \in Batched : chain'[i].node = chain[i].node
<1>1. /\ Len(chain') = Len(chain) + 1 /\ Len(chain) \in Nat
      /\ chain'[Len(chain) + 1].by = by /\ \A i \in Known : chain'[i] = chain[i]
  BY Bought DEF Placed, Plain, NextId
<1> QED BY <1>1 DEF Batched, Known

LEMMA BankPass ==
  ASSUME Placed, Banked, "lost" \notin Faults,
         BatchFails \/ Abandon \/ Stop \/ EndRound \/ Sweep \/ Retry \/ Record
         \/ UNCHANGED vars \/ \E n \in Nodes : Pick(n)
  PROVE  Banked'
<1>1. UNCHANGED <<chain, batchMap, orphans>>
  BY DEF BatchFails, Abandon, Stop, EndRound, Sweep, Retry, Record, Pick, vars, money, maps
<1>2. Batched' = Batched /\ \A i \in Batched : chain'[i].node = chain[i].node
  BY <1>1 DEF Batched, Known
<1>3. pass \in Pass /\ pass.round \in Nat
  BY DEF Placed, Plain, Pass, Rounds
<1>4. CASE BatchFails
  <2>1. pass'.pc = "pick" /\ pass'.round = pass.round /\ pass.pc = "pay" /\ Batched = {}
    BY <1>3, <1>4 DEF BatchFails, Pass, Banked
  <2> QED BY <1>1, <1>2, <2>1, BankSame
<1>5. CASE Stop \/ Retry \/ UNCHANGED vars
  <2>1. pass' = pass
    BY <1>5 DEF Stop, Retry, vars
  <2> QED BY <1>1, <1>2, <2>1, BankSame DEF Banked
<1>6. CASE Abandon \/ Record
  <2>1. pass'.pc = "pick" /\ pass'.round = pass.round /\ pass.pc = "wait"
    BY <1>3, <1>6 DEF Abandon, Record, Pass
  <2> QED BY <1>1, <1>2, <2>1, BankSame
<1>7. ASSUME NEW n \in Nodes, Pick(n) PROVE Banked'
  <2>1. pass'.pc = "wait" /\ pass'.round = pass.round /\ pass.pc = "pick"
    BY <1>3, <1>7 DEF Pick, Pass
  <2> QED BY <1>1, <1>2, <2>1, BankSame
<1>8. CASE EndRound
  <2>1. pass'.round = pass.round /\ pass.pc \in {"pick", "pay"}
    BY <1>3, <1>8 DEF EndRound, Pass
  <2>2. pass'.pc = IF pass.pc = "pay" \/ pass.round > 0 THEN "sweep" ELSE "cancel"
    BY <1>3, <1>8 DEF EndRound, Pass
  <2>3. pass'.pc = "sweep" \/ (pass'.pc = "cancel" /\ pass.pc = "pick" /\ pass.round = 0)
    BY <1>3, <2>1, <2>2
  <2> QED BY <1>1, <1>2, <2>1, <2>3, BankSame
<1>9. CASE Sweep
  <2>1. pass'.pc = "done" \/ (pass'.pc = "pick" /\ pass'.round = pass.round + 1)
    BY <1>3, <1>9 DEF Sweep, Pass
  <2>2. pass'.pc = "done" \/ (pass'.pc = "pick" /\ pass'.round # 0)
    BY <1>3, <2>1
  <2> QED BY <1>1, <1>2, <2>2, BankSame
<1> QED BY <1>4, <1>5, <1>6, <1>7, <1>8, <1>9

LEMMA BankStep ==
  ASSUME Placed, Banked, "lost" \notin Faults, [Next]_vars
  PROVE  Banked'
<1>1. pass \in Pass
  BY DEF Placed, Plain
<1>2. CASE PayBatch
  <2>1. pass'.pc = "map" /\ pass'.round = 0 /\ Batched = {} /\ orphans' = (1..Len(chain')) \ Known
    BY <1>1, <1>2 DEF PayBatch, Pass, Banked
  <2>2. \A i \in Known : chain'[i].by = chain[i].by
    BY <1>2, Landed DEF PayBatch, Placed
  <2>3. Batched' \subseteq orphans'
    BY <2>1, <2>2 DEF Batched, Known
  <2> QED BY <2>1, <2>3 DEF Banked
<1>3. CASE MapBatch
  <2>1. /\ pass'.pc = "pick" /\ pass'.round = 0 /\ Batched \subseteq orphans
        /\ chain' = chain
    BY <1>1, <1>3 DEF MapBatch, Pass, Banked, money
  <2>2. PICK f \in Lagging, heard \in SUBSET Nodes :
          batchMap' = BatchResult(f, heard) /\ orphans' = Unmapped(batchMap')
    BY <1>3 DEF MapBatch
  <2>3. ASSUME NEW n \in Nodes, batchMap'[n] \in Batched PROVE chain[batchMap'[n]].node = n
    <3>1. batchMap'[n] # 0
      BY <2>3 DEF Batched, Known
    <3>2. batchMap'[n] = f[n] /\ f # NoMap
      BY <2>2, <3>1 DEF BatchResult, Found
    <3>3. f[n] \in {0} \cup Own(chain, n)
      BY <3>2, MapRebuilt DEF MapFine
    <3> QED BY <3>1, <3>2, <3>3 DEF Own
  <2>4. \A i \in Batched \ orphans' : batchMap'[chain[i].node] = i
    BY <2>1, <2>2, <2>3 DEF Unmapped
  <2>5. Batched' = Batched
    BY <2>1 DEF Batched, Known
  <2> QED BY <2>1, <2>4, <2>5 DEF Banked
<1>4. CASE CancelBatch
  <2>1. pass'.pc = "sweep"
    BY <1>1, <1>4 DEF CancelBatch, Pass
  <2> QED BY <2>1 DEF Banked
<1>5. ASSUME NEW t \in Tasks, Pay(t) \/ PayFails(t) \/ PayFresh(t) \/ FreshFails(t) PROVE Banked'
  <2>1. t[1] \in Nodes
    BY DEF Tasks
  <2>2. chain' = chain \/ \E by \in {"single", "fresh"} : Buys(t[1], by)
    BY <1>5 DEF Pay, PayFails, PayFresh, FreshFails
  <2>3. Batched' = Batched /\ \A i \in Batched : chain'[i].node = chain[i].node
    BY <2>1, <2>2, BankBuys DEF Batched, Known
  <2>4. UNCHANGED <<batchMap, orphans, pass>>
    BY <1>5 DEF Pay, PayFails, PayFresh, FreshFails, maps
  <2> QED BY <2>3, <2>4, BankSame DEF Banked
<1>6. ASSUME NEW t \in Tasks,
             \/ Open(t) \/ QueryHit(t) \/ Query(t) \/ Shake(t) \/ Conflict(t) \/ ShakeFails(t) \/ Connect(t)
      PROVE  Banked'
  <2>1. UNCHANGED <<chain, batchMap, orphans, pass>>
    BY <1>6 DEF Open, QueryHit, Query, Shake, Conflict, ShakeFails, Connect, money, maps
  <2>2. Batched' = Batched /\ \A i \in Batched : chain'[i].node = chain[i].node
    BY <2>1 DEF Batched, Known
  <2> QED BY <2>1, <2>2, BankSame DEF Banked
<1> QED BY <1>2, <1>3, <1>4, <1>5, <1>6, BankPass DEF Next, Done

LEMMA CancelReleases ==
  ASSUME Placed, Banked, CancelBatch, chain' # chain, NEW i \in Known
  PROVE  /\ chain[i].by = "batch" /\ chain'[i].live => fresh[chain[i].node] # 0
         /\ fresh[chain[i].node] = i => ~chain'[i].live
<1>1. chain[i] \in Session /\ chain[i].node \in Nodes /\ i # 0
  <2>1. chain \in Seq(Session) /\ i \in 1..Len(chain)
    BY DEF Placed, Plain, Known
  <2>2. chain[i] \in Session /\ i # 0
    BY <2>1
  <2> QED BY <2>2 DEF Session
<1>2. i \in ToCancel => ~chain'[i].live
  BY <1>1 DEF CancelBatch, Session
<1>3. fresh[chain[i].node] = i => i \in ToCancel
  BY <1>1 DEF ToCancel, Folded
<1>4. chain[i].by = "batch" => i \in orphans \/ batchMap[chain[i].node] = i
  BY DEF Banked, Batched, CancelBatch
<1>5. chain[i].by = "batch" /\ fresh[chain[i].node] = 0 => i \in ToCancel
  BY <1>1, <1>4 DEF ToCancel, Folded
<1> QED BY <1>2, <1>3, <1>5

\* A cancel that succeeds ends every session the batch bought, the ones no node
\* could be found for included, or the fresh session bought in its stead.
THEOREM DepositsAreReleased ==
  ASSUME "lost" \notin Faults PROVE Spec => DepositsReleased
<1>1. Placed /\ Banked /\ [Next]_vars => (Placed /\ Banked)'
  BY PlacedStep, BankStep
<1>2. Init => Placed /\ Banked
  BY PlacedInit, BankInit
<1>3. Placed /\ Banked => [CancelBatch /\ chain' # chain =>
        \A i \in Known :
          /\ chain[i].by = "batch" /\ chain'[i].live => fresh[chain[i].node] # 0
          /\ fresh[chain[i].node] = i => ~chain'[i].live]_vars
  BY CancelReleases
<1> QED BY <1>1, <1>2, <1>3, PTL DEF Spec, DepositsReleased

-----------------------------------------------------------------------------
(* Nodes that were paid for. *)

\* A step of the call t: no other call moves, and neither does the loop.
Turn(t) ==
  /\ \A d \in Tasks : d # t => job'[d] = job[d]
  /\ job'[t].pre = job[t].pre /\ job[t].pc # "off" /\ job[t].pc \in Pcs
  /\ UNCHANGED <<batchMap, pass, stop>>

LEMMA GotoTurns ==
  ASSUME Placed, NEW t \in Tasks, NEW pc, Goto(t, pc)
  PROVE  /\ job'[t].pc = pc /\ job'[t].pre = job[t].pre /\ job[t].pc \in Pcs
         /\ \A d \in Tasks : d # t => job'[d] = job[d]
<1>1. job \in [Tasks -> Job] /\ job[t] \in Job
  BY DEF Placed, Jobs
<1>2. job' = [job EXCEPT ![t] = [job[t] EXCEPT !.pc = pc]]
  BY DEF Goto
<1> QED BY <1>1, <1>2 DEF Job, Pcs

LEMMA HoldingTurns ==
  ASSUME Placed, NEW t \in Tasks, NEW pc, NEW i, Holding(t, pc, i)
  PROVE  /\ job'[t].pc = pc /\ job'[t].pre = job[t].pre /\ job[t].pc \in Pcs
         /\ \A d \in Tasks : d # t => job'[d] = job[d]
<1>1. job \in [Tasks -> Job] /\ job[t] \in Job
  BY DEF Placed, Jobs
<1>2. job' = [job EXCEPT ![t] = [job[t] EXCEPT !.pc = pc, !.sid = i]]
  BY DEF Holding
<1>3. job'[t] = [job[t] EXCEPT !.pc = pc, !.sid = i]
  BY <1>1, <1>2
<1>4. job'[t].pc = pc /\ job'[t].pre = job[t].pre
  BY <1>1, <1>3 DEF Job
<1>5. \A d \in Tasks : d # t => job'[d] = job[d]
  BY <1>1, <1>2
<1> QED BY <1>1, <1>4, <1>5 DEF Job, Pcs

LEMMA OpenTurns ==
  ASSUME Placed, NEW t \in Tasks, Open(t)
  PROVE  /\ Turn(t)
         /\ \/ job'[t].pc = "connect"
            \/ job'[t].pc = "shake" /\ job[t].pre # 0
            \/ job'[t].pc = "query" /\ t[1] \in paid
            \/ job'[t].pc = "pay" /\ t[1] \notin paid
<1> DEFINE a == [job[t] EXCEPT !.pc = "connect", !.sid = cred[t[1]], !.cached = TRUE]
           b == [job[t] EXCEPT !.pc = "shake", !.sid = job[t].pre]
           d == [job[t] EXCEPT !.pc = IF t[1] \in paid THEN "query" ELSE "pay"]
           r == IF cred[t[1]] # 0 THEN a ELSE IF job[t].pre # 0 THEN b ELSE d
<1>1. job \in [Tasks -> Job] /\ job[t] \in Job
  BY DEF Placed, Jobs
<1>2. job' = [job EXCEPT ![t] = r] /\ job[t].pc = "open" /\ UNCHANGED <<batchMap, pass, stop>>
  BY DEF Open, At, maps
<1>3. a.pc = "connect" /\ a.pre = job[t].pre
  BY <1>1 DEF Job
<1>4. b.pc = "shake" /\ b.pre = job[t].pre
  BY <1>1 DEF Job
<1>5. d.pre = job[t].pre /\ d.pc = IF t[1] \in paid THEN "query" ELSE "pay"
  BY <1>1 DEF Job
<1> HIDE DEF a, b, d
<1>6. job'[t] = r /\ \A e \in Tasks : e # t => job'[e] = job[e]
  BY <1>1, <1>2
<1> QED BY <1>2, <1>3, <1>4, <1>5, <1>6 DEF Turn, Pcs

\* What Query does, when the chain answers.
LEMMA QueryTurns ==
  ASSUME Placed, NEW t \in Tasks, "blind" \notin Faults, Query(t)
  PROVE  /\ Turn(t) /\ job[t].pc = "query"
         /\ \/ job'[t].pc = "shake" /\ paid' = paid
            \/ Usable \cap Of(t[1]) = {} /\ job'[t].pc = "unmapped" /\ paid' = paid
            \/ /\ Usable \cap Of(t[1]) = {} /\ job'[t].pc = "pay"
               /\ t[2] # 0 /\ paid' = paid \ {t[1]}
<1>1. PICK f \in Rebuilt :
        IF Found(f, t[1]) # 0
          THEN Holding(t, "shake", f[t[1]]) /\ UNCHANGED paid
          ELSE IF t[2] = 0
            THEN Goto(t, "unmapped") /\ UNCHANGED paid
            ELSE Goto(t, "pay") /\ paid' = paid \ {t[1]}
  BY DEF Query, Requeried
<1>2. t[1] \in Nodes /\ job[t].pc = "query" /\ UNCHANGED <<batchMap, pass, stop>>
  BY DEF Tasks, Query, At, maps
<1>3. Found(f, t[1]) = 0 => Usable \cap Of(t[1]) = {}
  <2>1. f \in MapsOf(Usable)
    BY <1>1 DEF Rebuilt
  <2>2. f # NoMap
    BY <2>1, PaymentAssumption DEF MapsOf, Lookup, Ids
  <2>3. Usable \cap Of(t[1]) # {} => f[t[1]] \in Known
    BY <1>2, <2>1 DEF MapsOf, Of
  <2> QED BY <2>2, <2>3 DEF Found, Known
<1>4. CASE Found(f, t[1]) # 0
  BY <1>1, <1>2, <1>4, HoldingTurns DEF Turn
<1>5. CASE Found(f, t[1]) = 0 /\ t[2] = 0
  BY <1>1, <1>2, <1>3, <1>5, GotoTurns DEF Turn
<1>6. CASE Found(f, t[1]) = 0 /\ t[2] # 0
  BY <1>1, <1>2, <1>3, <1>6, GotoTurns DEF Turn
<1> QED BY <1>4, <1>5, <1>6

\* Where the other steps of a call lead.
LEMMA OtherTurns ==
  ASSUME Placed, NEW t \in Tasks
  PROVE  /\ Pay(t) => Turn(t) /\ job[t].pc = "pay" /\ job'[t].pc = "shake"
         /\ PayFails(t) => Turn(t) /\ job[t].pc = "pay" /\ job'[t].pc = "failed"
         /\ QueryHit(t) => Turn(t) /\ job[t].pc = "query" /\ job'[t].pc = "shake"
         /\ Shake(t) => Turn(t) /\ job[t].pc \in {"shake", "reshake"} /\ job'[t].pc = "connect"
         /\ Conflict(t) => Turn(t) /\ job[t].pc = "shake" /\ job'[t].pc = "fresh"
         /\ ShakeFails(t) => /\ Turn(t) /\ job[t].pc \in {"shake", "reshake"}
                             /\ job'[t].pc \in {"failed", "broken"}
         /\ PayFresh(t) => Turn(t) /\ job[t].pc = "fresh" /\ job'[t].pc = "reshake"
         /\ FreshFails(t) => Turn(t) /\ job[t].pc = "fresh" /\ job'[t].pc = "broken"
         /\ Connect(t) => Turn(t) /\ job[t].pc = "connect" /\ job'[t].pc \in {"passed", "failed"}
<1>1. ASSUME NEW pc, NEW drop, Throws(t, pc, drop)
      PROVE  /\ job'[t].pc = pc /\ job'[t].pre = job[t].pre /\ job[t].pc \in Pcs
             /\ \A d \in Tasks : d # t => job'[d] = job[d]
  BY <1>1, GotoTurns DEF Throws
<1>2. Pay(t) => Turn(t) /\ job[t].pc = "pay" /\ job'[t].pc = "shake"
  BY HoldingTurns DEF Pay, At, Turn, maps
<1>3. PayFails(t) => Turn(t) /\ job[t].pc = "pay" /\ job'[t].pc = "failed"
  BY <1>1 DEF PayFails, At, Turn, maps
<1>4. QueryHit(t) => Turn(t) /\ job[t].pc = "query" /\ job'[t].pc = "shake"
  BY HoldingTurns DEF QueryHit, At, Turn, maps
<1>5. Shake(t) => Turn(t) /\ job[t].pc \in {"shake", "reshake"} /\ job'[t].pc = "connect"
  BY GotoTurns DEF Shake, At, Turn, maps
<1>6. Conflict(t) => Turn(t) /\ job[t].pc = "shake" /\ job'[t].pc = "fresh"
  BY GotoTurns DEF Conflict, At, Turn, maps
<1>7. ShakeFails(t) => /\ Turn(t) /\ job[t].pc \in {"shake", "reshake"}
                       /\ job'[t].pc \in {"failed", "broken"}
  BY <1>1 DEF ShakeFails, At, Turn, maps
<1>8. PayFresh(t) => Turn(t) /\ job[t].pc = "fresh" /\ job'[t].pc = "reshake"
  BY HoldingTurns DEF PayFresh, At, Turn
<1>9. FreshFails(t) => Turn(t) /\ job[t].pc = "fresh" /\ job'[t].pc = "broken"
  BY <1>1 DEF FreshFails, At, Turn, maps
<1>10. Connect(t) => Turn(t) /\ job[t].pc = "connect" /\ job'[t].pc \in {"passed", "failed"}
  <2>1. CASE Goto(t, "passed")
    BY <2>1, GotoTurns DEF Connect, At, Turn, maps
  <2>2. CASE \E drop \in {TRUE, job[t].cached} : Throws(t, "failed", drop)
    BY <1>1, <2>2 DEF Connect, At, Turn, maps
  <2> QED BY <2>1, <2>2 DEF Connect
<1> QED BY <1>2, <1>3, <1>4, <1>5, <1>6, <1>7, <1>8, <1>9, <1>10
LEMMA ChargedStep ==
  ASSUME Placed, "blind" \notin Faults, [Next]_vars, NEW t \in Tasks,
         ~At(t, "unmapped"), At(t, "unmapped")'
  PROVE  Usable \cap Of(t[1]) = {}
<1> SUFFICES ASSUME Usable \cap Of(t[1]) # {} PROVE FALSE
  OBVIOUS
<1>1. job[t].pc # "unmapped" /\ job'[t].pc = "unmapped"
  BY DEF At
<1>2. job \in [Tasks -> Job]
  BY DEF Placed, Jobs
<1>3. ASSUME NEW d \in Tasks,
             \/ Pay(d) \/ PayFails(d) \/ QueryHit(d) \/ Shake(d) \/ Conflict(d) \/ ShakeFails(d)
             \/ PayFresh(d) \/ FreshFails(d) \/ Connect(d)
      PROVE  FALSE
  <2>1. Turn(d) /\ job'[d].pc # "unmapped"
    BY <1>3, OtherTurns
  <2> QED BY <1>1, <2>1 DEF Turn
<1>4. ASSUME NEW d \in Tasks, Open(d) PROVE FALSE
  <2>1. Turn(d) /\ job'[d].pc # "unmapped"
    BY <1>4, OpenTurns
  <2> QED BY <1>1, <2>1 DEF Turn
<1>5. ASSUME NEW d \in Tasks, Query(d) PROVE FALSE
  <2>1. CASE d = t
    BY <1>1, <1>5, <2>1, QueryTurns
  <2>2. CASE d # t
    BY <1>1, <1>5, <2>2, QueryTurns DEF Turn
  <2> QED BY <2>1, <2>2
<1>6. ASSUME NEW n \in Nodes, Pick(n) PROVE FALSE
  <2> DEFINE r == [Off EXCEPT !.pc = "open", !.pre = IF pass.round = 0 THEN batchMap[n] ELSE 0]
  <2>1. job' = [job EXCEPT ![<<n, pass.round>>] = r]
    BY <1>6 DEF Pick
  <2>2. r.pc = "open"
    BY DEF Off
  <2> HIDE DEF r
  <2> QED BY <1>1, <1>2, <2>1, <2>2
<1>7. ASSUME Retry PROVE FALSE
  <2> DEFINE r == [job[Current] EXCEPT !.pc = "open", !.sid = 0, !.cached = FALSE, !.tries = @ + 1]
  <2>1. job' = [job EXCEPT ![Current] = r]
    BY <1>7 DEF Retry
  <2>2. Current = t => r.pc = "open"
    BY <1>2 DEF Job
  <2> HIDE DEF r
  <2> QED BY <1>1, <1>2, <2>1, <2>2
<1>8. ASSUME Record PROVE FALSE
  <2>1. job' = [job EXCEPT ![Current] = Off] /\ Off.pc = "off"
    BY <1>8 DEF Record, Off
  <2> QED BY <1>1, <1>2, <2>1
<1>9. ASSUME UNCHANGED job PROVE FALSE
  BY <1>1, <1>9
<1>10. ASSUME \/ PayBatch \/ BatchFails \/ MapBatch \/ Abandon \/ Stop \/ EndRound \/ CancelBatch
              \/ Sweep \/ Done \/ UNCHANGED vars
       PROVE  FALSE
  BY <1>9, <1>10 DEF PayBatch, BatchFails, MapBatch, Abandon, Stop, EndRound, CancelBatch, Sweep,
     Done, vars
<1> QED BY <1>3, <1>4, <1>5, <1>6, <1>7, <1>8, <1>10 DEF Next

\* A node that was charged is given up untested only when the chain shows no
\* usable session of it, unless a query of the chain fails.
THEOREM ChargedAreTested ==
  ASSUME "blind" \notin Faults PROVE Spec => ChargedIsTested
<1>1. Placed => [\A t \in Tasks : ~At(t, "unmapped") /\ At(t, "unmapped")'
                                    => Usable \cap Of(t[1]) = {}]_vars
      \/ ~[Next]_vars
  BY ChargedStep
<1> QED BY <1>1, PlacedInit, PlacedStep, PTL DEF Spec, ChargedIsTested

-----------------------------------------------------------------------------
(* The duplicate-payment guard. *)

LEMMA OnceInit == Init => Once
<1> SUFFICES ASSUME Init PROVE Once
  OBVIOUS
<1>1. Solo
  BY DEF Init, Solo
<1>2. Marked
  BY DEF Init, Marked, Off, Nothing
<1>3. Guarded
  BY DEF Init, Guarded, Own, Recent
<1> QED BY <1>1, <1>2, <1>3 DEF Once

\* While the stop button is not pressed, only the loop's own call is on.
LEMMA Idle ==
  ASSUME Solo, ~stop, pass.pc # "wait" PROVE \A t \in Tasks : job[t] = Off
BY DEF Solo

LEMMA TaskPair == \A t \in Tasks : t[1] \in Nodes /\ t[2] \in Rounds /\ t = <<t[1], t[2]>>
BY DEF Tasks

\* A call's step leaves it the only one.
LEMMA SoloTurn == ASSUME Solo, NEW t \in Tasks, Turn(t) PROVE Solo' /\ t = Current
<1>1. job[t] # Off
  BY DEF Turn, Off
<1>2. t = Current /\ (pass.pc = "wait" \/ stop)
  BY <1>1 DEF Solo
<1>3. Current' = Current
  BY DEF Turn, Current
<1> QED BY <1>2, <1>3 DEF Turn, Solo

\* A call that marks and buys nothing.
LEMMA QuietTurn ==
  ASSUME Once, NEW t \in Tasks, Turn(t), UNCHANGED <<chain, paid, denied>>,
         poisoned \subseteq poisoned', job[t].pc # "pay" \/ t[1] \in denied,
         job'[t].pc \in {"query", "shake", "fresh", "reshake"} => t[1] \in paid,
         job'[t].pc = "pay" => t[1] \notin paid
  PROVE  Once'
<1>1. Solo'
  BY SoloTurn DEF Once
<1>2. Marked'
  BY DEF Once, Marked, Turn
<1>3. Guarded'
  <2> SUFFICES ASSUME NEW n \in Nodes, n \notin paid, n \notin denied,
                      NEW i \in Own(chain, n) \cap Recent(chain), chain[i].live
               PROVE  i \in poisoned' /\ \E r \in Rounds : job'[<<n, r>>].pc = "pay"
    BY DEF Guarded
  <2>1. i \in poisoned /\ \E r \in Rounds : job[<<n, r>>].pc = "pay"
    BY DEF Once, Guarded
  <2>2. PICK r \in Rounds : job[<<n, r>>].pc = "pay"
    BY <2>1
  <2>3. <<n, r>> \in Tasks /\ <<n, r>>[1] = n
    BY DEF Tasks
  <2>4. <<n, r>> # t
    BY <2>2, <2>3
  <2> QED BY <2>1, <2>2, <2>3, <2>4 DEF Turn
<1> QED BY <1>1, <1>2, <1>3 DEF Once

LEMMA OnceCall ==
  ASSUME Placed, Banked, Once, Faults \subseteq {"noid"}, NEW t \in Tasks,
         \/ Open(t) \/ QueryHit(t) \/ Query(t) \/ Shake(t) \/ Conflict(t) \/ ShakeFails(t) \/ Connect(t)
  PROVE  Once'
<1>1. ASSUME Throws(t, "failed", FALSE) \/ Throws(t, "broken", FALSE)
             \/ \E drop \in {TRUE, job[t].cached} : Throws(t, "failed", drop)
      PROVE  poisoned \subseteq poisoned'
  BY <1>1 DEF Throws
<1>2. t[1] \in Nodes /\ (job[t].pc \in {"query", "shake", "fresh", "reshake"} => t[1] \in paid)
  BY TaskPair DEF Once, Marked
<1>3. CASE Open(t)
  <2>1. UNCHANGED <<chain, paid, denied, poisoned>> /\ job[t].pc = "open"
    BY <1>3 DEF Open, At, money
  <2>2. job[t].pre # 0 => t[1] \in paid
    BY DEF Once, Marked
  <2> QED BY <1>3, <2>1, <2>2, OpenTurns, QuietTurn
<1>4. CASE QueryHit(t) \/ Shake(t) \/ Conflict(t)
  <2>1. UNCHANGED <<chain, paid, denied, poisoned>>
    BY <1>4 DEF QueryHit, Shake, Conflict, money
  <2>2. /\ Turn(t) /\ job[t].pc \in {"query", "shake", "reshake"}
        /\ job'[t].pc \in {"shake", "connect", "fresh"}
        /\ job[t].pc = "reshake" => job'[t].pc = "connect"
    BY <1>4, OtherTurns
  <2> QED BY <1>2, <2>1, <2>2, QuietTurn
<1>5. CASE ShakeFails(t) \/ Connect(t)
  <2>1. UNCHANGED <<chain, paid, denied>> /\ poisoned \subseteq poisoned'
    <3>1. CASE ShakeFails(t)
      BY <1>1, <3>1 DEF ShakeFails, money
    <3>2. CASE Connect(t)
      BY <1>1, <3>2 DEF Connect, money
    <3> QED BY <1>5, <3>1, <3>2
  <2>2. /\ Turn(t) /\ job[t].pc \in {"shake", "reshake", "connect"}
        /\ job'[t].pc \in {"failed", "broken", "passed"}
    BY <1>5, OtherTurns
  <2> QED BY <2>1, <2>2, QuietTurn
<1>6. CASE Query(t)
  <2>1. UNCHANGED <<chain, denied, poisoned>> /\ Turn(t) /\ job[t].pc = "query"
    BY <1>6, QueryTurns DEF Query
  <2>2. CASE job'[t].pc \in {"shake", "unmapped"} /\ paid' = paid
    BY <1>2, <2>1, <2>2, QuietTurn
  <2>3. CASE /\ Usable \cap Of(t[1]) = {} /\ job'[t].pc = "pay"
             /\ t[2] # 0 /\ paid' = paid \ {t[1]}
    <3>1. Solo' /\ t = Current
      BY <2>1, SoloTurn DEF Once
    <3>2. pass.round # 0 /\ pass.pc # "map"
      BY <2>3, <3>1 DEF Current, Banked
    <3>3. job[t].pre = 0
      BY <2>3 DEF Once, Marked
    <3>4. \A d \in Tasks : d # t => job[d] = Off
      BY <3>1 DEF Once, Solo
    <3>5. Marked'
      BY <2>1, <2>3, <3>2, <3>3, <3>4 DEF Marked, Turn, Off
    <3>6. Guarded'
      <4> SUFFICES ASSUME NEW n \in Nodes, n \notin paid', n \notin denied,
                          NEW i \in Own(chain, n) \cap Recent(chain), chain[i].live
                   PROVE  i \in poisoned /\ \E r \in Rounds : job'[<<n, r>>].pc = "pay"
        BY <2>1 DEF Guarded
      <4>1. CASE n = t[1]
        <5>1. i \in poisoned
          BY <2>3, <4>1 DEF Usable, Of, Own, Known
        <5> QED BY <2>3, <4>1, <5>1, TaskPair
      <4>2. CASE n # t[1]
        <5>1. n \notin paid
          BY <2>3, <4>2
        <5>2. PICK r \in Rounds : i \in poisoned /\ job[<<n, r>>].pc = "pay"
          BY <5>1 DEF Once, Guarded
        <5>3. <<n, r>> \in Tasks /\ <<n, r>>[1] = n
          BY DEF Tasks
        <5>4. <<n, r>> # t
          BY <4>2, <5>3
        <5> QED BY <2>1, <5>2, <5>3, <5>4 DEF Turn
      <4> QED BY <4>1, <4>2
    <3> QED BY <3>1, <3>5, <3>6 DEF Once
  <2> QED BY <1>6, <2>2, <2>3, QueryTurns
<1> QED BY <1>3, <1>4, <1>5, <1>6
\* The calls that pay: their node is marked, or its payment noted as failed,
\* also when it landed and named no session.
LEMMA OncePays ==
  ASSUME Placed, Once, Faults \subseteq {"noid"}, NEW t \in Tasks,
         Pay(t) \/ PayFails(t) \/ PayFresh(t) \/ FreshFails(t)
  PROVE  Once'
<1>1. t[1] \in Nodes /\ Turn(t)
  BY TaskPair, OtherTurns
<1>2. Solo' /\ t = Current
  BY <1>1, SoloTurn DEF Once
\* What another node's guard says, says it still.
<1>3. ASSUME NEW n \in Nodes, n # t[1], n \notin paid, n \notin denied,
             poisoned \subseteq poisoned',
             NEW i \in Own(chain, n) \cap Recent(chain), chain[i].live
      PROVE  i \in poisoned' /\ \E r \in Rounds : job'[<<n, r>>].pc = "pay"
  <2>1. PICK r \in Rounds : i \in poisoned /\ job[<<n, r>>].pc = "pay"
    BY <1>3 DEF Once, Guarded
  <2>2. <<n, r>> \in Tasks /\ <<n, r>>[1] = n
    BY DEF Tasks
  <2>3. <<n, r>> # t
    BY <1>3, <2>2
  <2> QED BY <1>1, <1>3, <2>1, <2>2, <2>3 DEF Turn
<1>4. ASSUME NEW by \in {"single", "fresh"}, Buys(t[1], by), NEW n \in Nodes, n # t[1],
             NEW i \in Own(chain', n)
      PROVE  i \in Own(chain, n) /\ chain'[i] = chain[i]
  <2>1. /\ NextId \in Own(chain', t[1]) /\ Len(chain') = NextId /\ Len(chain) \in Nat
        /\ \A j \in Known : chain'[j] = chain[j]
    BY <1>1, <1>4, Bought DEF Placed, Plain
  <2>2. i # NextId
    BY <1>4, <2>1 DEF Own
  <2>3. i \in Known
    BY <2>1, <2>2 DEF Own, Known, NextId
  <2> QED BY <2>1, <2>3 DEF Own, Known
<1>5. CASE Pay(t)
  <2>1. /\ Buys(t[1], "single") /\ paid' = paid \cup {t[1]} /\ denied' = denied \ {t[1]}
        /\ poisoned' = poisoned /\ job'[t].pc = "shake"
    BY <1>5, OtherTurns DEF Pay
  <2>2. \A d \in Tasks : d # t => job[d] = Off
    BY <1>2 DEF Once, Solo
  <2>3. Marked'
    BY <1>1, <2>1, <2>2 DEF Once, Marked, Turn, Off
  <2>4. Guarded'
    <3> SUFFICES ASSUME NEW n \in Nodes, n \notin paid', n \notin denied',
                        NEW i \in Own(chain', n) \cap Recent(chain'), chain'[i].live
                 PROVE  i \in poisoned' /\ \E r \in Rounds : job'[<<n, r>>].pc = "pay"
      BY DEF Guarded
    <3>1. n # t[1] /\ n \notin paid /\ n \notin denied
      BY <2>1
    <3>2. i \in Own(chain, n) /\ chain'[i] = chain[i]
      BY <1>4, <2>1, <3>1
    <3>3. i \in Recent(chain) /\ chain[i].live
      BY <3>2 DEF Recent, Own
    <3> QED BY <1>3, <2>1, <3>1, <3>2, <3>3
  <2> QED BY <1>2, <2>3, <2>4 DEF Once
<1>6. CASE PayFails(t)
  <2>1. /\ paid' = paid /\ denied' = denied \cup {t[1]}
        /\ poisoned \subseteq poisoned' /\ job'[t].pc = "failed"
        /\ chain' = chain \/ Buys(t[1], "single")
    BY <1>6, OtherTurns DEF PayFails, Throws
  <2>2. Marked'
    BY <1>1, <2>1 DEF Once, Marked, Turn
  <2>3. Guarded'
    <3> SUFFICES ASSUME NEW n \in Nodes, n \notin paid', n \notin denied',
                        NEW i \in Own(chain', n) \cap Recent(chain'), chain'[i].live
                 PROVE  i \in poisoned' /\ \E r \in Rounds : job'[<<n, r>>].pc = "pay"
      BY DEF Guarded
    <3>1. n # t[1] /\ n \notin paid /\ n \notin denied
      BY <2>1
    <3>2. i \in Own(chain, n) /\ chain'[i] = chain[i]
      BY <1>4, <2>1, <3>1
    <3>3. i \in Recent(chain) /\ chain[i].live
      BY <3>2 DEF Recent, Own
    <3> QED BY <1>3, <2>1, <3>1, <3>2, <3>3
  <2> QED BY <1>2, <2>2, <2>3 DEF Once
<1>7. CASE PayFresh(t) \/ FreshFails(t)
  <2>1. /\ chain' = chain \/ Buys(t[1], "fresh")
        /\ UNCHANGED <<paid, denied>> /\ poisoned \subseteq poisoned'
        /\ job[t].pc = "fresh" /\ job'[t].pc \in {"reshake", "broken"}
    BY <1>7, OtherTurns DEF PayFresh, FreshFails, Throws
  <2>2. t[1] \in paid
    BY <2>1 DEF Once, Marked
  <2>3. Marked'
    BY <1>1, <2>1, <2>2 DEF Once, Marked, Turn
  <2>4. Guarded'
    <3> SUFFICES ASSUME NEW n \in Nodes, n \notin paid', n \notin denied',
                        NEW i \in Own(chain', n) \cap Recent(chain'), chain'[i].live
                 PROVE  i \in poisoned' /\ \E r \in Rounds : job'[<<n, r>>].pc = "pay"
      BY DEF Guarded
    <3>1. n # t[1] /\ n \notin paid /\ n \notin denied
      BY <2>1, <2>2
    <3>2. i \in Own(chain, n) /\ chain'[i] = chain[i]
      BY <1>4, <2>1, <3>1
    <3>3. i \in Recent(chain) /\ chain[i].live
      BY <3>2 DEF Recent, Own
    <3> QED BY <1>3, <2>1, <3>1, <3>2, <3>3
  <2> QED BY <1>2, <2>3, <2>4 DEF Once
<1> QED BY <1>5, <1>6, <1>7

LEMMA OnceLoop ==
  ASSUME Placed, Once, Faults \subseteq {"noid"},
         Abandon \/ Stop \/ EndRound \/ Sweep \/ Retry \/ Record \/ UNCHANGED vars
         \/ \E n \in Nodes : Pick(n)
  PROVE  Once'
<1>1. UNCHANGED <<chain, paid, denied, batchMap>>
  BY DEF Abandon, Stop, EndRound, Sweep, Retry, Record, Pick, vars, money, maps
<1>2. pass \in Pass /\ pass.round \in Nat /\ job \in [Tasks -> Job] /\ Current \in Tasks
  BY DEF Placed, Plain, Jobs, Pass, Rounds, Current, Tasks
<1>3. Off.pc = "off" /\ Off.pre = 0
  BY DEF Off
\* The jobs stay, or only one that is not about to pay changes, and the poison stays.
<1>4. ASSUME NEW t \in Tasks, NEW r, job' = [job EXCEPT ![t] = r], job[t].pc # "pay",
             UNCHANGED poisoned
      PROVE  Guarded'
  <2> SUFFICES ASSUME NEW n \in Nodes, n \notin paid, n \notin denied,
                      NEW i \in Own(chain, n) \cap Recent(chain), chain[i].live
               PROVE  i \in poisoned /\ \E q \in Rounds : job'[<<n, q>>].pc = "pay"
    BY <1>1, <1>4 DEF Guarded
  <2>1. PICK q \in Rounds : i \in poisoned /\ job[<<n, q>>].pc = "pay"
    BY DEF Once, Guarded
  <2>2. <<n, q>> \in Tasks /\ <<n, q>> # t
    BY <1>4, <2>1 DEF Tasks
  <2> QED BY <1>2, <1>4, <2>1, <2>2
<1>5. CASE Abandon \/ Stop \/ UNCHANGED vars
  <2>1. UNCHANGED <<job, poisoned>> /\ (stop => stop')
    BY <1>5 DEF Abandon, Stop, vars
  <2>2. pass'.node = pass.node /\ pass'.round = pass.round /\ (pass'.pc = "map" => pass.pc = "map")
        /\ (pass'.pc = pass.pc \/ stop)
    BY <1>2, <1>5 DEF Abandon, Stop, vars, Pass
  <2>3. Solo'
    BY <2>1, <2>2 DEF Once, Solo, Current
  <2>4. Marked'
    BY <1>1, <2>1, <2>2 DEF Once, Marked
  <2>5. Guarded'
    BY <1>1, <2>1 DEF Once, Guarded
  <2> QED BY <2>3, <2>4, <2>5 DEF Once
<1>6. CASE EndRound
  <2>1. UNCHANGED <<job, poisoned, stop>> /\ pass.pc # "wait"
    BY <1>6 DEF EndRound
  <2>2. pass'.node = pass.node /\ pass'.round = pass.round /\ pass'.pc # "map"
    BY <1>2, <1>6 DEF EndRound, Pass
  <2>3. Solo'
    BY <2>1, <2>2 DEF Once, Solo, Current
  <2>4. Marked'
    BY <1>1, <2>1, <2>2 DEF Once, Marked
  <2>5. Guarded'
    BY <1>1, <2>1 DEF Once, Guarded
  <2> QED BY <2>3, <2>4, <2>5 DEF Once
<1>7. CASE Sweep
  <2>1. CASE pass' = [pass EXCEPT !.pc = "done"] /\ UNCHANGED poisoned
    <3>1. /\ UNCHANGED <<job, stop>> /\ pass.pc = "sweep" /\ pass'.pc = "done"
          /\ pass'.node = pass.node /\ pass'.round = pass.round
      BY <1>2, <1>7, <2>1 DEF Sweep, Pass
    <3>2. Solo'
      BY <3>1 DEF Once, Solo, Current
    <3>3. Marked'
      BY <1>1, <3>1 DEF Once, Marked
    <3>4. Guarded'
      BY <1>1, <2>1, <3>1 DEF Once, Guarded
    <3> QED BY <3>2, <3>3, <3>4 DEF Once
  <2>2. CASE /\ ~stop
             /\ pass' = [pass EXCEPT !.pc = "pick", !.round = @ + 1, !.todo = pass.again,
                                     !.again = {}]
    <3>1. UNCHANGED job /\ pass.pc = "sweep" /\ pass'.pc = "pick" /\ pass'.round = pass.round + 1
      BY <1>2, <1>7, <2>2 DEF Sweep, Pass
    <3>2. \A t \in Tasks : job[t] = Off
      BY <2>2, <3>1, Idle DEF Once
    <3>3. Solo'
      BY <3>1, <3>2 DEF Solo
    <3>4. Marked'
      BY <1>1, <1>2, <3>1 DEF Once, Marked
    <3>5. Guarded'
      <4>1. \A n \in Nodes, r \in Rounds : <<n, r>> \in Tasks
        BY DEF Tasks
      <4>2. \A n \in Nodes, r \in Rounds : job[<<n, r>>].pc # "pay"
        BY <1>3, <3>2, <4>1
      <4> QED BY <1>1, <4>2 DEF Once, Guarded
    <3> QED BY <3>3, <3>4, <3>5 DEF Once
  <2> QED BY <1>7, <2>1, <2>2 DEF Sweep
<1>8. ASSUME NEW n \in Nodes, Pick(n) PROVE Once'
  <2> DEFINE t == <<n, pass.round>>
             i == IF pass.round = 0 THEN batchMap[n] ELSE 0
             r == [Off EXCEPT !.pc = "open", !.pre = i]
  <2>1. /\ job' = [job EXCEPT ![t] = r] /\ ~stop /\ pass.pc = "pick" /\ UNCHANGED <<poisoned, stop>>
        /\ t \in Tasks /\ t[1] = n /\ t[2] = pass.round
    BY <1>2, <1>8 DEF Pick, Pass, Tasks
  <2>2. pass'.pc = "wait" /\ pass'.node = n /\ pass'.round = pass.round
    BY <1>2, <1>8 DEF Pick, Pass
  <2>3. \A d \in Tasks : job[d] = Off
    BY <2>1, Idle DEF Once
  <2>4. r.pc = "open" /\ r.pre = i
    BY DEF Off
  <2>5. i # 0 => n \in paid /\ pass.round = 0
    BY DEF Once, Marked
  <2> HIDE DEF t, i, r
  <2>6. Solo'
    <3>1. Current' = t
      BY <2>2 DEF Current, t
    <3> QED BY <1>2, <2>1, <2>2, <2>3, <3>1 DEF Solo
  <2>7. Marked'
    <3>1. job'[t] = r /\ \A d \in Tasks : d # t => job'[d] = Off
      BY <1>2, <2>1, <2>3
    <3> QED BY <1>1, <1>3, <2>1, <2>2, <2>4, <2>5, <3>1 DEF Once, Marked
  <2>8. Guarded'
    BY <1>3, <1>4, <2>1, <2>3
  <2> QED BY <2>6, <2>7, <2>8 DEF Once
<1>9. CASE Retry
  <2> DEFINE r == [job[Current] EXCEPT !.pc = "open", !.sid = 0, !.cached = FALSE, !.tries = @ + 1]
  <2>1. /\ job' = [job EXCEPT ![Current] = r] /\ job[Current].pc = "failed"
        /\ pass.pc = "wait" /\ UNCHANGED <<pass, stop, poisoned>>
    BY <1>9 DEF Retry
  <2>2. r.pc = "open" /\ r.pre = job[Current].pre
    BY <1>2 DEF Job
  <2> HIDE DEF r
  <2>3. job'[Current] = r /\ \A d \in Tasks : d # Current => job'[d] = job[d]
    BY <1>2, <2>1
  <2>4. Solo'
    <3>1. Current' = Current
      BY <2>1 DEF Current
    <3> QED BY <2>1, <2>3, <3>1 DEF Once, Solo
  <2>5. Marked'
    BY <1>1, <2>1, <2>2, <2>3 DEF Once, Marked
  <2>6. Guarded'
    BY <1>2, <1>4, <2>1
  <2> QED BY <2>4, <2>5, <2>6 DEF Once
<1>10. CASE Record
  <2>1. /\ job' = [job EXCEPT ![Current] = Off] /\ job[Current].pc # "pay"
        /\ UNCHANGED <<poisoned, stop>> /\ pass.pc = "wait"
    BY <1>10 DEF Record
  <2>2. pass'.pc = "pick" /\ pass'.node = pass.node /\ pass'.round = pass.round
    BY <1>2, <1>10 DEF Record, Pass
  <2>3. job'[Current] = Off /\ \A d \in Tasks : d # Current => job'[d] = job[d]
    BY <1>2, <2>1
  <2>4. Solo'
    BY <2>1, <2>3 DEF Once, Solo
  <2>5. Marked'
    BY <1>1, <1>3, <2>2, <2>3 DEF Once, Marked
  <2>6. Guarded'
    BY <1>2, <1>4, <2>1
  <2> QED BY <2>4, <2>5, <2>6 DEF Once
<1> QED BY <1>5, <1>6, <1>7, <1>8, <1>9, <1>10
LEMMA OnceBatch ==
  ASSUME Placed, Once, Faults \subseteq {"noid"}, PayBatch \/ BatchFails \/ MapBatch \/ CancelBatch
  PROVE  Once'
<1>1. UNCHANGED <<job, stop, denied>> /\ pass \in Pass /\ pass.pc # "wait"
  BY DEF PayBatch, BatchFails, MapBatch, CancelBatch, money, maps, Placed, Plain
<1>2. pass'.node = pass.node /\ pass'.round = pass.round
  BY <1>1 DEF PayBatch, BatchFails, MapBatch, CancelBatch, Pass
<1>3. Solo'
  BY <1>1, <1>2 DEF Once, Solo, Current
<1>4. Off.pc = "off" /\ Off.pre = 0
  BY DEF Off
<1>5. CASE PayBatch
  <2>1. paid' = Nodes
    BY <1>5 DEF PayBatch, Placed, Plain
  <2>2. \A t \in Tasks : job[t] = Off
    BY <1>1, <1>5, Idle DEF PayBatch, Once
  <2>3. Marked'
    BY <1>1, <1>4, <2>1, <2>2 DEF Marked
  <2>4. Guarded'
    BY <2>1 DEF Guarded
  <2> QED BY <1>3, <2>3, <2>4 DEF Once
<1>6. CASE BatchFails
  <2>1. UNCHANGED <<chain, paid, batchMap, poisoned>> /\ pass'.pc = "pick"
    BY <1>1, <1>6 DEF BatchFails, maps, Pass
  <2>2. Marked' /\ Guarded'
    BY <1>1, <1>2, <2>1 DEF Once, Marked, Guarded
  <2> QED BY <1>3, <2>2 DEF Once
<1>7. CASE MapBatch
  <2>1. UNCHANGED <<chain, paid, poisoned>> /\ pass.pc = "map" /\ pass'.pc = "pick"
    BY <1>1, <1>7 DEF MapBatch, money, Pass
  <2>2. paid = Nodes
    BY <2>1 DEF Once, Marked
  <2>3. Marked' /\ Guarded'
    BY <1>1, <1>2, <2>1, <2>2 DEF Once, Marked, Guarded
  <2> QED BY <1>3, <2>3 DEF Once
<1>8. CASE CancelBatch
  <2>1. UNCHANGED <<paid, poisoned>> /\ pass'.pc = "sweep" /\ batchMap' = Nothing
    BY <1>1, <1>8 DEF CancelBatch, Pass
  <2>2. /\ Len(chain') = Len(chain) /\ Grown(chain, chain')
        /\ \A i \in Known : chain'[i].live => chain[i].live
    BY <1>8, Cancelled DEF Placed
  <2>3. /\ \A n \in Nodes : Own(chain', n) = Own(chain, n)
        /\ Recent(chain') = Recent(chain)
    BY <2>2 DEF Grown, Own, Recent
  <2>4. \A n \in Nodes : \A i \in Own(chain, n) : i \in Known
    BY DEF Own, Known
  <2>5. Guarded'
    BY <1>1, <2>1, <2>2, <2>3, <2>4 DEF Once, Guarded
  <2>6. Marked'
    BY <1>1, <1>2, <2>1 DEF Once, Marked, Nothing
  <2> QED BY <1>3, <2>5, <2>6 DEF Once
<1> QED BY <1>5, <1>6, <1>7, <1>8

LEMMA OnceStep ==
  ASSUME Placed, Banked, Once, Faults \subseteq {"noid"}, [Next]_vars
  PROVE  Once'
BY OnceCall, OncePays, OnceLoop, OnceBatch DEF Next, Done

\* The single payment meets no session of its node that this run could use.
LEMMA PaidOnceStep ==
  ASSUME Placed, Once, Faults \subseteq {"noid"}, [Next]_vars, NEW n \in Nodes \ denied,
         NEW i \in DOMAIN chain' \ Known, chain'[i].node = n, chain'[i].by = "single"
  PROVE  ~ \E j \in Usable : chain[j].node = n /\ chain[j].by # "old"
<1>1. chain \in Seq(Session) /\ Len(chain) \in Nat /\ Known = DOMAIN chain
  BY DEF Placed, Plain, Known
<1>2. chain' # chain
  BY <1>1
<1>3. ASSUME PayBatch PROVE FALSE
  <2>1. chain' \in Seq(Session) /\ \A j \in (1..Len(chain')) \ Known : chain'[j].by = "batch"
    BY <1>3, Landed DEF PayBatch, Placed, Grown
  <2> QED BY <2>1
<1>4. ASSUME CancelBatch PROVE FALSE
  <2>1. chain' \in Seq(Session) /\ Len(chain') = Len(chain)
    BY <1>4, Cancelled DEF Placed, Grown
  <2> QED BY <1>1, <2>1 DEF Known
<1>5. ASSUME NEW t \in Tasks, NEW by \in {"single", "fresh"}, Buys(t[1], by)
      PROVE  by = "single" /\ n = t[1]
  <2>1. t[1] \in Nodes
    BY TaskPair
  <2>2. /\ Grown(chain, chain') /\ NextId \in Own(chain', t[1]) /\ Len(chain') = NextId
        /\ chain'[NextId].by = by
    BY <1>5, <2>1, Bought DEF Placed
  <2>3. chain' \in Seq(Session) /\ i = NextId
    BY <1>1, <2>2 DEF Grown, Known, NextId
  <2> QED BY <2>2, <2>3 DEF Own
<1>6. PICK t \in Tasks : At(t, "pay") /\ Buys(t[1], "single")
  <2>1. \/ PayBatch \/ CancelBatch
        \/ \E t \in Tasks : Pay(t) \/ PayFails(t) \/ PayFresh(t) \/ FreshFails(t)
    <3>2. ASSUME MapBatch \/ BatchFails \/ Abandon \/ Stop \/ EndRound \/ Sweep \/ Retry \/ Record
                 \/ Done \/ UNCHANGED vars \/ \E m \in Nodes : Pick(m)
          PROVE  FALSE
      BY <1>2, <3>2 DEF MapBatch, BatchFails, Abandon, Stop, EndRound, Sweep, Retry, Record, Done,
         Pick, vars, money
    <3>3. ASSUME NEW t \in Tasks,
                 \/ Open(t) \/ QueryHit(t) \/ Query(t) \/ Shake(t) \/ Conflict(t) \/ ShakeFails(t)
                 \/ Connect(t)
          PROVE  FALSE
      BY <1>2, <3>3 DEF Open, QueryHit, Query, Shake, Conflict, ShakeFails, Connect, money
    <3> QED BY <1>2, <3>2, <3>3 DEF Next
  <2>2. ASSUME NEW t \in Tasks, PayFresh(t) \/ FreshFails(t) PROVE FALSE
    <3>1. Buys(t[1], "fresh")
      BY <1>2, <2>2 DEF PayFresh, FreshFails
    <3> QED BY <3>1, <1>5
  <2>3. ASSUME NEW t \in Tasks, Pay(t) \/ PayFails(t)
        PROVE  At(t, "pay") /\ Buys(t[1], "single")
    BY <1>2, <2>3 DEF Pay, PayFails
  <2> QED BY <1>3, <1>4, <2>1, <2>2, <2>3
<1>7. n = t[1] /\ job[t].pc = "pay"
  BY <1>5, <1>6 DEF At
<1>8. n \notin paid
  BY <1>7 DEF Once, Marked
<1>9. \A j \in Own(chain, n) \cap Recent(chain) : ~chain[j].live \/ j \in poisoned
  BY <1>8 DEF Once, Guarded
<1> QED BY <1>9 DEF Usable, Own, Recent, Known

\* When nothing goes wrong but rejections, failed tests and payments whose events
\* name no session, no node is paid for while a session this run bought for it
\* can be used, but for one whose last payment failed.
THEOREM NodesArePaidOnce == ASSUME Faults \subseteq {"noid"} PROVE Spec => PaidOnce
<1> DEFINE IInv == Placed /\ Banked /\ Once
<1>1. Init => IInv
  BY PlacedInit, BankInit, OnceInit
<1>2. IInv /\ [Next]_vars => IInv'
  BY PlacedStep, BankStep, OnceStep
<1>3. IInv /\ [Next]_vars =>
        [\A n \in Nodes \ denied :
           (\E i \in DOMAIN chain' \ Known : chain'[i].node = n /\ chain'[i].by = "single")
             => ~ \E i \in Usable : chain[i].node = n /\ chain[i].by # "old"]_vars
  BY PaidOnceStep
<1> QED BY <1>1, <1>2, <1>3, PTL DEF Spec, PaidOnce
=============================================================================
