----------------------- MODULE OnchainReporter_proofs -----------------------
(***************************************************************************)
(* What the on-chain reports are for holds for every set of passes,        *)
(* reports, payments and endpoints, and for every fault: the promise chain *)
(* of broadcastSerialized does its work (no transaction lands between the  *)
(* signing of another and its verdict, none lands twice); what is posted   *)
(* can be read; and, for passes that do not overlap, every row of a pass   *)
(* goes out in one report and the chain shows a log of the tests.          *)
(*                                                                         *)
(* The memo's length and the rows on the chain are recursive functions.    *)
(* Induction is done with the least element of a set of naturals, which    *)
(* the well-founded order on finite sets provides.                         *)
(***************************************************************************)
EXTENDS OnchainReporter, FiniteSetTheorems, WellFoundedInduction, TLAPS

\* The broadcast that has signed, or is about to sign again, is the oldest
\* request: what the chain of promises is for.
InTurn == \A t \in Txs : tx[t].pc \in {"signed", "retry"} => line # <<>> /\ Head(line) = t

\* What has landed is settled, which no retry takes back.
LandedSettled == \A i \in 1..Len(ledger) : Settled(ledger[i].tx)

\* The part of WalletTypeOK the argument needs.
Typed ==
  /\ line \in Seq(Txs)
  /\ ledger \in Seq([tx : Txs, ok : BOOLEAN])
  /\ DOMAIN tx = Txs
  /\ \A t \in Txs : DOMAIN tx[t] = {"pc", "tries", "at", "seq", "err"}

\* The inductive invariant.
Serial == Typed /\ InTurn /\ LandedSettled /\ LandsOnce

LEMMA SerialInit == Init => Serial
BY DEF Init, WalletInit, Serial, Typed, InTurn, LandedSettled, LandsOnce, Times

\* What the ledger holds is a settled transaction of the wallet.
LEMMA Landing ==
  ASSUME Serial
  PROVE  \A i \in 1..Len(ledger) : ledger[i].tx \in Txs /\ Settled(ledger[i].tx)
<1>1. ledger \in Seq([tx : Txs, ok : BOOLEAN])
  BY DEF Serial, Typed
<1>2. \A i \in 1..Len(ledger) : ledger[i] \in [tx : Txs, ok : BOOLEAN]
  <2> DEFINE S == [tx : Txs, ok : BOOLEAN]
  <2>1. ledger \in Seq(S)
    BY <1>1
  <2> HIDE DEF S
  <2>2. \A i \in 1..Len(ledger) : ledger[i] \in S
    BY <2>1
  <2>3. QED
    BY <2>2 DEF S
<1>3. \A i \in 1..Len(ledger) : ledger[i].tx \in Txs
  BY <1>2
<1>4. QED
  BY <1>3 DEF Serial, LandedSettled

-----------------------------------------------------------------------------
\* A new request goes to the end of the line.
LEMMA RequestStep ==
  ASSUME Serial, NEW t \in Txs, NEW at, Request(t, at)
  PROVE  Serial' /\ ledger' = ledger
<1>1. /\ tx[t].pc = "idle" /\ line' = Append(line, t) /\ ledger' = ledger
      /\ tx' = [tx EXCEPT ![t] = [@ EXCEPT !.pc = "queued", !.at = at]]
  BY DEF Request
<1>2. DOMAIN tx' = Txs /\ \A u \in Txs : /\ DOMAIN tx'[u] = {"pc", "tries", "at", "seq", "err"}
                                         /\ tx'[u].pc = IF u = t THEN "queued" ELSE tx[u].pc
  BY <1>1 DEF Serial, Typed
<1>3. Typed'
  BY <1>1, <1>2 DEF Serial, Typed
<1>4. InTurn'
  <2>1. line # <<>> => line' # <<>> /\ Head(line') = Head(line)
    BY <1>1 DEF Serial, Typed
  <2>2. QED
    BY <1>2, <2>1 DEF Serial, InTurn
<1>5. LandedSettled'
  <2> SUFFICES ASSUME NEW i \in 1..Len(ledger)
               PROVE  Settled(ledger[i].tx)'
    BY <1>1 DEF LandedSettled
  <2>1. ledger[i].tx \in Txs /\ Settled(ledger[i].tx)
    BY Landing
  <2>2. QED
    BY <1>1, <1>2, <2>1 DEF Settled
<1>6. LandsOnce'
  BY <1>1 DEF Serial, LandsOnce, Times
<1>7. QED
  BY <1>1, <1>3, <1>4, <1>5, <1>6 DEF Serial

\* The three things an attempt of the transaction in turn ends in.
Moves(t, pcs) ==
  /\ DOMAIN tx' = Txs /\ DOMAIN tx'[t] = {"pc", "tries", "at", "seq", "err"}
  /\ tx'[t].pc \in pcs
  /\ \A u \in Txs \ {t} : tx'[u] = tx[u]

\* An attempt that leaves the ledger alone may be repeated.
LEMMA AgainStep ==
  ASSUME Serial, NEW t \in Txs, Turn(t), ~Settled(t), Moves(t, {"signed", "retry"}),
         UNCHANGED <<line, ledger>>
  PROVE  Serial'
<1>1. Typed'
  BY DEF Serial, Typed, Moves
<1>2. InTurn'
  BY DEF Serial, InTurn, Moves, Turn
<1>3. LandedSettled'
  <2> SUFFICES ASSUME NEW i \in 1..Len(ledger)
               PROVE  Settled(ledger[i].tx)'
    BY DEF LandedSettled
  <2>1. ledger[i].tx \in Txs /\ Settled(ledger[i].tx)
    BY Landing
  <2>2. QED
    BY <2>1 DEF Settled, Moves
<1>4. LandsOnce'
  BY DEF Serial, LandsOnce, Times
<1>5. QED
  BY <1>1, <1>2, <1>3, <1>4 DEF Serial

\* An attempt that settles the transaction lets the next one through; it may have
\* entered the ledger, where it was not before.
LEMMA SettleStep ==
  ASSUME Serial, NEW t \in Txs, Turn(t), ~Settled(t), Moves(t, {"done", "failed"}),
         line' = Tail(line),
         ledger' = ledger \/ \E ok \in BOOLEAN : Enters(t, ok)
  PROVE  Serial'
<1>1. ledger' \in Seq([tx : Txs, ok : BOOLEAN])
  <2>1. CASE ledger' = ledger
    BY <2>1 DEF Serial, Typed
  <2>2. CASE \E ok \in BOOLEAN : Enters(t, ok)
    BY <2>2 DEF Serial, Typed, Enters
  <2>3. QED
    BY <2>1, <2>2
<1>2. Typed'
  BY <1>1 DEF Serial, Typed, Moves, Turn
<1>3. InTurn'
  BY DEF Serial, InTurn, Moves, Turn
<1>4. \A i \in 1..Len(ledger) : ledger[i].tx \in Txs \ {t} /\ Settled(ledger[i].tx)
  BY Landing
<1>5. \A u \in Txs : Settled(u) \/ u = t => Settled(u)'
  BY DEF Settled, Moves
<1>6. CASE ledger' = ledger
  <2>1. LandedSettled'
    BY <1>4, <1>5, <1>6 DEF LandedSettled
  <2>2. LandsOnce'
    BY <1>6 DEF Serial, LandsOnce, Times
  <2>3. QED
    BY <1>2, <1>3, <2>1, <2>2 DEF Serial
<1>7. CASE \E ok \in BOOLEAN : Enters(t, ok)
  <2>1. /\ Len(ledger) \in Nat /\ Len(ledger') = Len(ledger) + 1
        /\ ledger'[Len(ledger) + 1].tx = t
        /\ \A i \in 1..Len(ledger) : ledger'[i] = ledger[i]
    BY <1>7 DEF Serial, Typed, Enters
  <2>2. LandedSettled'
    BY <1>4, <1>5, <2>1 DEF LandedSettled
  <2>3. LandsOnce'
    <3> SUFFICES ASSUME NEW u \in Txs, NEW i \in Times(u)', NEW j \in Times(u)'
                 PROVE  i = j
      BY DEF LandsOnce
    <3>1. CASE u = t
      BY <1>4, <2>1, <3>1 DEF Times
    <3>2. CASE u # t
      <4>1. i \in Times(u) /\ j \in Times(u)
        BY <2>1, <3>2 DEF Times
      <4>2. QED
        BY <4>1 DEF Serial, LandsOnce
    <3>3. QED
      BY <3>1, <3>2
  <2>4. QED
    BY <1>2, <1>3, <2>2, <2>3 DEF Serial
<1>8. QED
  BY <1>6, <1>7

-----------------------------------------------------------------------------
\* An error of the transaction in turn is answered by another attempt or settles it;
\* it is repeated only for errors that left the ledger alone.
LEMMA ErrsStep ==
  ASSUME Serial, NEW t \in Txs, Turn(t), tx[t].pc = "signed", NEW err, Errs(t, err),
         \/ ledger' = ledger
         \/ err \in {"lost", "refused"} /\ \E ok \in BOOLEAN : Enters(t, ok)
  PROVE  Serial' /\ tx'[t].pc # "signed"
<1>1. ~Settled(t)
  BY DEF Settled
<1>2. CASE Again(t, err) /\ Retryable(t, err)
  <2>1. ledger' = ledger
    BY <1>2 DEF Retryable
  <2>2. Moves(t, {"signed", "retry"}) /\ line' = line /\ tx'[t].pc = "retry"
    BY <1>2 DEF Again, Moves, Serial, Typed
  <2>3. QED
    BY <1>1, <2>1, <2>2, AgainStep
<1>3. CASE Settle(t, "failed", err)
  <2>1. Moves(t, {"done", "failed"}) /\ line' = Tail(line) /\ tx'[t].pc = "failed"
    BY <1>3 DEF Settle, Moves, Serial, Typed
  <2>2. QED
    BY <1>1, <2>1, SettleStep
<1>4. QED
  BY <1>2, <1>3 DEF Errs

\* One step of a broadcast; the ledger grows only by the transaction in turn, and
\* only with its verdict.
LEMMA BroadcastStep ==
  ASSUME Serial, NEW t \in Txs, Broadcast(t)
  PROVE  Serial' /\ (ledger' # ledger => Turn(t) /\ tx[t].pc = "signed" /\ tx'[t].pc # "signed")
<1>1. CASE Sign(t)
  <2>1. PICK n : tx' = [tx EXCEPT ![t] = [@ EXCEPT !.pc = "signed", !.seq = n]]
    BY <1>1 DEF Sign
  <2>2. Moves(t, {"signed", "retry"})
    BY <2>1 DEF Moves, Serial, Typed
  <2>3. Turn(t) /\ ~Settled(t) /\ UNCHANGED <<line, ledger>>
    BY <1>1 DEF Sign, Settled
  <2>4. QED
    BY <2>2, <2>3, AgainStep
<1>2. CASE Land(t)
  <2>1. Moves(t, {"done", "failed"}) /\ line' = Tail(line) /\ tx'[t].pc = "done"
    BY <1>2 DEF Land, Settle, Moves, Serial, Typed
  <2>2. Turn(t) /\ tx[t].pc = "signed" /\ ~Settled(t) /\ Enters(t, TRUE)
    BY <1>2 DEF Land, Answers, Settled
  <2>3. QED
    BY <2>1, <2>2, SettleStep
<1>3. CASE LandUnseen(t)
  BY <1>3, ErrsStep DEF LandUnseen, Answers
<1>4. CASE Refuse(t)
  BY <1>4, ErrsStep DEF Refuse, Answers
<1>5. CASE Mismatch(t)
  BY <1>5, ErrsStep DEF Mismatch, Answers
<1>6. CASE QueryFails(t)
  BY <1>6, ErrsStep DEF QueryFails
<1>7. QED
  BY <1>1, <1>2, <1>3, <1>4, <1>5, <1>6 DEF Broadcast

-----------------------------------------------------------------------------
\* A step of the passes requests a broadcast, or leaves the wallet's chain alone.
LEMMA PassEffect ==
  ASSUME NEW p \in Passes,
         \/ Start(p) \/ Finalise(p) \/ Close(p)
         \/ \E t \in Payments : Pay(p, t)
         \/ \E r \in Outcomes : Record(p, r)
  PROVE  \/ \E t \in Txs, at \in {pass[q].client : q \in Passes \cup {reporter}} : Request(t, at)
         \/ UNCHANGED <<line, tx, ledger>>
<1>1. ASSUME NEW q, NEW rows, NEW force, Flush(q, rows, force), q = reporter
      PROVE  \/ \E t \in Txs, at \in {pass[u].client : u \in Passes \cup {reporter}} : Request(t, at)
             \/ UNCHANGED <<line, tx, ledger>>
  <2>1. CASE \E kept : Keep(q, kept)
    BY <2>1 DEF Keep, wallet
  <2>2. CASE \E n : Send(q, rows, n)
    <3>1. Len(flight) + 1 \in Txs
      BY <2>2, ReporterAssumption DEF Send
    <3>2. Request(Len(flight) + 1, pass[q].client)
      BY <2>2 DEF Send
    <3>3. QED
      BY <1>1, <3>1, <3>2
  <2>3. QED
    BY <1>1, <2>1, <2>2 DEF Flush
<1>2. CASE Start(p)
  BY <1>2 DEF Start, CreateClient
<1>3. CASE Finalise(p)
  BY <1>1, <1>3 DEF Finalise, wallet
<1>4. CASE Close(p)
  BY <1>4 DEF Close, wallet
<1>5. CASE \E t \in Payments : Pay(p, t)
  BY <1>5, ReporterAssumption DEF Pay
<1>6. CASE \E r \in Outcomes : Record(p, r)
  BY <1>1, <1>6 DEF Record, wallet
<1>7. QED
  BY <1>2, <1>3, <1>4, <1>5, <1>6

LEMMA SerialStep ==
  ASSUME Serial, [Next]_vars
  PROVE  /\ Serial'
         /\ \A t \in Txs : tx[t].pc = "signed" /\ tx'[t].pc = "signed" => ledger' = ledger
<1>1. CASE UNCHANGED <<line, tx, ledger>>
  BY <1>1 DEF Serial, Typed, InTurn, LandedSettled, Settled, LandsOnce, Times
<1>2. CASE \E t \in Txs : Transact(t)
  <2>1. PICK u \in Txs : Broadcast(u)
    BY <1>2 DEF Transact
  <2>2. QED
    BY <2>1, BroadcastStep DEF Serial, InTurn, Turn
<1>3. CASE \E p \in Passes : \/ Start(p) \/ Finalise(p) \/ Close(p)
                             \/ \E t \in Payments : Pay(p, t)
                             \/ \E r \in Outcomes : Record(p, r)
  BY <1>1, <1>3, PassEffect, RequestStep
<1>4. CASE UNCHANGED vars
  BY <1>1, <1>4 DEF vars, wallet
<1>5. QED
  BY <1>2, <1>3, <1>4 DEF Next

\* While a signed transaction of the wallet waits for its verdict no other one lands
\* (broadcastSerialized), and no transaction lands twice, also when a landed one was
\* reported as failed (the retries of signAndBroadcastRetry and broadcastWithFeeGrant).
THEOREM BroadcastsSerial == Spec => BroadcastsHold
<1>1. Serial => LandsOnce
  BY DEF Serial
<1>2. Serial /\ [Next]_vars => [\A t \in Txs : tx[t].pc = "signed" /\ tx'[t].pc = "signed" => ledger' = ledger]_wallet
  BY SerialStep
<1>3. QED
  BY <1>1, <1>2, SerialInit, SerialStep, PTL DEF Spec, BroadcastsHold, SignatureHolds
-----------------------------------------------------------------------------
(* The least element of a set of naturals: induction where it is needed.     *)

\* Subsets of a finite set have a minimal one, so the initial segments of S do.
LEMMA LeastElement ==
  ASSUME NEW S \in SUBSET Nat, S # {}
  PROVE  \E n \in S : \A m \in S : n <= m
<1>1. PICK a \in S : a \in Nat
  OBVIOUS
<1> DEFINE Below(k) == {m \in S : m < k}
           T == {Below(k) : k \in {j \in S : j <= a}}
           R == StrictSubsetOrdering(0..a)
<1>2. \A k \in S : k <= a => Below(k) \in FiniteSubsetsOf(0..a)
  <2>1. IsFiniteSet(0..a)
    BY <1>1, FS_Interval
  <2>2. \A k \in S : k <= a => Below(k) \in SUBSET (0..a)
    <3> SUFFICES ASSUME NEW k \in S, k <= a, NEW m \in S, m < k
                 PROVE  m \in 0..a
      OBVIOUS
    <3>1. k \in Nat /\ m \in Nat
      OBVIOUS
    <3> QED
      BY <1>1, <3>1
  <2> HIDE DEF Below
  <2> QED
    BY <2>1, <2>2, FS_Subset DEF FiniteSubsetsOf
<1>3. T \subseteq FiniteSubsetsOf(0..a) /\ T # {}
  <2>1. Below(a) \in T
    BY <1>1
  <2> HIDE DEF Below
  <2> QED
    BY <1>2, <2>1
<1>4. PICK X \in T : \A Y \in T : <<Y, X>> \notin R
  <2>1. IsWellFoundedOn(R, FiniteSubsetsOf(0..a))
    BY FS_StrictSubsetOrderingWellFounded
  <2> HIDE DEF T, R
  <2> QED
    BY <1>3, <2>1, WFMin
<1>5. PICK k \in S : k <= a /\ X = Below(k)
  OBVIOUS
<1>6. ASSUME NEW m \in S, m < k PROVE FALSE
  <2>a. k \in Nat /\ m \in Nat /\ S \subseteq Nat
    OBVIOUS
  <2>1. Below(m) \subseteq X /\ m \in X /\ m \notin Below(m) /\ m <= a
    <3>1. \A j \in S : j < m => j < k
      BY <1>6, <2>a
    <3>2. m <= a /\ ~(m < m)
      BY <1>1, <1>5, <1>6, <2>a
    <3> QED
      BY <1>5, <1>6, <3>1, <3>2
  <2> HIDE DEF Below
  <2>2. Below(m) \in T
    BY <2>1
  <2>3. Below(m) \in FiniteSubsetsOf(0..a) /\ X \in FiniteSubsetsOf(0..a)
    BY <1>3, <2>2
  <2>4. <<Below(m), X>> \in R
    BY <2>1, <2>3 DEF StrictSubsetOrdering, FiniteSubsetsOf
  <2> QED
    BY <1>4, <2>2, <2>4
<1> QED
  BY <1>6

-----------------------------------------------------------------------------
(* The endpoints a client is made for.                                       *)

LEMMA Wraps ==
  ASSUME NEW n \in Nat \ {0}, NEW a \in 0..(n - 1)
  PROVE  a % n = a /\ (a + n) % n = a
OBVIOUS

\* createFreshClient ends at an endpoint of the list, and at one that takes a client.
LEMMA FirstUpType ==
  ASSUME NEW i \in Endpoints
  PROVE  FirstUp(i) \in Endpoints \ Down
<1> DEFINE Found(k) == /\ (i + k) % Rpcs \notin Down
                       /\ \A j \in 0..(k - 1) : (i + j) % Rpcs \in Down
           S == {k \in Nat : (i + k) % Rpcs \notin Down}
<1>1. Rpcs \in Nat \ {0} /\ i \in 0..(Rpcs - 1) /\ i \in Nat
  BY WalletAssumption DEF Endpoints
<1>2. PICK e \in 0..(Rpcs - 1) : e \notin Down
  BY WalletAssumption DEF Endpoints
<1> DEFINE d == IF i <= e THEN e - i ELSE (e + Rpcs) - i
<1>3. d \in 0..(Rpcs - 1) /\ (i + d = e \/ i + d = e + Rpcs)
  BY <1>1, <1>2
<1>4. (i + d) % Rpcs = e
  <2>1. e % Rpcs = e /\ (e + Rpcs) % Rpcs = e
    BY <1>1, <1>2, Wraps
  <2> HIDE DEF d
  <2> QED
    BY <1>3, <2>1
<1>5. d \in S
  <2> HIDE DEF d
  <2> QED
    BY <1>1, <1>2, <1>3, <1>4
<1>6. PICK k \in S : \A m \in S : k <= m
  <2> HIDE DEF d
  <2>1. S \in SUBSET Nat /\ S # {}
    BY <1>5
  <2> HIDE DEF S
  <2> QED
    BY <2>1, LeastElement
<1>7. k \in Endpoints /\ Found(k)
  <2>1. k \in Nat /\ k <= d /\ (i + k) % Rpcs \notin Down
    BY <1>5, <1>6
  <2>2. k \in 0..(Rpcs - 1)
    <3> HIDE DEF d
    <3> QED
      BY <1>1, <1>3, <2>1
  <2>3. \A j \in 0..(k - 1) : j \in Nat /\ ~(k <= j)
    BY <2>1
  <2>4. \A j \in 0..(k - 1) : j \notin S
    BY <1>6, <2>3
  <2> QED
    BY <2>1, <2>2, <2>3, <2>4 DEF Endpoints
<1>8. PICK step \in Endpoints : Found(step) /\ FirstUp(i) = (i + step) % Rpcs
  <2> DEFINE step == CHOOSE x \in Endpoints : Found(x)
  <2>1. step \in Endpoints /\ Found(step)
    BY <1>7
  <2>2. FirstUp(i) = (i + step) % Rpcs
    BY DEF FirstUp
  <2> HIDE DEF step
  <2> QED
    BY <2>1, <2>2
<1>9. (i + step) % Rpcs \in 0..(Rpcs - 1)
  <2>1. i + step \in Nat
    BY <1>1 DEF Endpoints
  <2> QED
    BY <1>1, <2>1
<1> QED
  BY <1>8, <1>9 DEF Endpoints

LEMMA NextRpcType ==
  ASSUME NEW i \in Endpoints
  PROVE  NextRpc(i) \in Endpoints \ Down
<1>1. (i + 1) % Rpcs \in Endpoints
  BY WalletAssumption DEF Endpoints
<1> QED
  BY <1>1, FirstUpType DEF NextRpc
\* Induction up to n, over a set instead of a predicate.
LEMMA Reaches ==
  ASSUME NEW n \in Nat, NEW P, 0 \in P, \A i \in 1..n : i - 1 \in P => i \in P
  PROVE  0..n \subseteq P
<1> DEFINE S == {i \in 0..n : i \notin P}
<1> SUFFICES ASSUME S # {} PROVE FALSE
  OBVIOUS
<1>1. S \in SUBSET Nat
  OBVIOUS
<1>2. PICK i \in S : \A m \in S : i <= m
  <2> HIDE DEF S
  <2> QED
    BY <1>1, LeastElement
<1>3. i \in 1..n /\ i - 1 \in 0..n /\ ~(i <= i - 1)
  BY <1>2
<1>4. i - 1 \notin S
  BY <1>2, <1>3
<1> QED
  BY <1>2, <1>3, <1>4

\* f is the recursive function that starts at z and goes on by step ...
Solves(f, n, z, step) == f[0] = z /\ \A i \in 1..n : f[i] = step[i][f[i - 1]]

\* ... and there is one.
LEMMA RecursionExists ==
  ASSUME NEW n \in Nat, NEW T, NEW z \in T, NEW step \in [1..n -> [T -> T]]
  PROVE  \E f \in [0..n -> T] : Solves(f, n, z, step)
<1> DEFINE F == [0..n -> T]
           Good(k, f) == f[0] = z /\ \A i \in 1..k : f[i] = step[i][f[i - 1]]
           P == {k \in 0..n : \E f \in F : Good(k, f)}
<1>1. 0 \in P
  <2>1. [i \in 0..n |-> z] \in F /\ Good(0, [i \in 0..n |-> z])
    OBVIOUS
  <2> HIDE DEF F, Good
  <2> QED
    BY <2>1
<1>2. ASSUME NEW k \in 1..n, k - 1 \in P PROVE k \in P
  <2>1. PICK f \in F : Good(k - 1, f)
    <3> HIDE DEF F, Good
    <3> QED
      BY <1>2
  <2> DEFINE g == [i \in 0..n |-> IF i = k THEN step[k][f[k - 1]] ELSE f[i]]
  <2>2. step[k][f[k - 1]] \in T
    <3>1. k - 1 \in 0..n
      OBVIOUS
    <3> QED
      BY <3>1
  <2>3. g \in F
    BY <2>2
  <2>4. g[0] = z /\ \A i \in 0..(k - 1) : g[i] = f[i]
    BY <2>1
  <2>5. g[k] = step[k][f[k - 1]]
    OBVIOUS
  <2>6. \A i \in 1..k : g[i] = step[i][g[i - 1]]
    <3> SUFFICES ASSUME NEW i \in 1..k PROVE g[i] = step[i][g[i - 1]]
      OBVIOUS
    <3>1. i - 1 \in 0..(k - 1) /\ (i = k \/ i \in 1..(k - 1))
      OBVIOUS
    <3> HIDE DEF g
    <3> QED
      BY <2>1, <2>4, <2>5, <3>1
  <2>7. Good(k, g)
    BY <2>4, <2>6
  <2> HIDE DEF g, F, Good
  <2> QED
    BY <2>3, <2>7
<1> HIDE DEF F, Good
<1>3. P \subseteq 0..n
  OBVIOUS
<1> HIDE DEF P
<1>4. n \in P
  <2>1. 0..n \subseteq P
    BY <1>1, <1>2, Reaches
  <2> QED
    BY <2>1
<1>5. PICK f \in F : Good(n, f)
  BY <1>4 DEF P
<1> QED
  BY <1>5 DEF F, Good, Solves

-----------------------------------------------------------------------------
(* The codec.                                                                *)

LEMMA LineCharsRange ==
  ASSUME NEW l
  PROVE  LineChars(l) \in 52..72
<1>1. \A n : Digits(n) \in 1..6
  BY DEF Digits
<1>2. \A field : Chars(field) \in 0..6 /\ SpeedChars(field) \in 0..8
  BY <1>1 DEF Chars, SpeedChars
<1> QED
  BY <1>2 DEF LineChars, AddressChars

LEMMA HeaderCharsRange == HeaderChars \in 27..35
<1>1. \A n : Digits(n) \in 1..6
  BY DEF Digits
<1>2. SpeedChars(Baseline * 10) \in 0..8
  BY <1>1 DEF SpeedChars
<1> QED
  BY <1>2 DEF HeaderChars

\* The length of a memo is that of its header and of its lines.
LEMMA MemoCharsSum ==
  ASSUME NEW lines, Len(lines) \in Nat
  PROVE  /\ MemoChars(lines) \in Nat
         /\ Len(lines) = 0 => MemoChars(lines) = HeaderChars
         /\ Len(lines) = 1 => MemoChars(lines) = HeaderChars + 1 + LineChars(lines[1])
<1> DEFINE n == Len(lines)
           part == [i \in 1..n |-> 1 + LineChars(lines[i])]
           step == [i \in 1..n |-> [x \in Nat |-> x + part[i]]]
           eq(f) == f = [i \in 0..n |-> IF i = 0 THEN HeaderChars
                                        ELSE f[i - 1] + 1 + LineChars(lines[i])]
<1>1. step \in [1..n -> [Nat -> Nat]]
  <2>1. \A i \in 1..n : part[i] \in Nat
    <3> SUFFICES ASSUME NEW i \in 1..n PROVE part[i] \in Nat
      OBVIOUS
    <3>1. PICK c \in 52..72 : c = LineChars(lines[i])
      BY LineCharsRange
    <3>2. part[i] = 1 + c
      BY <3>1
    <3> HIDE DEF part
    <3> QED
      BY <3>2
  <2> HIDE DEF part
  <2>2. \A i \in 1..n : [x \in Nat |-> x + part[i]] \in [Nat -> Nat]
    <3> SUFFICES ASSUME NEW i \in 1..n PROVE [x \in Nat |-> x + part[i]] \in [Nat -> Nat]
      OBVIOUS
    <3>1. PICK c \in Nat : c = part[i]
      BY <2>1
    <3> QED
      BY <3>1
  <2> HIDE DEF n
  <2> QED
    BY <2>2, Zenon
<1>2. HeaderChars \in Nat
  BY HeaderCharsRange
<1>3. \A i \in 1..n, x \in Nat : step[i][x] = x + 1 + LineChars(lines[i])
  <2> SUFFICES ASSUME NEW i \in 1..n, NEW x \in Nat
               PROVE  step[i][x] = x + 1 + LineChars(lines[i])
    OBVIOUS
  <2>1. PICK c : c = LineChars(lines[i])
    OBVIOUS
  <2>2. c \in Nat
    BY <2>1, LineCharsRange, SMTT(30)
  <2>3. step[i][x] = x + (1 + c)
    BY <2>1
  <2> HIDE DEF step
  <2> QED
    BY <2>1, <2>2, <2>3
<1> HIDE DEF step
<1>4. PICK f \in [0..n -> Nat] : f[0] = HeaderChars /\ \A i \in 1..n : f[i] = step[i][f[i - 1]]
  <2>1. n \in Nat
    OBVIOUS
  <2> HIDE DEF n
  <2>2. \E f \in [0..n -> Nat] : Solves(f, n, HeaderChars, step)
    BY <1>1, <1>2, <2>1, RecursionExists, Zenon
  <2> QED
    BY <2>2 DEF Solves
<1>5. eq(f)
  <2>1. \A i \in 1..n : f[i - 1] \in Nat /\ i - 1 \in 0..n
    OBVIOUS
  <2>2. \A i \in 1..n : f[i] = f[i - 1] + 1 + LineChars(lines[i])
    BY <1>3, <1>4, <2>1
  <2>3. \A i \in 0..n : f[i] = IF i = 0 THEN HeaderChars ELSE f[i - 1] + 1 + LineChars(lines[i])
    BY <1>4, <2>2
  <2> QED
    BY <2>3
<1>6. PICK g : eq(g) /\ MemoChars(lines) = g[n]
  <2> DEFINE g == CHOOSE h : eq(h)
  <2>1. MemoChars(lines) = g[n]
    BY DEF MemoChars
  <2>2. eq(g)
    BY <1>5
  <2> HIDE DEF g
  <2> QED
    BY <2>1, <2>2
<1>7. g[0] = HeaderChars /\ \A i \in 1..n : g[i - 1] \in Nat => g[i] = step[i][g[i - 1]]
  <2>1. \A i \in 1..n : i \in 0..n /\ i # 0
    OBVIOUS
  <2>2. 0 \in 0..n
    OBVIOUS
  <2> QED
    BY <1>3, <1>6, <2>1, <2>2
<1>8. \A i \in 0..n : g[i] = f[i]
  <2> DEFINE P == {i \in 0..n : g[i] = f[i]}
  <2>1. 0 \in P
    BY <1>4, <1>7
  <2>2. ASSUME NEW i \in 1..n, i - 1 \in P PROVE i \in P
    <3>1. f[i - 1] \in Nat /\ i \in 0..n
      OBVIOUS
    <3> QED
      BY <1>4, <1>7, <2>2, <3>1
  <2>3. P \subseteq 0..n
    OBVIOUS
  <2> HIDE DEF P
  <2>4. 0..n \subseteq P
    BY <2>1, <2>2, Reaches
  <2> QED
    BY <2>4 DEF P
<1>9. MemoChars(lines) = f[n]
  BY <1>6, <1>8
<1>10. n = 1 => f[1] = HeaderChars + 1 + LineChars(lines[1])
  BY <1>3, <1>4
<1>11. f[n] \in Nat
  BY <1>4
<1>12. n = 0 => f[n] = HeaderChars
  BY <1>4
<1> QED
  BY <1>9, <1>10, <1>11, <1>12
\* The lines of a prefix are the prefix of the lines.
LEMMA EncodePrefix ==
  ASSUME NEW S, NEW records \in Seq(S), NEW k \in 0..Len(records)
  PROVE  /\ Len(SubSeq(records, 1, k)) = k
         /\ Len(Encode(SubSeq(records, 1, k))) = k
         /\ \A i \in 1..k : Encode(SubSeq(records, 1, k))[i] = Line(records[i])
         /\ SubSeq([i \in DOMAIN records |-> Line(records[i])], 1, k)
              = Encode(SubSeq(records, 1, k))
<1> DEFINE lines == [i \in DOMAIN records |-> Line(records[i])]
<1>1. SubSeq(records, 1, k) = [i \in 1..k |-> records[i]]
  OBVIOUS
<1>2. Encode(SubSeq(records, 1, k)) = [i \in 1..k |-> Line(records[i])]
  BY <1>1 DEF Encode
<1>3. SubSeq(lines, 1, k) = [i \in 1..k |-> Line(records[i])]
  <2>1. DOMAIN records = 1..Len(records) /\ Len(records) \in Nat
    OBVIOUS
  <2>2. lines = [i \in 1..Len(records) |-> Line(records[i])]
    BY <2>1
  <2> HIDE DEF lines
  <2>3. Len(lines) = Len(records) /\ \A i \in 1..k : lines[i] = Line(records[i])
    BY <2>1, <2>2
  <2> QED
    BY <2>1, <2>2, <2>3
<1> QED
  BY <1>1, <1>2, <1>3

\* packBatch takes the longest prefix it can: what it takes is in the cap and one
\* record more would not be.
FitsMemo(records, k) == MemoChars(Encode(SubSeq(records, 1, k))) <= Limit

LEMMA PackedGreedy ==
  ASSUME NEW S, NEW records \in Seq(S)
  PROVE  LET n == Packed(records)
             most == Least(Len(records), MaxRecords)
         IN /\ n \in 0..most
            /\ n = 0 \/ FitsMemo(records, n)
            /\ n = most \/ ~FitsMemo(records, n + 1)
<1> DEFINE most == Least(Len(records), MaxRecords)
           lines == [i \in DOMAIN records |-> Line(records[i])]
           fits(k) == MemoChars(SubSeq(lines, 1, k)) <= Limit
           good(k) == /\ k = 0 \/ fits(k)
                      /\ k = most \/ ~fits(k + 1)
           last == {k \in 0..most : k = most \/ ~fits(k + 1)}
<1>1. most \in Nat /\ most <= Len(records)
  BY DEF Least, MaxRecords
<1>2. \A k \in 0..most : fits(k) <=> FitsMemo(records, k)
  <2> SUFFICES ASSUME NEW k \in 0..most PROVE fits(k) <=> FitsMemo(records, k)
    OBVIOUS
  <2>1. k \in 0..Len(records)
    BY <1>1
  <2> HIDE DEF most
  <2>2. SubSeq(lines, 1, k) = Encode(SubSeq(records, 1, k))
    BY <2>1, EncodePrefix
  <2> HIDE DEF lines
  <2> QED
    BY <2>2 DEF FitsMemo
<1> HIDE DEF lines
<1>3. PICK k \in last : \A m \in last : k <= m
  <2>1. most \in last /\ last \in SUBSET Nat
    BY <1>1
  <2> HIDE DEF last
  <2> QED
    BY <2>1, LeastElement
<1>4. good(k) /\ k \in 0..most
  <2>1. CASE k = 0
    BY <1>3, <2>1
  <2>2. CASE k # 0
    <3>1. k - 1 \in 0..most /\ ~(k <= k - 1) /\ (k - 1) + 1 = k /\ k - 1 # most
      BY <1>1, <1>3, <2>2
    <3>2. k - 1 \notin last
      BY <1>3, <3>1
    <3>3. fits(k)
      BY <3>1, <3>2
    <3> QED
      BY <1>3, <3>3
  <2> QED
    BY <2>1, <2>2
<1> HIDE DEF fits
<1>5. PICK n \in 0..most : good(n) /\ Packed(records) = n
  <2> DEFINE n == CHOOSE j \in 0..most : good(j)
  <2>1. n \in 0..most /\ good(n)
    BY <1>4
  <2>2. Packed(records) = n
    BY DEF Packed, fits, lines
  <2> HIDE DEF n
  <2> QED
    BY <2>1, <2>2
<1>6. n = most \/ n + 1 \in 0..most
  BY <1>1, <1>5
<1>7. n = 0 \/ FitsMemo(records, n)
  BY <1>2, <1>5
<1>8. n = most \/ ~FitsMemo(records, n + 1)
  BY <1>2, <1>5, <1>6
<1> HIDE DEF most
<1> QED
  BY <1>5, <1>7, <1>8 DEF most

\* One line always fits: a header has at most 35 characters, a line 72.
LEMMA PackedSome ==
  ASSUME NEW S, NEW records \in Seq(S), Len(records) > 0, Limit >= 108
  PROVE  Packed(records) \in 1..Len(records) /\ Packed(records) <= MaxRecords
<1> DEFINE n == Packed(records)
           most == Least(Len(records), MaxRecords)
<1>1. /\ n \in 0..most
      /\ n = most \/ ~FitsMemo(records, n + 1)
  BY PackedGreedy
<1>2. most \in 1..Len(records) /\ most <= MaxRecords
  BY DEF Least, MaxRecords
<1>3. FitsMemo(records, 1)
  <2>1. PICK memo : memo = Encode(SubSeq(records, 1, 1)) /\ Len(memo) = 1
    <3>1. 1 \in 0..Len(records)
      OBVIOUS
    <3>2. Len(Encode(SubSeq(records, 1, 1))) = 1
      BY <3>1, EncodePrefix
    <3> QED
      BY <3>2
  <2>2. MemoChars(memo) = HeaderChars + 1 + LineChars(memo[1])
    BY <2>1, MemoCharsSum
  <2>3. LineChars(memo[1]) \in 52..72
    BY LineCharsRange
  <2>4. MemoChars(memo) <= Limit
    <3>1. PICK h \in 27..35, c \in 52..72 : h = HeaderChars /\ c = LineChars(memo[1])
      BY <2>3, HeaderCharsRange
    <3>2. MemoChars(memo) = h + 1 + c
      BY <2>2, <3>1
    <3>3. h + 1 + c <= 108 /\ h + 1 + c \in Nat
      OBVIOUS
    <3>4. Limit \in Nat
      BY MemoAssumption
    <3>5. h + 1 + c <= Limit
      BY <3>3, <3>4
    <3> QED
      BY <3>2, <3>5
  <2> QED
    BY <2>1, <2>4 DEF FitsMemo
<1>4. n # 0
  BY <1>1, <1>2, <1>3
<1> HIDE DEF n, most
<1>5. n \in 1..Len(records) /\ n <= MaxRecords
  BY <1>1, <1>2, <1>4 DEF MaxRecords
<1> QED
  BY <1>5 DEF n
\* The header alone fits, so that also an empty memo is in the cap.
LEMMA EmptyFits ==
  ASSUME NEW S, NEW records \in Seq(S), Limit >= 35
  PROVE  FitsMemo(records, 0)
<1>1. PICK memo : memo = Encode(SubSeq(records, 1, 0)) /\ Len(memo) = 0
  <2>1. 0 \in 0..Len(records)
    OBVIOUS
  <2>2. Len(Encode(SubSeq(records, 1, 0))) = 0
    BY <2>1, EncodePrefix
  <2> QED
    BY <2>2
<1>2. MemoChars(memo) = HeaderChars
  BY <1>1, MemoCharsSum
<1> QED
  BY <1>1, <1>2, HeaderCharsRange, MemoAssumption DEF FitsMemo

\* A line says what the test found: rounding loses at most half a tenth.
LEMMA LineSays ==
  ASSUME NEW node, NEW result \in Result
  PROVE  Says(DecodeLine(Line(ToRecord(node, result))), node, result)
<1> DEFINE rec == ToRecord(node, result)
           l == Line(rec)
           d == DecodeLine(l)
           m == result.mbps
<1>1. /\ rec.node = node /\ (rec.ok <=> m # Blank) /\ rec.ok \in BOOLEAN
      /\ rec.mbps = m /\ rec.peers = ClampU16(result.peers) /\ rec.lat = ClampU16(result.lat)
  BY DEF ToRecord
<1> HIDE DEF rec
<1>2. /\ l.node = rec.node /\ l.ok = (IF rec.ok THEN 1 ELSE 0)
      /\ l.mbps = (IF rec.ok THEN Tenths(rec.mbps) ELSE Blank)
      /\ l.peers = rec.peers /\ l.lat = (IF rec.lat = 0 THEN Blank ELSE rec.lat)
  BY DEF Line
<1> HIDE DEF l
<1>3. /\ d.node = l.node /\ (d.ok <=> l.ok = 1)
      /\ d.mbps = (IF l.ok = 1 /\ l.mbps # Blank THEN l.mbps ELSE Blank)
      /\ d.peers = l.peers /\ d.lat = l.lat
  BY DEF DecodeLine
<1> HIDE DEF d
<1>4. d.node = node /\ d.peers = ClampU16(result.peers)
  BY <1>1, <1>2, <1>3
<1>5. d.ok <=> m # Blank
  BY <1>1, <1>2, <1>3
<1>6. ASSUME d.ok PROVE 10 * d.mbps - m \in -4..5
  <2>1. m \in Nat /\ rec.ok
    BY <1>1, <1>5, <1>6 DEF Result
  <2>2. PICK s \in Nat : s = Tenths(m) /\ 10 * s - m \in -4..5
    BY <2>1 DEF Tenths
  <2>3. s # Blank
    BY MemoAssumption
  <2>4. d.mbps = s
    BY <1>1, <1>2, <1>3, <2>1, <2>2, <2>3
  <2> QED
    BY <2>2, <2>4
<1>7. d.lat = IF result.lat <= 0 THEN Blank ELSE ClampU16(result.lat)
  <2>1. result.lat \in Int
    BY DEF Result
  <2>2. IF result.lat <= 0 THEN ClampU16(result.lat) = 0 ELSE ClampU16(result.lat) # 0
    BY <2>1 DEF ClampU16, Least, U16
  <2> QED
    BY <1>1, <1>2, <1>3, <2>2
<1>8. Says(d, node, result)
  BY <1>4, <1>5, <1>6, <1>7 DEF Says
<1> QED
  BY <1>8 DEF d, l, rec

LEMMA ReadableMemo ==
  ASSUME Limit >= 35
  PROVE  MemoReadable
<1> SUFFICES ASSUME NEW k \in 1..3, NEW results \in [1..k -> Samples]
             PROVE  LET records == [i \in 1..k |-> ToRecord(i, results[i])]
                        n == Packed(records)
                        memo == Encode(SubSeq(records, 1, n))
                    IN /\ MemoChars(memo) <= Limit
                       /\ n = k \/ MemoChars(Encode(SubSeq(records, 1, n + 1))) > Limit
                       /\ \A i \in 1..n : Says(Decode(memo)[i], i, results[i])
  BY DEF MemoReadable
<1> DEFINE records == [i \in 1..k |-> ToRecord(i, results[i])]
           S == {ToRecord(i, results[i]) : i \in 1..k}
           n == Packed(records)
           memo == Encode(SubSeq(records, 1, n))
<1>1. records \in Seq(S) /\ Len(records) = k
  OBVIOUS
<1>2. \A i \in 1..k : records[i] = ToRecord(i, results[i])
  OBVIOUS
<1> HIDE DEF records, S
<1>3. /\ n \in 0..Least(Len(records), MaxRecords)
      /\ n = 0 \/ FitsMemo(records, n)
      /\ n = Least(Len(records), MaxRecords) \/ ~FitsMemo(records, n + 1)
  BY <1>1, PackedGreedy
<1>4. Least(Len(records), MaxRecords) = k
  BY <1>1 DEF Least, MaxRecords
<1> HIDE DEF n
<1>5. n \in 0..k /\ n \in 0..Len(records)
  BY <1>1, <1>3, <1>4
<1>6. MemoChars(memo) <= Limit
  <2>1. FitsMemo(records, n)
    BY <1>1, <1>3, EmptyFits
  <2> QED
    BY <2>1 DEF FitsMemo
<1>7. n = k \/ MemoChars(Encode(SubSeq(records, 1, n + 1))) > Limit
  <2> SUFFICES ASSUME n # k PROVE MemoChars(Encode(SubSeq(records, 1, n + 1))) > Limit
    OBVIOUS
  <2>1. n + 1 \in 0..Len(records)
    BY <1>1, <1>5
  <2>2. Len(Encode(SubSeq(records, 1, n + 1))) = n + 1 /\ n + 1 \in Nat
    BY <1>1, <2>1, EncodePrefix
  <2>3. MemoChars(Encode(SubSeq(records, 1, n + 1))) \in Nat
    BY <2>2, MemoCharsSum
  <2>4. ~FitsMemo(records, n + 1)
    BY <1>3, <1>4
  <2> QED
    BY <2>3, <2>4, MemoAssumption DEF FitsMemo
<1>8. \A i \in 1..n : Says(Decode(memo)[i], i, results[i])
  <2> SUFFICES ASSUME NEW i \in 1..n PROVE Says(Decode(memo)[i], i, results[i])
    OBVIOUS
  <2>1. memo[i] = Line(records[i]) /\ i \in DOMAIN memo
    <3>1. SubSeq(records, 1, n) = [j \in 1..n |-> records[j]]
      BY <1>1, <1>5
    <3>2. memo = [j \in 1..n |-> Line(records[j])]
      BY <3>1 DEF Encode
    <3> QED
      BY <3>2
  <2>2. Decode(memo)[i] = DecodeLine(Line(records[i]))
    BY <2>1 DEF Decode
  <2>3. i \in 1..k /\ results[i] \in Result
    BY <1>5, MemoAssumption
  <2>4. records[i] = ToRecord(i, results[i])
    BY <1>2, <2>3
  <2>5. Says(DecodeLine(Line(ToRecord(i, results[i]))), i, results[i])
    BY <2>3, LineSays
  <2> QED
    BY <2>2, <2>4, <2>5
<1>9. /\ MemoChars(memo) <= Limit
      /\ n = k \/ MemoChars(Encode(SubSeq(records, 1, n + 1))) > Limit
      /\ \A i \in 1..n : Says(Decode(memo)[i], i, results[i])
  BY <1>6, <1>7, <1>8
<1> QED
  BY <1>9 DEF records, n

\* Whatever a pass has to report, what is posted can be read: the memo is in the cap
\* (packBatch; 35 characters are the longest header), is as full as it can be, and a
\* reader learns of every node what its test found (encodeLine, decodeMemo).
THEOREM MemosAreRead ==
  ASSUME Limit >= 35
  PROVE  Spec => []Readable
<1>1. Readable
  BY ReadableMemo DEF Readable
<1> QED
  BY <1>1, PTL
-----------------------------------------------------------------------------
(* The steps of the wallet, the memos and the passes keep the types.         *)

LEMMA RequestType ==
  ASSUME WalletTypeOK, NEW t \in Txs, NEW at \in Endpoints, Request(t, at)
  PROVE  WalletTypeOK'
<1>1. tx' \in [Txs -> Tx]
  BY DEF WalletTypeOK, Request, Tx
<1>2. line' \in Seq(Txs) /\ ledger' = ledger /\ rpc' = rpc
  BY DEF WalletTypeOK, Request
<1> QED
  BY <1>1, <1>2 DEF WalletTypeOK

LEMMA SettleType ==
  ASSUME WalletTypeOK, NEW t \in Txs, Turn(t), NEW pc \in {"done", "failed"},
         NEW err \in {"none", "mismatch", "query", "refused", "lost"}, Settle(t, pc, err)
  PROVE  tx' \in [Txs -> Tx] /\ line' \in Seq(Txs) /\ rpc' = rpc
<1>1. tx' \in [Txs -> Tx]
  BY DEF WalletTypeOK, Settle, Tx
<1>2. line' \in Seq(Txs)
  BY DEF WalletTypeOK, Settle, Turn
<1> QED
  BY <1>1, <1>2 DEF Settle

LEMMA ErrsType ==
  ASSUME WalletTypeOK, NEW t \in Txs, Turn(t),
         NEW err \in {"mismatch", "query", "refused", "lost"}, Errs(t, err)
  PROVE  tx' \in [Txs -> Tx] /\ line' \in Seq(Txs) /\ rpc' \in Endpoints
<1>1. CASE Again(t, err) /\ tx[t].tries < MaxRetries
  <2> DEFINE next == IF Reconnects(t, err) THEN NextRpc(rpc) ELSE tx[t].at
  <2>1. next \in Endpoints
    BY NextRpcType DEF WalletTypeOK, Tx
  <2>2. tx[t].tries + 1 \in 0..MaxRetries
    BY <1>1, WalletAssumption DEF WalletTypeOK, Tx
  <2>3. /\ tx' = [tx EXCEPT ![t] = [pc |-> "retry", tries |-> tx[t].tries + 1, at |-> next,
                                    seq |-> tx[t].seq, err |-> err]]
        /\ rpc' = IF Reconnects(t, err) THEN next ELSE rpc
        /\ line' = line
    BY <1>1 DEF Again
  <2> HIDE DEF next
  <2>4. PICK n \in 0..MaxRetries : n = tx[t].tries + 1
    BY <2>2
  <2>5. [pc |-> "retry", tries |-> n, at |-> next, seq |-> tx[t].seq, err |-> err] \in Tx
    BY <2>1 DEF WalletTypeOK, Tx
  <2>7. tx' \in [Txs -> Tx]
    BY <2>3, <2>4, <2>5 DEF WalletTypeOK
  <2> QED
    BY <2>1, <2>3, <2>7 DEF WalletTypeOK
<1>2. CASE Settle(t, "failed", err)
  BY <1>2, SettleType DEF WalletTypeOK
<1> QED
  BY <1>1, <1>2 DEF Errs

LEMMA EntersType ==
  ASSUME WalletTypeOK, NEW t \in Txs, ledger' = ledger \/ \E ok \in BOOLEAN : Enters(t, ok)
  PROVE  ledger' \in Seq([tx : Txs, ok : BOOLEAN])
<1>1. CASE ledger' = ledger
  BY <1>1 DEF WalletTypeOK
<1>2. CASE \E ok \in BOOLEAN : Enters(t, ok)
  <2>1. PICK ok \in BOOLEAN : ledger' = Append(ledger, [tx |-> t, ok |-> ok])
    BY <1>2 DEF Enters
  <2> QED
    BY <2>1 DEF WalletTypeOK
<1> QED
  BY <1>1, <1>2

LEMMA BroadcastType ==
  ASSUME WalletTypeOK, NEW t \in Txs, Broadcast(t)
  PROVE  WalletTypeOK'
<1>1. CASE Sign(t)
  <2>1. PICK n \in Numbers : tx' = [tx EXCEPT ![t] = [@ EXCEPT !.pc = "signed", !.seq = n]]
    BY <1>1 DEF Sign
  <2>2. n \in Nat
    BY DEF Numbers, WalletTypeOK
  <2>3. tx' \in [Txs -> Tx]
    BY <2>1, <2>2 DEF WalletTypeOK, Tx
  <2> QED
    BY <1>1, <2>3 DEF Sign, WalletTypeOK
<1>2. CASE Land(t)
  <2>1. tx' \in [Txs -> Tx] /\ line' \in Seq(Txs) /\ rpc' = rpc
    BY <1>2, SettleType DEF Land, Answers
  <2>2. ledger' \in Seq([tx : Txs, ok : BOOLEAN])
    BY <1>2, EntersType DEF Land
  <2> QED
    BY <2>1, <2>2 DEF WalletTypeOK
<1>3. CASE LandUnseen(t) \/ Refuse(t) \/ Mismatch(t) \/ QueryFails(t)
  <2>1. tx' \in [Txs -> Tx] /\ line' \in Seq(Txs) /\ rpc' \in Endpoints
    BY <1>3, ErrsType DEF LandUnseen, Refuse, Mismatch, QueryFails, Answers
  <2>2. ledger' \in Seq([tx : Txs, ok : BOOLEAN])
    BY <1>3, EntersType DEF LandUnseen, Refuse, Mismatch, QueryFails
  <2> QED
    BY <2>1, <2>2 DEF WalletTypeOK
<1> QED
  BY <1>1, <1>2, <1>3 DEF Broadcast

LEMMA LineType ==
  ASSUME NEW node \in 1..MaxRows, NEW result \in Result
  PROVE  Line(ToRecord(node, result)) \in MemoLine
<1> DEFINE rec == ToRecord(node, result)
<1>1. \A n \in Int : ClampU16(n) \in 0..U16
  <2> TAKE n \in Int
  <2>1. PICK u \in Nat : u = U16
    BY DEF U16
  <2>2. n >= 0 => Least(n, u) \in 0..u
    BY DEF Least
  <2>3. 0 \in 0..u
    OBVIOUS
  <2> QED
    BY <2>1, <2>2, <2>3 DEF ClampU16
<1>2. /\ rec.node = node /\ (rec.ok <=> result.mbps # Blank) /\ rec.mbps = result.mbps
      /\ rec.peers \in 0..U16 /\ rec.lat \in 0..U16
  BY <1>1 DEF ToRecord, Result
<1> HIDE DEF rec
<1>3. rec.ok => Tenths(rec.mbps) \in Nat
  BY <1>2 DEF Tenths, Result
<1>4. Line(rec) \in MemoLine
  BY <1>2, <1>3 DEF Line, MemoLine
<1> QED
  BY <1>4 DEF rec

\* What Records makes of some rows, and the memo of them.
LEMMA RecordsType ==
  ASSUME NEW rows \in Seq(Row)
  PROVE  /\ \E S : Records(rows) \in Seq(S) /\ Len(Records(rows)) = Len(rows)
         /\ Encode(Records(rows)) \in Seq(MemoLine)
<1>1. Records(rows) = [i \in 1..Len(rows) |-> ToRecord(rows[i].n, rows[i].result)]
  BY DEF Records
<1>2. PICK S : S = {ToRecord(rows[i].n, rows[i].result) : i \in 1..Len(rows)}
  OBVIOUS
<1>3. Records(rows) \in Seq(S) /\ Len(Records(rows)) = Len(rows)
  BY <1>1, <1>2
<1>4. \A i \in 1..Len(rows) : rows[i].n \in 1..MaxRows /\ rows[i].result \in Result
  <2>1. \A i \in 1..Len(rows) : rows[i] \in Row
    <3> HIDE DEF Row
    <3> QED
      OBVIOUS
  <2> QED
    BY <2>1, ReporterAssumption DEF Row
<1>5. Encode(Records(rows)) = [i \in 1..Len(rows) |-> Line(ToRecord(rows[i].n, rows[i].result))]
  BY <1>1 DEF Encode
<1>6. \A i \in 1..Len(rows) : Line(ToRecord(rows[i].n, rows[i].result)) \in MemoLine
  BY <1>4, LineType
<1>7. Encode(Records(rows)) \in Seq(MemoLine)
  <2> HIDE DEF MemoLine
  <2> QED
    BY <1>5, <1>6
<1> QED
  BY <1>3, <1>7

\* What _flushOnchainBatch does, up to its await: it keeps the rows or sends some
\* from the front.  No row is dropped for its length.
LEMMA FlushEffect ==
  ASSUME Limit >= 108, NEW q, NEW rows \in Seq(Row), NEW force \in BOOLEAN, Flush(q, rows, force)
  PROVE  \/ Keep(q, rows) /\ (rows = <<>> \/ (~force /\ Len(rows) < 2))
         \/ \E n \in 1..Len(rows) : n <= MaxRecords /\ Send(q, rows, n)
<1> DEFINE n == Packed(Records(rows))
<1>1. CASE rows = <<>> \/ (~force /\ Len(rows) < FlushAt)
  BY <1>1 DEF Flush, FlushAt
<1>2. CASE ~(rows = <<>> \/ (~force /\ Len(rows) < FlushAt))
  <2>1. Len(rows) > 0
    BY <1>2
  <2>2. PICK S : Records(rows) \in Seq(S) /\ Len(Records(rows)) = Len(rows)
    BY RecordsType
  <2>3. n \in 1..Len(rows) /\ n <= MaxRecords
    BY <2>1, <2>2, PackedSome
  <2>4. Send(q, rows, n)
    BY <1>2, <2>3 DEF Flush
  <2> QED
    BY <2>3, <2>4
<1> QED
  BY <1>1, <1>2
LEMMA KeepType ==
  ASSUME TypeOK, NEW q \in Passes, NEW rows \in Seq(Row), Keep(q, rows)
  PROVE  /\ WalletTypeOK' /\ rep' \in [Passes -> [buffer : Seq(Row), committed : Nat]]
         /\ flight' = flight
<1>1. rep' \in [Passes -> [buffer : Seq(Row), committed : Nat]]
  <2> DEFINE R == Seq(Row)
  <2>1. rep \in [Passes -> [buffer : R, committed : Nat]] /\ rows \in R
    BY DEF TypeOK
  <2> HIDE DEF R
  <2>2. rep' \in [Passes -> [buffer : R, committed : Nat]]
    BY <2>1 DEF Keep
  <2> QED
    BY <2>2 DEF R
<1> QED
  BY <1>1 DEF Keep, TypeOK, WalletTypeOK, wallet

\* What a send leaves of the buffer, and the report it hands over.
LEMMA SendEffect ==
  ASSUME NEW q, NEW rows \in Seq(Row), NEW n \in 1..Len(rows)
  PROVE  /\ SubSeq(rows, 1, n) \in Seq(Row) /\ Len(SubSeq(rows, 1, n)) = n
         /\ \A i \in 1..n : SubSeq(rows, 1, n)[i] = rows[i]
         /\ SubSeq(rows, n + 1, Len(rows)) \in Seq(Row)
         /\ Len(SubSeq(rows, n + 1, Len(rows))) = Len(rows) - n
         /\ \A i \in 1..(Len(rows) - n) : SubSeq(rows, n + 1, Len(rows))[i] = rows[n + i]
<1> DEFINE R == Row
<1>1. rows \in Seq(R)
  OBVIOUS
<1> HIDE DEF R
<1>2. SubSeq(rows, 1, n) = [i \in 1..n |-> rows[i]]
  BY <1>1
<1>3. SubSeq(rows, n + 1, Len(rows)) = [i \in 1..(Len(rows) - n) |-> rows[n + i]]
  BY <1>1
<1>4. SubSeq(rows, 1, n) \in Seq(R) /\ SubSeq(rows, n + 1, Len(rows)) \in Seq(R)
  BY <1>1
<1>5. Len(SubSeq(rows, 1, n)) = n /\ Len(SubSeq(rows, n + 1, Len(rows))) = Len(rows) - n
  BY <1>1
<1> QED
  BY <1>2, <1>3, <1>4, <1>5 DEF R

LEMMA SendType ==
  ASSUME TypeOK, NEW q \in Passes, NEW rows \in Seq(Row), NEW n \in 1..Len(rows), Send(q, rows, n)
  PROVE  /\ WalletTypeOK' /\ rep' \in [Passes -> [buffer : Seq(Row), committed : Nat]]
         /\ flight' \in Seq([pass : Passes, rows : Seq(Row), memo : Seq(MemoLine)])
         /\ Len(flight') = Len(flight) + 1 /\ DOMAIN flight' \subseteq Reports
<1> DEFINE R == Seq(Row)
           M == Seq(MemoLine)
           sent == SubSeq(rows, 1, n)
           left == SubSeq(rows, n + 1, Len(rows))
           memo == Encode(Records(sent))
<1>1. sent \in R /\ left \in R
  BY SendEffect
<1>2. memo \in M
  BY <1>1, RecordsType
<1>3. Len(flight) + 1 \in Reports /\ Request(Len(flight) + 1, pass[q].client)
  BY DEF Send
<1>4. pass[q].client \in Endpoints
  BY DEF TypeOK, Pass
<1>5. WalletTypeOK'
  BY <1>3, <1>4, RequestType, ReporterAssumption DEF TypeOK
<1>6. /\ rep' = [rep EXCEPT ![q].buffer = left]
      /\ flight' = Append(flight, [pass |-> q, rows |-> sent, memo |-> memo])
  BY DEF Send
<1>7. /\ rep \in [Passes -> [buffer : R, committed : Nat]]
      /\ flight \in Seq([pass : Passes, rows : R, memo : M])
  BY DEF TypeOK
<1> HIDE DEF R, M, sent, left, memo
<1>8. rep' \in [Passes -> [buffer : R, committed : Nat]]
  BY <1>1, <1>6, <1>7
<1>9. /\ flight' \in Seq([pass : Passes, rows : R, memo : M])
      /\ Len(flight') = Len(flight) + 1
  <2> DEFINE F == [pass : Passes, rows : R, memo : M]
             entry == [pass |-> q, rows |-> sent, memo |-> memo]
  <2>1. entry \in F /\ flight \in Seq(F) /\ flight' = Append(flight, entry)
    BY <1>1, <1>2, <1>6, <1>7
  <2> HIDE DEF F, entry
  <2>2. flight' \in Seq(F) /\ Len(flight') = Len(flight) + 1
    BY <2>1
  <2> QED
    BY <2>2 DEF F
<1>10. DOMAIN flight' \subseteq Reports
  BY <1>3, <1>9, ReporterAssumption DEF TypeOK
<1> QED
  BY <1>5, <1>8, <1>9, <1>10 DEF R, M

LEMMA FlushType ==
  ASSUME TypeOK, Limit >= 108, NEW q \in Passes, NEW rows \in Seq(Row), NEW force \in BOOLEAN,
         Flush(q, rows, force)
  PROVE  /\ WalletTypeOK' /\ rep' \in [Passes -> [buffer : Seq(Row), committed : Nat]]
         /\ flight' \in Seq([pass : Passes, rows : Seq(Row), memo : Seq(MemoLine)])
         /\ DOMAIN flight' \subseteq Reports
         /\ flight' = flight \/ Len(flight') \in Reports
<1>1. CASE Keep(q, rows)
  BY <1>1, KeepType DEF TypeOK
<1>2. CASE \E n \in 1..Len(rows) : Send(q, rows, n)
  <2>1. PICK n \in 1..Len(rows) : Send(q, rows, n)
    BY <1>2
  <2>2. Len(flight') \in Reports
    <3>1. Len(flight') = Len(flight) + 1
      BY <2>1, SendType
    <3> QED
      BY <2>1, <3>1 DEF Send
  <2> QED
    BY <2>1, <2>2, SendType
<1> QED
  BY <1>1, <1>2, FlushEffect

-----------------------------------------------------------------------------
(* Passes that do not overlap: one at a time, and the reporter is its own.   *)

Passing ==
  /\ \A p, q \in Passes : q < p /\ pass[p].pc # "off" => pass[q].pc = "done"
  /\ reporter # NoPass => reporter \in Passes /\ pass[reporter].pc \in {"run", "ending"}
                          /\ pass[reporter].on
  /\ \A p \in Passes : pass[p].pc \in {"run", "ending"} => reporter = IF pass[p].on THEN p ELSE NoPass
  /\ \A p \in Passes : pass[p].pc = "ending" => pass[p].on

LEMMA NumbersInt == Passes \subseteq Nat \ {0} /\ Reports \subseteq Nat \ {0}
<1>1. PICK m \in Nat, n \in Nat : Passes = 1..m /\ Reports = 1..n
  <2>1. Cardinality(Passes) \in Nat /\ Cardinality(Reports) \in Nat
    BY ReporterAssumption, FS_CardinalityType
  <2> QED
    BY <2>1, ReporterAssumption
<1> QED
  BY <1>1

LEMMA OnePass ==
  ASSUME Passing, NEW p \in Passes, NEW q \in Passes,
         pass[p].pc \in {"run", "ending"}, pass[q].pc \in {"run", "ending"}
  PROVE  p = q
<1>1. p \in Int /\ q \in Int
  BY NumbersInt
<1>2. ~(p < q) /\ ~(q < p)
  BY DEF Passing
<1> QED
  BY <1>1, <1>2

LEMMA PassInit ==
  Init => TypeOK /\ Passing
<1> SUFFICES ASSUME Init PROVE TypeOK /\ Passing
  OBVIOUS
<1>1. WalletTypeOK
  <2>1. 0 \in Endpoints /\ 0 \in 0..MaxRetries
    BY WalletAssumption DEF Endpoints
  <2> QED
    BY <2>1 DEF Init, WalletInit, WalletTypeOK, Tx
<1>2. rep \in [Passes -> [buffer : Seq(Row), committed : Nat]]
  <2> DEFINE R == Seq(Row)
  <2>1. <<>> \in R
    OBVIOUS
  <2> HIDE DEF R
  <2>2. rep \in [Passes -> [buffer : R, committed : Nat]]
    BY <2>1 DEF Init
  <2> QED
    BY <2>2 DEF R
<1>3. pass \in [Passes -> Pass]
  <2>1. 0 \in Endpoints /\ 0 \in 0..MaxRows
    BY WalletAssumption, ReporterAssumption DEF Endpoints
  <2> QED
    BY <2>1 DEF Init, Pass
<1>4. TypeOK
  <2> DEFINE F == [pass : Passes, rows : Seq(Row), memo : Seq(MemoLine)]
  <2>1. flight \in Seq(F) /\ DOMAIN flight \subseteq Reports
    BY DEF Init
  <2> QED
    BY <1>1, <1>2, <1>3, <2>1 DEF Init, TypeOK
<1>5. Passing
  BY DEF Init, Passing
<1> QED
  BY <1>4, <1>5
\* The reports are requested, and land, in the order of their numbers.
Queue ==
  /\ \A j \in 1..Len(line) : line[j] \in Reports => line[j] <= Len(flight)
  /\ \A i \in 1..Len(ledger) : ledger[i].tx \in Reports => ledger[i].tx <= Len(flight)
  /\ \A i, j \in 1..Len(line) :
       i < j /\ line[i] \in Reports /\ line[j] \in Reports => line[i] < line[j]
  /\ \A i \in 1..Len(ledger), j \in 1..Len(line) :
       ledger[i].tx \in Reports /\ line[j] \in Reports => ledger[i].tx < line[j]
  /\ \A i, j \in 1..Len(ledger) :
       i < j /\ ledger[i].tx \in Reports /\ ledger[j].tx \in Reports => ledger[i].tx < ledger[j].tx

LEMMA InTurnMeans ==
  ASSUME TypeOK, NEW t, Broadcast(t)
  PROVE  line # <<>> /\ 1 \in 1..Len(line) /\ line[1] = t /\ t \in Txs
<1>1. Turn(t)
  BY DEF Broadcast, Sign, Land, LandUnseen, Refuse, Mismatch, QueryFails, Answers
<1> QED
  BY <1>1 DEF Turn, TypeOK, WalletTypeOK

\* A report in the wallet's line is one that was handed over.
LEMMA ReportType ==
  ASSUME TypeOK, Queue, NEW t \in Reports, Broadcast(t)
  PROVE  /\ t \in 1..Len(flight) /\ flight[t].pass \in Passes
         /\ flight[t].rows \in Seq(Row) /\ Len(flight[t].rows) \in Nat
<1> DEFINE F == [pass : Passes, rows : Seq(Row), memo : Seq(MemoLine)]
<1>1. t <= Len(flight)
  BY InTurnMeans DEF Queue
<1>2. t \in 1..Len(flight)
  BY <1>1, NumbersInt DEF TypeOK
<1>3. flight \in Seq(F)
  BY DEF TypeOK
<1>4. flight[t] \in F
  <2> HIDE DEF F
  <2> QED
    BY <1>2, <1>3
<1>5. flight[t].pass \in Passes /\ flight[t].rows \in Seq(Row)
  BY <1>4
<1> QED
  BY <1>2, <1>5

\* What the steps do to the passes and to the reporter.
PassMoves(p, pc, on, rows, client, waits) ==
  pass' = [pass EXCEPT ![p] = [pc |-> pc, on |-> on, rows |-> rows, client |-> client, waits |-> waits]]

LEMMA StartPass ==
  ASSUME TypeOK, NEW p \in Passes, Start(p)
  PROVE  /\ WalletTypeOK' /\ UNCHANGED <<line, tx, ledger, rep, flight, tested>>
         /\ \E on \in BOOLEAN :
              /\ PassMoves(p, "run", on, pass[p].rows, rpc', pass[p].waits)
              /\ reporter' = IF on THEN p ELSE NoPass
         /\ pass' \in [Passes -> Pass]
<1>1. UNCHANGED <<line, tx, ledger, rep, flight, tested>> /\ rpc' \in Endpoints
  BY FirstUpType DEF Start, CreateClient, TypeOK, WalletTypeOK
<1>2. WalletTypeOK'
  BY <1>1 DEF TypeOK, WalletTypeOK
<1>3. PICK on \in BOOLEAN :
        /\ pass' = [pass EXCEPT ![p] = [@ EXCEPT !.pc = "run", !.on = on, !.client = rpc']]
        /\ reporter' = IF on THEN p ELSE NoPass
  BY DEF Start
<1>4. PICK c \in Endpoints : c = rpc'
  BY <1>1
<1>5. [pass[p] EXCEPT !.pc = "run", !.on = on, !.client = c]
        = [pc |-> "run", on |-> on, rows |-> pass[p].rows, client |-> c, waits |-> pass[p].waits]
  <2>1. PICK r1 : r1 = [pass[p] EXCEPT !.pc = "run"]
    OBVIOUS
  <2>2. pass[p] \in Pass
    BY DEF TypeOK
  <2>3. r1 = [pc |-> "run", on |-> pass[p].on, rows |-> pass[p].rows,
              client |-> pass[p].client, waits |-> pass[p].waits]
    BY <2>1, <2>2 DEF Pass
  <2>4. PICK r2 : r2 = [r1 EXCEPT !.on = on]
    OBVIOUS
  <2>5. r2 = [pc |-> "run", on |-> on, rows |-> pass[p].rows,
              client |-> pass[p].client, waits |-> pass[p].waits]
    BY <2>3, <2>4
  <2>6. PICK r3 : r3 = [r2 EXCEPT !.client = c]
    OBVIOUS
  <2>7. r3 = [pc |-> "run", on |-> on, rows |-> pass[p].rows, client |-> c, waits |-> pass[p].waits]
    BY <2>5, <2>6
  <2>8. r3 = [pass[p] EXCEPT !.pc = "run", !.on = on, !.client = c]
    BY <2>1, <2>4, <2>6
  <2> QED
    BY <2>7, <2>8
<1>6. pass' = [pass EXCEPT ![p] = [pass[p] EXCEPT !.pc = "run", !.on = on, !.client = c]]
  BY <1>3, <1>4
<1>7. PassMoves(p, "run", on, pass[p].rows, rpc', pass[p].waits)
  BY <1>4, <1>5, <1>6 DEF PassMoves
<1>8. [pc |-> "run", on |-> on, rows |-> pass[p].rows, client |-> c, waits |-> pass[p].waits] \in Pass
  BY DEF TypeOK, Pass
<1>9. pass' \in [Passes -> Pass]
  BY <1>5, <1>6, <1>8 DEF TypeOK
<1> QED
  BY <1>1, <1>2, <1>3, <1>7, <1>9

LEMMA TypeStep ==
  ASSUME TypeOK, Queue, Limit >= 108, [Next]_vars
  PROVE  TypeOK'
<1> DEFINE R == [buffer : Seq(Row), committed : Nat]
           F == [pass : Passes, rows : Seq(Row), memo : Seq(MemoLine)]
<1>1. ASSUME NEW p \in Passes, Start(p) PROVE TypeOK'
  <2>1. reporter' \in Passes \cup {NoPass}
    BY <1>1, StartPass
  <2> QED
    BY <1>1, <2>1, StartPass DEF TypeOK
<1>2. ASSUME NEW p \in Passes, NEW t \in Payments, Pay(p, t) PROVE TypeOK'
  <2>1. WalletTypeOK'
    BY <1>2, RequestType, ReporterAssumption DEF Pay, TypeOK, Pass
  <2> QED
    BY <1>2, <2>1 DEF Pay, TypeOK
<1>3. ASSUME NEW p \in Passes, NEW r \in Outcomes, Record(p, r) PROVE TypeOK'
  <2> DEFINE row == [pass |-> p, n |-> pass[p].rows + 1, result |-> r]
  <2>1. pass[p].rows \in 0..MaxRows /\ pass[p].rows < MaxRows /\ MaxRows \in Nat
    BY <1>3, ReporterAssumption DEF TypeOK, Pass, Record
  <2>2. row \in Row
    BY <2>1 DEF Row
  <2>3. pass' \in [Passes -> Pass]
    <3>1. PICK n \in 0..MaxRows : n = pass[p].rows + 1
      BY <2>1
    <3>2. pass' = [pass EXCEPT ![p].rows = n]
      BY <1>3, <3>1 DEF Record
    <3> QED
      BY <3>2 DEF TypeOK, Pass
  <2>4. tested' \subseteq Row /\ reporter' \in Passes \cup {NoPass}
    BY <1>3, <2>2 DEF Record, TypeOK
  <2>5. WalletTypeOK' /\ rep' \in [Passes -> R] /\ flight' \in Seq(F) /\ DOMAIN flight' \subseteq Reports
    <3>1. CASE UNCHANGED <<rep, flight, wallet>>
      BY <3>1 DEF TypeOK, WalletTypeOK, wallet
    <3>2. CASE reporter # NoPass /\ Flush(reporter, Append(rep[reporter].buffer, row), FALSE)
      <4>1. reporter \in Passes
        BY <3>2 DEF TypeOK
      <4>2. rep[reporter].buffer \in Seq(Row)
        BY <4>1 DEF TypeOK
      <4>3. Append(rep[reporter].buffer, row) \in Seq(Row)
        BY <2>2, <4>2
      <4> HIDE DEF row
      <4> QED
        BY <3>2, <4>1, <4>3, FlushType
    <3> QED
      BY <1>3, <3>1, <3>2 DEF Record
  <2> QED
    BY <2>3, <2>4, <2>5 DEF TypeOK
<1>4. ASSUME NEW p \in Passes, Finalise(p) PROVE TypeOK'
  <2>1. CASE reporter = NoPass
    <3>1. pass' = [pass EXCEPT ![p].pc = "done"]
      BY <1>4, <2>1 DEF Finalise
    <3>2. pass' \in [Passes -> Pass]
      BY <3>1 DEF TypeOK, Pass
    <3>3. UNCHANGED <<rep, flight, wallet, reporter, tested>>
      BY <1>4, <2>1 DEF Finalise
    <3> QED
      BY <3>2, <3>3 DEF TypeOK, WalletTypeOK, wallet
  <2>2. CASE reporter # NoPass
    <3>1. reporter \in Passes /\ Flush(reporter, rep[reporter].buffer, TRUE)
      BY <1>4, <2>2 DEF Finalise, TypeOK
    <3>2. rep[reporter].buffer \in Seq(Row)
      BY <3>1 DEF TypeOK
    <3>3. /\ WalletTypeOK' /\ rep' \in [Passes -> R] /\ flight' \in Seq(F) /\ DOMAIN flight' \subseteq Reports
          /\ flight' = flight \/ Len(flight') \in Reports
      BY <3>1, <3>2, FlushType
    <3>4. PICK w \in Reports \cup {0} : w = IF flight' = flight THEN 0 ELSE Len(flight')
      BY <3>3
    <3>5. pass' = [pass EXCEPT ![p] = [@ EXCEPT !.pc = "ending", !.waits = w]]
      BY <1>4, <2>2, <3>4 DEF Finalise
    <3>6. pass' \in [Passes -> Pass]
      BY <3>5, ZenonT(60) DEF TypeOK, Pass
    <3> QED
      BY <1>4, <3>3, <3>6 DEF Finalise, TypeOK
  <2> QED
    BY <2>1, <2>2
<1>5. ASSUME NEW p \in Passes, Close(p) PROVE TypeOK'
  <2>1. pass' \in [Passes -> Pass]
    BY <1>5 DEF Close, TypeOK, Pass
  <2> QED
    BY <1>5, <2>1 DEF Close, TypeOK, WalletTypeOK, wallet
<1>6. ASSUME NEW t \in Txs, Transact(t) PROVE TypeOK'
  <2>1. WalletTypeOK'
    BY <1>6, BroadcastType DEF Transact, TypeOK
  <2>2. rep' \in [Passes -> R]
    <3>1. CASE rep' = rep
      BY <3>1 DEF TypeOK
    <3>2. CASE t \in Reports /\ tx'[t].pc = "done"
      <4>1. Counted(t)
        BY <1>6 DEF Transact
      <4>2. rep' = [rep EXCEPT ![flight[t].pass].committed = @ + Len(flight[t].rows)]
        BY <3>2, <4>1 DEF Counted
      <4>3. flight[t].pass \in Passes /\ Len(flight[t].rows) \in Nat
        BY <1>6, <3>2, ReportType DEF Transact
      <4>4. CASE flight[t].pass \in Passes /\ Len(flight[t].rows) \in Nat
        <5> DEFINE B == Seq(Row)
        <5>1. rep \in [Passes -> [buffer : B, committed : Nat]]
          BY DEF TypeOK
        <5> HIDE DEF B
        <5>2. PICK c \in Passes, n \in Nat : rep' = [rep EXCEPT ![c].committed = @ + n]
          BY <4>2, <4>4
        <5>3. rep' \in [Passes -> [buffer : B, committed : Nat]]
          BY <5>1, <5>2
        <5> QED
          BY <5>3 DEF B
      <4> QED
        BY <4>3, <4>4
    <3> QED
      BY <1>6, <3>1, <3>2 DEF Transact, Counted
  <2> QED
    BY <1>6, <2>1, <2>2 DEF Transact, TypeOK
<1>7. CASE UNCHANGED vars
  BY <1>7 DEF vars, wallet, TypeOK, WalletTypeOK
<1> QED
  BY <1>1, <1>2, <1>3, <1>4, <1>5, <1>6, <1>7 DEF Next
LEMMA PassingStep ==
  ASSUME TypeOK, Passing, Beside = FALSE, [Next]_vars
  PROVE  Passing'
<1>1. ASSUME NEW p \in Passes, Start(p) PROVE Passing'
  <2>1. PICK on \in BOOLEAN :
          /\ PassMoves(p, "run", on, pass[p].rows, rpc', pass[p].waits)
          /\ reporter' = IF on THEN p ELSE NoPass
    BY <1>1, StartPass
  <2>2. /\ pass[p].pc = "off" /\ pass'[p].pc = "run" /\ pass'[p].on = on
        /\ \A q \in Passes : q # p => pass'[q] = pass[q]
    BY <1>1, <2>1 DEF Start, MayStart, PassMoves, TypeOK
  <2>3. \A q \in Passes : q < p => pass[q].pc = "done"
    BY <1>1 DEF Start, MayStart
  <2>4. \A q \in Passes : q # p => pass[q].pc \in {"off", "done"}
    <3> SUFFICES ASSUME NEW q \in Passes, q # p, pass[q].pc \notin {"off", "done"} PROVE FALSE
      OBVIOUS
    <3>1. p \in Int /\ q \in Int /\ ~(q < p) => p < q
      BY NumbersInt
    <3>2. p < q
      BY <2>3, <3>1, NumbersInt
    <3> QED
      BY <2>2, <3>2 DEF Passing
  <2>5. \A q, r \in Passes : r < q /\ pass'[q].pc # "off" => pass'[r].pc = "done"
    <3> SUFFICES ASSUME NEW q \in Passes, NEW r \in Passes, r < q, pass'[q].pc # "off"
                 PROVE  pass'[r].pc = "done"
      OBVIOUS
    <3>1. r # q
      BY NumbersInt
    <3>2. CASE q = p
      BY <2>2, <2>3, <3>1, <3>2
    <3>3. CASE q # p
      BY <2>2, <3>3 DEF Passing
    <3> QED
      BY <3>2, <3>3
  <2>6. p \in Nat \ {0}
    BY NumbersInt
  <2> QED
    BY <2>1, <2>2, <2>4, <2>5, <2>6 DEF Passing, NoPass
<1>2. ASSUME NEW p \in Passes, NEW t \in Payments, Pay(p, t) PROVE Passing'
  BY <1>2 DEF Pay, Passing
<1>3. ASSUME NEW p \in Passes, NEW r \in Outcomes, Record(p, r) PROVE Passing'
  <2>1. /\ reporter' = reporter
        /\ \A q \in Passes : pass'[q].pc = pass[q].pc /\ pass'[q].on = pass[q].on
    BY <1>3 DEF Record, TypeOK, Pass
  <2> QED
    BY <2>1 DEF Passing
<1>4. ASSUME NEW p \in Passes, Finalise(p) PROVE Passing'
  <2>1. /\ pass[p].pc = "run" /\ reporter' = reporter
        /\ pass'[p].pc = IF reporter = NoPass THEN "done" ELSE "ending"
        /\ pass'[p].on = pass[p].on
        /\ \A q \in Passes : q # p => pass'[q] = pass[q]
    <3>1. CASE reporter = NoPass
      BY <1>4, <3>1 DEF Finalise, TypeOK, Pass
    <3>2. CASE reporter # NoPass
      <4>1. PICK w : pass' = [pass EXCEPT ![p] = [@ EXCEPT !.pc = "ending", !.waits = w]]
        BY <1>4, <3>2 DEF Finalise
      <4> QED
        BY <1>4, <3>2, <4>1 DEF Finalise, TypeOK, Pass
    <3> QED
      BY <3>1, <3>2
  <2>2. reporter = IF pass[p].on THEN p ELSE NoPass
    BY <2>1 DEF Passing
  <2>3. \A q \in Passes : pass[q].pc \in {"off", "done"} => pass'[q] = pass[q]
    BY <2>1
  <2>4. \A q, r \in Passes : r < q /\ pass'[q].pc # "off" => pass'[r].pc = "done"
    <3> SUFFICES ASSUME NEW q \in Passes, NEW r \in Passes, r < q, pass'[q].pc # "off"
                 PROVE  pass'[r].pc = "done"
      OBVIOUS
    <3>1. pass[q].pc # "off"
      BY <2>1
    <3>2. pass[r].pc = "done"
      BY <3>1 DEF Passing
    <3> QED
      BY <2>3, <3>2
  <2>5. reporter' # NoPass => reporter' \in Passes /\ pass'[reporter'].pc \in {"run", "ending"} /\ pass'[reporter'].on
    BY <2>1, <2>2 DEF Passing
  <2>6. \A q \in Passes : pass'[q].pc \in {"run", "ending"} => reporter' = IF pass'[q].on THEN q ELSE NoPass
    BY <2>1, <2>2 DEF Passing
  <2>7. \A q \in Passes : pass'[q].pc = "ending" => pass'[q].on
    BY <2>1, <2>2 DEF Passing
  <2> QED
    BY <2>4, <2>5, <2>6, <2>7 DEF Passing
<1>5. ASSUME NEW p \in Passes, Close(p) PROVE Passing'
  <2>1. /\ pass[p].pc = "ending" /\ reporter' = NoPass /\ pass'[p].pc = "done"
        /\ \A q \in Passes : q # p => pass'[q] = pass[q]
    BY <1>5 DEF Close, TypeOK, Pass
  <2>2. \A q \in Passes : q # p => pass[q].pc \notin {"run", "ending"}
    BY <2>1, OnePass
  <2>3. \A q, r \in Passes : r < q /\ pass'[q].pc # "off" => pass'[r].pc = "done"
    <3> SUFFICES ASSUME NEW q \in Passes, NEW r \in Passes, r < q, pass'[q].pc # "off"
                 PROVE  pass'[r].pc = "done"
      OBVIOUS
    <3>1. pass[q].pc # "off"
      BY <2>1
    <3>2. pass[r].pc = "done"
      BY <3>1 DEF Passing
    <3> QED
      BY <2>1, <3>2
  <2> QED
    BY <2>1, <2>2, <2>3 DEF Passing
<1>6. ASSUME NEW t \in Txs, Transact(t) PROVE Passing'
  BY <1>6 DEF Transact, Passing
<1>7. CASE UNCHANGED vars
  BY <1>7 DEF vars, Passing
<1> QED
  BY <1>1, <1>2, <1>3, <1>4, <1>5, <1>6, <1>7 DEF Next

-----------------------------------------------------------------------------
(* The order of the reports.                                                 *)

\* What the steps do to the line, the ledger and the list of reports.
HandsOver ==
  \/ UNCHANGED <<line, ledger, flight>>
  \/ \E t \in Payments : line' = Append(line, t) /\ UNCHANGED <<ledger, flight>>
  \/ /\ line' = Append(line, Len(flight) + 1) /\ UNCHANGED ledger
     /\ \E entry : flight' = Append(flight, entry)

LEMMA PassHandsOver ==
  ASSUME TypeOK, Limit >= 108, NEW p \in Passes,
         \/ Start(p) \/ Finalise(p) \/ Close(p)
         \/ \E t \in Payments : Pay(p, t)
         \/ \E r \in Outcomes : Record(p, r)
  PROVE  HandsOver
<1>1. ASSUME NEW q \in Passes, NEW rows \in Seq(Row), NEW force \in BOOLEAN, Flush(q, rows, force)
      PROVE  HandsOver
  <2>1. CASE Keep(q, rows)
    BY <2>1 DEF Keep, wallet, HandsOver
  <2>2. CASE \E n \in 1..Len(rows) : Send(q, rows, n)
    BY <2>2 DEF Send, Request, HandsOver
  <2> QED
    BY <1>1, <2>1, <2>2, FlushEffect
<1>2. CASE Start(p)
  BY <1>2, StartPass DEF HandsOver
<1>3. CASE Finalise(p)
  <2>1. CASE reporter = NoPass
    BY <1>3, <2>1 DEF Finalise, wallet, HandsOver
  <2>2. CASE reporter # NoPass
    <3>1. reporter \in Passes /\ Flush(reporter, rep[reporter].buffer, TRUE)
      BY <1>3, <2>2 DEF Finalise, TypeOK
    <3>2. rep[reporter].buffer \in Seq(Row)
      BY <3>1 DEF TypeOK
    <3> QED
      BY <1>1, <3>1, <3>2
  <2> QED
    BY <2>1, <2>2
<1>4. CASE Close(p)
  BY <1>4 DEF Close, wallet, HandsOver
<1>5. CASE \E t \in Payments : Pay(p, t)
  BY <1>5 DEF Pay, Request, HandsOver
<1>6. CASE \E r \in Outcomes : Record(p, r)
  <2>1. PICK r \in Outcomes : Record(p, r)
    BY <1>6
  <2> DEFINE row == [pass |-> p, n |-> pass[p].rows + 1, result |-> r]
  <2>2. CASE UNCHANGED <<rep, flight, wallet>>
    BY <2>2 DEF wallet, HandsOver
  <2>3. CASE reporter # NoPass /\ Flush(reporter, Append(rep[reporter].buffer, row), FALSE)
    <3>1. reporter \in Passes /\ rep[reporter].buffer \in Seq(Row)
      BY <2>3 DEF TypeOK
    <3>2. row \in Row
      BY <2>1, ReporterAssumption DEF Record, TypeOK, Pass, Row
    <3>3. Append(rep[reporter].buffer, row) \in Seq(Row)
      BY <3>1, <3>2
    <3> HIDE DEF row
    <3> QED
      BY <1>1, <2>3, <3>1, <3>3
  <2> QED
    BY <2>1, <2>2, <2>3 DEF Record
<1> QED
  BY <1>2, <1>3, <1>4, <1>5, <1>6

LEMMA HandsOverQueue ==
  ASSUME TypeOK, Queue, HandsOver
  PROVE  Queue'
<1>1. CASE UNCHANGED <<line, ledger, flight>>
  BY <1>1 DEF Queue
<1>2. CASE \E t \in Payments : line' = Append(line, t) /\ UNCHANGED <<ledger, flight>>
  <2>1. PICK t \in Payments : line' = Append(line, t)
    BY <1>2
  <2>2. /\ Len(line) \in Nat /\ Len(line') = Len(line) + 1 /\ line'[Len(line) + 1] \notin Reports
        /\ \A j \in 1..Len(line) : line'[j] = line[j]
    BY <2>1, ReporterAssumption DEF TypeOK, WalletTypeOK
  <2>3. \A j \in 1..Len(line') : line'[j] \in Reports => j \in 1..Len(line) /\ line'[j] = line[j]
    BY <2>2
  <2> QED
    BY <1>2, <2>3 DEF Queue
<1>3. CASE /\ line' = Append(line, Len(flight) + 1) /\ UNCHANGED ledger
           /\ \E entry : flight' = Append(flight, entry)
  <2>1. /\ Len(line) \in Nat /\ Len(line') = Len(line) + 1 /\ line'[Len(line) + 1] = Len(flight) + 1
        /\ \A j \in 1..Len(line) : line'[j] = line[j]
    BY <1>3 DEF TypeOK, WalletTypeOK
  <2>2. Len(flight) \in Nat /\ Len(flight') = Len(flight) + 1
    BY <1>3 DEF TypeOK
  <2>3. \A j \in 1..Len(line') : (j \in 1..Len(line) /\ line'[j] = line[j])
                                  \/ (j = Len(line) + 1 /\ line'[j] = Len(flight) + 1)
    BY <2>1
  <2>4. \A t \in Reports : t <= Len(flight) => t <= Len(flight') /\ t < Len(flight) + 1
    BY <2>2, NumbersInt
  <2>5. \A j \in 1..Len(line') : line'[j] \in Reports => line'[j] <= Len(flight')
    BY <2>2, <2>3, <2>4 DEF Queue
  <2>6. \A i, j \in 1..Len(line') :
          i < j /\ line'[i] \in Reports /\ line'[j] \in Reports => line'[i] < line'[j]
    <3> SUFFICES ASSUME NEW i \in 1..Len(line'), NEW j \in 1..Len(line'), i < j,
                        line'[i] \in Reports, line'[j] \in Reports
                 PROVE  line'[i] < line'[j]
      OBVIOUS
    <3>1. i \in 1..Len(line) /\ line'[i] = line[i]
      BY <2>1
    <3>2. CASE j \in 1..Len(line) /\ line'[j] = line[j]
      BY <3>1, <3>2 DEF Queue
    <3>3. CASE line'[j] = Len(flight) + 1
      BY <2>4, <3>1, <3>3 DEF Queue
    <3> QED
      BY <2>3, <3>2, <3>3
  <2>7. \A i \in 1..Len(ledger), j \in 1..Len(line') :
          ledger[i].tx \in Reports /\ line'[j] \in Reports => ledger[i].tx < line'[j]
    BY <2>3, <2>4 DEF Queue
  <2> QED
    BY <1>3, <2>4, <2>5, <2>6, <2>7 DEF Queue
<1> QED
  BY <1>1, <1>2, <1>3 DEF HandsOver

\* A broadcast changes the ledger only with its verdict, when it leaves the line.
LEMMA BroadcastEffect ==
  ASSUME NEW t, Broadcast(t)
  PROVE  \/ ledger' = ledger /\ line' \in {line, Tail(line)}
         \/ /\ \E ok \in BOOLEAN : Enters(t, ok)
            /\ line' = Tail(line)
<1>1. CASE Sign(t)
  BY <1>1 DEF Sign
<1>2. CASE Land(t)
  BY <1>2 DEF Land, Settle
<1>3. CASE LandUnseen(t)
  BY <1>3 DEF LandUnseen, Errs, Retryable, Settle
<1>4. CASE Refuse(t)
  BY <1>4 DEF Refuse, Errs, Retryable, Settle
<1>5. CASE Mismatch(t)
  BY <1>5 DEF Mismatch, Errs, Again, Settle
<1>6. CASE QueryFails(t)
  BY <1>6 DEF QueryFails, Errs, Again, Settle
<1> QED
  BY <1>1, <1>2, <1>3, <1>4, <1>5, <1>6 DEF Broadcast

LEMMA BroadcastQueue ==
  ASSUME TypeOK, Queue, NEW t \in Txs, Broadcast(t), flight' = flight
  PROVE  Queue'
<1>1. line # <<>> /\ 1 \in 1..Len(line) /\ line[1] = t
  BY InTurnMeans
<1>2. line' = Tail(line) => /\ \A j \in 1..Len(line') : j + 1 \in 1..Len(line) /\ line'[j] = line[j + 1]
  BY <1>1 DEF TypeOK, WalletTypeOK
<1>3. PICK d \in {0, 1} : \A j \in 1..Len(line') : /\ j + d \in 1..Len(line) /\ j \in Int
                                                   /\ line'[j] = line[j + d]
                                                   /\ line' = Tail(line) => d = 1
  <2>1. CASE line' = Tail(line)
    BY <1>2, <2>1
  <2>2. CASE line' = line /\ line' # Tail(line)
    BY <2>2 DEF TypeOK, WalletTypeOK
  <2> QED
    BY <2>1, <2>2, BroadcastEffect
<1>4. \A i, j \in 1..Len(line') : i < j => i + d < j + d
  BY <1>3
<1>5. CASE ledger' = ledger
  BY <1>3, <1>4, <1>5 DEF Queue
<1>6. CASE (\E ok \in BOOLEAN : Enters(t, ok)) /\ line' = Tail(line)
  <2>1. /\ Len(ledger) \in Nat /\ Len(ledger') = Len(ledger) + 1 /\ ledger'[Len(ledger) + 1].tx = t
        /\ \A i \in 1..Len(ledger) : ledger'[i] = ledger[i]
    BY <1>6 DEF Enters, TypeOK, WalletTypeOK
  <2>2. \A i \in 1..Len(ledger') : (i \in 1..Len(ledger) /\ ledger'[i].tx = ledger[i].tx)
                                    \/ (i = Len(ledger) + 1 /\ ledger'[i].tx = line[1])
    BY <1>1, <2>1
  <2>3. \A j \in 1..Len(line') : j + 1 \in 1..Len(line) /\ line'[j] = line[j + 1] /\ 1 < j + 1
    BY <1>2, <1>6
  <2>4. \A j \in 1..Len(line') : line'[j] \in Reports => line'[j] <= Len(flight)
    BY <2>3 DEF Queue
  <2>5. \A i \in 1..Len(ledger') : ledger'[i].tx \in Reports => ledger'[i].tx <= Len(flight)
    BY <1>1, <2>2 DEF Queue
  <2>6. \A i, j \in 1..Len(line') :
          i < j /\ line'[i] \in Reports /\ line'[j] \in Reports => line'[i] < line'[j]
    <3>1. \A i, j \in 1..Len(line') : i < j => i + 1 < j + 1
      OBVIOUS
    <3> QED
      BY <2>3, <3>1 DEF Queue
  <2>7. \A i \in 1..Len(ledger'), j \in 1..Len(line') :
          ledger'[i].tx \in Reports /\ line'[j] \in Reports => ledger'[i].tx < line'[j]
    BY <1>1, <2>2, <2>3 DEF Queue
  <2>8. \A i, j \in 1..Len(ledger') :
          i < j /\ ledger'[i].tx \in Reports /\ ledger'[j].tx \in Reports => ledger'[i].tx < ledger'[j].tx
    <3> SUFFICES ASSUME NEW i \in 1..Len(ledger'), NEW j \in 1..Len(ledger'), i < j,
                        ledger'[i].tx \in Reports, ledger'[j].tx \in Reports
                 PROVE  ledger'[i].tx < ledger'[j].tx
      OBVIOUS
    <3>1. i \in 1..Len(ledger) /\ ledger'[i].tx = ledger[i].tx
      BY <2>1
    <3> QED
      BY <1>1, <2>2, <3>1 DEF Queue
  <2> QED
    BY <2>4, <2>5, <2>6, <2>7, <2>8 DEF Queue
<1> QED
  BY <1>5, <1>6, BroadcastEffect

LEMMA QueueStep ==
  ASSUME TypeOK, Queue, Limit >= 108, [Next]_vars
  PROVE  Queue'
<1>1. CASE \E p \in Passes : \/ Start(p) \/ Finalise(p) \/ Close(p)
                             \/ \E t \in Payments : Pay(p, t)
                             \/ \E r \in Outcomes : Record(p, r)
  BY <1>1, PassHandsOver, HandsOverQueue
<1>2. CASE \E t \in Txs : Transact(t)
  BY <1>2, BroadcastQueue DEF Transact
<1>3. CASE UNCHANGED vars
  BY <1>3 DEF vars, wallet, Queue
<1> QED
  BY <1>1, <1>2, <1>3 DEF Next
-----------------------------------------------------------------------------
(* No row is left behind.                                                    *)

Precedes(r, s) == r.pass = s.pass => r.n < s.n

\* A buffer holds the last row of a pass that reports, at most, and is empty else.
Buffered ==
  \A p \in Passes :
    /\ Len(rep[p].buffer) <= 1
    /\ \A i \in 1..Len(rep[p].buffer) : rep[p].buffer[i] \in tested /\ rep[p].buffer[i].pass = p

Emptied == \A p \in Passes : pass[p].pc # "run" \/ ~pass[p].on => rep[p].buffer = <<>>

\* The next row of a pass has a number of its own.
Numbered == \A r \in tested : r.n <= pass[r.pass].rows

Flown ==
  \A f \in 1..Len(flight) :
    /\ Len(flight[f].rows) \in 1..MaxRecords
    /\ \A i \in 1..Len(flight[f].rows) : flight[f].rows[i] \in tested

\* The reports hold the rows in the order of the tests, and all before the buffers'.
Ordered ==
  \A f, g \in 1..Len(flight) : \A i \in 1..Len(flight[f].rows), j \in 1..Len(flight[g].rows) :
    f < g \/ (f = g /\ i < j) => Precedes(flight[f].rows[i], flight[g].rows[j])

Ahead ==
  \A f \in 1..Len(flight), p \in Passes :
    \A i \in 1..Len(flight[f].rows), j \in 1..Len(rep[p].buffer) :
      Precedes(flight[f].rows[i], rep[p].buffer[j])

InFlight(r) == \E f \in 1..Len(flight) : \E i \in 1..Len(flight[f].rows) : flight[f].rows[i] = r
InBuffer(r) == \E p \in Passes : \E i \in 1..Len(rep[p].buffer) : rep[p].buffer[i] = r
Covered == \A r \in tested : InFlight(r) \/ InBuffer(r)

Rows == Buffered /\ Emptied /\ Numbered /\ Flown /\ Ordered /\ Ahead /\ Covered
\* What Flush is given: the buffer and the row just tested, or the buffer alone.
Offer(q, rows, force) ==
  /\ Len(rows) <= IF force THEN 1 ELSE 2
  /\ \A i \in 1..Len(rows) : rows[i] \in tested' /\ rows[i].pass = q
  /\ \A i, j \in 1..Len(rows) : i < j => Precedes(rows[i], rows[j])
  /\ \A f \in 1..Len(flight) : \A i \in 1..Len(flight[f].rows), j \in 1..Len(rows) :
       Precedes(flight[f].rows[i], rows[j])
  /\ tested \subseteq tested'
  /\ \A r \in tested' : r \in tested \/ \E i \in 1..Len(rows) : rows[i] = r
  /\ \A i \in 1..Len(rep[q].buffer) : \E j \in 1..Len(rows) : rows[j] = rep[q].buffer[i]

LEMMA KeepRows ==
  ASSUME TypeOK, Rows, NEW q \in Passes, NEW rows \in Seq(Row), NEW force \in BOOLEAN,
         Offer(q, rows, force), Keep(q, rows), rows = <<>> \/ (~force /\ Len(rows) < 2)
  PROVE  /\ Buffered' /\ Flown' /\ Ordered' /\ Ahead' /\ Covered'
         /\ \A p \in Passes : p # q => rep'[p].buffer = rep[p].buffer
         /\ force => rep'[q].buffer = <<>>
<1>1. /\ flight' = flight /\ rep'[q].buffer = rows
      /\ \A p \in Passes : p # q => rep'[p].buffer = rep[p].buffer
  BY DEF Keep, TypeOK
<1>2. Len(rows) <= 1 /\ tested \subseteq tested'
  <2>1. Len(rows) \in Nat
    OBVIOUS
  <2> QED
    BY <2>1 DEF Offer
<1>3. Buffered'
  <2> SUFFICES ASSUME NEW p \in Passes
               PROVE  /\ Len(rep'[p].buffer) <= 1
                      /\ \A i \in 1..Len(rep'[p].buffer) : rep'[p].buffer[i] \in tested' /\ rep'[p].buffer[i].pass = p
    BY DEF Buffered
  <2>1. CASE p = q
    BY <1>1, <1>2, <2>1 DEF Offer
  <2>2. CASE p # q
    BY <1>1, <1>2, <2>2 DEF Rows, Buffered
  <2> QED
    BY <2>1, <2>2
<1>4. Flown' /\ Ordered'
  BY <1>1, <1>2 DEF Rows, Flown, Ordered
<1>5. Ahead'
  <2> SUFFICES ASSUME NEW f \in 1..Len(flight), NEW p \in Passes,
                      NEW i \in 1..Len(flight[f].rows), NEW j \in 1..Len(rep'[p].buffer)
               PROVE  Precedes(flight[f].rows[i], rep'[p].buffer[j])
    BY <1>1 DEF Ahead
  <2>1. CASE p = q
    BY <1>1, <2>1 DEF Offer
  <2>2. CASE p # q
    BY <1>1, <2>2 DEF Rows, Ahead
  <2> QED
    BY <2>1, <2>2
<1>6. Covered'
  <2> SUFFICES ASSUME NEW r \in tested' PROVE InFlight(r)' \/ InBuffer(r)'
    BY DEF Covered
  <2>1. CASE \E i \in 1..Len(rows) : rows[i] = r
    BY <1>1, <2>1 DEF InBuffer
  <2>2. CASE r \in tested
    <3>1. CASE InFlight(r)
      BY <1>1, <3>1 DEF InFlight
    <3>2. CASE InBuffer(r)
      <4>0. PICK p \in Passes : \E i \in 1..Len(rep[p].buffer) : rep[p].buffer[i] = r
        BY <3>2 DEF InBuffer
      <4>1. PICK i \in 1..Len(rep[p].buffer) : rep[p].buffer[i] = r
        BY <4>0
      <4>2. CASE p = q
        BY <2>1, <4>1, <4>2 DEF Offer
      <4>3. CASE p # q
        BY <1>1, <4>1, <4>3 DEF InBuffer
      <4> QED
        BY <4>2, <4>3
    <3> QED
      BY <2>2, <3>1, <3>2 DEF Rows, Covered
  <2> QED
    BY <2>1, <2>2 DEF Offer
<1> QED
  BY <1>1, <1>3, <1>4, <1>5, <1>6

LEMMA SendRows ==
  ASSUME TypeOK, Rows, NEW q \in Passes, NEW rows \in Seq(Row), NEW force \in BOOLEAN,
         Offer(q, rows, force), NEW n \in 1..Len(rows), n <= MaxRecords, Send(q, rows, n)
  PROVE  /\ Buffered' /\ Flown' /\ Ordered' /\ Ahead' /\ Covered'
         /\ \A p \in Passes : p # q => rep'[p].buffer = rep[p].buffer
         /\ force => rep'[q].buffer = <<>>
<1> DEFINE last == Len(flight) + 1
           sent == flight'[last].rows
           left == rep'[q].buffer
<1>0. PICK ln \in Nat : ln = Len(rows) /\ n \in Nat
  OBVIOUS
<1>1. /\ left = SubSeq(rows, n + 1, Len(rows))
      /\ \A p \in Passes : p # q => rep'[p].buffer = rep[p].buffer
  BY DEF Send, TypeOK
<1>2. /\ Len(flight) \in Nat /\ Len(flight') = last /\ sent = SubSeq(rows, 1, n)
      /\ \A f \in 1..Len(flight) : flight'[f] = flight[f]
  BY DEF Send, TypeOK
<1>3. /\ Len(sent) = n /\ \A i \in 1..n : sent[i] = rows[i]
      /\ Len(left) = ln - n /\ \A i \in 1..(ln - n) : left[i] = rows[n + i]
      /\ left \in Seq(Row)
  BY <1>0, <1>1, <1>2, SendEffect
<1>4. \A f \in 1..Len(flight') : (f \in 1..Len(flight) /\ flight'[f] = flight[f] /\ f < last) \/ f = last
  BY <1>2
<1>5. /\ \A i \in 1..n : i \in 1..ln
      /\ \A i \in 1..(ln - n) : n + i \in 1..ln /\ \A j \in 1..n : j < n + i
      /\ \A i \in 1..ln : i \in 1..n \/ (i - n \in 1..(ln - n) /\ n + (i - n) = i)
  BY <1>0
<1>6. ln - n <= 1 /\ (force => ln - n = 0) /\ tested \subseteq tested'
  BY <1>0 DEF Offer
<1>7. Buffered'
  <2> SUFFICES ASSUME NEW p \in Passes
               PROVE  /\ Len(rep'[p].buffer) <= 1
                      /\ \A i \in 1..Len(rep'[p].buffer) : rep'[p].buffer[i] \in tested' /\ rep'[p].buffer[i].pass = p
    BY DEF Buffered
  <2>1. CASE p = q
    <3> HIDE DEF left
    <3>1. Len(left) <= 1 /\ \A i \in 1..Len(left) : left[i] \in tested' /\ left[i].pass = q
      BY <1>0, <1>3, <1>5, <1>6 DEF Offer
    <3> QED
      BY <2>1, <3>1 DEF left
  <2>2. CASE p # q
    BY <1>1, <1>6, <2>2 DEF Rows, Buffered
  <2> QED
    BY <2>1, <2>2
<1> HIDE DEF sent, left, last
<1>8. Flown'
  <2> SUFFICES ASSUME NEW f \in 1..Len(flight')
               PROVE  /\ Len(flight'[f].rows) \in 1..MaxRecords
                      /\ \A i \in 1..Len(flight'[f].rows) : flight'[f].rows[i] \in tested'
    BY DEF Flown
  <2>1. CASE f = last
    <3>1. n \in 1..MaxRecords
      BY <1>0 DEF MaxRecords
    <3>2. Len(sent) \in 1..MaxRecords /\ \A i \in 1..Len(sent) : sent[i] \in tested'
      BY <1>0, <1>3, <1>5, <3>1 DEF Offer
    <3> QED
      BY <2>1, <3>2 DEF sent
  <2>2. CASE f \in 1..Len(flight) /\ flight'[f] = flight[f]
    BY <1>6, <2>2 DEF Rows, Flown
  <2> QED
    BY <1>4, <2>1, <2>2
<1>9. \A f \in 1..Len(flight) : \A i \in 1..Len(flight[f].rows), j \in 1..ln :
        Precedes(flight[f].rows[i], rows[j])
  BY <1>0 DEF Offer
<1>10. Ordered'
  <2> SUFFICES ASSUME NEW f \in 1..Len(flight'), NEW g \in 1..Len(flight'),
                      NEW i \in 1..Len(flight'[f].rows), NEW j \in 1..Len(flight'[g].rows),
                      f < g \/ (f = g /\ i < j)
               PROVE  Precedes(flight'[f].rows[i], flight'[g].rows[j])
    BY DEF Ordered
  <2>1. CASE f \in 1..Len(flight) /\ g \in 1..Len(flight)
    BY <1>2, <2>1 DEF Rows, Ordered
  <2>2. CASE f \in 1..Len(flight) /\ g = last
    <3>1. j \in 1..ln /\ flight'[g].rows[j] = rows[j]
      BY <1>3, <1>5, <2>2 DEF sent
    <3>2. flight'[f].rows = flight[f].rows
      BY <1>2, <2>2
    <3> QED
      BY <1>9, <2>2, <3>1, <3>2
  <2>3. CASE f = last /\ g = last
    <3>1. /\ i \in 1..ln /\ flight'[f].rows[i] = rows[i]
          /\ j \in 1..ln /\ flight'[g].rows[j] = rows[j]
      BY <1>3, <1>5, <2>3 DEF sent
    <3>2. i < j
      BY <2>3
    <3> QED
      BY <1>0, <3>1, <3>2 DEF Offer
  <2>4. ~(f = last /\ g \in 1..Len(flight))
    BY <1>2 DEF last
  <2> QED
    BY <1>4, <2>1, <2>2, <2>3, <2>4
<1>11. Ahead'
  <2> SUFFICES ASSUME NEW f \in 1..Len(flight'), NEW p \in Passes,
                      NEW i \in 1..Len(flight'[f].rows), NEW j \in 1..Len(rep'[p].buffer)
               PROVE  Precedes(flight'[f].rows[i], rep'[p].buffer[j])
    BY DEF Ahead
  <2>1. CASE p = q
    <3>1. j \in 1..(ln - n) /\ rep'[p].buffer[j] = rows[n + j] /\ n + j \in 1..ln
      BY <1>3, <1>5, <2>1 DEF left
    <3>2. CASE f \in 1..Len(flight) /\ flight'[f] = flight[f]
      BY <1>9, <3>1, <3>2
    <3>3. CASE f = last
      <4>1. i \in 1..n /\ i \in 1..ln /\ flight'[f].rows[i] = rows[i] /\ i < n + j
        BY <1>3, <1>5, <3>1, <3>3 DEF sent
      <4> QED
        BY <1>0, <3>1, <4>1 DEF Offer
    <3> QED
      BY <1>4, <3>2, <3>3
  <2>2. CASE p # q
    <3>1. rep'[p].buffer = rep[p].buffer
      BY <1>1, <2>2
    <3>2. CASE f \in 1..Len(flight) /\ flight'[f] = flight[f]
      BY <3>1, <3>2 DEF Rows, Ahead
    <3>3. CASE f = last
      <4>1. i \in 1..ln /\ flight'[f].rows[i] = rows[i]
        BY <1>3, <1>5, <3>3 DEF sent
      <4>2. flight'[f].rows[i].pass = q /\ rep'[p].buffer[j].pass = p
        BY <1>0, <3>1, <4>1 DEF Offer, Rows, Buffered
      <4> QED
        BY <2>2, <4>2 DEF Precedes
    <3> QED
      BY <1>4, <3>2, <3>3
  <2> QED
    BY <2>1, <2>2
<1>12. Covered'
  <2> SUFFICES ASSUME NEW r \in tested' PROVE InFlight(r)' \/ InBuffer(r)'
    BY DEF Covered
  <2>1. ASSUME NEW i \in 1..ln, rows[i] = r PROVE InFlight(r)' \/ InBuffer(r)'
    <3>1. CASE i \in 1..n
      <4>1. sent[i] = r /\ i \in 1..Len(sent)
        BY <1>3, <2>1, <3>1
      <4>2. last \in 1..Len(flight')
        BY <1>2 DEF last
      <4> QED
        BY <4>1, <4>2 DEF InFlight, sent
    <3>2. CASE i - n \in 1..(ln - n) /\ n + (i - n) = i
      <4>1. left[i - n] = r /\ i - n \in 1..Len(left)
        BY <1>3, <2>1, <3>2
      <4> QED
        BY <4>1 DEF InBuffer, left
    <3> QED
      BY <1>5, <3>1, <3>2
  <2>2. CASE r \in tested
    <3>1. CASE InFlight(r)
      <4>0. PICK f \in 1..Len(flight) : \E i \in 1..Len(flight[f].rows) : flight[f].rows[i] = r
        BY <3>1 DEF InFlight
      <4>1. PICK i \in 1..Len(flight[f].rows) : flight[f].rows[i] = r
        BY <4>0
      <4>2. f \in 1..Len(flight') /\ flight'[f] = flight[f]
        BY <1>2 DEF last
      <4> QED
        BY <4>1, <4>2 DEF InFlight
    <3>2. CASE InBuffer(r)
      <4>0. PICK p \in Passes : \E i \in 1..Len(rep[p].buffer) : rep[p].buffer[i] = r
        BY <3>2 DEF InBuffer
      <4>1. PICK i \in 1..Len(rep[p].buffer) : rep[p].buffer[i] = r
        BY <4>0
      <4>2. CASE p = q
        BY <1>0, <2>1, <4>1, <4>2 DEF Offer
      <4>3. CASE p # q
        BY <1>1, <4>1, <4>3 DEF InBuffer
      <4> QED
        BY <4>2, <4>3
    <3> QED
      BY <2>2, <3>1, <3>2 DEF Rows, Covered
  <2> QED
    BY <1>0, <2>1, <2>2 DEF Offer
<1>13. force => rep'[q].buffer = <<>>
  <2>1. force => Len(left) = 0
    BY <1>3, <1>6
  <2>2. Len(left) = 0 => left = <<>>
    <3> DEFINE R == Row
    <3>1. left \in Seq(R)
      BY <1>3
    <3> HIDE DEF R
    <3> QED
      BY <3>1
  <2> QED
    BY <2>1, <2>2 DEF left
<1> QED
  BY <1>1, <1>7, <1>8, <1>10, <1>11, <1>12, <1>13
LEMMA FlushRows ==
  ASSUME TypeOK, Rows, Limit >= 108, NEW q \in Passes, NEW rows \in Seq(Row), NEW force \in BOOLEAN,
         Offer(q, rows, force), Flush(q, rows, force)
  PROVE  /\ Buffered' /\ Flown' /\ Ordered' /\ Ahead' /\ Covered'
         /\ \A p \in Passes : p # q => rep'[p].buffer = rep[p].buffer
         /\ force => rep'[q].buffer = <<>>
BY FlushEffect, KeepRows, SendRows, ZenonT(60)

\* Steps that move no row.
LEMMA StillRows ==
  ASSUME Rows, UNCHANGED <<flight, tested>>,
         \A p \in Passes : rep'[p].buffer = rep[p].buffer
  PROVE  Buffered' /\ Flown' /\ Ordered' /\ Ahead' /\ Covered'
<1>1. Buffered' /\ Flown' /\ Ordered' /\ Ahead'
  BY ZenonT(60) DEF Rows, Buffered, Flown, Ordered, Ahead
<1>2. Covered'
  BY DEF Rows, Covered, InFlight, InBuffer
<1> QED
  BY <1>1, <1>2

LEMMA RecordRows ==
  ASSUME TypeOK, Passing, Rows, Limit >= 108, NEW p \in Passes, NEW r \in Outcomes, Record(p, r)
  PROVE  Rows'
<1> DEFINE row == [pass |-> p, n |-> pass[p].rows + 1, result |-> r]
<1>1. /\ pass[p].pc = "run" /\ pass[p].rows \in Nat /\ pass[p].rows < MaxRows
      /\ \A q \in Passes : pass'[q].pc = pass[q].pc /\ pass'[q].on = pass[q].on
      /\ \A q \in Passes : pass'[q].rows = IF q = p THEN pass[p].rows + 1 ELSE pass[q].rows
  BY DEF Record, TypeOK, Pass
<1>2. row \in Row
  BY <1>1, ReporterAssumption DEF Row, TypeOK, Pass
<1>3. tested' = IF pass[p].on /\ Reportable(r) THEN tested \cup {row} ELSE tested
  BY DEF Record
<1>4. row.pass = p /\ row.n = pass[p].rows + 1
  OBVIOUS
<1>5. reporter = IF pass[p].on THEN p ELSE NoPass
  BY <1>1 DEF Passing
<1>6. p # NoPass
  BY NumbersInt DEF NoPass
<1>7. \A s \in tested : s.pass \in Passes /\ s.n \in Nat /\ s.n <= pass[s.pass].rows
  BY DEF TypeOK, Row, Rows, Numbered
<1>8. Numbered'
  <2> SUFFICES ASSUME NEW s \in tested' PROVE s.n <= pass'[s.pass].rows
    BY DEF Numbered
  <2> HIDE DEF row
  <2>1. CASE s \in tested
    BY <1>1, <1>7, <2>1
  <2>2. CASE s = row
    BY <1>1, <1>4, <2>2
  <2> QED
    BY <1>3, <2>1, <2>2
<1>9. CASE pass[p].on /\ Reportable(r)
  <2> DEFINE rows == Append(rep[p].buffer, row)
  <2>1. rep[p].buffer \in Seq(Row) /\ Len(rep[p].buffer) <= 1
    BY DEF TypeOK, Rows, Buffered
  <2> HIDE DEF row
  <2>2. PICK k \in Nat : /\ k = Len(rep[p].buffer) /\ Len(rows) = k + 1 /\ rows[k + 1] = row
                         /\ \A i \in 1..k : rows[i] = rep[p].buffer[i]
    BY <2>1
  <2>3. rows \in Seq(Row)
    BY <1>2, <2>1
  <2>4. \A i \in 1..(k + 1) : i \in 1..k \/ i = k + 1
    OBVIOUS
  <2>5. \A i \in 1..k : rows[i] \in tested /\ rows[i].pass = p
    BY <2>2 DEF Rows, Buffered
  <2>6. tested' = tested \cup {row}
    BY <1>3, <1>9
  <2>7. \A s \in tested : Precedes(s, row)
    BY <1>1, <1>4, <1>7 DEF Precedes
  <2> HIDE DEF rows
  <2>8. Offer(p, rows, FALSE)
    <3>1. Len(rows) <= 2
      BY <2>1, <2>2
    <3>2. \A i \in 1..Len(rows) : rows[i] \in tested' /\ rows[i].pass = p
      BY <1>4, <2>2, <2>4, <2>5, <2>6
    <3>3. \A i, j \in 1..Len(rows) : i < j => Precedes(rows[i], rows[j])
      <4> SUFFICES ASSUME NEW i \in 1..Len(rows), NEW j \in 1..Len(rows), i < j
                   PROVE  Precedes(rows[i], rows[j])
        OBVIOUS
      <4>1. i \in 1..k /\ j = k + 1
        BY <2>1, <2>2
      <4> QED
        BY <2>2, <2>5, <2>7, <4>1
    <3>4. \A f \in 1..Len(flight) : \A i \in 1..Len(flight[f].rows), j \in 1..Len(rows) :
            Precedes(flight[f].rows[i], rows[j])
      <4> SUFFICES ASSUME NEW f \in 1..Len(flight), NEW i \in 1..Len(flight[f].rows),
                          NEW j \in 1..Len(rows)
                   PROVE  Precedes(flight[f].rows[i], rows[j])
        OBVIOUS
      <4>1. CASE j \in 1..k
        BY <2>2, <4>1 DEF Rows, Ahead
      <4>2. CASE j = k + 1
        <5>1. flight[f].rows[i] \in tested
          BY DEF Rows, Flown
        <5> QED
          BY <2>2, <2>7, <4>2, <5>1
      <4> QED
        BY <2>2, <2>4, <4>1, <4>2
    <3>5. tested \subseteq tested' /\ \A s \in tested' : s \in tested \/ \E i \in 1..Len(rows) : rows[i] = s
      <4>1. k + 1 \in 1..Len(rows)
        BY <2>2
      <4> QED
        BY <2>2, <2>6, <4>1
    <3>6. \A i \in 1..Len(rep[p].buffer) : \E j \in 1..Len(rows) : rows[j] = rep[p].buffer[i]
      <4>1. \A i \in 1..k : i \in 1..(k + 1)
        OBVIOUS
      <4> QED
        BY <2>2, <4>1
    <3> QED
      BY <3>1, <3>2, <3>3, <3>4, <3>5, <3>6 DEF Offer
  <2>9. Flush(p, rows, FALSE)
    BY <1>5, <1>6, <1>9 DEF Record, rows, row
  <2>10. /\ Buffered' /\ Flown' /\ Ordered' /\ Ahead' /\ Covered'
         /\ \A q \in Passes : q # p => rep'[q].buffer = rep[q].buffer
    BY <2>3, <2>8, <2>9, FlushRows
  <2>11. Emptied'
    BY <1>1, <1>9, <2>10 DEF Rows, Emptied
  <2> QED
    BY <1>8, <2>10, <2>11 DEF Rows
<1>10. CASE ~(pass[p].on /\ Reportable(r))
  <2>1. tested' = tested /\ UNCHANGED <<rep, flight>>
    BY <1>3, <1>5, <1>10 DEF Record
  <2>2. Emptied'
    BY <1>1, <2>1 DEF Rows, Emptied
  <2> QED
    BY <1>8, <2>1, <2>2, StillRows DEF Rows
<1> QED
  BY <1>9, <1>10

LEMMA FinaliseRows ==
  ASSUME TypeOK, Passing, Rows, Limit >= 108, NEW p \in Passes, Finalise(p)
  PROVE  Rows'
<1>1. pass[p].pc = "run" /\ reporter = IF pass[p].on THEN p ELSE NoPass
  BY DEF Finalise, Passing
<1>2. p # NoPass /\ tested' = tested
  BY NumbersInt DEF NoPass, Finalise
<1>3. CASE ~pass[p].on
  <2>1. pass' = [pass EXCEPT ![p].pc = "done"] /\ UNCHANGED <<rep, flight>>
    BY <1>1, <1>3 DEF Finalise
  <2>2. \A q \in Passes : pass'[q].rows = pass[q].rows /\ pass'[q].on = pass[q].on
                          /\ (q # p => pass'[q].pc = pass[q].pc)
    BY <2>1 DEF TypeOK, Pass
  <2>3. Emptied'
    BY <1>3, <2>1, <2>2 DEF Rows, Emptied
  <2>4. Numbered'
    BY <1>2, <2>2 DEF Rows, Numbered, TypeOK, Row
  <2> QED
    BY <1>2, <2>1, <2>3, <2>4, StillRows DEF Rows
<1>4. CASE pass[p].on
  <2>1. reporter = p /\ Flush(p, rep[p].buffer, TRUE)
    BY <1>1, <1>2, <1>4 DEF Finalise
  <2>2. \A q \in Passes : pass'[q].rows = pass[q].rows /\ pass'[q].on = pass[q].on
                          /\ (q # p => pass'[q].pc = pass[q].pc)
    <3>1. PICK w : pass' = [pass EXCEPT ![p] = [@ EXCEPT !.pc = "ending", !.waits = w]]
      BY <1>2, <2>1 DEF Finalise
    <3> QED
      BY <3>1 DEF TypeOK, Pass
  <2>3. rep[p].buffer \in Seq(Row)
    BY DEF TypeOK
  <2>4. Offer(p, rep[p].buffer, TRUE)
    <3>1. \A i, j \in 1..Len(rep[p].buffer) : ~(i < j)
      BY <2>3 DEF Rows, Buffered
    <3> QED
      BY <1>2, <3>1 DEF Offer, Rows, Buffered, Ahead
  <2>5. /\ Buffered' /\ Flown' /\ Ordered' /\ Ahead' /\ Covered'
        /\ \A q \in Passes : q # p => rep'[q].buffer = rep[q].buffer
        /\ rep'[p].buffer = <<>>
    BY <2>1, <2>3, <2>4, FlushRows
  <2>6. Emptied'
    BY <2>2, <2>5 DEF Rows, Emptied
  <2>7. Numbered'
    BY <1>2, <2>2 DEF Rows, Numbered, TypeOK, Row
  <2> QED
    BY <2>5, <2>6, <2>7 DEF Rows
<1> QED
  BY <1>3, <1>4, ReporterAssumption DEF TypeOK, Pass

LEMMA RowsInit == Init => Rows
<1> SUFFICES ASSUME Init PROVE Rows
  OBVIOUS
<1>1. tested = {} /\ flight = <<>> /\ \A p \in Passes : rep[p].buffer = <<>>
  BY DEF Init
<1> QED
  BY <1>1 DEF Rows, Buffered, Emptied, Numbered, Flown, Ordered, Ahead, Covered

LEMMA RowsStep ==
  ASSUME TypeOK, Passing, Queue, Rows, Limit >= 108, [Next]_vars
  PROVE  Rows'
<1>1. ASSUME NEW p \in Passes, Start(p) PROVE Rows'
  <2>1. UNCHANGED <<rep, flight, tested>> /\ pass[p].pc = "off"
    BY <1>1 DEF Start, MayStart
  <2>2. PICK on \in BOOLEAN : PassMoves(p, "run", on, pass[p].rows, rpc', pass[p].waits)
    BY <1>1, StartPass
  <2>3. \A q \in Passes : pass'[q].rows = pass[q].rows /\ (q # p => pass'[q] = pass[q])
    BY <2>2 DEF PassMoves, TypeOK
  <2>4. rep[p].buffer = <<>>
    BY <2>1 DEF Rows, Emptied
  <2>5. Emptied'
    BY <2>1, <2>3, <2>4 DEF Rows, Emptied
  <2>6. Numbered'
    BY <2>1, <2>3 DEF Rows, Numbered, TypeOK, Row
  <2> QED
    BY <2>1, <2>5, <2>6, StillRows DEF Rows
<1>2. ASSUME NEW p \in Passes, NEW t \in Payments, Pay(p, t) PROVE Rows'
  BY <1>2, StillRows DEF Pay, Rows, Emptied, Numbered
<1>3. ASSUME NEW p \in Passes, Close(p) PROVE Rows'
  <2>1. UNCHANGED <<rep, flight, tested>> /\ pass[p].pc = "ending"
    BY <1>3 DEF Close
  <2>2. \A q \in Passes : /\ pass'[q].rows = pass[q].rows /\ pass'[q].on = pass[q].on
                          /\ q # p => pass'[q].pc = pass[q].pc
    BY <1>3 DEF Close, TypeOK, Pass
  <2>3. Emptied'
    BY <2>1, <2>2 DEF Rows, Emptied
  <2>4. Numbered'
    BY <2>1, <2>2 DEF Rows, Numbered, TypeOK, Row
  <2> QED
    BY <2>1, <2>3, <2>4, StillRows DEF Rows
<1>4. ASSUME NEW t \in Txs, Transact(t) PROVE Rows'
  <2>1. UNCHANGED <<flight, pass, tested>>
    BY <1>4 DEF Transact
  <2>2. \A p \in Passes : rep'[p].buffer = rep[p].buffer
    <3>1. CASE rep' = rep
      BY <3>1
    <3>2. CASE rep' # rep
      <4>1. rep' = [rep EXCEPT ![flight[t].pass].committed = @ + Len(flight[t].rows)]
        BY <1>4, <3>2 DEF Transact, Counted
      <4>2. PICK c, n : rep' = [rep EXCEPT ![c].committed = n]
        BY <4>1
      <4> QED
        BY <4>2 DEF TypeOK
    <3> QED
      BY <3>1, <3>2
  <2> QED
    BY <2>1, <2>2, StillRows DEF Rows, Emptied, Numbered
<1>5. CASE UNCHANGED vars
  BY <1>5, StillRows DEF vars, Rows, Emptied, Numbered
<1> QED
  BY <1>1, <1>2, <1>3, <1>4, <1>5, RecordRows, FinaliseRows DEF Next

\* The inductive invariant of the passes and their reports.
Reporting == TypeOK /\ Passing /\ Queue /\ Rows

LEMMA ReportingInit == Init => Reporting
<1> SUFFICES ASSUME Init PROVE Reporting
  OBVIOUS
<1>1. Queue
  BY DEF Init, WalletInit, Queue
<1> QED
  BY <1>1, PassInit, RowsInit DEF Reporting

LEMMA ReportingStep ==
  ASSUME Reporting, Beside = FALSE, Limit >= 108, [Next]_vars
  PROVE  Reporting'
<1>1. TypeOK' /\ Queue'
  BY TypeStep, QueueStep DEF Reporting
<1>2. Passing'
  BY PassingStep DEF Reporting
<1>3. Rows'
  BY RowsStep DEF Reporting
<1> QED
  BY <1>1, <1>2, <1>3 DEF Reporting

LEMMA ReportingHolds ==
  ASSUME Beside = FALSE, Limit >= 108
  PROVE  Spec => []Reporting
BY ReportingInit, ReportingStep, PTL DEF Spec

\* What the invariant says of a pass that has ended.
LEMMA SentOnce ==
  ASSUME Reporting
  PROVE  NoRowLeftBehind
<1> SUFFICES ASSUME NEW row \in tested, pass[row.pass].pc = "done"
             PROVE  \E s \in Sent(row) : Sent(row) = {s}
  BY DEF NoRowLeftBehind, Reporting
<1>1. row \in Row /\ row.pass \in Passes /\ row.n \in Nat
  BY DEF Reporting, TypeOK, Row
<1>2. ~InBuffer(row)
  <2> SUFFICES ASSUME NEW p \in Passes, NEW i \in 1..Len(rep[p].buffer), rep[p].buffer[i] = row
               PROVE  FALSE
    BY DEF InBuffer
  <2>1. p = row.pass
    BY DEF Reporting, Rows, Buffered
  <2> QED
    BY <2>1 DEF Reporting, Rows, Emptied
<1>3. PICK f \in 1..Len(flight) : \E i \in 1..Len(flight[f].rows) : flight[f].rows[i] = row
  BY <1>2 DEF Reporting, Rows, Covered, InFlight
<1>4. PICK i \in 1..Len(flight[f].rows) : flight[f].rows[i] = row
  BY <1>3
<1>5. DOMAIN flight = 1..Len(flight)
  <2> DEFINE F == [pass : Passes, rows : Seq(Row), memo : Seq(MemoLine)]
  <2>1. flight \in Seq(F)
    BY DEF Reporting, TypeOK
  <2> HIDE DEF F
  <2> QED
    BY <2>1
<1>6. /\ i \in 1..MaxRecords /\ i <= Len(flight[f].rows)
      /\ \A g \in 1..Len(flight) : Len(flight[g].rows) \in Nat
  <2>1. \A g \in 1..Len(flight) : Len(flight[g].rows) \in 1..6
    BY DEF Reporting, Rows, Flown, MaxRecords
  <2>2. Len(flight[f].rows) \in 1..6
    BY <2>1
  <2>3. PICK m \in 1..6 : m = Len(flight[f].rows)
    BY <2>2
  <2>4. i \in 1..6 /\ i <= m
    BY <1>4, <2>3, SMTT(30)
  <2>5. \A g \in 1..Len(flight) : Len(flight[g].rows) \in Nat
    <3>1. 1..6 \subseteq Nat
      OBVIOUS
    <3> QED
      BY <2>1, <3>1
  <2> QED
    BY <2>3, <2>4, <2>5 DEF MaxRecords
<1>7. <<f, i>> \in Sent(row)
  BY <1>4, <1>5, <1>6 DEF Sent
<1>8. ASSUME NEW s \in Sent(row) PROVE s = <<f, i>>
  <2>1. PICK g \in DOMAIN flight, j \in 1..MaxRecords :
          s = <<g, j>> /\ j <= Len(flight[g].rows) /\ flight[g].rows[j] = row
    BY DEF Sent
  <2>2. g \in 1..Len(flight) /\ j \in 1..Len(flight[g].rows)
    BY <1>5, <1>6, <2>1
  <2>3. ~(f < g) /\ ~(g < f) /\ (f = g => ~(i < j) /\ ~(j < i))
    <3>1. ~Precedes(row, row)
      BY <1>1 DEF Precedes
    <3>2. /\ f < g \/ (f = g /\ i < j) => Precedes(row, row)
          /\ g < f \/ (g = f /\ j < i) => Precedes(row, row)
      BY <1>4, <2>1, <2>2 DEF Reporting, Rows, Ordered
    <3> QED
      BY <3>1, <3>2
  <2>4. f \in Int /\ g \in Int /\ i \in Int /\ j \in Int
    BY <1>6, <2>2
  <2> QED
    BY <2>1, <2>3, <2>4
<1> QED
  BY <1>7, <1>8

\* A pass that has ended left no row behind (_flushOnchainBatch splices what it sends
\* before it waits, _finalizeOnchainReporter forces the last report): every row went
\* to the wallet in exactly one report.  For passes that do not overlap, and a cap
\* that any one row fits under: the code's is 256.
THEOREM RowsAreReported ==
  ASSUME Beside = FALSE, Limit >= 108
  PROVE  Spec => []NoRowLeftBehind
BY ReportingHolds, SentOnce, PTL
-----------------------------------------------------------------------------
(* The reports implement ReportLog.                                          *)

\* The rows on the chain after each entry of the ledger.
PostedAs(f) ==
  /\ f \in [0..Len(ledger) -> Seq(Row)]
  /\ f[0] = <<>>
  /\ \A i \in 1..Len(ledger) : f[i] = f[i - 1] \o Shown(ledger[i])

HasPosted == \E f : PostedAs(f) /\ PostedRows = f[Len(ledger)]

LEMMA ShownType ==
  ASSUME Reporting, NEW i \in 1..Len(ledger)
  PROVE  /\ Shown(ledger[i]) \in Seq(Row)
         /\ ledger[i].tx \in Reports => ledger[i].tx \in 1..Len(flight)
<1> DEFINE F == [pass : Passes, rows : Seq(Row), memo : Seq(MemoLine)]
<1>1. ASSUME ledger[i].tx \in Reports
      PROVE  ledger[i].tx \in 1..Len(flight) /\ flight[ledger[i].tx].rows \in Seq(Row)
  <2>1. ledger[i].tx <= Len(flight)
    BY <1>1 DEF Reporting, Queue
  <2>2. ledger[i].tx \in 1..Len(flight)
    <3>1. PICK t \in Nat \ {0} : t = ledger[i].tx
      BY <1>1, NumbersInt
    <3>2. Len(flight) \in Nat
      BY DEF Reporting, TypeOK
    <3> QED
      BY <2>1, <3>1, <3>2
  <2>3. flight \in Seq(F)
    BY DEF Reporting, TypeOK
  <2>4. flight[ledger[i].tx] \in F
    <3> HIDE DEF F
    <3> QED
      BY <2>2, <2>3
  <2> QED
    BY <2>2, <2>4
<1> QED
  BY <1>1 DEF Shown

LEMMA PostedIs == Reporting => HasPosted
<1> SUFFICES ASSUME Reporting PROVE HasPosted
  OBVIOUS
<1> DEFINE R == Seq(Row)
           n == Len(ledger)
           step == [i \in 1..n |-> [x \in R |-> x \o Shown(ledger[i])]]
           eq(f) == f = [i \in 0..n |-> IF i = 0 THEN <<>> ELSE f[i - 1] \o Shown(ledger[i])]
<1>1. n \in Nat /\ <<>> \in R
  BY DEF Reporting, TypeOK, WalletTypeOK
<1>2. \A i \in 1..n : \A x \in R : x \o Shown(ledger[i]) \in R
  <2> SUFFICES ASSUME NEW i \in 1..n, NEW x \in R PROVE x \o Shown(ledger[i]) \in R
    OBVIOUS
  <2>1. Shown(ledger[i]) \in R
    BY ShownType
  <2> QED
    BY <2>1
<1> HIDE DEF R, n
<1>3. step \in [1..n -> [R -> R]]
  <2>1. \A i \in 1..n : [x \in R |-> x \o Shown(ledger[i])] \in [R -> R]
    BY <1>2
  <2> QED
    BY <2>1, Zenon
<1>4. \A i \in 1..n, x \in R : step[i][x] = x \o Shown(ledger[i])
  OBVIOUS
<1> HIDE DEF step
<1>5. PICK f \in [0..n -> R] : Solves(f, n, <<>>, step)
  BY <1>1, <1>3, RecursionExists, Zenon
<1>6. f[0] = <<>> /\ \A i \in 1..n : f[i] = f[i - 1] \o Shown(ledger[i])
  <2>1. \A i \in 1..n : f[i - 1] \in R
    BY <1>1
  <2> QED
    BY <1>4, <1>5, <2>1 DEF Solves
<1>7. eq(f)
  <2>1. \A i \in 0..n : i = 0 \/ i \in 1..n
    BY <1>1
  <2>2. \A i \in 0..n : f[i] = IF i = 0 THEN <<>> ELSE f[i - 1] \o Shown(ledger[i])
    BY <1>6, <2>1
  <2> QED
    BY <2>2
<1>8. PICK g : eq(g) /\ PostedRows = g[n]
  <2> DEFINE g == CHOOSE h : eq(h)
  <2>1. PostedRows = g[n]
    BY DEF PostedRows, n
  <2>2. eq(g)
    BY <1>7
  <2> HIDE DEF g
  <2> QED
    BY <2>1, <2>2
<1>9. g[0] = <<>> /\ \A i \in 1..n : g[i] = g[i - 1] \o Shown(ledger[i])
  <2>1. 0 \in 0..n /\ \A i \in 1..n : i \in 0..n /\ i # 0
    BY <1>1
  <2> QED
    BY <1>8, <2>1
<1>10. \A i \in 0..n : g[i] = f[i]
  <2> DEFINE P == {i \in 0..n : g[i] = f[i]}
  <2>1. 0 \in P
    BY <1>1, <1>6, <1>9
  <2>2. ASSUME NEW i \in 1..n, i - 1 \in P PROVE i \in P
    <3>1. g[i - 1] = f[i - 1] /\ i \in 0..n
      BY <1>1, <2>2
    <3>2. f[i] = f[i - 1] \o Shown(ledger[i]) /\ g[i] = g[i - 1] \o Shown(ledger[i])
      BY <1>6, <1>9
    <3> QED
      BY <3>1, <3>2
  <2>3. P \subseteq 0..n
    OBVIOUS
  <2> HIDE DEF P
  <2>4. 0..n \subseteq P
    BY <1>1, <2>1, <2>2, Reaches
  <2> QED
    BY <2>4 DEF P
<1>11. PostedAs(f)
  BY <1>6 DEF PostedAs, n, R
<1>12. PostedRows = f[n]
  BY <1>1, <1>8, <1>10
<1> QED
  BY <1>11, <1>12 DEF HasPosted, n

LEMMA PostedIsNext == Reporting' => HasPosted'
BY PostedIs, PTL

\* What has been posted stays posted.
LEMMA PostedPrefix ==
  ASSUME Reporting, NEW f, PostedAs(f), NEW g, PostedAs(g)', Len(ledger) <= Len(ledger'), Len(ledger') \in Nat,
         \A i \in 1..Len(ledger) : Shown(ledger[i])' = Shown(ledger[i])
  PROVE  \A i \in 0..Len(ledger) : g[i] = f[i]
<1>1. PICK n \in Nat, m \in Nat : n = Len(ledger) /\ m = Len(ledger') /\ n <= m
  BY DEF Reporting, TypeOK, WalletTypeOK
<1>2. f[0] = <<>> /\ \A i \in 1..n : f[i] = f[i - 1] \o Shown(ledger[i])
  BY <1>1 DEF PostedAs
<1>3. g[0] = <<>> /\ \A i \in 1..n : g[i] = g[i - 1] \o Shown(ledger[i])
  <2>1. \A i \in 1..n : i \in 1..m
    BY <1>1
  <2> QED
    BY <1>1, <2>1 DEF PostedAs
<1> DEFINE P == {i \in 0..n : g[i] = f[i]}
<1>4. 0 \in P
  BY <1>2, <1>3
<1>5. ASSUME NEW i \in 1..n, i - 1 \in P PROVE i \in P
  <2>1. g[i - 1] = f[i - 1] /\ i \in 0..n
    BY <1>1, <1>5
  <2>2. f[i] = f[i - 1] \o Shown(ledger[i]) /\ g[i] = g[i - 1] \o Shown(ledger[i])
    BY <1>2, <1>3
  <2> QED
    BY <2>1, <2>2
<1>6. P \subseteq 0..n
  OBVIOUS
<1> HIDE DEF P
<1>7. 0..n \subseteq P
  BY <1>4, <1>5, Reaches
<1> QED
  BY <1>1, <1>7 DEF P

\* A row on the chain comes from a report in the ledger.
LEMMA PostedFrom ==
  ASSUME Reporting, NEW f, PostedAs(f)
  PROVE  \A k \in 1..Len(f[Len(ledger)]) : \E a \in 1..Len(ledger) :
           /\ ledger[a].tx \in Reports
           /\ \E j \in 1..Len(flight[ledger[a].tx].rows) :
                f[Len(ledger)][k] = flight[ledger[a].tx].rows[j]
<1> DEFINE From(row) == \E a \in 1..Len(ledger) :
                          /\ ledger[a].tx \in Reports
                          /\ \E j \in 1..Len(flight[ledger[a].tx].rows) :
                               row = flight[ledger[a].tx].rows[j]
           P == {i \in 0..Len(ledger) : \A k \in 1..Len(f[i]) : From(f[i][k])}
<1>1. Len(ledger) \in Nat
  BY DEF Reporting, TypeOK, WalletTypeOK
<1>2. 0 \in P
  <2>1. f[0] = <<>>
    BY DEF PostedAs
  <2> QED
    BY <1>1, <2>1
<1> HIDE DEF From
<1>3. ASSUME NEW i \in 1..Len(ledger), i - 1 \in P PROVE i \in P
  <2>1. \A k \in 1..Len(f[i - 1]) : From(f[i - 1][k])
    BY <1>3
  <2> SUFFICES ASSUME NEW k \in 1..Len(f[i]) PROVE From(f[i][k])
    OBVIOUS
  <2>2. f[i] = f[i - 1] \o Shown(ledger[i]) /\ f[i - 1] \in Seq(Row) /\ Shown(ledger[i]) \in Seq(Row)
    <3>1. i - 1 \in 0..Len(ledger)
      BY <1>1
    <3> QED
      BY <3>1, ShownType DEF PostedAs
  <2>3. PICK x \in Seq(Row), y \in Seq(Row) : x = f[i - 1] /\ y = Shown(ledger[i]) /\ f[i] = x \o y
    BY <2>2
  <2>4. \/ k \in 1..Len(x) /\ f[i][k] = x[k]
        \/ k - Len(x) \in 1..Len(y) /\ f[i][k] = y[k - Len(x)]
    <3> DEFINE R == Row
    <3>1. x \in Seq(R) /\ y \in Seq(R)
      OBVIOUS
    <3> HIDE DEF R
    <3>2. k \in 1..Len(x \o y) /\ f[i][k] = (x \o y)[k]
      BY <2>3
    <3>3. Len(x) \in Nat /\ Len(y) \in Nat /\ Len(x \o y) = Len(x) + Len(y)
      BY <3>1
    <3>4. (x \o y)[k] = IF k <= Len(x) THEN x[k] ELSE y[k - Len(x)]
      BY <3>1, <3>2, <3>3
    <3> QED
      BY <3>2, <3>3, <3>4
  <2>5. CASE k \in 1..Len(x) /\ f[i][k] = x[k]
    BY <2>1, <2>3, <2>5
  <2>6. CASE k - Len(x) \in 1..Len(y) /\ f[i][k] = y[k - Len(x)]
    <3>1. y # <<>>
      BY <2>6
    <3>2. ledger[i].tx \in Reports /\ y = flight[ledger[i].tx].rows
      BY <2>3, <3>1 DEF Shown
    <3> QED
      BY <2>6, <3>2 DEF From
  <2> QED
    BY <2>4, <2>5, <2>6
<1>4. P \subseteq 0..Len(ledger)
  OBVIOUS
<1>5. Len(ledger) \in P
  <2> HIDE DEF P
  <2>1. 0..Len(ledger) \subseteq P
    BY <1>1, <1>2, <1>3, Reaches
  <2> QED
    BY <1>1, <2>1
<1> QED
  BY <1>5 DEF From
\* Steps that leave the ledger alone post nothing; they may hand a report over.
LEMMA PostedSame ==
  ASSUME Reporting, Reporting', ledger' = ledger,
         \A t \in 1..Len(flight) : flight'[t] = flight[t]
  PROVE  PostedRows' = PostedRows
<1>1. PICK f : PostedAs(f) /\ PostedRows = f[Len(ledger)]
  BY PostedIs DEF HasPosted
<1>2. PICK g : PostedAs(g)' /\ PostedRows' = g[Len(ledger')]
  BY PostedIsNext DEF HasPosted
<1>3. Len(ledger) \in Nat
  BY DEF Reporting, TypeOK, WalletTypeOK
<1>4. \A i \in 1..Len(ledger) : Shown(ledger[i])' = Shown(ledger[i])
  BY ShownType DEF Shown
<1>5. \A i \in 0..Len(ledger) : g[i] = f[i]
  BY <1>1, <1>2, <1>3, <1>4, PostedPrefix
<1> QED
  BY <1>1, <1>2, <1>3, <1>5

\* An entry of the ledger adds the rows it shows.
LEMMA PostedMore ==
  ASSUME Reporting, Reporting', NEW e, ledger' = Append(ledger, e), flight' = flight
  PROVE  /\ PostedRows \in Seq(Row) /\ Shown(e) \in Seq(Row)
         /\ PostedRows' = PostedRows \o Shown(e)
<1>1. PICK f : PostedAs(f) /\ PostedRows = f[Len(ledger)]
  BY PostedIs DEF HasPosted
<1>2. PICK g : PostedAs(g)' /\ PostedRows' = g[Len(ledger')]
  BY PostedIsNext DEF HasPosted
<1>3. PICK n \in Nat : /\ n = Len(ledger) /\ Len(ledger') = n + 1 /\ ledger'[n + 1] = e
                       /\ \A i \in 1..n : ledger'[i] = ledger[i]
  <2> DEFINE S == [tx : Txs, ok : BOOLEAN]
  <2>1. ledger \in Seq(S)
    BY DEF Reporting, TypeOK, WalletTypeOK
  <2> HIDE DEF S
  <2> QED
    BY <2>1
<1>4. \A i \in 1..Len(ledger) : Shown(ledger[i])' = Shown(ledger[i])
  BY <1>3 DEF Shown
<1>5. \A i \in 0..n : g[i] = f[i]
  <2>1. Len(ledger) <= Len(ledger') /\ Len(ledger') \in Nat
    BY <1>3
  <2> QED
    BY <1>1, <1>2, <1>3, <1>4, <2>1, PostedPrefix
<1>6. g[n + 1] = g[n] \o Shown(e)
  <2>1. n + 1 \in 1..Len(ledger') /\ (n + 1) - 1 = n
    BY <1>3
  <2>2. g[n + 1] = g[n] \o Shown(ledger[n + 1])'
    BY <1>2, <2>1 DEF PostedAs
  <2> QED
    BY <1>3, <2>2 DEF Shown
<1>7. f[n] \in Seq(Row)
  BY <1>1, <1>3 DEF PostedAs
<1>8. Shown(e) \in Seq(Row)
  <2>1. n + 1 \in 1..Len(ledger') /\ ledger'[n + 1] \in [tx : Txs, ok : BOOLEAN]
    <3> DEFINE S == [tx : Txs, ok : BOOLEAN]
    <3>1. ledger' \in Seq(S)
      BY DEF Reporting, TypeOK, WalletTypeOK
    <3> HIDE DEF S
    <3>2. n + 1 \in 1..Len(ledger')
      BY <1>3
    <3>3. ledger'[n + 1] \in S
      BY <3>1, <3>2
    <3> QED
      BY <3>2, <3>3 DEF S
  <2>2. CASE e.tx \in Reports
    <3> DEFINE F == [pass : Passes, rows : Seq(Row), memo : Seq(MemoLine)]
    <3>1. PICK t \in Nat \ {0} : t = e.tx /\ t <= Len(flight)
      BY <1>3, <2>1, <2>2, NumbersInt DEF Reporting, Queue
    <3>2. flight \in Seq(F)
      BY DEF Reporting, TypeOK
    <3>3. flight[t] \in F
      <4> HIDE DEF F
      <4> QED
        BY <3>1, <3>2
    <3> QED
      BY <3>1, <3>3 DEF Shown
  <2>3. CASE e.tx \notin Reports
    BY <2>3 DEF Shown
  <2> QED
    BY <2>2, <2>3
<1> QED
  <2>1. g[n] = f[n] /\ PostedRows = f[n] /\ PostedRows' = g[n + 1]
    <3>1. n \in 0..n
      OBVIOUS
    <3> QED
      BY <1>1, <1>2, <1>3, <1>5, <3>1
  <2> QED
    BY <1>6, <1>7, <1>8, <2>1

\* A broadcast that lands a report posts its rows.
LEMMA PostStep ==
  ASSUME Reporting, Reporting', NEW t \in Txs, Transact(t)
  PROVE  [Log!Next]_<<tested, PostedRows>>
<1>1. Broadcast(t) /\ flight' = flight /\ tested' = tested
  BY DEF Transact
<1>2. CASE ledger' = ledger
  BY <1>1, <1>2, PostedSame
<1>3. CASE \E ok \in BOOLEAN : Enters(t, ok)
  <2>1. PICK e : e.tx = t /\ ledger' = Append(ledger, e)
    <3>1. PICK ok \in BOOLEAN : ledger' = Append(ledger, [tx |-> t, ok |-> ok])
      BY <1>3 DEF Enters
    <3> QED
      BY <3>1
  <2>2. PICK x \in Seq(Row), y \in Seq(Row) : x = PostedRows /\ y = Shown(e) /\ PostedRows' = x \o y
    BY <1>1, <2>1, PostedMore
  <2>3. CASE y = <<>>
    <3>1. x \o y = x
      <4> DEFINE R == Row
      <4>1. x \in Seq(R)
        OBVIOUS
      <4> HIDE DEF R
      <4> QED
        BY <2>3, <4>1
    <3> QED
      BY <1>1, <2>2, <3>1
  <2>4. CASE y # <<>>
    <3>1. t \in Reports /\ y = flight[t].rows
      BY <2>1, <2>2, <2>4 DEF Shown
    <3>2. t \in 1..Len(flight)
      BY <1>1, <3>1, ReportType DEF Reporting
    <3>3. PICK m \in Nat, k \in Nat \ {0} : /\ m = Len(x) /\ k = Len(y) /\ Len(x \o y) = m + k
                                            /\ SubSeq(x \o y, 1, m) = x
                                            /\ \A i \in 1..m : (x \o y)[i] = x[i]
                                            /\ \A i \in (m + 1)..(m + k) : i - m \in 1..k /\ (x \o y)[i] = y[i - m]
      <4> DEFINE R == Row
      <4>1. x \in Seq(R) /\ y \in Seq(R)
        OBVIOUS
      <4> HIDE DEF R
      <4>2. PICK m \in Nat, k \in Nat \ {0} : m = Len(x) /\ k = Len(y) /\ Len(x \o y) = m + k
        BY <2>4, <4>1
      <4>3. /\ \A i \in 1..m : (x \o y)[i] = x[i]
            /\ \A i \in (m + 1)..(m + k) : i - m \in 1..k /\ (x \o y)[i] = y[i - m]
        BY <4>1, <4>2
      <4>4. SubSeq(x \o y, 1, m) = x
        <5>1. x \o y \in Seq(R)
          BY <4>1
        <5>2. SubSeq(x \o y, 1, m) = [i \in 1..m |-> (x \o y)[i]]
          BY <4>2, <5>1
        <5>3. x = [i \in 1..m |-> x[i]]
          BY <4>1, <4>2
        <5> QED
          BY <4>3, <5>2, <5>3
      <4> QED
        BY <4>2, <4>3, <4>4
    <3>4. \A i \in 1..m : \E a \in 1..Len(ledger) :
            /\ ledger[a].tx \in Reports
            /\ \E j \in 1..Len(flight[ledger[a].tx].rows) : x[i] = flight[ledger[a].tx].rows[j]
      <4>1. PICK f : PostedAs(f) /\ PostedRows = f[Len(ledger)]
        BY PostedIs DEF HasPosted
      <4> QED
        <5>1. \A i \in 1..Len(f[Len(ledger)]) : \E a \in 1..Len(ledger) :
                /\ ledger[a].tx \in Reports
                /\ \E j \in 1..Len(flight[ledger[a].tx].rows) :
                     f[Len(ledger)][i] = flight[ledger[a].tx].rows[j]
          BY <4>1, PostedFrom
        <5>2. f[Len(ledger)] = x /\ Len(f[Len(ledger)]) = m
          BY <2>2, <3>3, <4>1
        <5> QED
          BY <5>1, <5>2
    <3>5. \A a \in 1..Len(ledger) : ledger[a].tx \in Reports => ledger[a].tx < t /\ ledger[a].tx \in 1..Len(flight)
      <4>1. 1 \in 1..Len(line) /\ line[1] = t
        BY <1>1, InTurnMeans DEF Reporting
      <4> QED
        BY <3>1, <4>1, ShownType DEF Reporting, Queue
    <3>6. \A i \in 1..m, j \in 1..k : Precedes(x[i], y[j])
      <4> SUFFICES ASSUME NEW i \in 1..m, NEW j \in 1..k PROVE Precedes(x[i], y[j])
        OBVIOUS
      <4>1. PICK a \in 1..Len(ledger) :
              /\ ledger[a].tx \in Reports
              /\ \E l \in 1..Len(flight[ledger[a].tx].rows) : x[i] = flight[ledger[a].tx].rows[l]
        BY <3>4
      <4>2. PICK u \in 1..Len(flight) : u = ledger[a].tx /\ u < t
        BY <3>5, <4>1
      <4>3. PICK l \in 1..Len(flight[u].rows) : x[i] = flight[u].rows[l]
        BY <4>1, <4>2
      <4> QED
        BY <3>1, <3>2, <3>3, <4>2, <4>3 DEF Reporting, Rows, Ordered
    <3>7. \A i, j \in 1..k : i < j => Precedes(y[i], y[j])
      BY <3>1, <3>2, <3>3 DEF Reporting, Rows, Ordered
    <3>8. \A j \in 1..k : y[j] \in tested
      BY <3>1, <3>2, <3>3 DEF Reporting, Rows, Flown
    <3>9. \A i \in (m + 1)..(m + k) :
            /\ (x \o y)[i] \in tested
            /\ \A j \in 1..(i - 1) : Log!Before((x \o y)[j], (x \o y)[i])
      <4> SUFFICES ASSUME NEW i \in (m + 1)..(m + k)
                   PROVE  /\ (x \o y)[i] \in tested
                          /\ \A j \in 1..(i - 1) : Log!Before((x \o y)[j], (x \o y)[i])
        OBVIOUS
      <4>1. i - m \in 1..k /\ (x \o y)[i] = y[i - m]
        BY <3>3
      <4>2. ASSUME NEW j \in 1..(i - 1) PROVE Precedes((x \o y)[j], (x \o y)[i])
        <5>1. CASE j \in 1..m
          BY <3>3, <3>6, <4>1, <5>1
        <5>2. CASE j \in (m + 1)..(m + k)
          <6>1. j - m \in 1..k /\ (x \o y)[j] = y[j - m] /\ j - m < i - m
            BY <3>3, <5>2
          <6> QED
            BY <3>7, <4>1, <6>1
        <5>3. j \in 1..m \/ j \in (m + 1)..(m + k)
          OBVIOUS
        <5> QED
          BY <5>1, <5>2, <5>3
      <4> QED
        BY <3>8, <4>1, <4>2 DEF Precedes, Log!Before
    <3>10. Len(x \o y) > Len(x)
      BY <3>3
    <3>11. Log!Post
      <4>1. \A i \in (Len(x) + 1)..Len(x \o y) :
              (x \o y)[i] \in tested /\ \A j \in 1..(i - 1) : Log!Before((x \o y)[j], (x \o y)[i])
        BY <3>3, <3>9
      <4> QED
        BY <1>1, <2>2, <3>3, <3>10, <4>1 DEF Log!Post
    <3> QED
      BY <3>11 DEF Log!Next
  <2> QED
    BY <2>3, <2>4
<1> QED
  BY <1>1, <1>2, <1>3, BroadcastEffect

\* A row is tested before it is posted, and after all those of its pass.
LEMMA TestStep ==
  ASSUME Reporting, Reporting', Limit >= 108, NEW p \in Passes,
         \/ Start(p) \/ Finalise(p) \/ Close(p)
         \/ \E t \in Payments : Pay(p, t)
         \/ \E r \in Outcomes : Record(p, r)
  PROVE  [Log!Next]_<<tested, PostedRows>>
<1>1. PostedRows' = PostedRows
  <2>1. HandsOver
    BY PassHandsOver DEF Reporting
  <2>2. ledger' = ledger
    BY <2>1 DEF HandsOver
  <2>3. \A t \in 1..Len(flight) : flight'[t] = flight[t]
    <3>1. CASE flight' = flight
      BY <3>1
    <3>2. CASE \E entry : flight' = Append(flight, entry)
      BY <3>2 DEF Reporting, TypeOK
    <3> QED
      BY <2>1, <3>1, <3>2 DEF HandsOver
  <2> QED
    BY <2>2, <2>3, PostedSame
<1>2. CASE tested' = tested
  BY <1>1, <1>2
<1>3. CASE tested' # tested
  <2>1. PICK r \in Outcomes : Record(p, r)
    BY <1>3, StartPass DEF Reporting, Finalise, Close, Pay
  <2>2. PICK row : row = [pass |-> p, n |-> pass[p].rows + 1, result |-> r]
    OBVIOUS
  <2>3. tested' = tested \cup {row} /\ row.pass = p /\ row.n = pass[p].rows + 1
    BY <1>3, <2>1, <2>2 DEF Record
  <2>4. pass[p].rows \in Nat
    BY DEF Reporting, TypeOK, Pass
  <2>5. \A s \in tested : s.n \in Nat /\ s.n <= pass[s.pass].rows
    BY DEF Reporting, TypeOK, Row, Rows, Numbered
  <2>6. \A s \in tested : Log!Before(s, row)
    BY <2>3, <2>4, <2>5 DEF Log!Before
  <2>7. row \in tested' \ tested
    BY <2>3, <2>4, <2>5
  <2>8. Log!Test
    BY <1>1, <2>3, <2>6, <2>7 DEF Log!Test
  <2> QED
    BY <2>8 DEF Log!Next
<1> QED
  BY <1>2, <1>3

LEMMA LogInit == Init => Log!Init
<1> SUFFICES ASSUME Init PROVE Log!Init
  OBVIOUS
<1>1. PICK f : PostedAs(f) /\ PostedRows = f[Len(ledger)]
  BY ReportingInit, PostedIs DEF HasPosted
<1>2. ledger = <<>> /\ tested = {}
  BY DEF Init, WalletInit
<1>3. PostedRows = <<>>
  BY <1>1, <1>2 DEF PostedAs
<1> QED
  BY <1>2, <1>3 DEF Log!Init

LEMMA LogStep ==
  ASSUME Reporting, Beside = FALSE, Limit >= 108, [Next]_vars
  PROVE  [Log!Next]_<<tested, PostedRows>>
<1>1. Reporting'
  BY ReportingStep
<1>2. CASE \E p \in Passes : \/ Start(p) \/ Finalise(p) \/ Close(p)
                             \/ \E t \in Payments : Pay(p, t)
                             \/ \E r \in Outcomes : Record(p, r)
  BY <1>1, <1>2, TestStep
<1>3. CASE \E t \in Txs : Transact(t)
  BY <1>1, <1>3, PostStep
<1>4. CASE UNCHANGED vars
  BY <1>1, <1>4, PostedSame DEF vars, wallet
<1> QED
  BY <1>2, <1>3, <1>4 DEF Next

\* The reporter implements ReportLog (_flushOnchainBatch over broadcastSerialized): no
\* row is posted that no test produced, none twice, and those of a pass in the order
\* of its tests, whatever reports fail, are lost or wait behind payments.
THEOREM ReportsAreALog ==
  ASSUME Beside = FALSE, Limit >= 108
  PROVE  Spec => Reported
<1>1. Reporting /\ [Next]_vars => [Log!Next]_<<tested, PostedRows>>
  BY LogStep
<1> QED
  BY <1>1, LogInit, ReportingHolds, PTL DEF Spec, Reported, Log!Spec
=============================================================================
