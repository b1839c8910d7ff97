------------------------- MODULE ChainQueries_proofs -------------------------
(***************************************************************************)
(* Proofs about ChainQueries, for every set of queries, every choice of    *)
(* their kinds and every list of LCD endpoints; and about the readers of   *)
(* its answers, for every message, every list of amounts and every set of  *)
(* subscriptions.                                                          *)
(***************************************************************************)
EXTENDS ChainQueries, FiniteSetTheorems, SequenceTheorems, WellFoundedInduction, TLAPS

\* The clients, the connections being made and the endpoints.
Shared ==
  /\ made \in Nat /\ cached \in 0..made /\ closed \subseteq 1..made /\ cached \notin closed
  /\ dialing \subseteq Calls \X (1..2)
  /\ lcd \in Lcds \cup {NoLcd} /\ up \subseteq Lcds /\ flips \in 0..MaxFlips

\* One query, when m clients have been made and ca is the shared one: a retry
\* runs on a younger client than the attempt before it, and an LCD query has
\* tried exactly the endpoints before the one it is at.
Fine(r, m, ca) ==
  /\ r \in Call /\ r.client \in 0..m /\ r.first \in 0..m
  /\ r.n = 2 /\ r.first # NoClient => r.first # ca /\ r.first # r.client
  /\ r.pc = "idle" => r.client = NoClient /\ r.first = NoClient /\ r.failed = {}
  /\ r.pc # "end" => r.out = "none"
  /\ r.pc \in {"probe", "lcd"} => r.at \in Lcds
  /\ r.kind = "status" =>
       /\ r.pc # "probe"
       /\ r.pc \in {"idle", "dial", "query"} => r.failed = {}
       /\ r.pc = "lcd" => r.failed = 1..(r.at - 1)
       /\ r.out = "unknown" => r.failed = Lcds

\* The fields of a query's record.
Parts(r, kind, pc, n, client, first, at, failed, out) ==
  /\ r \in Call /\ r.kind = kind /\ r.pc = pc /\ r.n = n /\ r.client = client
  /\ r.first = first /\ r.at = at /\ r.failed = failed /\ r.out = out

Inv ==
  /\ Shared
  /\ call = [c \in Calls |-> call[c]]
  /\ \A c \in Calls : Fine(call[c], made, cached)

LEMMA Endpoints ==
  /\ Cardinality(Lcds) \in Nat /\ 1 \in Lcds /\ Lcds \subseteq Nat /\ NoLcd \notin Lcds
  /\ \A i \in Lcds : i + 1 \notin Lcds => Lcds = 1..i
<1>1. Cardinality(Lcds) \in Nat
  BY ChainAssumption, FS_CardinalityType
<1> QED BY <1>1, ChainAssumption DEF NoLcd

LEMMA InvGives == Inv => FallsBack
<1> SUFFICES ASSUME Inv PROVE FallsBack
  OBVIOUS
<1>1. TypeOK
  BY DEF Inv, Shared, Fine, TypeOK
<1>2. Rotated
  BY DEF Inv, Shared, Fine, Rotated
<1>3. StatusKnown
  BY DEF Inv, Fine, StatusKnown, Is
<1> QED BY <1>1, <1>2, <1>3 DEF FallsBack

LEMMA InvInit == Init => Inv
BY ChainAssumption DEF Init, Inv, Shared, Fine, Call, Kinds, NoClient, NoLcd

-----------------------------------------------------------------------------
(* One query moves; the others see at most a younger shared client.        *)

\* Younger(m, ca): the clients made grow to m, and the shared one is the same,
\* none or a new one.
Younger(m, ca) == m \in Nat /\ made <= m /\ (ca = cached \/ ca = NoClient \/ ca > made)

LEMMA FineAgain ==
  ASSUME Inv, NEW m, NEW ca \in Nat, Younger(m, ca), NEW c \in Calls
  PROVE  Fine(call[c], m, ca)
BY DEF Inv, Shared, Fine, Younger, NoClient

LEMMA OneMoves ==
  ASSUME Inv, Shared', Younger(made', cached'), NEW c \in Calls, NEW r, Set(c, r),
         Fine(r, made', cached')
  PROVE  Inv'
<1>1. call' = [d \in Calls |-> IF d = c THEN r ELSE call[d]]
  BY DEF Inv, Set
<1>2. cached' \in Nat
  BY DEF Shared
<1>3. \A d \in Calls : Fine(call'[d], made', cached')
  BY <1>1, <1>2, FineAgain
<1> QED BY <1>1, <1>3 DEF Inv

LEMMA NoneMoves ==
  ASSUME Inv, Shared', Younger(made', cached'), UNCHANGED call
  PROVE  Inv'
<1>1. cached' \in Nat
  BY DEF Shared
<1> QED BY <1>1, FineAgain DEF Inv

\* A query that ends keeps what it knows.
LEMMA EndFine ==
  ASSUME Inv, Shared', Younger(made', cached'), NEW c \in Calls, NEW out, End(c, out),
         out \in {"rpc", "lcd", "thrown"} \/ (out = "unknown" /\ call[c].kind # "status")
  PROVE  Inv'
<1> DEFINE r == [call[c] EXCEPT !.pc = "end", !.out = out, !.client = NoClient,
                                !.first = NoClient, !.at = 0]
<1>1. Fine(call[c], made, cached)
  BY DEF Inv
<1>2. Fine(r, made', cached')
  <2>1. Parts(r, call[c].kind, "end", call[c].n, NoClient, NoClient, 0, call[c].failed, out)
    BY <1>1 DEF Fine, Call, Shared, Younger, NoClient, Parts
  <2> HIDE DEF r
  <2> QED BY <2>1, <1>1 DEF Fine, Shared, Younger, NoClient, Parts
<1> HIDE DEF r
<1>3. Set(c, r)
  BY DEF End, r
<1> QED BY <1>2, <1>3, OneMoves

\* Falling back, from an attempt that was the last.
LEMMA FallbackFine ==
  ASSUME Inv, Shared', Younger(made', cached'), NEW c \in Calls,
         call[c].pc \in {"dial", "query"}, Fallback(c)
  PROVE  Inv'
<1>1. Fine(call[c], made, cached)
  BY DEF Inv
<1>2. Fine(call[c], made', cached')
  BY FineAgain DEF Shared
<1>3. CASE Is(c, "plain")
  BY <1>3, EndFine DEF Fallback
<1>4. CASE ~Is(c, "plain") /\ Is(c, "status")
  <2> DEFINE r == [call[c] EXCEPT !.pc = "lcd", !.at = 1]
  <2>1. Fine(r, made', cached')
    <3>1. Parts(r, call[c].kind, "lcd", call[c].n, call[c].client, call[c].first, 1, call[c].failed,
          call[c].out)
      BY <1>2, <1>4, Endpoints DEF Fine, Call, Is, Parts
    <3> HIDE DEF r
    <3> QED BY <3>1, <1>2, <1>4, Endpoints DEF Fine, Is, NoClient, Parts
  <2> HIDE DEF r
  <2>2. Set(c, r)
    BY <1>4 DEF Fallback, r
  <2> QED BY <2>1, <2>2, OneMoves
<1>5. CASE ~Is(c, "plain") /\ ~Is(c, "status") /\ lcd # NoLcd
  <2> DEFINE r == [call[c] EXCEPT !.pc = "lcd", !.at = lcd]
  <2>1. lcd \in Lcds /\ lcd \in Nat
    BY <1>5, Endpoints DEF Inv, Shared
  <2>2. Fine(r, made', cached')
    <3>1. Parts(r, call[c].kind, "lcd", call[c].n, call[c].client, call[c].first, lcd,
            call[c].failed, call[c].out)
      BY <1>2, <1>5, <2>1 DEF Fine, Call, Is, Parts
    <3> HIDE DEF r
    <3> QED BY <3>1, <1>2, <1>5, <2>1 DEF Fine, Is, NoClient, Parts
  <2> HIDE DEF r
  <2>3. Set(c, r)
    BY <1>5 DEF Fallback, r
  <2> QED BY <2>2, <2>3, OneMoves
<1>6. CASE ~Is(c, "plain") /\ ~Is(c, "status") /\ lcd = NoLcd
  <2> DEFINE r == [call[c] EXCEPT !.pc = "probe", !.at = 1]
  <2>1. Fine(r, made', cached')
    <3>1. Parts(r, call[c].kind, "probe", call[c].n, call[c].client, call[c].first, 1,
            call[c].failed, call[c].out)
      BY <1>2, <1>6, Endpoints DEF Fine, Call, Is, Parts
    <3> HIDE DEF r
    <3> QED BY <3>1, <1>2, <1>6, Endpoints DEF Fine, Is, NoClient, Parts
  <2> HIDE DEF r
  <2>2. Set(c, r)
    BY <1>6 DEF Fallback, r
  <2> QED BY <2>1, <2>2, OneMoves
<1> QED BY <1>3, <1>4, <1>5, <1>6

\* A failed attempt: the shared client goes, and the retry has none yet.
LEMMA FailsFine ==
  ASSUME Inv, NEW c \in Calls, call[c].pc \in {"dial", "query"},
         NEW dials \in SUBSET (Calls \X (1..2)), Fails(c, dials), UNCHANGED <<made, lcd, up, flips>>
  PROVE  Inv'
<1>1. Fine(call[c], made, cached)
  BY DEF Inv
<1>2. CASE Wrapped(c) /\ call[c].n = 1
  <2> DEFINE r == [call[c] EXCEPT !.n = 2, !.first = call[c].client, !.client = NoClient,
                                  !.pc = "dial"]
  <2>1. /\ dialing' = dials \cup {<<c, 2>>} /\ closed' = closed \cup ({cached} \ {NoClient})
        /\ cached' = NoClient /\ Set(c, r)
    BY <1>2 DEF Fails
  <2>2. Shared'
    BY <2>1 DEF Inv, Shared, NoClient
  <2>3. Younger(made', cached')
    BY <2>1 DEF Younger, Inv, Shared
  <2>4. Fine(r, made', cached')
    <3>1. Parts(r, call[c].kind, "dial", 2, NoClient, call[c].client, call[c].at, call[c].failed,
          call[c].out)
      <4> DEFINE q == [call[c] EXCEPT !.n = 2, !.first = call[c].client]
      <4>1. Parts(q, call[c].kind, call[c].pc, 2, call[c].client, call[c].client, call[c].at,
              call[c].failed, call[c].out)
        <5>1. call[c] \in Call /\ call[c].client \in Nat
          BY <1>1 DEF Fine, Call
        <5> DEFINE w == [call[c] EXCEPT !.n = 2]
        <5>2. Parts(w, call[c].kind, call[c].pc, 2, call[c].client, call[c].first, call[c].at,
                call[c].failed, call[c].out)
          BY <5>1 DEF Call, Parts
        <5>3. q = [w EXCEPT !.first = call[c].client]
          OBVIOUS
        <5> HIDE DEF w, q
        <5> QED BY <5>1, <5>2, <5>3 DEF Call, Parts
      <4>2. r = [q EXCEPT !.client = NoClient, !.pc = "dial"]
        OBVIOUS
      <4> HIDE DEF q, r
      <4> QED BY <4>1, <4>2 DEF Call, NoClient, Parts
    <3> HIDE DEF r
    <3>2. /\ made' = made /\ made \in Nat /\ cached' = 0 /\ call[c].client \in 0..made
          /\ call[c].out = "none"
          /\ call[c].kind = "status" => call[c].failed = {}
      BY <1>1, <2>1 DEF Fine, NoClient, Inv, Shared
    <3> QED BY <3>1, <3>2 DEF Fine, NoClient, Parts
  <2> HIDE DEF r
  <2> QED BY <2>1, <2>2, <2>3, <2>4, OneMoves
<1>3. CASE ~(Wrapped(c) /\ call[c].n = 1)
  <2>1. Fallback(c) /\ dialing' = dials /\ UNCHANGED <<closed, cached>>
    BY <1>3 DEF Fails
  <2>2. Shared' /\ Younger(made', cached')
    BY <2>1 DEF Inv, Shared, Younger
  <2> QED BY <2>1, <2>2, FallbackFine
<1> QED BY <1>2, <1>3

LEMMA InvClient ==
  ASSUME Inv, NEW c \in Calls,
         \/ Begin(c) \/ Answers(c) \/ AnswersNothing(c) \/ QueryErrs(c) \/ TimesOut(c)
         \/ \E n \in 1..2 : Dialed(c, n) \/ DialFails(c, n)
  PROVE  Inv'
<1>1. Fine(call[c], made, cached)
  BY DEF Inv
<1>2. CASE Begin(c)
  <2>1. PICK kind \in Asks[c] : Attempt(c, kind, cached)
    BY <1>2 DEF Begin
  <2>2. kind \in Kinds
    BY ChainAssumption
  <2>3. Shared' /\ Younger(made', cached')
    <3>1. /\ UNCHANGED <<cached, made, closed, lcd, up, flips>>
          /\ dialing' = dialing \/ dialing' = dialing \cup {<<c, 1>>}
      BY <1>2, <2>1 DEF Begin, Attempt
    <3> QED BY <3>1 DEF Inv, Shared, Younger
  <2>4. CASE cached # NoClient
    <3> DEFINE r == [call[c] EXCEPT !.kind = kind, !.pc = "query", !.n = 1, !.client = cached]
    <3>1. Fine(r, made', cached')
      <4>1. Parts(r, kind, "query", 1, cached, call[c].first, call[c].at, call[c].failed,
              call[c].out)
        <5> DEFINE q == [call[c] EXCEPT !.kind = kind, !.pc = "query"]
        <5>1. Parts(q, kind, "query", call[c].n, call[c].client, call[c].first, call[c].at,
                call[c].failed, call[c].out)
          BY <1>1, <2>2 DEF Fine, Call, Parts
        <5> DEFINE w == [q EXCEPT !.n = 1]
        <5>2. r = [w EXCEPT !.client = cached]
          OBVIOUS
        <5>3. cached \in Nat
          BY DEF Inv, Shared
        <5> HIDE DEF q, r
        <5>4. Parts(w, kind, "query", 1, call[c].client, call[c].first, call[c].at, call[c].failed,
                call[c].out)
          BY <5>1 DEF Call, Parts
        <5> HIDE DEF w
        <5> QED BY <5>2, <5>3, <5>4 DEF Call, Parts
      <4> HIDE DEF r
      <4>2. /\ cached' = cached /\ made' = made /\ made \in Nat /\ cached \in 0..made
            /\ call[c].pc = "idle"
        BY <1>2 DEF Begin, Inv, Shared
      <4> QED BY <4>1, <4>2, <1>1 DEF Fine, NoClient, Parts
    <3> HIDE DEF r
    <3>2. Set(c, r)
      BY <2>1, <2>4 DEF Attempt, r
    <3> QED BY <2>3, <3>1, <3>2, OneMoves
  <2>5. CASE cached = NoClient
    <3> DEFINE r == [call[c] EXCEPT !.kind = kind, !.pc = "dial", !.n = 1]
    <3>1. Fine(r, made', cached')
      <4>1. Parts(r, kind, "dial", 1, call[c].client, call[c].first, call[c].at, call[c].failed,
            call[c].out)
        <5> DEFINE q == [call[c] EXCEPT !.kind = kind, !.pc = "dial"]
        <5>1. Parts(q, kind, "dial", call[c].n, call[c].client, call[c].first, call[c].at,
                call[c].failed, call[c].out)
          BY <1>1, <2>2 DEF Fine, Call, Parts
        <5>2. r = [q EXCEPT !.n = 1]
          OBVIOUS
        <5> HIDE DEF q, r
        <5> QED BY <5>1, <5>2 DEF Call, Parts
      <4> HIDE DEF r
      <4>2. /\ cached' = cached /\ made' = made /\ made \in Nat /\ cached \in 0..made
            /\ call[c].pc = "idle"
        BY <1>2 DEF Begin, Inv, Shared
      <4> QED BY <4>1, <4>2, <1>1 DEF Fine, NoClient, Parts
    <3> HIDE DEF r
    <3>2. Set(c, r)
      BY <2>1, <2>5 DEF Attempt, r
    <3> QED BY <2>3, <3>1, <3>2, OneMoves
  <2> QED BY <2>4, <2>5
<1>3. CASE Answers(c)
  <2>1. Shared' /\ Younger(made', cached')
    BY <1>3 DEF Answers, Inv, Shared, Younger
  <2> QED BY <1>3, <2>1, EndFine DEF Answers
<1>4. CASE AnswersNothing(c)
  <2>1. Shared' /\ Younger(made', cached')
    BY <1>4 DEF AnswersNothing, Inv, Shared, Younger
  <2> QED BY <1>4, <2>1, FallbackFine DEF AnswersNothing
<1>5. CASE QueryErrs(c) \/ TimesOut(c)
  BY <1>5, FailsFine DEF QueryErrs, TimesOut, Inv, Shared
<1>6. ASSUME NEW n \in 1..2, Dialed(c, n) PROVE Inv'
  <2>1. /\ made' = made + 1 /\ cached' = made + 1 /\ dialing' = dialing \ {<<c, n>>}
        /\ UNCHANGED <<closed, lcd, up, flips>>
    BY <1>6 DEF Dialed
  <2>2. Shared' /\ Younger(made', cached')
    BY <2>1 DEF Inv, Shared, Younger
  <2>3. CASE Waits(c, n)
    <3> DEFINE r == [call[c] EXCEPT !.pc = "query", !.client = made + 1]
    <3>1. Fine(r, made', cached')
      <4>1. Parts(r, call[c].kind, "query", call[c].n, made + 1, call[c].first, call[c].at,
            call[c].failed, call[c].out)
        <5>1. call[c] \in Call /\ made + 1 \in Nat
          BY <1>1 DEF Fine, Inv, Shared
        <5> QED BY <5>1 DEF Call, Parts
      <4> HIDE DEF r
      <4> QED BY <4>1, <1>1, <2>1, <2>3 DEF Waits, Fine, Inv, Shared, NoClient, Parts
    <3> HIDE DEF r
    <3>2. Set(c, r)
      BY <1>6, <2>3 DEF Dialed, r
    <3> QED BY <2>2, <3>1, <3>2, OneMoves
  <2>4. CASE ~Waits(c, n)
    BY <1>6, <2>2, <2>4, NoneMoves DEF Dialed
  <2> QED BY <2>3, <2>4
<1>7. ASSUME NEW n \in 1..2, DialFails(c, n) PROVE Inv'
  <2> DEFINE left == dialing \ {<<c, n>>}
  <2>1. left \in SUBSET (Calls \X (1..2))
    BY DEF Inv, Shared
  <2>2. CASE Waits(c, n)
    <3> HIDE DEF left
    <3>1. Fails(c, left) /\ UNCHANGED <<made, lcd, up, flips>>
      BY <1>7, <2>2 DEF DialFails, left
    <3> QED BY <2>1, <2>2, <3>1, FailsFine DEF Waits
  <2>3. CASE ~Waits(c, n)
    <3>1. dialing' = left /\ UNCHANGED <<call, closed, cached, made, lcd, up, flips>>
      BY <1>7, <2>3 DEF DialFails
    <3>2. Shared' /\ Younger(made', cached')
      BY <2>1, <3>1 DEF Inv, Shared, Younger
    <3> QED BY <3>1, <3>2, NoneMoves
  <2> QED BY <2>2, <2>3
<1> QED BY <1>2, <1>3, <1>4, <1>5, <1>6, <1>7

LEMMA InvLcd ==
  ASSUME Inv, NEW c \in Calls, Probe(c) \/ AskLcd(c)
  PROVE  Inv'
<1> DEFINE i == call[c].at
<1>1. Fine(call[c], made, cached) /\ i \in Lcds /\ i \in Nat
  BY Endpoints DEF Inv, Fine, Probe, AskLcd
<1>2. UNCHANGED <<cached, made>>
  BY DEF Probe, AskLcd
<1>3. Shared' /\ Younger(made', cached')
  BY <1>1 DEF Probe, AskLcd, Inv, Shared, Younger
<1>4. CASE Probe(c)
  <2>1. call[c].pc = "probe" /\ call[c].kind # "status"
    BY <1>1, <1>4 DEF Probe, Fine
  <2>2. CASE i \in up
    <3> DEFINE r == [call[c] EXCEPT !.pc = "lcd"]
    <3>1. Fine(r, made', cached')
      <4>1. Parts(r, call[c].kind, "lcd", call[c].n, call[c].client, call[c].first, call[c].at,
            call[c].failed, call[c].out)
        BY <1>1, <1>2, <2>1 DEF Fine, Call, Parts
      <4> HIDE DEF r
      <4> QED BY <4>1, <1>1, <1>2, <2>1 DEF Fine, NoClient, Parts
    <3> HIDE DEF r
    <3>2. Set(c, r)
      BY <1>4, <2>2 DEF Probe, r
    <3> QED BY <1>3, <3>1, <3>2, OneMoves
  <2>3. CASE i \notin up /\ i + 1 \in Lcds
    <3> DEFINE r == [call[c] EXCEPT !.at = i + 1, !.failed = @ \cup {i}]
    <3>1. Fine(r, made', cached')
      <4>1. Parts(r, call[c].kind, call[c].pc, call[c].n, call[c].client, call[c].first, i + 1,
            call[c].failed \cup {i}, call[c].out)
        <5>1. call[c] \in Call /\ i + 1 \in Nat /\ call[c].failed \cup {i} \in SUBSET Lcds
          BY <1>1 DEF Fine, Call
        <5> QED BY <5>1 DEF Call, Parts
      <4> HIDE DEF r
      <4> QED BY <4>1, <1>1, <1>2, <2>1, <2>3 DEF Fine, NoClient, Parts
    <3> HIDE DEF r
    <3>2. Set(c, r)
      BY <1>4, <2>3 DEF Probe, r
    <3> QED BY <1>3, <3>1, <3>2, OneMoves
  <2>4. CASE i \notin up /\ i + 1 \notin Lcds
    <3>1. End(c, IF Is(c, "nodes") THEN "thrown" ELSE "unknown")
      BY <1>4, <2>4 DEF Probe
    <3> QED BY <1>3, <2>1, <3>1, EndFine
  <2> QED BY <2>2, <2>3, <2>4
<1>5. CASE AskLcd(c)
  <2>1. call[c].pc = "lcd"
    BY <1>5 DEF AskLcd
  <2>2. CASE i \in up
    BY <1>3, <1>5, <2>2, EndFine DEF AskLcd
  <2>3. CASE i \notin up /\ Is(c, "status")
    <3> DEFINE r == [call[c] EXCEPT !.failed = @ \cup {i}, !.at = i + 1,
                       !.pc = IF i + 1 \in Lcds THEN "lcd" ELSE "end",
                       !.out = IF i + 1 \in Lcds THEN "none" ELSE "unknown"]
    <3>1. call[c].failed \cup {i} = 1..i
      BY <1>1, <2>1, <2>3, ChainAssumption, Endpoints DEF Fine, Is
    <3>2. Fine(r, made', cached')
      <4>1. Parts(r, call[c].kind, (IF i + 1 \in Lcds THEN "lcd" ELSE "end"), call[c].n,
            call[c].client, call[c].first, i + 1, call[c].failed \cup {i}, (IF i + 1 \in Lcds
            THEN "none" ELSE "unknown"))
        <5>1. call[c] \in Call /\ i + 1 \in Nat /\ call[c].failed \cup {i} \in SUBSET Lcds
          BY <1>1 DEF Fine, Call
        <5> QED BY <5>1 DEF Call, Parts
      <4> HIDE DEF r
      <4>2. CASE i + 1 \in Lcds
        BY <1>1, <1>2, <2>1, <2>3, <3>1, <4>1, <4>2 DEF Fine, Parts, Is, NoClient
      <4>3. CASE i + 1 \notin Lcds
        BY <1>1, <1>2, <2>1, <2>3, <3>1, <4>1, <4>3, Endpoints DEF Fine, Parts, Is, NoClient
      <4> QED BY <4>2, <4>3
    <3> HIDE DEF r
    <3>3. Set(c, r)
      BY <1>5, <2>3 DEF AskLcd, r
    <3> QED BY <1>3, <3>2, <3>3, OneMoves
  <2>4. CASE i \notin up /\ ~Is(c, "status")
    <3>1. End(c, IF Is(c, "nodes") THEN "thrown" ELSE "unknown")
      BY <1>5, <2>4 DEF AskLcd
    <3> QED BY <1>3, <2>4, <3>1, EndFine DEF Is
  <2> QED BY <2>2, <2>3, <2>4
<1> QED BY <1>4, <1>5

LEMMA InvStep == ASSUME Inv, [Next]_vars PROVE Inv'
<1>1. ASSUME NEW l \in Lcds, Flip(l) PROVE Inv'
  <2>1. Shared' /\ Younger(made', cached')
    BY <1>1, ChainAssumption DEF Flip, Inv, Shared, Younger
  <2> QED BY <1>1, <2>1, NoneMoves DEF Flip
<1>2. CASE Cleanup
  <2>1. Shared' /\ Younger(made', cached')
    BY <1>2 DEF Cleanup, Inv, Shared, Younger, NoClient
  <2> QED BY <1>2, <2>1, NoneMoves DEF Cleanup
<1>3. CASE UNCHANGED vars
  BY <1>3 DEF vars, Inv, Shared
<1> QED BY <1>1, <1>2, <1>3, InvClient, InvLcd DEF Next, Timer

\* A retry never meets the client that failed it, no dropped client is handed
\* out again, and a node's status is unknown only after every LCD endpoint has
\* failed it in turn, however the queries and late connections interleave.
THEOREM QueriesFallBack == Spec => []FallsBack
BY InvInit, InvStep, InvGives, PTL DEF Spec

-----------------------------------------------------------------------------
(***************************************************************************)
(* Recursive definitions over a set on which a measure decreases.  A       *)
(* reader is such a definition; this is what lets it be reasoned about     *)
(* without induction over data: f is any function that obeys it.           *)
(***************************************************************************)

\* Subsets of a finite set have a minimal one, so the initial segments of S do.
LEMMA LeastElement ==
  ASSUME NEW S \in SUBSET Nat, S # {}
  PROVE  \E n \in S : \A m \in S : n <= m
<1>1. PICK a \in S : a \in Nat
  OBVIOUS
<1> DEFINE Below(k) == {m \in S : m < k}
           T == {Below(k) : k \in {j \in S : j <= a}}
           R == StrictSubsetOrdering(0..a)
<1>2. \A k \in S : k <= a => Below(k) \in FiniteSubsetsOf(0..a)
  <2>1. IsFiniteSet(0..a)
    BY <1>1, FS_Interval
  <2>2. \A k \in S : k <= a => Below(k) \in SUBSET (0..a)
    <3> SUFFICES ASSUME NEW k \in S, k <= a, NEW m \in S, m < k
                 PROVE  m \in 0..a
      OBVIOUS
    <3>1. k \in Nat /\ m \in Nat
      OBVIOUS
    <3> QED
      BY <1>1, <3>1
  <2> HIDE DEF Below
  <2> QED
    BY <2>1, <2>2, FS_Subset DEF FiniteSubsetsOf
<1>3. T \subseteq FiniteSubsetsOf(0..a) /\ T # {}
  <2>1. Below(a) \in T
    BY <1>1
  <2> HIDE DEF Below
  <2> QED
    BY <1>2, <2>1
<1>4. PICK X \in T : \A Y \in T : <<Y, X>> \notin R
  <2>1. IsWellFoundedOn(R, FiniteSubsetsOf(0..a))
    BY FS_StrictSubsetOrderingWellFounded
  <2> HIDE DEF T, R
  <2> QED
    BY <1>3, <2>1, WFMin
<1>5. PICK k \in S : k <= a /\ X = Below(k)
  OBVIOUS
<1>6. ASSUME NEW m \in S, m < k PROVE FALSE
  <2>a. k \in Nat /\ m \in Nat /\ S \subseteq Nat
    OBVIOUS
  <2>1. Below(m) \subseteq X /\ m \in X /\ m \notin Below(m) /\ m <= a
    <3>1. \A j \in S : j < m => j < k
      BY <1>6, <2>a
    <3>2. m <= a /\ ~(m < m)
      BY <1>1, <1>5, <1>6, <2>a
    <3> QED
      BY <1>5, <1>6, <3>1, <3>2
  <2> HIDE DEF Below
  <2>2. Below(m) \in T
    BY <2>1
  <2>3. Below(m) \in FiniteSubsetsOf(0..a) /\ X \in FiniteSubsetsOf(0..a)
    BY <1>3, <2>2
  <2>4. <<Below(m), X>> \in R
    BY <2>1, <2>3 DEF StrictSubsetOrdering, FiniteSubsetsOf
  <2> QED
    BY <1>4, <2>2, <2>4
<1> QED
  BY <1>6

\* What holds of d if it holds of everything of smaller measure holds of all.
LEMMA Descent ==
  ASSUME NEW D, NEW mu \in [D -> Nat], NEW P,
         \A d \in D : (\A e \in D : mu[e] < mu[d] => e \in P) => d \in P
  PROVE  D \subseteq P
<1> DEFINE S == {mu[d] : d \in D \ P}
<1> SUFFICES ASSUME D \ P # {} PROVE FALSE
  OBVIOUS
<1>1. S \in SUBSET Nat /\ S # {}
  OBVIOUS
<1>2. PICK n \in S : \A m \in S : n <= m
  <2> HIDE DEF S
  <2> QED BY <1>1, LeastElement
<1>3. PICK d \in D \ P : mu[d] = n
  BY <1>2
<1>4. \A e \in D : mu[e] < mu[d] => e \in P
  <2> SUFFICES ASSUME NEW e \in D, mu[e] < mu[d], e \notin P PROVE FALSE
    OBVIOUS
  <2>1. mu[e] \in S /\ mu[e] \in Nat /\ n \in Nat
    BY <1>1
  <2> QED BY <1>2, <1>3, <2>1
<1> QED BY <1>3, <1>4

\* A function by recursion: base where stop says so, step of the value at next,
\* which is of smaller measure, elsewhere; at the arguments of measure below m.
Obeys(f, D, mu, m, stop, base, next, step) ==
  \A d \in D : mu[d] < m => f[d] = IF d \in stop THEN base[d] ELSE step[d][f[next[d]]]

\* A recursive definition over D: f does what it says, or is anything that does.
Recursive(D, mu, T, stop, base, next, step) ==
  /\ mu \in [D -> Nat]
  /\ \A d \in D \cap stop : base[d] \in T
  /\ next \in [D \ stop -> D] /\ \A d \in D \ stop : mu[next[d]] < mu[d]
  /\ \A d \in D \ stop : \A t \in T : step[d][t] \in T

\* f is the function it defines: it obeys the definition at every argument.
Follows(f, D, T, stop, base, next, step) ==
  /\ f \in [D -> T]
  /\ \A d \in D : IF d \in stop THEN f[d] = base[d]
                   ELSE next[d] \in D /\ f[next[d]] \in T /\ f[d] = step[d][f[next[d]]]

\* A recursive definition whose argument gets smaller defines such a function.
LEMMA Recursion ==
  ASSUME NEW D, NEW mu, NEW T, NEW stop, NEW base, NEW next, NEW step,
         Recursive(D, mu, T, stop, base, next, step)
  PROVE  \E f : Follows(f, D, T, stop, base, next, step)
<1>7. /\ mu \in [D -> Nat]
      /\ \A d \in D \cap stop : base[d] \in T
      /\ next \in [D \ stop -> D] /\ \A d \in D \ stop : mu[next[d]] < mu[d]
      /\ \A d \in D \ stop : \A t \in T : step[d][t] \in T
  BY DEF Recursive
<1> USE <1>7
<1> SUFFICES \E f \in [D -> T] :
           \A d \in D : f[d] = IF d \in stop THEN base[d] ELSE step[d][f[next[d]]]
  BY DEF Follows
<1> SUFFICES ASSUME D # {} PROVE \E f \in [D -> T] :
           \A d \in D : f[d] = IF d \in stop THEN base[d] ELSE step[d][f[next[d]]]
  <2>1. CASE D = {}
    <3>1. [d \in D |-> base[d]] \in [D -> T]
      BY <2>1
    <3> QED BY <2>1, <3>1
  <2> QED BY <2>1
<1> DEFINE Good(f, m) == Obeys(f, D, mu, m, stop, base, next, step)
           P == {m \in Nat : \E f \in [D -> T] : Good(f, m)}
           id == [m \in Nat |-> m]
<1>6. ASSUME NEW m \in Nat, NEW f, Good(f, m), NEW n \in Nat, NEW g, Good(g, n)
      PROVE  \A d \in D : mu[d] < m /\ mu[d] < n => f[d] = g[d]
  <2> DEFINE Q == {d \in D : mu[d] < m /\ mu[d] < n => f[d] = g[d]}
  <2>1. ASSUME NEW d \in D, \A e \in D : mu[e] < mu[d] => e \in Q PROVE d \in Q
    <3> SUFFICES ASSUME mu[d] < m, mu[d] < n PROVE f[d] = g[d]
      OBVIOUS
    <3>1. CASE d \in stop
      BY <1>6, <3>1 DEF Obeys
    <3>2. CASE d \notin stop
      <4>1. next[d] \in D /\ mu[next[d]] < mu[d] /\ mu[next[d]] \in Nat /\ mu[d] \in Nat
        BY <3>2
      <4>2. f[next[d]] = g[next[d]]
        BY <2>1, <4>1
      <4> QED BY <1>6, <3>2, <4>2 DEF Obeys
    <3> QED BY <3>1, <3>2
  <2> HIDE DEF Q
  <2>2. D \subseteq Q
    BY <2>1, Descent
  <2> QED BY <2>2 DEF Q
<1>1. ASSUME NEW m \in Nat, \A k \in Nat : id[k] < id[m] => k \in P PROVE m \in P
  <2>1. CASE m = 0
    <3>1. PICK t : t \in T
      <4>1. PICK d \in D : \A e \in D : mu[d] <= mu[e]
        <5> DEFINE S == {mu[d] : d \in D}
        <5>1. S \in SUBSET Nat /\ S # {}
          OBVIOUS
        <5>2. PICK n \in S : \A k \in S : n <= k
          <6> HIDE DEF S
          <6> QED BY <5>1, LeastElement
        <5> QED BY <5>2
      <4>2. d \in stop
        <5> SUFFICES ASSUME d \notin stop PROVE FALSE
          OBVIOUS
        <5>1. next[d] \in D /\ mu[next[d]] < mu[d] /\ mu[d] \in Nat /\ mu[next[d]] \in Nat
          OBVIOUS
        <5> QED BY <4>1, <5>1
      <4> QED BY <4>2
    <3>2. [d \in D |-> t] \in [D -> T]
      BY <3>1
    <3>3. Good([d \in D |-> t], 0)
      BY DEF Obeys
    <3> HIDE DEF Good
    <3> QED BY <2>1, <3>2, <3>3
  <2>2. CASE m # 0
    <3>1. m - 1 \in P
      BY <1>1, <2>2
    <3>2. PICK f \in [D -> T] : Good(f, m - 1)
      BY <3>1
    <3> DEFINE g == [d \in D |-> IF mu[d] # m - 1 THEN f[d]
                                  ELSE IF d \in stop THEN base[d] ELSE step[d][f[next[d]]]]
    <3>3. g \in [D -> T]
      OBVIOUS
    <3>4. ASSUME NEW d \in D, mu[d] < m
          PROVE  g[d] = IF d \in stop THEN base[d] ELSE step[d][g[next[d]]]
      <4>1. d \notin stop => next[d] \in D /\ g[next[d]] = f[next[d]]
        <5> SUFFICES ASSUME d \notin stop PROVE next[d] \in D /\ mu[next[d]] # m - 1
          OBVIOUS
        <5>1. next[d] \in D /\ mu[next[d]] < mu[d] /\ mu[d] \in Nat /\ mu[next[d]] \in Nat
          OBVIOUS
        <5> QED BY <3>4, <5>1
      <4>2. CASE mu[d] = m - 1
        BY <4>1, <4>2
      <4>3. CASE mu[d] # m - 1
        <5>1. mu[d] < m - 1 /\ g[d] = f[d]
          BY <3>4, <4>3
        <5> HIDE DEF g
        <5> QED BY <3>2, <4>1, <5>1 DEF Obeys
      <4> QED BY <4>2, <4>3
    <3>5. Good(g, m)
      <4> HIDE DEF g
      <4> QED BY <3>4 DEF Obeys
    <3> HIDE DEF g, Good
    <3> QED BY <3>3, <3>5
  <2> QED BY <2>1, <2>2
<1>2. Nat \subseteq P
  <2> id \in [Nat -> Nat]
    OBVIOUS
  <2> HIDE DEF P, id
  <2> QED BY <1>1, Descent
<1> DEFINE best == [m \in Nat |-> CHOOSE f \in [D -> T] : Good(f, m)]
<1>3. \A m \in Nat : best[m] \in [D -> T] /\ Good(best[m], m)
  <2> HIDE DEF Good
  <2> QED BY <1>2
<1> HIDE DEF best, P
<1> DEFINE h == [d \in D |-> best[mu[d] + 1][d]]
<1>4. h \in [D -> T]
  BY <1>3
<1>5. ASSUME NEW d \in D PROVE h[d] = IF d \in stop THEN base[d] ELSE step[d][h[next[d]]]
  <2>1. Good(best[mu[d] + 1], mu[d] + 1) /\ mu[d] < mu[d] + 1 /\ mu[d] + 1 \in Nat
    BY <1>3
  <2>2. ASSUME d \notin stop PROVE h[next[d]] = best[mu[d] + 1][next[d]]
    <3> DEFINE e == next[d]
    <3>1. e \in D /\ mu[e] < mu[d] /\ mu[e] \in Nat /\ mu[d] \in Nat
      BY <2>2
    <3> HIDE DEF e
    <3>2. mu[e] + 1 \in Nat /\ mu[e] < mu[e] + 1 /\ mu[e] < mu[d] + 1
      BY <3>1
    <3>3. Good(best[mu[e] + 1], mu[e] + 1)
      BY <1>3, <3>2
    <3>4. best[mu[e] + 1][e] = best[mu[d] + 1][e]
      <4> DEFINE x == best[mu[e] + 1]
                 y == best[mu[d] + 1]
                 m == mu[e] + 1
                 n == mu[d] + 1
      <4>1. Good(x, m) /\ Good(y, n)
        BY <2>1, <3>3
      <4>2. m \in Nat /\ n \in Nat /\ mu[e] < m /\ mu[e] < n
        BY <2>1, <3>2
      <4> HIDE DEF x, y, m, n, Good
      <4>3. \A c \in D : mu[c] < m /\ mu[c] < n => x[c] = y[c]
        BY <4>1, <4>2, <1>6
      <4>4. x[e] = y[e]
        BY <3>1, <4>2, <4>3
      <4> QED BY <4>4 DEF x, y, m, n
    <3>5. h[e] = best[mu[e] + 1][e]
      BY <3>1
    <3> HIDE DEF h
    <3> QED BY <3>4, <3>5 DEF e
  <2>3. h[d] = best[mu[d] + 1][d]
    OBVIOUS
  <2> HIDE DEF h
  <2> QED BY <2>1, <2>2, <2>3 DEF Obeys
<1> HIDE DEF h
<1> QED BY <1>4, <1>5

-----------------------------------------------------------------------------
(***************************************************************************)
(* Varints.                                                                *)
(***************************************************************************)

\* The low bits of a number as a marked byte, and the number above them.
Low(k) == k % 128
Mark(k) == 128 + (k % 128)
Above(k) == k \div 128

\* A marked byte keeps its low bits, and the number above is a smaller one.
LEMMA MarkAbove ==
  \A k \in Nat : /\ Above(k) \in Nat /\ Mark(k) \in 128..255 /\ <<Mark(k)>> \in Seq(Nat)
                 /\ ~(Mark(k) < 128) /\ Low(Mark(k)) \in Nat
                 /\ k = 128 * Above(k) + Low(Mark(k))
                 /\ k >= 128 => Above(k) < k
<1> TAKE k \in Nat
<1>1. Mark(k) \in Nat
  BY DEF Mark
<1> QED BY <1>1 DEF Low, Mark, Above

\* A number is its last byte, or a marked byte and the number above it.
LEMMA VarintIs ==
  \A k \in Nat : /\ Varint(k) \in Seq(Nat)
                 /\ Varint(k) = IF k < 128 THEN <<k>> ELSE <<Mark(k)>> \o Varint(Above(k))
<1> DEFINE eq(f) == f = [k \in Nat |-> IF k < 128 THEN <<k>> ELSE <<Mark(k)>> \o f[Above(k)]]
           stop == {k \in Nat : k < 128}
           base == [k \in Nat |-> <<k>>]
           next == [k \in Nat \ stop |-> Above(k)]
           step == [k \in Nat |-> [t \in Seq(Nat) |-> <<Mark(k)>> \o t]]
           id == [k \in Nat |-> k]
<1>1. PICK f : Follows(f, Nat, Seq(Nat), stop, base, next, step)
  <2>1. \A k \in Nat \cap stop : base[k] \in Seq(Nat)
    OBVIOUS
  <2>2. next \in [Nat \ stop -> Nat] /\ \A k \in Nat \ stop : id[next[k]] < id[k]
    <3>1. \A k \in Nat \ stop : k \in Nat /\ Above(k) \in Nat /\ Above(k) < k
      <4> TAKE k \in Nat \ stop
      <4>1. k \in Nat /\ k >= 128
        OBVIOUS
      <4> QED BY <4>1, MarkAbove
    <3> QED BY <3>1
  <2>3. \A k \in Nat \ stop : \A t \in Seq(Nat) : step[k][t] \in Seq(Nat)
    <3> SUFFICES ASSUME NEW k \in Nat, NEW t \in Seq(Nat) PROVE step[k][t] \in Seq(Nat)
      OBVIOUS
    <3>1. <<Mark(k)>> \in Seq(Nat)
      BY MarkAbove
    <3> QED BY <3>1
  <2>4. id \in [Nat -> Nat]
    OBVIOUS
  <2> HIDE DEF stop, base, next, step, id
  <2>5. Recursive(Nat, id, Seq(Nat), stop, base, next, step)
    BY <2>1, <2>2, <2>3, <2>4 DEF Recursive
  <2> QED BY <2>5, Recursion
<1>2. eq(f)
  <2>1. \A k \in Nat : f[k] = IF k < 128 THEN <<k>> ELSE <<Mark(k)>> \o f[Above(k)]
    <3> SUFFICES ASSUME NEW k \in Nat
                 PROVE  f[k] = IF k < 128 THEN <<k>> ELSE <<Mark(k)>> \o f[Above(k)]
      OBVIOUS
    <3>1. k \in stop <=> k < 128
      OBVIOUS
    <3>2. base[k] = <<k>>
      OBVIOUS
    <3>3. k \notin stop => next[k] = Above(k)
      OBVIOUS
    <3>4. \A t \in Seq(Nat) : step[k][t] = <<Mark(k)>> \o t
      OBVIOUS
    <3> HIDE DEF stop, base, next, step
    <3> QED BY <1>1, <3>1, <3>2, <3>3, <3>4 DEF Follows
  <2>2. f = [k \in Nat |-> f[k]]
    <3> HIDE DEF stop, base, next, step
    <3> QED BY <1>1 DEF Follows
  <2> HIDE DEF stop, base, next, step
  <2> QED BY <2>1, <2>2, Zenon
<1> DEFINE v == CHOOSE g : eq(g)
<1>3. eq(v)
  BY <1>2
<1>4. \A k : Varint(k) = v[k]
  BY DEF Varint, Mark, Above
<1> HIDE DEF v, stop, base, next, step
<1>5. \A k \in Nat : v[k] = IF k < 128 THEN <<k>> ELSE <<Mark(k)>> \o v[Above(k)]
  BY <1>3, Zenon
<1> HIDE DEF eq
<1>6. \A k \in Nat : v[k] \in Seq(Nat)
  <2> DEFINE P == {k \in Nat : v[k] \in Seq(Nat)}
  <2>1. ASSUME NEW k \in Nat, \A e \in Nat : id[e] < id[k] => e \in P PROVE k \in P
    <3>1. CASE k < 128
      <4>1. <<k>> \in Seq(Nat)
        OBVIOUS
      <4> QED BY <1>5, <3>1, <4>1
    <3>2. CASE ~(k < 128)
      <4>1. v[Above(k)] \in Seq(Nat) /\ <<Mark(k)>> \in Seq(Nat)
        <5>1. k >= 128
          BY <3>2
        <5>2. Above(k) \in Nat /\ Above(k) < k /\ <<Mark(k)>> \in Seq(Nat)
          BY <5>1, MarkAbove
        <5> QED BY <2>1, <5>2
      <4>2. v[k] = <<Mark(k)>> \o v[Above(k)]
        BY <1>5, <3>2
      <4>3. v[k] \in Seq(Nat)
        BY <4>1, <4>2
      <4> QED BY <4>3
    <3> QED BY <3>1, <3>2
  <2>2. id \in [Nat -> Nat]
    OBVIOUS
  <2> HIDE DEF P, id
  <2>3. Nat \subseteq P
    BY <2>1, <2>2, Descent
  <2> QED BY <2>3 DEF P
<1> QED
  <2> TAKE k \in Nat
  <2>1. Above(k) \in Nat
    BY MarkAbove
  <2> QED BY <1>4, <1>5, <1>6, <2>1

\* The bytes of a number: marked but for the last.
LEMMA VarintBytes ==
  ASSUME NEW k \in Nat
  PROVE  /\ Varint(k) \in Seq(Nat) /\ Len(Varint(k)) \in Nat \ {0}
         /\ k < 128 => Len(Varint(k)) = 1 /\ Varint(k)[1] = k
         /\ k >= 128 => /\ Len(Varint(k)) = 1 + Len(Varint(Above(k)))
                        /\ Varint(k)[1] = Mark(k)
                        /\ \A j \in 1..Len(Varint(Above(k))) : Varint(k)[j + 1] = Varint(Above(k))[j]
<1> DEFINE h == Above(k)
           w == Varint(h)
<1>1. Varint(k) \in Seq(Nat) /\ w \in Seq(Nat)
  BY VarintIs, MarkAbove
<1>2. CASE k < 128
  <2>1. Varint(k) = <<k>>
    BY <1>2, VarintIs
  <2> QED BY <1>1, <1>2, <2>1
<1>3. CASE k >= 128
  <2>1. Varint(k) = <<Mark(k)>> \o w
    BY <1>3, VarintIs
  <2>2. Mark(k) \in Nat
    BY MarkAbove
  <2> HIDE DEF w
  <2>3. Len(Varint(k)) = 1 + Len(w) /\ Varint(k)[1] = Mark(k)
    BY <1>1, <2>1, <2>2
  <2>4. \A j \in 1..Len(w) : Varint(k)[j + 1] = w[j]
    BY <1>1, <2>1, <2>2
  <2> QED BY <1>1, <1>3, <2>3, <2>4 DEF w
<1> QED BY <1>2, <1>3

\* The low bits of a byte; an unmarked byte is its low bits.
LEMMA LowIs == \A b \in Nat : Low(b) \in Nat /\ (b < 128 => Low(b) = b)
BY DEF Low

\* The number in the bytes from i to end, its low bits first.
Summing(f, buf, i, end) ==
  f = [j \in i..(end + 1) |-> IF j > end THEN 0 ELSE Low(buf[j]) + 128 * f[j + 1]]
Number(buf, i, end) == (CHOOSE f : Summing(f, buf, i, end))[i]
Ends(buf, i) == {j \in i..Len(buf) : buf[j] < 128}
\* The first unmarked byte from i on; behind the message if there is none.
LastByte(buf, i) ==
  IF Ends(buf, i) = {} THEN Len(buf) ELSE CHOOSE j \in Ends(buf, i) : \A k \in Ends(buf, i) : j <= k

\* readVarint, in these words.
LEMMA ReadVarintIs ==
  \A buf, i : ReadVarint(buf, i) = [value |-> Number(buf, i, LastByte(buf, i)), next |-> LastByte(buf, i) + 1]
BY DEF ReadVarint, Number, Summing, LastByte, Ends, Low

\* There is such a sum.
LEMMA SummingExists ==
  ASSUME NEW buf, NEW i \in Nat, NEW end \in Nat, \A j \in i..end : buf[j] \in Nat
  PROVE  \E f \in [i..(end + 1) -> Nat] : Summing(f, buf, i, end)
<1> DEFINE D == i..(end + 1)
           mu == [j \in D |-> end + 1 - j]
           stop == {end + 1}
           base == [j \in D |-> 0]
           next == [j \in D \ stop |-> j + 1]
           step == [j \in D |-> [t \in Nat |-> Low(buf[j]) + 128 * t]]
<1>1. PICK f : Follows(f, D, Nat, stop, base, next, step)
  <2>1. mu \in [D -> Nat] /\ \A j \in D \cap stop : base[j] \in Nat
    OBVIOUS
  <2>2. next \in [D \ stop -> D]
    OBVIOUS
  <2>3. \A j \in D \ stop : mu[next[j]] < mu[j]
    OBVIOUS
  <2>4. \A j \in D \ stop : \A t \in Nat : step[j][t] \in Nat
    <3> SUFFICES ASSUME NEW j \in D \ stop, NEW t \in Nat PROVE Low(buf[j]) + 128 * t \in Nat
      OBVIOUS
    <3>1. buf[j] \in Nat
      OBVIOUS
    <3>2. Low(buf[j]) \in Nat
      BY <3>1, LowIs
    <3> QED BY <3>2
  <2> HIDE DEF D, mu, stop, base, next, step
  <2>5. Recursive(D, mu, Nat, stop, base, next, step)
    BY <2>1, <2>2, <2>3, <2>4 DEF Recursive
  <2> QED BY <2>5, Recursion
<1>2. \A j \in D : j \in stop <=> j > end
  OBVIOUS
<1>3. \A j \in D : /\ base[j] = 0
                   /\ j \notin stop => next[j] = j + 1
                   /\ \A t \in Nat : step[j][t] = Low(buf[j]) + 128 * t
  OBVIOUS
<1> HIDE DEF stop, base, next, step
<1>4. \A j \in D : f[j] = IF j > end THEN 0 ELSE Low(buf[j]) + 128 * f[j + 1]
  <2> TAKE j \in D
  <2>1. CASE j > end
    BY <1>1, <1>2, <1>3, <2>1 DEF Follows
  <2>2. CASE ~(j > end)
    <3>1. j \notin stop /\ next[j] = j + 1 /\ \A t \in Nat : step[j][t] = Low(buf[j]) + 128 * t
      BY <1>2, <1>3, <2>2
    <3> HIDE DEF D
    <3>2. f[j + 1] \in Nat /\ f[j] = step[j][f[j + 1]]
      BY <1>1, <3>1 DEF Follows
    <3> QED BY <2>2, <3>1, <3>2
  <2> QED BY <2>1, <2>2
<1>5. f \in [D -> Nat]
  BY <1>1 DEF Follows
<1>6. Summing(f, buf, i, end)
  <2> HIDE DEF D
  <2>1. f = [j \in D |-> f[j]]
    BY <1>5
  <2>2. f = [j \in D |-> IF j > end THEN 0 ELSE Low(buf[j]) + 128 * f[j + 1]]
    BY <1>4, <2>1, Zenon
  <2> QED BY <2>2 DEF Summing, D
<1> QED BY <1>5, <1>6

\* Two such sums agree wherever both are defined.
LEMMA SummingAgrees ==
  ASSUME NEW buf, NEW i \in Nat, NEW k \in Nat, NEW end \in Nat, i <= k,
         NEW f, Summing(f, buf, i, end), NEW g, Summing(g, buf, k, end)
  PROVE  \A j \in k..(end + 1) : f[j] = g[j]
<1> DEFINE D == k..(end + 1)
           mu == [j \in D |-> end + 1 - j]
           P == {j \in D : f[j] = g[j]}
<1>1. ASSUME NEW j \in D, \A e \in D : mu[e] < mu[j] => e \in P PROVE j \in P
  <2>1. j \in i..(end + 1) /\ j \in k..(end + 1)
    OBVIOUS
  <2>2. f[j] = (IF j > end THEN 0 ELSE Low(buf[j]) + 128 * f[j + 1])
    BY <2>1 DEF Summing
  <2>3. g[j] = (IF j > end THEN 0 ELSE Low(buf[j]) + 128 * g[j + 1])
    BY <2>1 DEF Summing
  <2>4. CASE j > end
    BY <2>2, <2>3, <2>4
  <2>5. CASE ~(j > end)
    <3>1. j + 1 \in D /\ mu[j + 1] < mu[j]
      BY <2>5
    <3>2. f[j + 1] = g[j + 1]
      BY <1>1, <3>1
    <3> QED BY <2>2, <2>3, <2>5, <3>2
  <2> QED BY <2>4, <2>5
<1>2. mu \in [D -> Nat]
  OBVIOUS
<1> HIDE DEF D, mu, P
<1>3. D \subseteq P
  BY <1>1, <1>2, Descent
<1> QED BY <1>3 DEF D, P

\* The number from i on, by its first byte.
LEMMA NumberIs ==
  ASSUME NEW buf, NEW i \in Nat, NEW k \in Nat, k = i + 1, NEW end \in Nat, i <= end + 1,
         \A j \in i..end : buf[j] \in Nat
  PROVE  /\ Number(buf, i, end) \in Nat
         /\ i > end => Number(buf, i, end) = 0
         /\ ~(i > end) => Number(buf, i, end) = Low(buf[i]) + 128 * Number(buf, k, end)
<1> DEFINE f == CHOOSE h : Summing(h, buf, i, end)
           g == CHOOSE h : Summing(h, buf, k, end)
<1>1. PICK h \in [i..(end + 1) -> Nat] : Summing(h, buf, i, end)
  BY SummingExists
<1>2. Summing(f, buf, i, end)
  BY <1>1
<1>3. Number(buf, i, end) = f[i] /\ Number(buf, k, end) = g[k]
  BY DEF Number
<1>4. Summing(g, buf, k, end)
  <2>1. \E x \in [k..(end + 1) -> Nat] : Summing(x, buf, k, end)
    <3>1. \A j \in k..end : buf[j] \in Nat
      OBVIOUS
    <3> QED BY <3>1, SummingExists
  <2> QED BY <2>1
<1> HIDE DEF f, g
<1>5. f[i] = h[i] /\ h[i] \in Nat
  <2>1. i \in i..(end + 1) /\ i <= i
    OBVIOUS
  <2>2. \A j \in i..(end + 1) : f[j] = h[j]
    BY <1>1, <1>2, <2>1, SummingAgrees
  <2> QED BY <2>1, <2>2
<1>6. f[i] = IF i > end THEN 0 ELSE Low(buf[i]) + 128 * f[k]
  BY <1>2 DEF Summing
<1>7. ~(i > end) => f[k] = g[k]
  <2>1. i <= k
    OBVIOUS
  <2>2. \A j \in k..(end + 1) : f[j] = g[j]
    <3>1. i \in Nat /\ k \in Nat /\ end \in Nat
      OBVIOUS
    <3>2. \A m \in Nat : i <= m /\ Summing(g, buf, m, end) => \A j \in m..(end + 1) : f[j] = g[j]
      BY <1>2, SummingAgrees
    <3> QED BY <1>4, <2>1, <3>1, <3>2
  <2>3. ~(i > end) => k \in k..(end + 1)
    OBVIOUS
  <2> QED BY <2>2, <2>3
<1> QED BY <1>3, <1>5, <1>6, <1>7

\* Reading a number byte by byte: a message that is at its end has none, a byte
\* below 128 is the last one, and any other goes on.
LEMMA ReadVarintSteps ==
  ASSUME NEW buf \in Seq(Nat), NEW i \in 1..(Len(buf) + 1)
  PROVE  /\ ReadVarint(buf, i).value \in Nat /\ ReadVarint(buf, i).next \in Nat
         /\ ReadVarint(buf, i) = [value |-> ReadVarint(buf, i).value, next |-> ReadVarint(buf, i).next]
         /\ i = Len(buf) + 1 => ReadVarint(buf, i).next = i
         /\ i <= Len(buf) /\ buf[i] < 128 =>
              ReadVarint(buf, i).value = buf[i] /\ ReadVarint(buf, i).next = i + 1
         /\ i <= Len(buf) /\ ~(buf[i] < 128) =>
              /\ ReadVarint(buf, i).value = Low(buf[i]) + 128 * ReadVarint(buf, i + 1).value
              /\ ReadVarint(buf, i).next = ReadVarint(buf, i + 1).next
<1> DEFINE n == Len(buf)
           e == LastByte(buf, i)
<1>1. n \in Nat /\ i \in Nat /\ \A j \in 1..n : buf[j] \in Nat
  OBVIOUS
<1>2. /\ ReadVarint(buf, i).value = Number(buf, i, e) /\ ReadVarint(buf, i).next = e + 1
      /\ ReadVarint(buf, i) = [value |-> ReadVarint(buf, i).value, next |-> ReadVarint(buf, i).next]
  BY ReadVarintIs
<1>3. /\ Ends(buf, i) = {} => e = n
      /\ Ends(buf, i) # {} => e \in Ends(buf, i) /\ \A k \in Ends(buf, i) : e <= k
  <2>1. Ends(buf, i) \in SUBSET Nat
    BY <1>1 DEF Ends
  <2>2. Ends(buf, i) # {} => \E j \in Ends(buf, i) : \A k \in Ends(buf, i) : j <= k
    BY <2>1, LeastElement
  <2> QED BY <2>2 DEF LastByte
<1>4. e \in Nat /\ e <= n /\ i <= e + 1
  BY <1>1, <1>3 DEF Ends
<1> HIDE DEF e
<1> DEFINE k == i + 1
<1>5. /\ Number(buf, i, e) \in Nat
      /\ i > e => Number(buf, i, e) = 0
      /\ ~(i > e) => Number(buf, i, e) = Low(buf[i]) + 128 * Number(buf, k, e)
  <2>1. \A j \in i..e : buf[j] \in Nat
    BY <1>1, <1>4
  <2>2. k \in Nat /\ k = i + 1
    BY <1>1
  <2> HIDE DEF k, n
  <2> QED BY <1>1, <1>4, <2>1, <2>2, NumberIs
<1>6. CASE i = n + 1
  <2>1. Ends(buf, i) = {}
    BY <1>1, <1>6 DEF Ends
  <2> QED BY <1>2, <1>3, <1>4, <1>5, <1>6, <2>1
<1>7. CASE i <= n /\ buf[i] < 128
  <2>1. i \in Ends(buf, i)
    BY <1>1, <1>7 DEF Ends
  <2>2. e = i
    BY <1>1, <1>3, <1>4, <2>1 DEF Ends
  <2>3. Number(buf, i + 1, e) = 0
    <3>1. i + 1 \in Nat /\ i + 1 <= e + 1 /\ i + 1 > e /\ \A j \in (i + 1)..e : buf[j] \in Nat
      BY <1>1, <2>2
    <3> QED BY <1>4, <3>1, NumberIs
  <2>4. Low(buf[i]) = buf[i]
    <3>1. buf[i] \in Nat
      BY <1>1, <1>7
    <3> QED BY <1>7, <3>1, LowIs
  <2>5. Number(buf, i, e) = buf[i] /\ buf[i] \in Nat
    <3>1. buf[i] \in Nat
      BY <1>1, <1>7
    <3> QED BY <1>1, <1>5, <2>2, <2>3, <2>4, <3>1
  <2> QED BY <1>1, <1>2, <1>7, <2>2, <2>5
<1>8. CASE i <= n /\ ~(buf[i] < 128)
  <2>1. Ends(buf, i) = Ends(buf, i + 1)
    BY <1>1, <1>8 DEF Ends
  <2>2. LastByte(buf, i + 1) = e
    BY <2>1 DEF LastByte, e
  <2>3. i <= e
    BY <1>1, <1>3, <1>8, <2>1 DEF Ends
  <2>4. ReadVarint(buf, i + 1).value = Number(buf, i + 1, e) /\ ReadVarint(buf, i + 1).next = e + 1
    BY <2>2, ReadVarintIs
  <2>5. Number(buf, i, e) = Low(buf[i]) + 128 * Number(buf, i + 1, e)
    BY <1>1, <1>4, <1>5, <2>3
  <2>6. Number(buf, i, e) \in Nat /\ e + 1 \in Nat
    BY <1>4, <1>5
  <2> QED BY <1>1, <1>2, <1>8, <2>4, <2>5, <2>6
<1>9. i = n + 1 \/ i <= n
  BY <1>1
<1> QED BY <1>6, <1>7, <1>8, <1>9

\* The bytes of s stand in buf from i on, as far as the message goes.
Holds(buf, i, s) == \A k \in 1..Len(s) : i + k - 1 <= Len(buf) => buf[i + k - 1] = s[k]
\* Read as the number n, from i on, unless the message ends before.
Reads(buf, i, n) ==
  IF i + Len(Varint(n)) <= Len(buf) + 1
  THEN ReadVarint(buf, i).value = n /\ ReadVarint(buf, i).next = i + Len(Varint(n))
  ELSE ReadVarint(buf, i).next = Len(buf) + 1

\* A number is read back wherever it stands; cut short, it ends the message.
LEMMA VarintRead ==
  ASSUME NEW buf \in Seq(Nat)
  PROVE  \A n \in Nat : \A i \in 1..(Len(buf) + 1) : Holds(buf, i, Varint(n)) => Reads(buf, i, n)
<1> DEFINE P == {n \in Nat : \A i \in 1..(Len(buf) + 1) : Holds(buf, i, Varint(n)) => Reads(buf, i, n)}
           id == [n \in Nat |-> n]
<1>0. Len(buf) \in Nat /\ \A j \in 1..Len(buf) : buf[j] \in Nat
  OBVIOUS
<1>1. ASSUME NEW n \in Nat, \A e \in Nat : id[e] < id[n] => e \in P PROVE n \in P
  <2> SUFFICES ASSUME NEW i \in 1..(Len(buf) + 1), Holds(buf, i, Varint(n)) PROVE Reads(buf, i, n)
    OBVIOUS
  <2> HIDE DEF P
  <2> DEFINE L == Len(Varint(n))
             h == Above(n)
             M == Len(Varint(h))
             x == ReadVarint(buf, i)
             y == ReadVarint(buf, i + 1)
  <2>1. L \in Nat \ {0} /\ h \in Nat /\ M \in Nat \ {0} /\ Varint(n) \in Seq(Nat)
    BY VarintBytes, MarkAbove
  <2>7. /\ n < 128 => L = 1 /\ Varint(n)[1] = n
        /\ n >= 128 => /\ L = 1 + M /\ Varint(n)[1] = Mark(n)
                       /\ \A j \in 1..M : Varint(n)[j + 1] = Varint(h)[j]
    BY VarintBytes
  <2>2. i \in Nat /\ i <= Len(buf) => Varint(n)[1] = buf[i]
    <3>1. 1 \in 1..L /\ i + 1 - 1 = i
      BY <1>0, <2>1
    <3> QED BY <3>1 DEF Holds
  <2>3. CASE i = Len(buf) + 1
    <3>1. x.next = i
      BY <2>3, ReadVarintSteps
    <3>2. ~(i + L <= Len(buf) + 1)
      BY <1>0, <2>1, <2>3
    <3> QED BY <2>3, <3>1, <3>2 DEF Reads
  <2>4. CASE i <= Len(buf) /\ n < 128
    <3>1. buf[i] = n /\ L = 1
      <4> HIDE DEF L
      <4> QED BY <1>0, <2>2, <2>4, <2>7
    <3>2. x.value = n /\ x.next = i + 1
      BY <2>4, <3>1, ReadVarintSteps
    <3> QED BY <1>0, <2>4, <3>1, <3>2 DEF Reads
  <2>5. CASE i <= Len(buf) /\ ~(n < 128)
    <3>1. n >= 128 /\ h < n /\ i + 1 \in 1..(Len(buf) + 1)
      BY <1>0, <2>5, MarkAbove
    <3>2. /\ L = 1 + M /\ buf[i] = Mark(n)
          /\ \A j \in 1..M : Varint(n)[j + 1] = Varint(h)[j]
      <4> HIDE DEF L, M, h
      <4> QED BY <1>0, <2>2, <2>5, <2>7, <3>1
    <3>3. Holds(buf, i + 1, Varint(h))
      <4> SUFFICES ASSUME NEW k \in 1..M, i + 1 + k - 1 <= Len(buf)
                   PROVE  buf[i + 1 + k - 1] = Varint(h)[k]
        BY DEF Holds
      <4>1. k + 1 \in 1..L /\ i + (k + 1) - 1 = i + 1 + k - 1
        BY <1>0, <2>1, <3>2
      <4>2. buf[i + (k + 1) - 1] = Varint(n)[k + 1]
        BY <4>1 DEF Holds
      <4> QED BY <3>2, <4>1, <4>2
    <3>4. Reads(buf, i + 1, h)
      <4>1. h \in P
        BY <1>1, <2>1, <3>1
      <4> QED BY <3>1, <3>3, <4>1 DEF P
    <3>5. x.value = Low(buf[i]) + 128 * y.value /\ x.next = y.next
      <4>1. ~(buf[i] < 128)
        BY <3>2, MarkAbove
      <4>2. /\ x.value = (buf[i] % 128) + 128 * y.value /\ x.next = y.next
        BY <2>5, <4>1, ReadVarintSteps DEF Low
      <4> QED BY <4>2 DEF Low
    <3>6. CASE i + 1 + M <= Len(buf) + 1
      <4>1. y.value = h /\ y.next = i + 1 + M
        BY <3>4, <3>6 DEF Reads
      <4>2. n = 128 * h + Low(Mark(n))
        BY MarkAbove
      <4>3. Low(Mark(n)) \in Nat
        BY MarkAbove
      <4>4. x.value = n
        <5> HIDE DEF h, x, y
        <5> QED BY <2>1, <3>2, <3>5, <4>1, <4>2, <4>3
      <4>5. x.next = i + L /\ i + L <= Len(buf) + 1
        BY <1>0, <2>1, <3>2, <3>5, <3>6, <4>1
      <4> QED BY <4>4, <4>5 DEF Reads
    <3>7. CASE ~(i + 1 + M <= Len(buf) + 1)
      <4>1. y.next = Len(buf) + 1
        BY <3>4, <3>7 DEF Reads
      <4>2. ~(i + L <= Len(buf) + 1)
        BY <1>0, <2>1, <3>2, <3>7
      <4> QED BY <3>5, <4>1, <4>2 DEF Reads
    <3> QED BY <3>6, <3>7
  <2>6. i = Len(buf) + 1 \/ (i <= Len(buf) /\ (n < 128 \/ ~(n < 128)))
    BY <1>0
  <2> QED BY <2>3, <2>4, <2>5, <2>6
<1>2. id \in [Nat -> Nat]
  OBVIOUS
<1> HIDE DEF P, id
<1>3. Nat \subseteq P
  BY <1>1, <1>2, Descent
<1> QED BY <1>3 DEF P

-----------------------------------------------------------------------------
(***************************************************************************)
(* Fields.                                                                 *)
(***************************************************************************)

\* The fields that can be written, and the three pieces of one: its tag, its number
\* or its length, and its bytes.
WireField == [num : Nat, wire : {0}, value : Nat] \cup [num : Nat, wire : {2}, value : Seq(Nat)]
Tag(f) == 8 * f.num + f.wire
Size(f) == IF f.wire = 0 THEN f.value ELSE Len(f.value)
Data(f) == IF f.wire = 0 THEN <<>> ELSE f.value

\* What a tag says.
Wire(v) == v % 8
Num(v) == v \div 8

\* A tag gives back the number of its field and its wire type.
LEMMA TagSays ==
  /\ \A f \in WireField : /\ Tag(f) \in Nat /\ Size(f) \in Nat /\ Data(f) \in Seq(Nat)
                          /\ Wire(Tag(f)) = f.wire /\ Num(Tag(f)) = f.num
  /\ \A v \in Nat : Wire(v) \in Nat /\ Num(v) \in Nat
<1>1. \A v \in Nat : Wire(v) \in Nat /\ Num(v) \in Nat
  BY DEF Wire, Num
<1>2. ASSUME NEW f \in WireField
      PROVE  /\ Tag(f) \in Nat /\ Size(f) \in Nat /\ Data(f) \in Seq(Nat)
             /\ Wire(Tag(f)) = f.wire /\ Num(Tag(f)) = f.num
  <2>1. f.num \in Nat /\ f.wire \in {0, 2}
    BY DEF WireField
  <2>2. Size(f) \in Nat /\ Data(f) \in Seq(Nat)
    BY DEF WireField, Size, Data
  <2>3. \A n \in Nat : \A w \in {0, 2} : Wire(8 * n + w) = w /\ Num(8 * n + w) = n
    BY DEF Wire, Num
  <2>4. Tag(f) = 8 * f.num + f.wire /\ Tag(f) \in Nat
    BY <2>1 DEF Tag
  <2>5. Wire(Tag(f)) = f.wire /\ Num(Tag(f)) = f.num
    BY <2>1, <2>3, <2>4
  <2> QED BY <2>2, <2>4, <2>5
<1> QED BY <1>1, <1>2

\* A written field: its tag, its value or length, its bytes.
LEMMA WrittenIs ==
  ASSUME NEW f \in WireField
  PROVE  /\ Written(f) = (Varint(Tag(f)) \o Varint(Size(f))) \o Data(f)
         /\ Written(f) \in Seq(Nat)
         /\ Len(Written(f)) = Len(Varint(Tag(f))) + Len(Varint(Size(f))) + Len(Data(f))
<1> DEFINE t == Varint(Tag(f))
           s == Varint(Size(f))
<1>1. t \in Seq(Nat) /\ s \in Seq(Nat) /\ Data(f) \in Seq(Nat)
  BY TagSays, VarintIs
<1>2. Written(f) = (t \o s) \o Data(f)
  <2>1. CASE f.wire = 0
    <3>1. Written(f) = t \o s
      <4>1. 8 * f.num + 0 = 8 * f.num
        BY DEF WireField
      <4> QED BY <2>1, <4>1 DEF Written, VarintField, Tag, Size
    <3>2. Data(f) = <<>>
      BY <2>1 DEF Data
    <3> HIDE DEF t, s
    <3> QED BY <1>1, <3>1, <3>2
  <2>2. CASE f.wire = 2
    <3>1. Written(f) = t \o s \o f.value
      BY <2>2 DEF Written, BytesField, Tag, Size
    <3> QED BY <2>2, <3>1 DEF Data
  <2> QED BY <2>1, <2>2 DEF WireField
<1> HIDE DEF t, s
<1>3. Len(t) \in Nat /\ Len(s) \in Nat /\ Len(Data(f)) \in Nat
  BY <1>1
<1> QED BY <1>1, <1>2, <1>3 DEF t, s

\* A sequence of two parts stands where the one does and the other behind it.
LEMMA HoldsParts ==
  ASSUME NEW buf \in Seq(Nat), NEW i \in Nat \ {0}, NEW s \in Seq(Nat), NEW t \in Seq(Nat),
         Holds(buf, i, s \o t)
  PROVE  Holds(buf, i, s) /\ Holds(buf, i + Len(s), t)
<1>1. Len(s) \in Nat /\ Len(t) \in Nat /\ Len(s \o t) = Len(s) + Len(t) /\ Len(buf) \in Nat
  OBVIOUS
<1>2. Holds(buf, i, s)
  <2> SUFFICES ASSUME NEW k \in 1..Len(s), i + k - 1 <= Len(buf) PROVE buf[i + k - 1] = s[k]
    BY DEF Holds
  <2>1. k \in 1..Len(s \o t) /\ (s \o t)[k] = s[k]
    BY <1>1
  <2> QED BY <2>1 DEF Holds
<1>3. Holds(buf, i + Len(s), t)
  <2> SUFFICES ASSUME NEW k \in 1..Len(t), i + Len(s) + k - 1 <= Len(buf)
               PROVE  buf[i + Len(s) + k - 1] = t[k]
    BY DEF Holds
  <2>1. Len(s) + k \in 1..Len(s \o t) /\ (s \o t)[Len(s) + k] = t[k]
    BY <1>1
  <2>2. i + (Len(s) + k) - 1 = i + Len(s) + k - 1
    BY <1>1
  <2>3. buf[i + (Len(s) + k) - 1] = (s \o t)[Len(s) + k]
    BY <2>1, <2>2 DEF Holds
  <2> QED BY <2>1, <2>2, <2>3
<1> QED BY <1>2, <1>3

\* One turn of a reader: the tag, then what the tag announces.
LEMMA ReadFieldIs ==
  ASSUME NEW buf, NEW i, NEW tag, tag = ReadVarint(buf, i), NEW len, len = ReadVarint(buf, tag.next)
  PROVE  /\ ReadField(buf, i).num = Num(tag.value) /\ ReadField(buf, i).wire = Wire(tag.value)
         /\ Wire(tag.value) = 0 =>
              ReadField(buf, i).value = len.value /\ ReadField(buf, i).next = len.next
         /\ Wire(tag.value) = 2 =>
              ReadField(buf, i).value = Piece(buf, len).value /\ ReadField(buf, i).next = len.next + len.value
         /\ Wire(tag.value) \notin {0, 2} =>
              ReadField(buf, i).next = tag.next + FixedWidth(Wire(tag.value))
<1> DEFINE w == Wire(tag.value)
           body == CASE w = 0 -> len
                     [] w = 2 -> Piece(buf, len)
                     [] OTHER -> [value |-> 0, next |-> tag.next + FixedWidth(w)]
<1>1. ReadField(buf, i) = [num |-> Num(tag.value), wire |-> w, value |-> body.value, next |-> body.next]
  BY DEF ReadField, ReadBytes, Num, Wire
<1> HIDE DEF w
<1>2. w = 0 => body = len
  OBVIOUS
<1>3. w = 2 => body = Piece(buf, len)
  OBVIOUS
<1>4. w \notin {0, 2} => body.next = tag.next + FixedWidth(w)
  OBVIOUS
<1>5. Piece(buf, len).next = len.next + len.value
  BY DEF Piece
<1> HIDE DEF body
<1> QED BY <1>1, <1>2, <1>3, <1>4, <1>5 DEF w

\* The three parts of a written field, and how long they are.
LEMMA PieceIs ==
  ASSUME NEW buf \in Seq(Nat), NEW len, len.next \in 1..(Len(buf) + 1), len.value \in Nat
  PROVE  /\ Piece(buf, len).value \in Seq(Nat)
         /\ \A d \in Seq(Nat) : /\ Len(d) = len.value /\ Holds(buf, len.next, d)
                                /\ len.next + Len(d) <= Len(buf) + 1
                                => Piece(buf, len).value = d
<1> DEFINE n == Len(buf)
           a == len.next
           v == len.value
           e == IF a + v - 1 > n THEN n ELSE a + v - 1
           p == SubSeq(buf, a, e)
<1>1. n \in Nat /\ a \in Nat \ {0} /\ a <= n + 1 /\ v \in Nat /\ \A j \in 1..n : buf[j] \in Nat
  OBVIOUS
<1>2. Piece(buf, len).value = p
  BY DEF Piece
<1>3. e \in Int /\ a \in Int /\ e <= n
  BY <1>1
<1>4. \A j \in a..e : buf[j] \in Nat
  BY <1>1, <1>3
<1>5. ASSUME NEW d \in Seq(Nat), Len(d) = v, Holds(buf, a, d), a + Len(d) <= n + 1
      PROVE  p = d
  <2>1. e = a + v - 1
    BY <1>1, <1>5
  <2> HIDE DEF e, a, v, n
  <2>2. p \in Seq(Nat) /\ Len(p) = (IF a <= e THEN e - a + 1 ELSE 0)
        /\ \A j \in 1..(e - a + 1) : p[j] = buf[a + j - 1]
    BY <1>3, <1>4, SubSeqProperties
  <2>3. Len(p) = v
    BY <1>1, <1>3, <2>1, <2>2
  <2>4. \A j \in 1..Len(p) : p[j] = d[j]
    <3> SUFFICES ASSUME NEW j \in 1..Len(p) PROVE p[j] = d[j]
      OBVIOUS
    <3>1. j \in 1..(e - a + 1) /\ j \in 1..Len(d) /\ a + j - 1 <= n
      BY <1>1, <1>5, <2>1, <2>3
    <3>2. p[j] = buf[a + j - 1]
      BY <2>2, <3>1
    <3>3. buf[a + j - 1] = d[j]
      BY <1>5, <3>1 DEF Holds, n
    <3> QED BY <3>2, <3>3
  <2> HIDE DEF p
  <2> QED BY <1>5, <2>2, <2>3, <2>4, SeqEqual
<1>6. p \in Seq(Nat)
  <2> HIDE DEF e, a, v, n
  <2> QED BY <1>3, <1>4, SubSeqProperties
<1> HIDE DEF p
<1> QED BY <1>2, <1>5, <1>6

\* A reader gets on, and what it finds is a field.
LEMMA ReadFieldSteps ==
  ASSUME NEW buf \in Seq(Nat), NEW i \in 1..Len(buf)
  PROVE  /\ ReadField(buf, i).next \in Nat /\ ReadField(buf, i).next > i
         /\ ReadField(buf, i).wire \in {0, 2} => Field(ReadField(buf, i)) \in WireField
<1> DEFINE tag == ReadVarint(buf, i)
           len == ReadVarint(buf, tag.next)
           w == Wire(tag.value)
           r == ReadField(buf, i)
<1>0. Len(buf) \in Nat /\ i \in 1..(Len(buf) + 1) /\ i \in Nat /\ \A j \in 1..Len(buf) : buf[j] \in Nat
  OBVIOUS
<1>a. \A j \in 1..(Len(buf) + 1) : ReadVarint(buf, j).value \in Nat /\ ReadVarint(buf, j).next \in Nat
                                   /\ ReadVarint(buf, j).next <= Len(buf) + 1
                                   /\ j <= ReadVarint(buf, j).next
                                   /\ (j <= Len(buf) => j < ReadVarint(buf, j).next)
  <2> DEFINE D == 1..(Len(buf) + 1)
             mu == [j \in D |-> Len(buf) + 1 - j]
             x(j) == ReadVarint(buf, j)
             P == {j \in D : /\ x(j).value \in Nat /\ x(j).next \in Nat /\ x(j).next <= Len(buf) + 1
                             /\ j <= x(j).next /\ (j <= Len(buf) => j < x(j).next)}
  <2>1. ASSUME NEW j \in D, \A e \in D : mu[e] < mu[j] => e \in P PROVE j \in P
    <3>1. CASE j = Len(buf) + 1
      BY <1>0, <3>1, ReadVarintSteps
    <3>2. CASE j <= Len(buf) /\ buf[j] < 128
      BY <1>0, <3>2, ReadVarintSteps
    <3>3. CASE j <= Len(buf) /\ ~(buf[j] < 128)
      <4>1. j + 1 \in D /\ mu[j + 1] < mu[j]
        BY <1>0, <3>3
      <4>2. j + 1 \in P
        BY <2>1, <4>1
      <4>3. x(j).next = x(j + 1).next /\ x(j).value \in Nat
        BY <3>3, ReadVarintSteps
      <4> HIDE DEF x, mu
      <4> QED BY <1>0, <4>2, <4>3
    <3> QED BY <1>0, <3>1, <3>2, <3>3
  <2>2. mu \in [D -> Nat]
    BY <1>0
  <2> HIDE DEF D, mu, P
  <2>3. D \subseteq P
    BY <2>1, <2>2, Descent
  <2> QED BY <2>3 DEF D, P
<1>1. tag.value \in Nat /\ tag.next \in 1..(Len(buf) + 1) /\ i < tag.next
  <2> HIDE DEF tag
  <2> QED BY <1>0, <1>a DEF tag
<1>2. len.value \in Nat /\ len.next \in 1..(Len(buf) + 1) /\ i < len.next
  <2> HIDE DEF tag, len
  <2> QED BY <1>0, <1>1, <1>a DEF len
<1>3. /\ r.num = Num(tag.value) /\ r.wire = w
      /\ w = 0 => r.value = len.value /\ r.next = len.next
      /\ w = 2 => r.value = Piece(buf, len).value /\ r.next = len.next + len.value
      /\ w \notin {0, 2} => r.next = tag.next + FixedWidth(w)
  BY ReadFieldIs
<1>4. FixedWidth(w) \in Nat /\ Num(tag.value) \in Nat
  BY <1>1, TagSays DEF FixedWidth
<1>5. Piece(buf, len).value \in Seq(Nat)
  BY <1>2, PieceIs
<1> HIDE DEF r, w, tag, len
<1>6. r.next \in Nat /\ r.next > i
  <2>1. CASE w = 0
    BY <1>2, <1>3, <2>1
  <2>2. CASE w = 2
    <3>1. r.next = len.next + len.value
      BY <1>3, <2>2
    <3> QED BY <1>0, <1>2, <3>1
  <2>3. CASE w \notin {0, 2}
    <3>1. r.next = tag.next + FixedWidth(w)
      BY <1>3, <2>3
    <3> QED BY <1>0, <1>1, <1>4, <3>1
  <2> QED BY <2>1, <2>2, <2>3
<1>7. r.wire \in {0, 2} => Field(r) \in WireField
  BY <1>2, <1>3, <1>4, <1>5 DEF Field, WireField
<1> QED BY <1>6, <1>7 DEF r

\* A field is read back wherever it stands; cut short, it is the last one.
LEMMA FieldRead ==
  ASSUME NEW buf \in Seq(Nat), NEW i \in 1..Len(buf), NEW f \in WireField, Holds(buf, i, Written(f))
  PROVE  IF i + Len(Written(f)) <= Len(buf) + 1
         THEN /\ Field(ReadField(buf, i)) = f /\ ReadField(buf, i).wire = f.wire
              /\ ReadField(buf, i).next = i + Len(Written(f))
         ELSE ReadField(buf, i).next > Len(buf)
<1> DEFINE tag == ReadVarint(buf, i)
           len == ReadVarint(buf, tag.next)
           r == ReadField(buf, i)
           s == Varint(Tag(f))
           t == Varint(Size(f))
           d == Data(f)
           n == Len(buf)
           w == Wire(tag.value)
<1>1. /\ Tag(f) \in Nat /\ Size(f) \in Nat /\ Wire(Tag(f)) = f.wire /\ Num(Tag(f)) = f.num
      /\ s \in Seq(Nat) /\ t \in Seq(Nat) /\ d \in Seq(Nat) /\ n \in Nat
  <2>1. /\ Tag(f) \in Nat /\ Size(f) \in Nat /\ Wire(Tag(f)) = f.wire /\ Num(Tag(f)) = f.num
        /\ d \in Seq(Nat)
    BY TagSays
  <2>2. \A k \in Nat : Varint(k) \in Seq(Nat)
    BY VarintIs
  <2>3. s \in Seq(Nat) /\ t \in Seq(Nat)
    BY <2>1, <2>2
  <2>4. n \in Nat
    OBVIOUS
  <2> QED BY <2>1, <2>3, <2>4
<1>2. Written(f) = (s \o t) \o d /\ Len(Written(f)) = Len(s) + Len(t) + Len(d)
  BY WrittenIs
<1>3. Len(s) \in Nat \ {0} /\ Len(t) \in Nat \ {0} /\ Len(d) \in Nat /\ i \in Nat \ {0} /\ i <= n
  <2>1. Len(s) \in Nat \ {0}
    BY <1>1, VarintBytes
  <2>2. Len(t) \in Nat \ {0}
    BY <1>1, VarintBytes
  <2>3. i \in Nat \ {0} /\ i <= n
    OBVIOUS
  <2> HIDE DEF n, s, t, d
  <2> QED BY <1>1, <2>1, <2>2, <2>3
<1> HIDE DEF n
<1>4. Holds(buf, i, s) /\ Holds(buf, i + Len(s), t) /\ Holds(buf, i + Len(s) + Len(t), d)
  <2> HIDE DEF s, t, d
  <2>1. s \o t \in Seq(Nat) /\ Len(s \o t) = Len(s) + Len(t)
    BY <1>1
  <2>2. Holds(buf, i, s \o t) /\ Holds(buf, i + Len(s \o t), d)
    BY <1>1, <1>2, <1>3, <2>1, HoldsParts
  <2>3. Holds(buf, i, s) /\ Holds(buf, i + Len(s), t)
    BY <1>1, <1>3, <2>2, HoldsParts
  <2>4. i + Len(s \o t) = i + Len(s) + Len(t)
    BY <1>3, <2>1
  <2> QED BY <2>2, <2>3, <2>4
<1>5. /\ r.num = Num(tag.value) /\ r.wire = w
      /\ w = 0 => r.value = len.value /\ r.next = len.next
      /\ w = 2 => r.value = Piece(buf, len).value /\ r.next = len.next + len.value
      /\ w \notin {0, 2} => r.next = tag.next + FixedWidth(w)
  BY ReadFieldIs
<1>6. Reads(buf, i, Tag(f))
  BY <1>1, <1>3, <1>4, VarintRead DEF n
<1>7. tag.value \in Nat /\ FixedWidth(w) \in Nat
  <2>1. i \in 1..(Len(buf) + 1)
    BY <1>3 DEF n
  <2> QED BY <2>1, ReadVarintSteps DEF FixedWidth
<1> HIDE DEF r, s, t, d
<1>8. CASE ~(i + Len(s) <= n + 1)
  <2>1. tag.next = n + 1
    BY <1>6, <1>8 DEF Reads, n, s
  <2>2. n + 1 \in 1..(Len(buf) + 1)
    BY <1>1 DEF n
  <2>3. len.next = n + 1 /\ len.value \in Nat
    <3>1. ReadVarint(buf, n + 1).next = n + 1 /\ ReadVarint(buf, n + 1).value \in Nat
      BY <2>2, ReadVarintSteps DEF n
    <3> QED BY <2>1, <3>1
  <2> HIDE DEF tag, len, w
  <2>4. r.next > n
    <3>1. CASE w = 0
      BY <1>1, <1>5, <2>3, <3>1
    <3>2. CASE w = 2
      <4>1. r.next = len.next + len.value
        BY <1>5, <3>2
      <4> QED BY <1>1, <2>3, <4>1
    <3>3. CASE w \notin {0, 2}
      <4>1. r.next = tag.next + FixedWidth(w)
        BY <1>5, <3>3
      <4> QED BY <1>1, <1>7, <2>1, <4>1
    <3> QED BY <3>1, <3>2, <3>3
  <2>5. ~(i + Len(Written(f)) <= n + 1)
    BY <1>1, <1>2, <1>3, <1>8
  <2> QED BY <2>4, <2>5 DEF r, n
<1>9. CASE i + Len(s) <= n + 1
  <2>1. tag.value = Tag(f) /\ tag.next = i + Len(s) /\ w = f.wire
    BY <1>1, <1>6, <1>9 DEF Reads, n, s
  <2>2. i + Len(s) \in 1..(n + 1)
    BY <1>1, <1>3, <1>9
  <2>3. Reads(buf, i + Len(s), Size(f)) /\ len = ReadVarint(buf, i + Len(s))
    BY <1>1, <1>4, <2>1, <2>2, VarintRead DEF n, t
  <2>4. len.value \in Nat
    BY <2>2, <2>3, ReadVarintSteps DEF n
  <2>5. f.wire \in {0, 2}
    BY DEF WireField
  <2> HIDE DEF tag, w
  <2>6. CASE ~(i + Len(s) + Len(t) <= n + 1)
    <3>1. len.next = n + 1
      BY <2>3, <2>6 DEF Reads, n, t
    <3> HIDE DEF len
    <3>2. r.next > n
      <4>1. CASE f.wire = 0
        BY <1>1, <1>5, <2>1, <3>1, <4>1
      <4>2. CASE f.wire = 2
        <5>1. r.next = len.next + len.value
          BY <1>5, <2>1, <4>2
        <5> QED BY <1>1, <2>4, <3>1, <5>1
      <4> QED BY <2>5, <4>1, <4>2
    <3>3. ~(i + Len(Written(f)) <= n + 1)
      BY <1>1, <1>2, <1>3, <2>6
    <3> QED BY <3>2, <3>3 DEF r, n
  <2>7. CASE i + Len(s) + Len(t) <= n + 1
    <3>1. len.value = Size(f) /\ len.next = i + Len(s) + Len(t)
      BY <2>3, <2>7 DEF Reads, n, t
    <3>2. len.next \in 1..(n + 1)
      BY <1>1, <1>3, <2>7, <3>1
    <3> HIDE DEF len
    <3>3. CASE f.wire = 0
      <4>1. Len(d) = 0 /\ Size(f) = f.value
        BY <3>3 DEF d, Data, Size
      <4>2. r.value = f.value /\ r.next = i + Len(Written(f)) /\ r.num = f.num /\ r.wire = f.wire
        BY <1>1, <1>2, <1>3, <1>5, <2>1, <3>1, <3>3, <4>1
      <4>3. Field(r) = f
        BY <3>3, <4>2 DEF Field, WireField
      <4>4. i + Len(Written(f)) <= n + 1
        BY <1>1, <1>2, <1>3, <2>7, <4>1
      <4> QED BY <4>2, <4>3, <4>4 DEF r, n
    <3>4. CASE f.wire = 2
      <4>1. d = f.value /\ Len(d) = Size(f)
        BY <3>4 DEF d, Data, Size
      <4>2. r.next = i + Len(Written(f)) /\ r.num = f.num /\ r.wire = f.wire
        BY <1>1, <1>2, <1>3, <1>5, <2>1, <3>1, <3>4, <4>1
      <4>3. CASE ~(i + Len(Written(f)) <= n + 1)
        <5>1. r.next > n
          BY <1>1, <1>2, <1>3, <4>2, <4>3
        <5> QED BY <4>3, <5>1 DEF r, n
      <4>4. CASE i + Len(Written(f)) <= n + 1
        <5>1. len.next + Len(d) <= n + 1
          BY <1>1, <1>2, <1>3, <3>1, <4>4
        <5>2. Holds(buf, len.next, d)
          BY <1>4, <3>1
        <5>3. Piece(buf, len).value = d
          BY <1>1, <2>4, <3>1, <3>2, <4>1, <5>1, <5>2, PieceIs DEF n
        <5>4. r.value = f.value
          BY <1>5, <2>1, <3>4, <4>1, <5>3
        <5>5. Field(r) = f
          BY <3>4, <4>2, <5>4 DEF Field, WireField
        <5> QED BY <4>2, <4>4, <5>5 DEF r, n
      <4> QED BY <4>3, <4>4
    <3> QED BY <2>5, <3>3, <3>4
  <2> QED BY <2>6, <2>7
<1> QED BY <1>8, <1>9

-----------------------------------------------------------------------------
(***************************************************************************)
(* Messages: a reader walks through the fields, one behind the other.      *)
(***************************************************************************)

\* from[i] is what a reader finds from i on.
Walks(from, buf, skips) ==
  \A i \in Nat \ {0} :
    /\ from[i] \in Seq(WireField)
    /\ i > Len(buf) => from[i] = <<>>
    /\ i <= Len(buf) =>
         IF ReadField(buf, i).wire \in {0, 2}
         THEN from[i] = <<Field(ReadField(buf, i))>> \o from[ReadField(buf, i).next]
         ELSE from[i] = IF skips THEN from[ReadField(buf, i).next] ELSE <<>>

\* The reader is such a walk through the message.
LEMMA ParsedWalks ==
  ASSUME NEW buf \in Seq(Nat), NEW skips \in BOOLEAN
  PROVE  \E from : Walks(from, buf, skips) /\ Parsed(buf, skips) = from[1]
<1> DEFINE D == Nat \ {0}
           r(i) == ReadField(buf, i)
           T == Seq(WireField)
           mu == [i \in D |-> IF i > Len(buf) THEN 0 ELSE Len(buf) + 1 - i]
           stop == {i \in D : i > Len(buf) \/ (r(i).wire \notin {0, 2} /\ ~skips)}
           head == [i \in D |-> IF r(i).wire \in {0, 2} THEN <<Field(r(i))>> ELSE <<>>]
           base == [i \in D |-> <<>>]
           next == [i \in D \ stop |-> r(i).next]
           step == [i \in D |-> [t \in T |-> head[i] \o t]]
           body(f, i) == IF r(i).wire \in {0, 2} THEN <<Field(r(i))>> \o f[r(i).next]
                         ELSE IF skips THEN f[r(i).next] ELSE <<>>
           eq(f) == f = [i \in D |-> IF i > Len(buf) THEN <<>> ELSE body(f, i)]
<1>0. Len(buf) \in Nat
  OBVIOUS
<1>1. \A i \in D : i <= Len(buf) => r(i).next \in D /\ r(i).next > i
                                   /\ (r(i).wire \in {0, 2} => Field(r(i)) \in WireField)
  <2> SUFFICES ASSUME NEW i \in D, i <= Len(buf)
               PROVE  r(i).next \in D /\ r(i).next > i /\ (r(i).wire \in {0, 2} => Field(r(i)) \in WireField)
    OBVIOUS
  <2>1. i \in 1..Len(buf)
    BY <1>0
  <2>2. r(i).next \in Nat /\ r(i).next > i /\ (r(i).wire \in {0, 2} => Field(r(i)) \in WireField)
    BY <2>1, ReadFieldSteps
  <2> HIDE DEF r
  <2> QED BY <2>1, <2>2
<1> HIDE DEF r
<1>2. \A i \in D \ stop : head[i] \in T
  <2> SUFFICES ASSUME NEW i \in D \ stop PROVE head[i] \in T
    OBVIOUS
  <2>1. i <= Len(buf)
    BY <1>0
  <2>2. <<>> \in T /\ \A x \in WireField : <<x>> \in T
    OBVIOUS
  <2> HIDE DEF T
  <2> QED BY <1>1, <2>1, <2>2 DEF r
<1>3. PICK f : Follows(f, D, T, stop, base, next, step)
  <2>1. mu \in [D -> Nat]
    BY <1>0
  <2>2. \A i \in D \cap stop : base[i] \in T
    OBVIOUS
  <2>3. \A i \in D \ stop : i <= Len(buf) /\ next[i] = r(i).next
    BY <1>0 DEF r
  <2>4. next \in [D \ stop -> D]
    <3>1. \A i \in D \ stop : r(i).next \in D
      BY <1>1, <2>3
    <3> HIDE DEF D, stop
    <3> QED BY <3>1
  <2>5. \A i \in D \ stop : mu[next[i]] < mu[i]
    <3> SUFFICES ASSUME NEW i \in D \ stop PROVE mu[next[i]] < mu[i]
      OBVIOUS
    <3>1. next[i] \in D /\ next[i] > i /\ i <= Len(buf) /\ i \in D
      BY <1>1, <2>3
    <3> HIDE DEF next
    <3> QED BY <1>0, <3>1
  <2>6. \A i \in D \ stop : \A t \in T : step[i][t] \in T
    <3> SUFFICES ASSUME NEW i \in D \ stop, NEW t \in T PROVE step[i][t] \in T
      OBVIOUS
    <3>1. step[i][t] = head[i] \o t /\ head[i] \in T
      BY <1>2
    <3> HIDE DEF step, head
    <3> QED BY <3>1
  <2> HIDE DEF D, T, mu, stop, base, next, step
  <2>7. Recursive(D, mu, T, stop, base, next, step)
    BY <2>1, <2>2, <2>4, <2>5, <2>6 DEF Recursive
  <2> QED BY <2>7, Recursion
<1>4. f \in [D -> T]
  <2> HIDE DEF D, T, stop, base, next, step
  <2> QED BY <1>3 DEF Follows
<1>5. eq(f)
  <2>1. \A i \in D : f[i] = IF i > Len(buf) THEN <<>> ELSE body(f, i)
    <3> SUFFICES ASSUME NEW i \in D PROVE f[i] = IF i > Len(buf) THEN <<>> ELSE body(f, i)
      OBVIOUS
    <3>1. CASE i \in stop
      <4>1. f[i] = <<>>
        <5>1. base[i] = <<>>
          OBVIOUS
        <5> HIDE DEF D, T, stop, base, next, step
        <5> QED BY <1>3, <3>1, <5>1 DEF Follows
      <4> QED BY <3>1, <4>1 DEF r
    <3>2. CASE i \notin stop
      <4>1. /\ ~(i > Len(buf)) /\ next[i] = r(i).next
            /\ \A t \in T : step[i][t] = head[i] \o t
        BY <3>2 DEF r
      <4>2. f[i] = head[i] \o f[r(i).next]
        <5> HIDE DEF D, T, stop, base, next, step, head
        <5> QED BY <1>3, <3>2, <4>1 DEF Follows
      <4>3. head[i] \o f[r(i).next] = body(f, i)
        <5>1. CASE r(i).wire \in {0, 2}
          BY <5>1
        <5>2. CASE r(i).wire \notin {0, 2}
          <6>1. skips /\ f[r(i).next] \in T /\ head[i] = <<>>
            <7>1. i <= Len(buf) /\ r(i).next \in D
              BY <1>0, <1>1, <4>1
            <7> QED BY <1>4, <3>2, <4>1, <5>2, <7>1
          <6> QED BY <5>2, <6>1
        <5> QED BY <5>1, <5>2
      <4> HIDE DEF body, head
      <4> QED BY <4>1, <4>2, <4>3
    <3> QED BY <3>1, <3>2
  <2>2. f = [i \in D |-> f[i]]
    BY <1>4
  <2> HIDE DEF D, body
  <2> QED BY <2>1, <2>2, Zenon
<1> DEFINE g == CHOOSE h : eq(h)
<1>6. eq(g) /\ Parsed(buf, skips) = g[1]
  <2>1. eq(g)
    BY <1>5
  <2>2. Parsed(buf, skips) = g[1]
    BY DEF Parsed, r
  <2> QED BY <2>1, <2>2
<1> HIDE DEF g, stop, base, next, step, head
<1>7. \A i \in D : g[i] = IF i > Len(buf) THEN <<>> ELSE body(g, i)
  BY <1>6
<1>8. \A i \in D : g[i] \in T
  <2> DEFINE P == {i \in D : g[i] \in T}
  <2>1. ASSUME NEW i \in D, \A e \in D : mu[e] < mu[i] => e \in P PROVE i \in P
    <3>1. CASE i > Len(buf)
      <4>1. g[i] = <<>>
        <5> HIDE DEF body, D
        <5> QED BY <1>7, <3>1
      <4>2. <<>> \in T
        OBVIOUS
      <4> QED BY <4>1, <4>2
    <3>2. CASE ~(i > Len(buf))
      <4>1. i <= Len(buf)
        BY <1>0, <3>2
      <4>2. r(i).next \in D /\ r(i).next > i /\ (r(i).wire \in {0, 2} => Field(r(i)) \in WireField)
        BY <1>1, <4>1
      <4>3. mu[r(i).next] < mu[i]
        BY <1>0, <4>1, <4>2
      <4>4. g[r(i).next] \in T
        BY <2>1, <4>2, <4>3
      <4>5. g[i] = body(g, i)
        BY <1>7, <3>2
      <4>6. body(g, i) \in T
        <5>1. CASE r(i).wire \in {0, 2}
          BY <4>2, <4>4, <5>1
        <5>2. CASE r(i).wire \notin {0, 2}
          BY <4>4, <5>2
        <5> QED BY <5>1, <5>2
      <4> HIDE DEF body
      <4> QED BY <4>5, <4>6
    <3> QED BY <3>1, <3>2
  <2>2. mu \in [D -> Nat]
    BY <1>0
  <2> HIDE DEF D, mu, P
  <2>3. D \subseteq P
    BY <2>1, <2>2, Descent
  <2> QED BY <2>3 DEF P
<1>9. ASSUME NEW i \in D, i <= Len(buf)
      PROVE  IF r(i).wire \in {0, 2} THEN g[i] = <<Field(r(i))>> \o g[r(i).next]
             ELSE g[i] = IF skips THEN g[r(i).next] ELSE <<>>
  <2>1. ~(i > Len(buf))
    BY <1>0, <1>9
  <2>2. g[i] = body(g, i)
    BY <1>7, <2>1
  <2> QED BY <2>2
<1>10. Walks(g, buf, skips)
  <2> HIDE DEF body
  <2> QED BY <1>0, <1>7, <1>8, <1>9 DEF Walks, r
<1> QED BY <1>6, <1>10

\* The pieces stand in buf one behind the other, from at[1] on.
Laid(buf, pieces, at) ==
  /\ at \in [1..(Len(pieces) + 1) -> Nat \ {0}]
  /\ \A k \in 1..Len(pieces) : at[k + 1] = at[k] + Len(pieces[k]) /\ Holds(buf, at[k], pieces[k])

\* The fields, each as its bytes.
Pieced(fs) == [k \in 1..Len(fs) |-> Written(fs[k])]

\* Every one of them is a non-empty sequence of bytes.
LEMMA PiecedIs ==
  ASSUME NEW fs \in Seq(WireField)
  PROVE  /\ Pieced(fs) \in Seq(Seq(Nat)) /\ Len(Pieced(fs)) = Len(fs) /\ Len(fs) \in Nat
         /\ \A k \in 1..Len(fs) : /\ fs[k] \in WireField /\ Pieced(fs)[k] = Written(fs[k])
                                  /\ Len(Written(fs[k])) \in Nat \ {0}
<1>1. Len(fs) \in Nat /\ \A k \in 1..Len(fs) : fs[k] \in WireField
  OBVIOUS
<1>2. \A k \in 1..Len(fs) : Written(fs[k]) \in Seq(Nat) /\ Len(Written(fs[k])) \in Nat \ {0}
  <2> SUFFICES ASSUME NEW f \in WireField
               PROVE  Written(f) \in Seq(Nat) /\ Len(Written(f)) \in Nat \ {0}
    BY <1>1
  <2>1. Tag(f) \in Nat /\ Size(f) \in Nat /\ Data(f) \in Seq(Nat)
    BY TagSays
  <2>2. Len(Varint(Tag(f))) \in Nat \ {0}
    BY <2>1, VarintBytes
  <2>3. Len(Varint(Size(f))) \in Nat \ {0}
    BY <2>1, VarintBytes
  <2>4. Len(Data(f)) \in Nat
    BY <2>1
  <2>5. Written(f) \in Seq(Nat) /\ Len(Written(f)) = Len(Varint(Tag(f))) + Len(Varint(Size(f))) + Len(Data(f))
    BY WrittenIs
  <2> QED BY <2>2, <2>3, <2>4, <2>5
<1>3. Pieced(fs) \in [1..Len(fs) -> Seq(Nat)]
  BY <1>2 DEF Pieced
<1>4. Pieced(fs) \in Seq(Seq(Nat)) /\ Len(Pieced(fs)) = Len(fs)
  BY <1>1, <1>3
<1> QED BY <1>1, <1>2, <1>4 DEF Pieced

\* From every field on, the reader finds that field and those behind it.
LEMMA LaidFields ==
  ASSUME NEW buf, NEW fs \in Seq(WireField), NEW at, Laid(buf, Pieced(fs), at)
  PROVE  /\ Len(fs) \in Nat /\ \A k \in 1..(Len(fs) + 1) : at[k] \in Nat \ {0}
         /\ \A k \in 1..Len(fs) : /\ fs[k] \in WireField /\ Len(Written(fs[k])) \in Nat \ {0}
                                  /\ at[k + 1] = at[k] + Len(Written(fs[k]))
                                  /\ Holds(buf, at[k], Written(fs[k]))
<1> DEFINE ps == Pieced(fs)
<1>1. /\ Len(ps) = Len(fs) /\ Len(fs) \in Nat
      /\ \A k \in 1..Len(fs) : /\ fs[k] \in WireField /\ ps[k] = Written(fs[k])
                               /\ Len(Written(fs[k])) \in Nat \ {0}
  BY PiecedIs
<1>2. /\ at \in [1..(Len(ps) + 1) -> Nat \ {0}]
      /\ \A k \in 1..Len(ps) : at[k + 1] = at[k] + Len(ps[k]) /\ Holds(buf, at[k], ps[k])
  BY DEF Laid
<1> HIDE DEF ps
<1>3. \A k \in 1..(Len(fs) + 1) : at[k] \in Nat \ {0}
  BY <1>1, <1>2
<1>4. \A k \in 1..Len(fs) : at[k + 1] = at[k] + Len(Written(fs[k])) /\ Holds(buf, at[k], Written(fs[k]))
  <2> TAKE k \in 1..Len(fs)
  <2>1. k \in 1..Len(ps) /\ ps[k] = Written(fs[k])
    BY <1>1
  <2> QED BY <1>2, <2>1
<1> QED BY <1>1, <1>3, <1>4

\* What was written one behind the other is read, if nothing follows.
LEMMA LaidRead ==
  ASSUME NEW buf \in Seq(Nat), NEW fs \in Seq(WireField), NEW at, Laid(buf, Pieced(fs), at),
         NEW skips, NEW from, Walks(from, buf, skips), at[Len(fs) + 1] = Len(buf) + 1
  PROVE  from[at[1]] = fs
<1> DEFINE n == Len(fs)
           D == 1..(n + 1)
           mu == [k \in D |-> n + 1 - k]
           got(k) == from[at[k]]
           P == {k \in D : /\ at[k] <= Len(buf) + 1 /\ Len(got(k)) = n + 1 - k
                           /\ \A j \in 1..(n + 1 - k) : got(k)[j] = fs[k + j - 1]}
<1>1. /\ n \in Nat /\ Len(buf) \in Nat /\ \A k \in D : at[k] \in Nat \ {0}
      /\ \A k \in 1..n : /\ fs[k] \in WireField /\ Len(Written(fs[k])) \in Nat \ {0}
                         /\ at[k + 1] = at[k] + Len(Written(fs[k])) /\ Holds(buf, at[k], Written(fs[k]))
  BY LaidFields
<1>2. ASSUME NEW k \in D, \A e \in D : mu[e] < mu[k] => e \in P PROVE k \in P
  <2>1. CASE k = n + 1
    <3>1. got(k) = <<>> /\ at[k] = Len(buf) + 1
      <4>1. at[k] = Len(buf) + 1 /\ at[k] \in Nat \ {0} /\ at[k] > Len(buf)
        BY <1>1, <2>1
      <4>2. from[at[k]] = <<>>
        BY <4>1 DEF Walks
      <4> QED BY <4>1, <4>2
    <3> QED BY <1>1, <2>1, <3>1
  <2>2. CASE k \in 1..n
    <3>1. k + 1 \in D /\ mu[k + 1] < mu[k]
      BY <1>1, <2>2
    <3>2. k + 1 \in P
      BY <1>2, <3>1
    <3>3. at[k + 1] <= Len(buf) + 1 /\ Len(got(k + 1)) = n - k
          /\ \A j \in 1..(n - k) : got(k + 1)[j] = fs[k + j]
      <4>1. n + 1 - (k + 1) = n - k /\ \A j \in 1..(n - k) : (k + 1) + j - 1 = k + j
        BY <1>1, <2>2
      <4> HIDE DEF got, D
      <4> QED BY <3>2, <4>1
    <3> DEFINE i == at[k]
               w == Written(fs[k])
               r == ReadField(buf, i)
    <3>4. /\ i \in 1..Len(buf) /\ i + Len(w) <= Len(buf) + 1 /\ i + Len(w) = at[k + 1]
          /\ Holds(buf, i, w) /\ fs[k] \in WireField
      <4> HIDE DEF w
      <4>1. at[k] \in Nat \ {0} /\ Len(w) \in Nat \ {0} /\ at[k + 1] = at[k] + Len(w)
        BY <1>1, <2>2 DEF w
      <4> QED BY <1>1, <2>2, <3>3, <4>1 DEF w
    <3> HIDE DEF i
    <3>5. Field(r) = fs[k] /\ r.wire = fs[k].wire /\ r.next = at[k + 1]
      BY <3>4, FieldRead
    <3>6. r.wire \in {0, 2}
      BY <3>4, <3>5 DEF WireField
    <3>7. got(k) = <<fs[k]>> \o got(k + 1)
      <4>1. i \in Nat \ {0} /\ i <= Len(buf)
        BY <1>1, <3>4
      <4>2. from[i] = <<Field(r)>> \o from[r.next]
        BY <3>6, <4>1 DEF Walks
      <4> QED BY <3>5, <4>2 DEF i
    <3>8. got(k + 1) \in Seq(WireField)
      <4>1. at[k + 1] \in Nat \ {0}
        BY <1>1, <3>1
      <4> QED BY <4>1 DEF Walks
    <3> HIDE DEF got
    <3>9. Len(got(k)) = n + 1 - k
      <4>1. Len(got(k)) = 1 + Len(got(k + 1))
        BY <3>4, <3>7, <3>8
      <4>2. Len(got(k + 1)) = n - k
        BY <3>3
      <4>3. n \in Nat /\ k \in Nat
        BY <1>1, <2>2
      <4> HIDE DEF n, D
      <4>4. Len(got(k)) = 1 + (n - k)
        BY <4>1, <4>2
      <4>5. n + 1 - k = 1 + (n - k)
        BY <4>3
      <4> QED BY <4>4, <4>5
    <3>10. \A j \in 1..(n + 1 - k) : got(k)[j] = fs[k + j - 1]
      <4> SUFFICES ASSUME NEW j \in 1..(n + 1 - k) PROVE got(k)[j] = fs[k + j - 1]
        OBVIOUS
      <4>1. CASE j = 1
        <5>1. got(k)[1] = fs[k] /\ k + 1 - 1 = k
          BY <1>1, <2>2, <3>4, <3>7, <3>8
        <5> QED BY <4>1, <5>1
      <4>2. CASE j # 1
        <5>1. j - 1 \in 1..(n - k) /\ k + (j - 1) = k + j - 1
          BY <1>1, <2>2, <4>2
        <5>2. got(k)[j] = got(k + 1)[j - 1]
          BY <1>1, <2>2, <3>3, <3>4, <3>7, <3>8, <5>1
        <5> QED BY <3>3, <5>1, <5>2
      <4> QED BY <4>1, <4>2
    <3>11. at[k] <= Len(buf) + 1
      BY <1>1, <3>4 DEF i
    <3> QED BY <3>9, <3>10, <3>11
  <2> QED BY <1>1, <2>1, <2>2
<1>3. mu \in [D -> Nat]
  BY <1>1
<1> HIDE DEF mu, P, D
<1>4. D \subseteq P
  BY <1>2, <1>3, Descent
<1>5. 1 \in P
  BY <1>1, <1>4 DEF D
<1>6. Len(got(1)) = n /\ \A j \in 1..n : got(1)[j] = fs[j]
  <2>1. n + 1 - 1 = n /\ \A j \in 1..n : 1 + j - 1 = j
    BY <1>1
  <2> HIDE DEF got
  <2> QED BY <1>5, <2>1 DEF P
<1>7. got(1) \in Seq(WireField)
  <2>1. at[1] \in Nat \ {0}
    BY <1>1 DEF D
  <2> QED BY <2>1 DEF Walks
<1> HIDE DEF got
<1>8. got(1) = fs
  <2> HIDE DEF n
  <2>1. Len(got(1)) = Len(fs) /\ \A j \in 1..Len(got(1)) : got(1)[j] = fs[j]
    BY <1>6 DEF n
  <2> QED BY <1>7, <2>1, SeqEqual
<1> QED BY <1>8 DEF got

\* A message cut short spoils no field but its last.
LEMMA LaidCut ==
  ASSUME NEW buf \in Seq(Nat), NEW fs \in Seq(WireField), NEW at, Laid(buf, Pieced(fs), at),
         NEW skips, NEW from, Walks(from, buf, skips), at[Len(fs) + 1] >= Len(buf) + 1,
         at[1] <= Len(buf) + 1
  PROVE  /\ Len(from[at[1]]) <= Len(fs)
         /\ \A j \in 1..(Len(from[at[1]]) - 1) : from[at[1]][j] = fs[j]
<1> DEFINE n == Len(fs)
           D == 1..(n + 1)
           mu == [k \in D |-> n + 1 - k]
           Kept(got, k) == Len(got) <= n + 1 - k /\ \A j \in 1..(Len(got) - 1) : got[j] = fs[k + j - 1]
           P == {k \in D : at[k] <= Len(buf) + 1 => Kept(from[at[k]], k)}
<1>1. /\ n \in Nat /\ Len(buf) \in Nat /\ \A k \in D : at[k] \in Nat \ {0}
      /\ \A k \in 1..n : /\ fs[k] \in WireField /\ Len(Written(fs[k])) \in Nat \ {0}
                         /\ at[k + 1] = at[k] + Len(Written(fs[k])) /\ Holds(buf, at[k], Written(fs[k]))
  BY LaidFields
<1>2. ASSUME NEW k \in D PROVE Kept(<<>>, k)
  BY <1>1
<1>3. ASSUME NEW k \in 1..n, NEW x PROVE Kept(<<x>>, k)
  BY <1>1
<1>4. ASSUME NEW k \in D, \A e \in D : mu[e] < mu[k] => e \in P PROVE k \in P
  <2> SUFFICES ASSUME at[k] <= Len(buf) + 1 PROVE Kept(from[at[k]], k)
    OBVIOUS
  <2> DEFINE i == at[k]
             w == Written(fs[k])
             r == ReadField(buf, i)
  <2>1. i \in Nat \ {0}
    BY <1>1
  <2>2. CASE i > Len(buf)
    <3>1. from[i] = <<>>
      BY <2>1, <2>2 DEF Walks
    <3> HIDE DEF i, Kept
    <3> QED BY <1>2, <3>1 DEF i
  <2>3. CASE i <= Len(buf)
    <3>1. k \in 1..n
      <4>1. k # n + 1
        BY <1>1, <2>3
      <4> QED BY <1>1, <4>1
    <3>2. i \in 1..Len(buf)
      BY <1>1, <2>1, <2>3
    <3>3. r.next \in Nat /\ r.next > i
      BY <3>2, ReadFieldSteps
    <3>4. i <= Len(buf) /\ from[r.next] \in Seq(WireField)
          /\ (r.next > Len(buf) => from[r.next] = <<>>)
      <4>1. r.next \in Nat \ {0}
        BY <2>1, <3>3
      <4> QED BY <2>3, <4>1 DEF Walks
    <3>5. IF r.wire \in {0, 2} THEN from[i] = <<Field(r)>> \o from[r.next]
          ELSE from[i] = from[r.next] \/ from[i] = <<>>
      BY <2>1, <2>3 DEF Walks
    <3>6. CASE ~(i + Len(w) <= Len(buf) + 1)
      <4>1. r.next > Len(buf)
        BY <1>1, <3>1, <3>2, <3>6, FieldRead
      <4>2. from[r.next] = <<>>
        BY <3>4, <4>1
      <4>3. from[i] = <<>> \/ from[i] = <<Field(r)>>
        BY <3>5, <4>2
      <4> HIDE DEF i, Kept, r
      <4> QED BY <1>2, <1>3, <3>1, <4>3 DEF i
    <3>7. CASE i + Len(w) <= Len(buf) + 1
      <4>1. Field(r) = fs[k] /\ r.wire = fs[k].wire /\ r.next = i + Len(w)
        BY <1>1, <3>1, <3>2, <3>7, FieldRead
      <4>2. r.next = at[k + 1] /\ at[k + 1] <= Len(buf) + 1
        BY <1>1, <3>1, <3>7, <4>1
      <4>3. k + 1 \in D /\ mu[k + 1] < mu[k]
        BY <1>1, <3>1
      <4>4. k + 1 \in P
        BY <1>4, <4>3
      <4>5. Kept(from[at[k + 1]], k + 1)
        BY <4>2, <4>4
      <4>6. r.wire \in {0, 2} /\ fs[k] \in WireField
        BY <1>1, <3>1, <4>1 DEF WireField
      <4> DEFINE g == from[r.next]
                 h == from[i]
      <4>7. h = <<fs[k]>> \o g /\ g \in Seq(WireField) /\ Kept(g, k + 1)
        <5> HIDE DEF Kept
        <5> QED BY <3>4, <3>5, <4>1, <4>2, <4>5, <4>6
      <4> HIDE DEF g, h, r, i, w
      <4>8. Len(h) = 1 + Len(g) /\ Len(g) \in Nat /\ h[1] = fs[k]
            /\ \A j \in 1..Len(g) : h[j + 1] = g[j]
        <5> DEFINE x == fs[k]
        <5>1. x \in WireField /\ g \in Seq(WireField) /\ h = <<x>> \o g
          BY <4>6, <4>7
        <5> HIDE DEF x, Kept, P
        <5>2. Len(<<x>>) = 1 /\ <<x>> \in Seq(WireField) /\ <<x>>[1] = x
          BY <5>1
        <5>3. Len(g) \in Nat /\ Len(h) = 1 + Len(g)
          BY <5>1, <5>2
        <5>4. h[1] = x
          BY <5>1, <5>2, <5>3
        <5>5. \A j \in 1..Len(g) : h[j + 1] = g[j]
          <6> SUFFICES ASSUME NEW j \in 1..Len(g) PROVE h[j + 1] = g[j]
            OBVIOUS
          <6>1. j + 1 \in 1..(1 + Len(g)) /\ j + 1 > 1 /\ (j + 1) - 1 = j
            BY <5>3
          <6> QED BY <5>1, <5>2, <5>3, <6>1
        <5> QED BY <5>3, <5>4, <5>5 DEF x
      <4>9. Len(h) <= n + 1 - k
        <5>1. Len(g) <= n + 1 - (k + 1)
          BY <4>7
        <5>2. n \in Nat /\ k \in Nat
          BY <1>1, <3>1
        <5> HIDE DEF n, Kept
        <5>3. Len(g) + 1 <= n + 1 - k
          BY <4>8, <5>1, <5>2
        <5> QED BY <4>8, <5>3
      <4>10. ASSUME NEW j \in 1..(Len(h) - 1) PROVE h[j] = fs[k + j - 1]
        <5>1. CASE j = 1
          <6>1. k + j - 1 = k
            BY <1>1, <3>1, <5>1
          <6> QED BY <4>8, <5>1, <6>1
        <5>2. CASE j # 1
          <6>1. j - 1 \in 1..(Len(g) - 1) /\ (k + 1) + (j - 1) - 1 = k + j - 1 /\ j - 1 + 1 = j
            BY <1>1, <3>1, <4>8, <5>2
          <6>2. g[j - 1] = fs[(k + 1) + (j - 1) - 1]
            BY <4>7, <6>1
          <6>3. j - 1 \in 1..Len(g)
            BY <4>8, <6>1
          <6>4. h[j - 1 + 1] = g[j - 1]
            BY <4>8, <6>3
          <6> QED BY <6>1, <6>2, <6>4
        <5> QED BY <5>1, <5>2
      <4> QED BY <4>9, <4>10 DEF h, i
    <3> QED BY <3>6, <3>7
  <2>4. i > Len(buf) \/ i <= Len(buf)
    BY <1>1, <2>1
  <2> QED BY <2>2, <2>3, <2>4
<1>5. mu \in [D -> Nat]
  BY <1>1
<1> HIDE DEF mu, P, Kept
<1>6. D \subseteq P
  <2> HIDE DEF D
  <2> QED BY <1>4, <1>5, Descent
<1>7. Kept(from[at[1]], 1)
  BY <1>1, <1>6 DEF P
<1>8. n + 1 - 1 = n /\ \A j \in 1..(Len(from[at[1]]) - 1) : 1 + j - 1 = j
  BY <1>1
<1> QED BY <1>7, <1>8 DEF Kept

\* Pieces joined stand one behind the other.
LEMMA FlattenIs ==
  ASSUME NEW ps \in Seq(Seq(Nat)), Len(ps) # 0
  PROVE  \E g : /\ g \in [1..Len(ps) -> Seq(Nat)] /\ FlattenSeq(ps) = g[Len(ps)]
                /\ \A k \in 1..Len(ps) : g[k] = IF k = 1 THEN ps[k] ELSE g[k - 1] \o ps[k]
<1> DEFINE n == Len(ps)
           D == 1..n
           T == Seq(Nat)
           id == [k \in D |-> k]
           stop == {1}
           next == [k \in D \ stop |-> k - 1]
           step == [k \in D |-> [t \in T |-> t \o ps[k]]]
           eq(f) == f = [k \in D |-> IF k = 1 THEN ps[k] ELSE f[k - 1] \o ps[k]]
<1>1. n \in Nat /\ n >= 1 /\ \A k \in D : ps[k] \in T
  OBVIOUS
<1>2. PICK f : Follows(f, D, T, stop, ps, next, step)
  <2>1. id \in [D -> Nat] /\ \A k \in D \cap stop : ps[k] \in T
    BY <1>1
  <2>2. next \in [D \ stop -> D] /\ \A k \in D \ stop : id[next[k]] < id[k]
    BY <1>1
  <2>3. \A k \in D \ stop : \A t \in T : step[k][t] \in T
    <3> SUFFICES ASSUME NEW k \in D, NEW t \in T PROVE step[k][t] \in T
      OBVIOUS
    <3>1. t \o ps[k] \in T
      BY <1>1
    <3> HIDE DEF T
    <3> QED BY <3>1
  <2> HIDE DEF D, T, id, stop, next, step
  <2>4. Recursive(D, id, T, stop, ps, next, step)
    BY <2>1, <2>2, <2>3 DEF Recursive
  <2> QED BY <2>4, Recursion
<1>3. f \in [D -> T]
  <2> HIDE DEF D, T, stop, next, step
  <2> QED BY <1>2 DEF Follows
<1>4. \A k \in D : f[k] = IF k = 1 THEN ps[k] ELSE f[k - 1] \o ps[k]
  <2>1. \A k \in D : k \notin stop => next[k] = k - 1 /\ \A t \in T : step[k][t] = t \o ps[k]
    OBVIOUS
  <2>2. \A k \in D : k \in stop <=> k = 1
    OBVIOUS
  <2> SUFFICES ASSUME NEW k \in D PROVE f[k] = IF k = 1 THEN ps[k] ELSE f[k - 1] \o ps[k]
    OBVIOUS
  <2> HIDE DEF D, T, stop, next, step
  <2>3. CASE k = 1
    <3>1. f[k] = ps[k]
      BY <1>2, <2>2, <2>3 DEF Follows
    <3> QED BY <2>3, <3>1
  <2>4. CASE k # 1
    <3>1. k \notin stop
      BY <2>2, <2>4
    <3>2. next[k] = k - 1 /\ \A t \in T : step[k][t] = t \o ps[k]
      BY <2>1, <3>1
    <3>3. f[next[k]] \in T /\ f[k] = step[k][f[next[k]]]
      BY <1>2, <3>1 DEF Follows
    <3>4. f[k] = f[k - 1] \o ps[k]
      BY <3>2, <3>3
    <3> QED BY <2>4, <3>4
  <2> QED BY <2>3, <2>4
<1>5. eq(f)
  <2>1. f = [k \in D |-> f[k]]
    BY <1>3
  <2> HIDE DEF D, T
  <2> QED BY <1>4, <2>1, Zenon
<1> DEFINE g == CHOOSE h : eq(h)
<1>6. eq(g) /\ FlattenSeq(ps) = g[n]
  <2>1. eq(g)
    BY <1>5
  <2>2. FlattenSeq(ps) = g[n]
    BY DEF FlattenSeq
  <2> QED BY <2>1, <2>2
<1> HIDE DEF g
<1>7. \A k \in D : g[k] = IF k = 1 THEN ps[k] ELSE g[k - 1] \o ps[k]
  <2> HIDE DEF D
  <2> QED BY <1>6
<1>8. \A k \in D : g[k] \in T
  <2> DEFINE P == {k \in D : g[k] \in T}
  <2>1. ASSUME NEW k \in D, \A e \in D : id[e] < id[k] => e \in P PROVE k \in P
    <3>1. CASE k = 1
      BY <1>1, <1>7, <3>1
    <3>2. CASE k # 1
      <4>1. k - 1 \in D /\ id[k - 1] < id[k]
        BY <1>1, <3>2
      <4>2. g[k - 1] \in T /\ ps[k] \in T
        BY <1>1, <2>1, <4>1
      <4>3. g[k] = g[k - 1] \o ps[k]
        BY <1>7, <3>2
      <4>4. g[k] \in T
        BY <4>2, <4>3
      <4> HIDE DEF D, T
      <4> QED BY <4>4
    <3> QED BY <3>1, <3>2
  <2>2. id \in [D -> Nat]
    BY <1>1
  <2> HIDE DEF D, id, P
  <2>3. D \subseteq P
    BY <2>1, <2>2, Descent
  <2> QED BY <2>3 DEF P
<1>9. g \in [D -> T]
  <2>1. g = [k \in D |-> IF k = 1 THEN ps[k] ELSE g[k - 1] \o ps[k]]
    BY <1>6
  <2> HIDE DEF D, T
  <2>2. g = [k \in D |-> g[k]]
    BY <1>7, <2>1, Zenon
  <2> QED BY <1>8, <2>2
<1> QED BY <1>6, <1>7, <1>9

\* buf is the message that says fs.
Encodes(buf, fs) ==
  /\ buf \in Seq(Nat) /\ fs \in Seq(WireField)
  /\ \E at : /\ Laid(buf, Pieced(fs), at) /\ at[1] = 1 /\ at[Len(fs) + 1] = Len(buf) + 1
             /\ \A k \in 1..(Len(fs) + 1) : at[k] <= Len(buf) + 1

\* The empty message says nothing.
LEMMA EncodesNothing == Encodes(<<>>, <<>>)
<1> DEFINE at == [k \in 1..1 |-> 1]
<1>1. Pieced(<<>>) = <<>>
  BY DEF Pieced
<1>2. Laid(<<>>, <<>>, at)
  BY DEF Laid
<1> QED BY <1>1, <1>2 DEF Encodes

\* A field written behind a message is said behind what it says.
LEMMA EncodesMore ==
  ASSUME NEW buf, NEW fs, Encodes(buf, fs), NEW f \in WireField
  PROVE  Encodes(buf \o Written(f), Append(fs, f))
<1> DEFINE n == Len(fs)
           w == Written(f)
           long == buf \o w
           gs == Append(fs, f)
           ps == Pieced(fs)
           qs == Pieced(gs)
<1>1. buf \in Seq(Nat) /\ fs \in Seq(WireField) /\ n \in Nat /\ Len(buf) \in Nat
  BY DEF Encodes
<1>2. PICK at : /\ Laid(buf, ps, at) /\ at[1] = 1 /\ at[n + 1] = Len(buf) + 1
                /\ \A k \in 1..(n + 1) : at[k] <= Len(buf) + 1
  BY DEF Encodes
<1>3. w \in Seq(Nat) /\ Len(w) \in Nat
  BY WrittenIs
<1>4. long \in Seq(Nat) /\ Len(long) = Len(buf) + Len(w) /\ Len(long) \in Nat
      /\ (\A j \in 1..Len(buf) : long[j] = buf[j]) /\ \A j \in 1..Len(w) : long[Len(buf) + j] = w[j]
  <2> HIDE DEF w
  <2> QED BY <1>1, <1>3
<1>5. gs \in Seq(WireField) /\ Len(gs) = n + 1 /\ gs[n + 1] = f /\ \A k \in 1..n : gs[k] = fs[k]
  BY <1>1
<1>6. /\ Len(ps) = n /\ Len(qs) = n + 1 /\ qs[n + 1] = w
      /\ \A k \in 1..n : qs[k] = ps[k] /\ Len(ps[k]) \in Nat
  <2>1. Len(ps) = n /\ \A k \in 1..n : ps[k] = Written(fs[k]) /\ Len(Written(fs[k])) \in Nat
    BY <1>1, PiecedIs
  <2>2. Len(qs) = n + 1 /\ \A k \in 1..(n + 1) : qs[k] = Written(gs[k])
    BY <1>5, PiecedIs
  <2>3. n + 1 \in 1..(n + 1) /\ \A k \in 1..n : k \in 1..(n + 1)
    BY <1>1
  <2> HIDE DEF ps, qs, n, gs
  <2> QED BY <1>5, <2>1, <2>2, <2>3
<1> HIDE DEF w, long, gs, ps, qs, n
<1>7. /\ at \in [1..(n + 1) -> Nat \ {0}]
      /\ \A k \in 1..n : at[k + 1] = at[k] + Len(ps[k]) /\ Holds(buf, at[k], ps[k])
  BY <1>2, <1>6 DEF Laid
<1> DEFINE to == [k \in 1..((n + 1) + 1) |-> IF k <= n + 1 THEN at[k] ELSE at[n + 1] + Len(w)]
<1>8. to \in [1..((n + 1) + 1) -> Nat \ {0}] /\ \A k \in 1..(n + 1) : to[k] = at[k]
  BY <1>1, <1>3, <1>7
<1>9. to[(n + 1) + 1] = Len(long) + 1 /\ to[1] = 1
  BY <1>1, <1>2, <1>3, <1>4, <1>7
<1>10. \A k \in 1..((n + 1) + 1) : to[k] <= Len(long) + 1
  <2> SUFFICES ASSUME NEW k \in 1..((n + 1) + 1) PROVE to[k] <= Len(long) + 1
    OBVIOUS
  <2>1. CASE k = (n + 1) + 1
    BY <1>4, <1>9, <2>1
  <2>2. CASE k \in 1..(n + 1)
    <3>1. at[k] <= Len(buf) + 1 /\ to[k] = at[k] /\ at[k] \in Nat
      BY <1>2, <1>7, <1>8, <2>2
    <3> HIDE DEF to
    <3> QED BY <1>1, <1>3, <1>4, <3>1
  <2> QED BY <1>1, <2>1, <2>2
<1>11. ASSUME NEW k \in 1..(n + 1)
       PROVE  to[k + 1] = to[k] + Len(qs[k]) /\ Holds(long, to[k], qs[k])
  <2>1. CASE k = n + 1
    <3>1. to[k] = Len(buf) + 1 /\ to[k + 1] = Len(buf) + 1 + Len(w) /\ qs[k] = w
      BY <1>1, <1>2, <1>3, <1>6, <1>8, <2>1
    <3>2. Holds(long, Len(buf) + 1, w)
      <4> SUFFICES ASSUME NEW j \in 1..Len(w) PROVE long[Len(buf) + 1 + j - 1] = w[j]
        BY DEF Holds
      <4>1. Len(buf) + 1 + j - 1 = Len(buf) + j
        BY <1>1, <1>3
      <4> QED BY <1>4, <4>1
    <3> HIDE DEF to
    <3> QED BY <3>1, <3>2
  <2>2. CASE k \in 1..n
    <3>1. k \in 1..(n + 1) /\ k + 1 \in 1..(n + 1)
      BY <1>1, <2>2
    <3>2. to[k] = at[k] /\ to[k + 1] = at[k + 1] /\ at[k] \in Nat \ {0} /\ at[k + 1] <= Len(buf) + 1
      BY <1>2, <1>7, <1>8, <3>1
    <3>3. at[k + 1] = at[k] + Len(ps[k]) /\ Holds(buf, at[k], ps[k]) /\ qs[k] = ps[k] /\ Len(ps[k]) \in Nat
      BY <1>6, <1>7, <2>2
    <3> HIDE DEF to
    <3>4. Holds(long, at[k], ps[k])
      <4> SUFFICES ASSUME NEW j \in 1..Len(ps[k]) PROVE long[at[k] + j - 1] = ps[k][j]
        BY DEF Holds
      <4>1. at[k] + j - 1 \in 1..Len(buf)
        <5>1. j \in Nat \ {0} /\ j <= Len(ps[k])
          BY <3>3
        <5>2. /\ at[k] \in Nat \ {0} /\ at[k] + Len(ps[k]) <= Len(buf) + 1
              /\ Len(buf) \in Nat /\ Len(ps[k]) \in Nat
          BY <1>1, <3>2, <3>3
        <5> QED BY <5>1, <5>2
      <4>2. buf[at[k] + j - 1] = ps[k][j]
        BY <3>3, <4>1 DEF Holds
      <4> QED BY <1>4, <4>1, <4>2
    <3> QED BY <3>2, <3>3, <3>4
  <2> QED BY <1>1, <2>1, <2>2
<1>12. Laid(long, qs, to)
  <2> HIDE DEF to
  <2> QED BY <1>6, <1>8, <1>11 DEF Laid
<1> HIDE DEF to
<1>13. Encodes(long, gs)
  BY <1>4, <1>5, <1>9, <1>10, <1>12 DEF Encodes, qs
<1> QED BY <1>13 DEF long, gs, w

\* The first k elements, and one more.
LEMMA PartIs ==
  ASSUME NEW S, NEW s \in Seq(S), NEW k \in 0..Len(s)
  PROVE  /\ SubSeq(s, 1, k) \in Seq(S) /\ Len(SubSeq(s, 1, k)) = k
         /\ \A j \in 1..k : SubSeq(s, 1, k)[j] = s[j]
         /\ k # 0 => SubSeq(s, 1, k) = Append(SubSeq(s, 1, k - 1), s[k])
<1> DEFINE part(m) == SubSeq(s, 1, m)
<1>1. Len(s) \in Nat /\ k \in Nat /\ \A j \in 1..Len(s) : s[j] \in S
  OBVIOUS
<1>2. ASSUME NEW m \in 0..Len(s)
      PROVE  part(m) \in Seq(S) /\ Len(part(m)) = m /\ \A j \in 1..m : part(m)[j] = s[j]
  <2>1. m \in Nat /\ \A j \in 1..m : s[j] \in S
    BY <1>1
  <2>2. /\ part(m) \in Seq(S) /\ Len(part(m)) = IF 1 <= m THEN m - 1 + 1 ELSE 0
        /\ \A j \in 1..(m - 1 + 1) : part(m)[j] = s[1 + j - 1]
    BY <2>1, SubSeqProperties
  <2>3. \A j \in 1..m : 1 + j - 1 = j
    BY <2>1
  <2> HIDE DEF part
  <2> QED BY <2>1, <2>2, <2>3
<1>3. ASSUME k # 0 PROVE part(k) = Append(part(k - 1), s[k])
  <2> DEFINE a == part(k)
             p == part(k - 1)
             b == Append(p, s[k])
  <2>1. k - 1 \in 0..Len(s) /\ s[k] \in S
    BY <1>1, <1>3
  <2>2. a \in Seq(S) /\ Len(a) = k /\ \A j \in 1..k : a[j] = s[j]
    BY <1>2
  <2>3. p \in Seq(S) /\ Len(p) = k - 1 /\ \A j \in 1..(k - 1) : p[j] = s[j]
    BY <1>2, <2>1
  <2> HIDE DEF p, part
  <2>4. /\ b \in Seq(S) /\ Len(b) = Len(p) + 1 /\ b[Len(p) + 1] = s[k]
        /\ \A j \in 1..Len(p) : b[j] = p[j]
    BY <2>1, <2>3, AppendProperties
  <2> HIDE DEF a, b
  <2>5. Len(p) + 1 = k /\ 1..Len(p) = 1..(k - 1) /\ \A j \in 1..k : j \in 1..(k - 1) \/ j = k
    BY <1>1, <2>3
  <2>6. Len(b) = k /\ b[k] = s[k] /\ \A j \in 1..(k - 1) : b[j] = s[j]
    BY <2>3, <2>4, <2>5
  <2>7. Len(a) = Len(b) /\ \A j \in 1..Len(a) : a[j] = b[j]
    BY <2>2, <2>5, <2>6
  <2>8. a = b
    BY <2>2, <2>4, <2>7, SeqEqual
  <2> QED BY <2>8 DEF a, b, p
<1> QED BY <1>2, <1>3

\* What Message writes is a message that says the fields it was given.
LEMMA EncodesMessage ==
  ASSUME NEW fs \in Seq(WireField)
  PROVE  Encodes(Message(fs), fs)
<1> DEFINE n == Len(fs)
           ps == Pieced(fs)
<1>1. n \in Nat /\ DOMAIN fs = 1..n
  OBVIOUS
<1>2. Message(fs) = FlattenSeq(ps)
  BY <1>1 DEF Message, Pieced
<1>3. /\ ps \in Seq(Seq(Nat)) /\ Len(ps) = n
      /\ \A k \in 1..n : fs[k] \in WireField /\ ps[k] = Written(fs[k])
  BY PiecedIs
<1> HIDE DEF ps
<1>4. CASE n = 0
  <2>1. fs = <<>> /\ ps = <<>>
    BY <1>3, <1>4
  <2>2. FlattenSeq(ps) = <<>>
    BY <2>1 DEF FlattenSeq
  <2> QED BY <1>2, <2>1, <2>2, EncodesNothing
<1>5. CASE n # 0
  <2>1. PICK g : /\ g \in [1..n -> Seq(Nat)] /\ FlattenSeq(ps) = g[n]
                 /\ \A k \in 1..n : g[k] = IF k = 1 THEN ps[k] ELSE g[k - 1] \o ps[k]
    <3>1. Len(ps) = n /\ Len(ps) # 0 /\ ps \in Seq(Seq(Nat))
      BY <1>3, <1>5
    <3> HIDE DEF n
    <3>2. \E g : /\ g \in [1..Len(ps) -> Seq(Nat)] /\ FlattenSeq(ps) = g[Len(ps)]
                /\ \A k \in 1..Len(ps) : g[k] = IF k = 1 THEN ps[k] ELSE g[k - 1] \o ps[k]
      BY <3>1, FlattenIs
    <3> QED BY <3>1, <3>2
  <2> DEFINE D == 1..n
             id == [k \in D |-> k]
             part(k) == SubSeq(fs, 1, k)
             P == {k \in D : Encodes(g[k], part(k))}
  <2>2. ASSUME NEW k \in D, \A e \in D : id[e] < id[k] => e \in P PROVE k \in P
    <3>0. fs[k] \in WireField /\ ps[k] = Written(fs[k]) /\ k \in Nat \ {0}
      BY <1>1, <1>3
    <3>1. CASE k = 1
      <4>1. g[k] = <<>> \o Written(fs[k])
        <5>1. Written(fs[k]) \in Seq(Nat)
          BY <3>0, WrittenIs
        <5>2. g[k] = Written(fs[k])
          BY <2>1, <3>0, <3>1
        <5> QED BY <5>1, <5>2
      <4>2. part(k) = Append(<<>>, fs[k])
        <5>1. part(1) = Append(SubSeq(fs, 1, 1 - 1), fs[1])
          <6>1. 1 \in 0..Len(fs)
            BY <1>1, <1>5
          <6> QED BY <6>1, PartIs
        <5>2. SubSeq(fs, 1, 0) = <<>>
          BY SubSeqEmpty
        <5>3. 1 - 1 = 0
          OBVIOUS
        <5>4. part(1) = Append(<<>>, fs[1])
          BY <5>1, <5>2, <5>3
        <5> HIDE DEF part
        <5> QED BY <3>1, <5>4
      <4> HIDE DEF part
      <4> QED BY <3>0, <4>1, <4>2, EncodesNothing, EncodesMore
    <3>2. CASE k # 1
      <4>1. k - 1 \in D /\ id[k - 1] < id[k]
        BY <1>1, <3>2
      <4>2. Encodes(g[k - 1], part(k - 1))
        BY <2>2, <4>1
      <4>3. g[k] = g[k - 1] \o Written(fs[k])
        BY <2>1, <3>0, <3>2
      <4>4. part(k) = Append(part(k - 1), fs[k])
        BY <3>0, PartIs
      <4> HIDE DEF part
      <4>5. Encodes(g[k], part(k))
        BY <3>0, <4>2, <4>3, <4>4, EncodesMore
      <4> QED BY <4>5
    <3> QED BY <3>1, <3>2
  <2>3. id \in [D -> Nat]
    BY <1>1
  <2> HIDE DEF D, id, P
  <2>4. D \subseteq P
    BY <2>2, <2>3, Descent
  <2>5. Encodes(g[n], part(n))
    <3>1. n \in D
      BY <1>1, <1>5 DEF D
    <3> QED BY <2>4, <3>1 DEF P
  <2>6. part(n) = fs
    <3>1. n \in 0..Len(fs)
      BY <1>1
    <3>2. part(n) \in Seq(WireField) /\ Len(part(n)) = n /\ \A j \in 1..n : part(n)[j] = fs[j]
      BY <3>1, PartIs
    <3> HIDE DEF part
    <3> QED BY <3>2, SeqEqual
  <2> QED BY <1>2, <2>1, <2>5, <2>6
<1> QED BY <1>4, <1>5

\* A message is read as what it says.
LEMMA EncodesRead ==
  ASSUME NEW buf, NEW fs, Encodes(buf, fs)
  PROVE  Fields(buf) = fs /\ FieldsUpTo(buf) = fs
<1> SUFFICES ASSUME NEW skips \in BOOLEAN PROVE Parsed(buf, skips) = fs
  BY DEF Fields, FieldsUpTo
<1>1. buf \in Seq(Nat) /\ fs \in Seq(WireField)
  BY DEF Encodes
<1>2. PICK at : Laid(buf, Pieced(fs), at) /\ at[1] = 1 /\ at[Len(fs) + 1] = Len(buf) + 1
  BY DEF Encodes
<1>3. PICK from : Walks(from, buf, skips) /\ Parsed(buf, skips) = from[1]
  BY <1>1, ParsedWalks
<1>4. from[at[1]] = fs
  BY <1>1, <1>2, <1>3, LaidRead
<1> QED BY <1>2, <1>3, <1>4

\* What stands in a message stands in one cut short, as far as that goes.
LEMMA LaidWithin ==
  ASSUME NEW buf \in Seq(Nat), NEW ps, NEW at, Laid(buf, ps, at), NEW c \in Seq(Nat),
         Len(c) <= Len(buf), \A j \in 1..Len(c) : c[j] = buf[j], \A k \in 1..Len(ps) : Len(ps[k]) \in Nat,
         Len(ps) \in Nat
  PROVE  Laid(c, ps, at)
<1>1. /\ at \in [1..(Len(ps) + 1) -> Nat \ {0}]
      /\ \A k \in 1..Len(ps) : at[k + 1] = at[k] + Len(ps[k]) /\ Holds(buf, at[k], ps[k])
  BY DEF Laid
<1>2. ASSUME NEW k \in 1..Len(ps) PROVE Holds(c, at[k], ps[k])
  <2> SUFFICES ASSUME NEW j \in 1..Len(ps[k]), at[k] + j - 1 <= Len(c)
               PROVE  c[at[k] + j - 1] = ps[k][j]
    BY DEF Holds
  <2>a. k \in 1..(Len(ps) + 1)
    OBVIOUS
  <2>b. at[k] \in Nat \ {0}
    BY <1>1, <2>a
  <2>c. Len(buf) \in Nat /\ Len(c) \in Nat /\ Len(ps[k]) \in Nat
    OBVIOUS
  <2> DEFINE a == at[k]
             b == Len(c)
  <2>d. a + j - 1 \in 1..b /\ a + j - 1 <= Len(buf)
    <3>1. a \in Nat \ {0} /\ b \in Nat /\ j \in Nat \ {0} /\ a + j - 1 <= b /\ b <= Len(buf)
      BY <2>b, <2>c
    <3> HIDE DEF a, b
    <3> QED BY <2>c, <3>1
  <2>2. at[k] + j - 1 \in 1..Len(c) /\ at[k] + j - 1 <= Len(buf)
    BY <2>d
  <2>3. buf[at[k] + j - 1] = ps[k][j]
    BY <1>1, <2>2 DEF Holds
  <2> QED BY <2>2, <2>3
<1> QED BY <1>1, <1>2 DEF Laid

\* A message cut short spoils no field but its last.
LEMMA EncodesCut ==
  ASSUME NEW buf, NEW fs, Encodes(buf, fs), NEW cut \in 0..Len(buf)
  PROVE  LET got == Fields(SubSeq(buf, 1, cut)) IN
         /\ got \in Seq(WireField) /\ Len(got) <= Len(fs) /\ (got # <<>> => IsPrefix(Front(got), fs))
<1> DEFINE c == SubSeq(buf, 1, cut)
           got == Fields(c)
<1>1. buf \in Seq(Nat) /\ fs \in Seq(WireField) /\ Len(buf) \in Nat /\ Len(fs) \in Nat
  BY DEF Encodes
<1>2. PICK at : /\ Laid(buf, Pieced(fs), at) /\ at[1] = 1 /\ at[Len(fs) + 1] = Len(buf) + 1
  BY DEF Encodes
<1>3. c \in Seq(Nat) /\ Len(c) = cut /\ Len(c) <= Len(buf) /\ \A j \in 1..Len(c) : c[j] = buf[j]
  <2>1. c \in Seq(Nat) /\ Len(c) = cut /\ \A j \in 1..cut : c[j] = buf[j]
    BY <1>1, PartIs
  <2> HIDE DEF c
  <2> QED BY <1>1, <2>1
<1> HIDE DEF c
<1>4. Laid(c, Pieced(fs), at)
  <2>1. Len(Pieced(fs)) \in Nat /\ \A k \in 1..Len(Pieced(fs)) : Len(Pieced(fs)[k]) \in Nat
    BY <1>1, PiecedIs
  <2> QED BY <1>1, <1>2, <1>3, <2>1, LaidWithin
<1>0. PICK skips \in BOOLEAN : skips = TRUE
  OBVIOUS
<1>5. PICK from : Walks(from, c, skips) /\ got = from[1]
  <2>1. got = Parsed(c, skips)
    BY <1>0 DEF Fields
  <2> HIDE DEF got
  <2> QED BY <1>3, <2>1, ParsedWalks
<1>6. got \in Seq(WireField)
  <2>1. 1 \in Nat \ {0}
    OBVIOUS
  <2> HIDE DEF got
  <2> QED BY <1>5, <2>1 DEF Walks
<1>7. Len(got) <= Len(fs) /\ \A j \in 1..(Len(got) - 1) : got[j] = fs[j]
  <2>1. at[Len(fs) + 1] >= Len(c) + 1 /\ at[1] <= Len(c) + 1
    BY <1>1, <1>2, <1>3
  <2>2. /\ Len(from[at[1]]) <= Len(fs)
        /\ \A j \in 1..(Len(from[at[1]]) - 1) : from[at[1]][j] = fs[j]
    BY <1>1, <1>3, <1>4, <1>5, <2>1, LaidCut
  <2> QED BY <1>2, <1>5, <2>2
<1> HIDE DEF got
<1>8. ASSUME got # <<>> PROVE IsPrefix(Front(got), fs)
  <2> DEFINE m == Len(got) - 1
             a == SubSeq(got, 1, m)
             b == SubSeq(fs, 1, m)
  <2>1. Len(got) \in Nat \ {0}
    BY <1>6, <1>8
  <2>2. m \in 0..Len(got) /\ m \in 0..Len(fs)
    BY <1>1, <1>7, <2>1
  <2>3. a \in Seq(WireField) /\ Len(a) = m /\ \A j \in 1..m : a[j] = got[j]
    BY <1>6, <2>2, PartIs
  <2>4. b \in Seq(WireField) /\ Len(b) = m /\ \A j \in 1..m : b[j] = fs[j]
    BY <1>1, <2>2, PartIs
  <2>5. Front(got) = a
    BY DEF Front
  <2> HIDE DEF a, b
  <2>6. a = b
    BY <1>7, <2>3, <2>4, SeqEqual
  <2>7. Len(a) <= Len(fs) /\ Len(a) \in Nat
    BY <1>1, <2>2, <2>3
  <2>8. SubSeq(a, 1, Len(a)) = a
    <3> DEFINE x == SubSeq(a, 1, Len(a))
    <3>1. x \in Seq(WireField) /\ Len(x) = Len(a) /\ \A j \in 1..Len(a) : x[j] = a[j]
      <4>1. Len(a) \in 0..Len(a)
        BY <2>7
      <4> QED BY <2>3, <4>1, PartIs
    <3> HIDE DEF x
    <3>2. x = a
      BY <2>3, <3>1, SeqEqual
    <3> QED BY <3>2 DEF x
  <2>9. SubSeq(fs, 1, Len(a)) = a
    BY <2>3, <2>6 DEF b
  <2>10. IsPrefix(a, fs)
    BY <2>7, <2>8, <2>9 DEF IsPrefix
  <2> QED BY <2>5, <2>10
<1> QED BY <1>6, <1>7, <1>8 DEF got, c

\* What is laid out in a message is laid out in one with a head before it.
LEMMA Shifted ==
  \A a, j \in Nat \ {0} : \A d, l \in Nat :
    a + d + j - 1 <= d + l => a + j - 1 \in 1..l /\ a + d + j - 1 = d + (a + j - 1)
OBVIOUS

\* The bounds of such a message.
LEMMA ShiftedEnds == \A d, l \in Nat : 1 + d = d + 1 /\ (l + 1) + d = (d + l) + 1
OBVIOUS

\* A field of fixed width hides none behind it.
LEMMA EncodesBehind ==
  ASSUME NEW buf, NEW fs, Encodes(buf, fs), NEW num \in Nat, NEW wire \in {1, 5},
         NEW pre \in Seq(Nat), Len(pre) = FixedWidth(wire)
  PROVE  Fields(Varint(8 * num + wire) \o pre \o buf) = fs
<1> DEFINE t == 8 * num + wire
           v == Varint(t)
           head == v \o pre
           d == Len(head)
           long == head \o buf
           ps == Pieced(fs)
<1>1. buf \in Seq(Nat) /\ fs \in Seq(WireField) /\ Len(buf) \in Nat /\ Len(fs) \in Nat
  BY DEF Encodes
<1>2. PICK at : /\ Laid(buf, ps, at) /\ at[1] = 1 /\ at[Len(fs) + 1] = Len(buf) + 1
  BY DEF Encodes
<1>3. t \in Nat /\ Wire(t) = wire
  <2>1. \A n \in Nat : \A w \in {1, 5} : Wire(8 * n + w) = w
    BY DEF Wire
  <2> QED BY <2>1
<1>4. v \in Seq(Nat) /\ Len(v) \in Nat \ {0}
  BY <1>3, VarintBytes
<1> HIDE DEF t, v
<1>5. head \in Seq(Nat) /\ d = Len(v) + Len(pre) /\ d \in Nat \ {0} /\ \A j \in 1..Len(v) : head[j] = v[j]
  BY <1>4
<1> HIDE DEF head, d
<1>6. /\ long \in Seq(Nat) /\ Len(long) = d + Len(buf) /\ Len(long) \in Nat
      /\ \A j \in 1..d : long[j] = head[j]
      /\ \A j \in 1..Len(buf) : long[d + j] = buf[j]
  <2>1. head \in Seq(Nat) /\ buf \in Seq(Nat) /\ Len(head) = d
    BY <1>1, <1>5 DEF d
  <2>2. /\ long \in Seq(Nat) /\ Len(long) = Len(head) + Len(buf)
        /\ \A j \in 1..(Len(head) + Len(buf)) :
             long[j] = IF j <= Len(head) THEN head[j] ELSE buf[j - Len(head)]
    BY <2>1, ConcatProperties
  <2>3. d \in Nat /\ Len(buf) \in Nat
    BY <1>1, <1>5
  <2> HIDE DEF long
  <2>4. ASSUME NEW j \in 1..d PROVE long[j] = head[j]
    <3>1. j \in 1..(d + Len(buf)) /\ j <= d
      BY <2>3
    <3> QED BY <2>1, <2>2, <3>1
  <2>5. ASSUME NEW j \in 1..Len(buf) PROVE long[d + j] = buf[j]
    <3>1. d + j \in 1..(d + Len(buf)) /\ ~(d + j <= d) /\ (d + j) - d = j
      BY <2>3
    <3> QED BY <2>1, <2>2, <3>1
  <2>6. d + Len(buf) \in Nat
    BY <2>3
  <2> QED BY <2>1, <2>2, <2>4, <2>5, <2>6
<1> HIDE DEF long
<1>14. /\ Len(long) = d + Len(buf) /\ Len(buf) \in Nat /\ d \in Nat \ {0} /\ Len(v) \in Nat \ {0}
       /\ d = Len(v) + Len(pre) /\ Len(pre) \in Nat
  BY <1>1, <1>4, <1>5, <1>6
<1>0. PICK skips \in BOOLEAN : skips = TRUE
  OBVIOUS
<1>7. PICK from : Walks(from, long, skips) /\ Fields(long) = from[1]
  <2>1. Fields(long) = Parsed(long, skips)
    BY <1>0 DEF Fields
  <2> QED BY <1>6, <2>1, ParsedWalks
<1>8. from[1] = from[d + 1]
  <2> DEFINE tag == ReadVarint(long, 1)
             len == ReadVarint(long, tag.next)
             r == ReadField(long, 1)
  <2>1. Holds(long, 1, v)
    <3> SUFFICES ASSUME NEW k \in 1..Len(v) PROVE long[1 + k - 1] = v[k]
      BY DEF Holds
    <3>1. 1 + k - 1 = k /\ k \in 1..d
      BY <1>4, <1>5
    <3> QED BY <1>5, <1>6, <3>1
  <2>2. tag.value = t /\ tag.next = 1 + Len(v)
    <3>1. 1 \in 1..(Len(long) + 1) /\ 1 + Len(v) <= Len(long) + 1
      BY <1>14
    <3>2. Reads(long, 1, t)
      BY <1>3, <1>6, <2>1, <3>1, VarintRead DEF v
    <3> QED BY <3>1, <3>2 DEF Reads, v
  <2>3. r.wire = wire /\ (wire \notin {0, 2} => r.next = tag.next + FixedWidth(wire))
    BY <1>3, <2>2, ReadFieldIs
  <2>4. r.wire \notin {0, 2} /\ r.next = d + 1
    <3>1. wire \notin {0, 2}
      OBVIOUS
    <3> HIDE DEF tag, r
    <3>2. r.next = 1 + Len(v) + Len(pre)
      BY <2>2, <2>3, <3>1
    <3>3. Len(pre) \in Nat
      OBVIOUS
    <3> QED BY <1>4, <1>5, <2>3, <3>1, <3>2, <3>3
  <2>5. 1 <= Len(long)
    BY <1>1, <1>5, <1>6
  <2>6. 1 \in Nat \ {0}
    OBVIOUS
  <2>7. from[1] = from[r.next]
    BY <1>0, <1>7, <2>4, <2>5, <2>6 DEF Walks
  <2> QED BY <2>4, <2>7
<1> DEFINE to == [k \in 1..(Len(ps) + 1) |-> at[k] + d]
<1>9. Len(ps) = Len(fs) /\ at \in [1..(Len(ps) + 1) -> Nat \ {0}]
      /\ \A k \in 1..Len(ps) : /\ Len(ps[k]) \in Nat /\ at[k + 1] = at[k] + Len(ps[k])
                               /\ Holds(buf, at[k], ps[k])
  <2>1. Len(ps) = Len(fs) /\ \A k \in 1..Len(fs) : Len(ps[k]) \in Nat
    BY <1>1, PiecedIs
  <2> HIDE DEF ps
  <2> QED BY <1>2, <2>1 DEF Laid
<1> HIDE DEF ps
<1>10. Laid(long, ps, to)
  <2>1. to \in [1..(Len(ps) + 1) -> Nat \ {0}]
    BY <1>5, <1>9
  <2>2. ASSUME NEW k \in 1..Len(ps)
        PROVE  to[k + 1] = to[k] + Len(ps[k]) /\ Holds(long, to[k], ps[k])
    <3>1. k \in 1..(Len(ps) + 1) /\ k + 1 \in 1..(Len(ps) + 1)
      BY <1>1, <1>9
    <3>2. to[k] = at[k] + d /\ to[k + 1] = at[k + 1] + d /\ at[k] \in Nat \ {0}
      BY <1>9, <3>1
    <3>3. Len(ps[k]) \in Nat /\ at[k + 1] = at[k] + Len(ps[k]) /\ Holds(buf, at[k], ps[k])
      BY <1>9
    <3> HIDE DEF to
    <3>4. Holds(long, at[k] + d, ps[k])
      <4> SUFFICES ASSUME NEW j \in 1..Len(ps[k]), at[k] + d + j - 1 <= Len(long)
                   PROVE  long[at[k] + d + j - 1] = ps[k][j]
        BY DEF Holds
      <4>1. at[k] + j - 1 \in 1..Len(buf) /\ at[k] + d + j - 1 = d + (at[k] + j - 1)
        <5> DEFINE a == at[k]
        <5>1. a \in Nat \ {0} /\ a + Len(ps[k]) = at[k + 1] /\ j \in Nat \ {0} /\ j <= Len(ps[k])
          BY <3>2, <3>3
        <5>2. a + d + j - 1 <= d + Len(buf)
          BY <1>6
        <5> HIDE DEF a
        <5>3. a + j - 1 \in 1..Len(buf) /\ a + d + j - 1 = d + (a + j - 1)
          <6>1. d \in Nat /\ Len(buf) \in Nat
            BY <1>14
          <6> QED BY <5>1, <5>2, <6>1, Shifted
        <5> QED BY <5>3 DEF a
      <4>2. buf[at[k] + j - 1] = ps[k][j]
        BY <3>3, <4>1 DEF Holds
      <4> QED BY <1>6, <4>1, <4>2
    <3>5. at[k] + Len(ps[k]) + d = at[k] + d + Len(ps[k])
      BY <1>5, <3>2, <3>3
    <3> QED BY <3>2, <3>3, <3>4, <3>5
  <2> HIDE DEF to
  <2> QED BY <2>1, <2>2 DEF Laid
<1>11. to[1] = d + 1 /\ to[Len(fs) + 1] = Len(long) + 1
  <2>1. 1 \in 1..(Len(ps) + 1) /\ Len(fs) + 1 \in 1..(Len(ps) + 1)
    BY <1>1, <1>9
  <2>2. to[1] = at[1] + d /\ to[Len(fs) + 1] = at[Len(fs) + 1] + d
    BY <2>1
  <2> HIDE DEF to
  <2>3. d \in Nat /\ Len(buf) \in Nat
    BY <1>14
  <2>4. 1 + d = d + 1 /\ (Len(buf) + 1) + d = (d + Len(buf)) + 1
    BY <2>3, ShiftedEnds
  <2>5. Len(long) + 1 = (d + Len(buf)) + 1
    BY <1>14
  <2> QED BY <1>2, <2>2, <2>4, <2>5
<1> HIDE DEF to
<1>12. from[to[1]] = fs
  <2>1. Laid(long, Pieced(fs), to)
    BY <1>10 DEF ps
  <2> QED BY <1>1, <1>6, <1>7, <1>11, <2>1, LaidRead
<1>13. Fields(long) = fs
  BY <1>7, <1>8, <1>11, <1>12
<1> QED BY <1>13 DEF long, head, v, t

\* What encodeRpcVarintField and encodeRpcBytes write, decodeRpcProto reads back:
\* for any fields and numbers, behind a field of fixed width that is skipped, and,
\* wherever the message is cut, with no field but the last one spoilt.
THEOREM MessagesReadBack ==
  \A fs \in Seq(WireField) :
    /\ Fields(Message(fs)) = fs /\ FieldsUpTo(Message(fs)) = fs
    /\ \A num \in Nat : \A wire \in {1, 5} : \A pre \in Seq(Nat) :
         Len(pre) = FixedWidth(wire) => Fields(Varint(8 * num + wire) \o pre \o Message(fs)) = fs
    /\ \A cut \in 0..Len(Message(fs)) :
         LET got == Fields(SubSeq(Message(fs), 1, cut)) IN
         Len(got) <= Len(fs) /\ (got # <<>> => IsPrefix(Front(got), fs))
<1> TAKE fs \in Seq(WireField)
<1>1. Encodes(Message(fs), fs)
  BY EncodesMessage
<1>2. Fields(Message(fs)) = fs /\ FieldsUpTo(Message(fs)) = fs
  BY <1>1, EncodesRead
<1>3. \A num \in Nat : \A wire \in {1, 5} : \A pre \in Seq(Nat) :
         Len(pre) = FixedWidth(wire) => Fields(Varint(8 * num + wire) \o pre \o Message(fs)) = fs
  BY <1>1, EncodesBehind
<1>4. \A cut \in 0..Len(Message(fs)) :
         LET got == Fields(SubSeq(Message(fs), 1, cut)) IN
         Len(got) <= Len(fs) /\ (got # <<>> => IsPrefix(Front(got), fs))
  <2> TAKE cut \in 0..Len(Message(fs))
  <2> DEFINE buf == Message(fs)
  <2>1. Encodes(buf, fs) /\ cut \in 0..Len(buf)
    BY <1>1
  <2> HIDE DEF buf
  <2>2. LET got == Fields(SubSeq(buf, 1, cut)) IN
        /\ got \in Seq(WireField) /\ Len(got) <= Len(fs) /\ (got # <<>> => IsPrefix(Front(got), fs))
    BY <2>1, EncodesCut
  <2> DEFINE got == Fields(SubSeq(buf, 1, cut))
  <2>3. Len(got) <= Len(fs) /\ (got # <<>> => IsPrefix(Front(got), fs))
    BY <2>2
  <2> HIDE DEF got
  <2> QED BY <2>3 DEF got, buf
<1> QED BY <1>2, <1>3, <1>4

\* The fields that are looked at with TLC are among them,
LEMMA AnyFieldsAreFields == AnyField \subseteq WireField
<1>1. Numbers64 \subseteq Nat /\ {1, 2, 16} \subseteq Nat
  BY DEF Numbers64
<1>2. Pieces \subseteq Seq(Nat)
  BY DEF Pieces
<1> QED BY <1>1, <1>2 DEF AnyField, WireField

\* and those with large numbers too.
LEMMA SamplesAreFields == Samples64 \subseteq Seq(WireField)
<1>1. AnyField \subseteq WireField
  BY AnyFieldsAreFields
<1>2. <<>> \in Seq(WireField) /\ \A f, g \in WireField : <<f>> \in Seq(WireField) /\ <<f, g>> \in Seq(WireField)
  OBVIOUS
<1>3. Samples64 = {<<>>} \cup {<<f>> : f \in AnyField} \cup {<<f, g>> : f, g \in AnyField}
  BY DEF Samples64
<1> HIDE DEF Samples64
<1>4. ASSUME NEW s \in Samples64 PROVE s \in Seq(WireField)
  <2>1. \/ s = <<>> \/ (\E f \in AnyField : s = <<f>>) \/ (\E f, g \in AnyField : s = <<f, g>>)
    BY DEF Samples64
  <2> QED BY <1>1, <1>2, <2>1
<1> QED BY <1>4

\* Every message of the samples is read back, whole or cut short.
LEMMA ReadsBack == ReadBack
<1> SUFFICES ASSUME NEW fields \in Samples64
             PROVE  LET buf == Message(fields) IN
                    /\ Fields(buf) = fields /\ FieldsUpTo(buf) = fields
                    /\ Fields(<<8 * 3 + 5, 255, 255, 255, 255>> \o buf) = fields
                    /\ \A cut \in 0..Len(buf) :
                         LET got == Fields(SubSeq(buf, 1, cut)) IN
                         /\ Len(got) <= Len(fields)
                         /\ got # <<>> => IsPrefix(Front(got), fields)
  BY DEF ReadBack
<1>1. fields \in Seq(WireField)
  BY SamplesAreFields
<1> DEFINE pre == <<255, 255, 255, 255>>
<1>2. Varint(8 * 3 + 5) \o pre = <<8 * 3 + 5, 255, 255, 255, 255>>
  <2>1. 29 \in Nat /\ 29 < 128 /\ 8 * 3 + 5 = 29
    OBVIOUS
  <2>2. Varint(29) = <<29>>
    <3>1. Varint(29) = IF 29 < 128 THEN <<29>> ELSE <<Mark(29)>> \o Varint(Above(29))
      BY <2>1, VarintIs
    <3> QED BY <2>1, <3>1
  <2> DEFINE a == <<29>> \o pre
             b == <<29, 255, 255, 255, 255>>
  <2>3. a = b
    <3>1. pre \in Seq(Nat) /\ Len(pre) = 4 /\ <<29>> \in Seq(Nat) /\ Len(<<29>>) = 1
      OBVIOUS
    <3>2. a \in Seq(Nat) /\ Len(a) = 5
      BY <3>1
    <3>3. a[1] = 29 /\ a[2] = 255 /\ a[3] = 255 /\ a[4] = 255 /\ a[5] = 255
      OBVIOUS
    <3>4. b \in Seq(Nat) /\ Len(b) = 5
      OBVIOUS
    <3>5. b[1] = 29 /\ b[2] = 255 /\ b[3] = 255 /\ b[4] = 255 /\ b[5] = 255
      OBVIOUS
    <3> HIDE DEF a, b, pre
    <3>6. \A j \in 1..5 : j = 1 \/ j = 2 \/ j = 3 \/ j = 4 \/ j = 5
      OBVIOUS
    <3>7. \A j \in 1..Len(a) : a[j] = b[j]
      BY <3>2, <3>3, <3>5, <3>6
    <3> QED BY <3>2, <3>4, <3>7, SeqEqual
  <2> HIDE DEF a, b, pre
  <2>4. Varint(8 * 3 + 5) = <<29>>
    BY <2>1, <2>2
  <2>5. <<29>> \o pre = <<29, 255, 255, 255, 255>>
    BY <2>3 DEF a, b
  <2> QED BY <2>1, <2>4, <2>5, Zenon
<1>3. pre \in Seq(Nat) /\ Len(pre) = FixedWidth(5) /\ 3 \in Nat /\ 5 \in {1, 5}
  BY DEF FixedWidth
<1> HIDE DEF pre
<1>4. Fields(Varint(8 * 3 + 5) \o pre \o Message(fields)) = fields
  BY <1>1, <1>3, MessagesReadBack
<1> QED BY <1>1, <1>2, <1>4, MessagesReadBack

-----------------------------------------------------------------------------
(***************************************************************************)
(* The values that are picked from the fields.                             *)
(***************************************************************************)

\* upTo[n] is what is picked of the first n.
Picks(upTo, s, places) ==
  upTo = [n \in 0..Len(s) |-> IF n = 0 THEN <<>>
                              ELSE IF n \in places THEN Append(upTo[n - 1], s[n]) ELSE upTo[n - 1]]

\* One step of Picked.
Grows(f, s, places) ==
  /\ f[0] = <<>>
  /\ \A n \in 1..Len(s) : f[n] = IF n \in places THEN Append(f[n - 1], s[n]) ELSE f[n - 1]

\* Picked is such a growing sequence.
LEMMA PickedUpTo ==
  ASSUME NEW S, NEW s \in Seq(S), NEW places
  PROVE  \E upTo : /\ upTo \in [0..Len(s) -> Seq(S)] /\ Picked(s, places) = upTo[Len(s)]
                   /\ Grows(upTo, s, places)
<1> DEFINE D == 0..Len(s)
           T == Seq(S)
           id == [n \in D |-> n]
           stop == {0}
           base == [n \in D |-> <<>>]
           next == [n \in D \ stop |-> n - 1]
           step == [n \in D \ stop |-> [t \in T |-> IF n \in places THEN Append(t, s[n]) ELSE t]]
           one(f, n) == IF n \in places THEN Append(f[n - 1], s[n]) ELSE f[n - 1]
<1>1. Len(s) \in Nat /\ \A n \in 1..Len(s) : s[n] \in S
  OBVIOUS
<1>2. PICK f : Follows(f, D, T, stop, base, next, step)
  <2>1. id \in [D -> Nat] /\ \A n \in D \cap stop : base[n] \in T
    BY <1>1
  <2>2. next \in [D \ stop -> D] /\ \A n \in D \ stop : id[next[n]] < id[n]
    BY <1>1
  <2>3. \A n \in D \ stop : \A t \in T : step[n][t] \in T
    <3> SUFFICES ASSUME NEW n \in D \ stop, NEW t \in T PROVE step[n][t] \in T
      OBVIOUS
    <3>1. s[n] \in S
      BY <1>1
    <3>2. Append(t, s[n]) \in T
      BY <3>1
    <3>3. step[n][t] = IF n \in places THEN Append(t, s[n]) ELSE t
      OBVIOUS
    <3> HIDE DEF T, step
    <3> QED BY <3>2, <3>3
  <2> HIDE DEF D, T, id, stop, base, next, step
  <2>4. Recursive(D, id, T, stop, base, next, step)
    BY <2>1, <2>2, <2>3 DEF Recursive
  <2> QED BY <2>4, Recursion
<1>3. f \in [D -> T]
  <2> HIDE DEF D, T, stop, base, next, step
  <2> QED BY <1>2 DEF Follows
<1>4. \A n \in D : f[n] = IF n = 0 THEN <<>> ELSE one(f, n)
  <2> SUFFICES ASSUME NEW n \in D PROVE f[n] = IF n = 0 THEN <<>> ELSE one(f, n)
    OBVIOUS
  <2>1. n \in stop <=> n = 0
    OBVIOUS
  <2>2. base[n] = <<>>
    OBVIOUS
  <2>3. ASSUME n \notin stop
        PROVE next[n] = n - 1 /\ \A t \in T : step[n][t] = IF n \in places THEN Append(t, s[n]) ELSE t
    BY <2>3
  <2> HIDE DEF D, T, stop, base, next, step
  <2>4. CASE n = 0
    <3>1. f[n] = <<>>
      BY <1>2, <2>1, <2>2, <2>4 DEF Follows
    <3> QED BY <2>4, <3>1
  <2>5. CASE n # 0
    <3>1. f[next[n]] \in T /\ f[n] = step[n][f[next[n]]]
      BY <1>2, <2>1, <2>5 DEF Follows
    <3> QED BY <2>1, <2>3, <2>5, <3>1
  <2> QED BY <2>4, <2>5
<1>5. Picks(f, s, places)
  <2>1. f = [n \in D |-> f[n]]
    BY <1>3
  <2> HIDE DEF one
  <2>2. f = [n \in D |-> IF n = 0 THEN <<>> ELSE one(f, n)]
    <3> HIDE DEF D
    <3> QED BY <1>4, <2>1, Zenon
  <2> QED BY <2>2 DEF Picks, one
<1> DEFINE g == CHOOSE h : Picks(h, s, places)
<1>6. Picks(g, s, places) /\ Picked(s, places) = g[Len(s)]
  <2>1. Picks(g, s, places)
    BY <1>5
  <2>2. Picked(s, places) = g[Len(s)]
    BY DEF Picked, Picks
  <2> QED BY <2>1, <2>2
<1> HIDE DEF g
<1>7. g = [n \in D |-> IF n = 0 THEN <<>> ELSE one(g, n)]
  BY <1>6 DEF Picks
<1>8. g[0] = <<>> /\ \A n \in 1..Len(s) : g[n] = one(g, n)
  <2>1. 0 \in D /\ \A n \in 1..Len(s) : n \in D /\ n # 0
    BY <1>1
  <2> HIDE DEF D, one
  <2> QED BY <1>7, <2>1
<1>9. \A n \in D : g[n] \in T
  <2> DEFINE P == {n \in D : g[n] \in T}
  <2>1. ASSUME NEW n \in D, \A e \in D : id[e] < id[n] => e \in P PROVE n \in P
    <3>1. CASE n = 0
      <4>1. <<>> \in T
        OBVIOUS
      <4> HIDE DEF T
      <4> QED BY <1>8, <3>1, <4>1
    <3>2. CASE n # 0
      <4>1. n - 1 \in D /\ id[n - 1] < id[n] /\ n \in 1..Len(s)
        BY <1>1, <3>2
      <4>2. g[n - 1] \in T /\ s[n] \in S
        BY <1>1, <2>1, <4>1
      <4>3. Append(g[n - 1], s[n]) \in T
        BY <4>2
      <4>4. g[n] \in T
        <5> HIDE DEF T
        <5> QED BY <1>8, <4>1, <4>2, <4>3
      <4> HIDE DEF D, T
      <4> QED BY <4>4
    <3> QED BY <3>1, <3>2
  <2>2. id \in [D -> Nat]
    BY <1>1
  <2> HIDE DEF D, id, P
  <2>3. D \subseteq P
    BY <2>1, <2>2, Descent
  <2> QED BY <2>3 DEF P
<1>10. g \in [D -> T]
  <2>1. g = [n \in D |-> g[n]]
    <3> HIDE DEF D, one
    <3> QED BY <1>7
  <2> HIDE DEF D, T
  <2> QED BY <1>9, <2>1
<1> QED BY <1>6, <1>8, <1>10 DEF Grows

\* Of no elements none is picked.
LEMMA PickedNothing == \A places : Picked(<<>>, places) = <<>>
<1> TAKE places
<1>1. <<>> \in Seq(Nat) /\ Len(<<>>) = 0
  OBVIOUS
<1>2. PICK f : /\ f \in [0..Len(<<>>) -> Seq(Nat)] /\ Picked(<<>>, places) = f[Len(<<>>)]
               /\ Grows(f, <<>>, places)
  BY <1>1, PickedUpTo
<1>3. f[0] = <<>>
  BY <1>2 DEF Grows
<1> QED BY <1>1, <1>2, <1>3

\* What is picked up to some place depends on the places up to it.
Alike(s, t, places, others, m) ==
  /\ m \in Nat /\ Len(s) \in Nat /\ Len(t) \in Nat /\ m <= Len(s) /\ m <= Len(t)
  /\ \A k \in 1..m : s[k] = t[k] /\ (k \in places <=> k \in others)

\* Two sequences that agree up to m, on places too, have the same picked up to m.
LEMMA PickedAlike ==
  ASSUME NEW s, NEW t, NEW places, NEW others, NEW m, Alike(s, t, places, others, m),
         NEW f, Grows(f, s, places), NEW g, Grows(g, t, others)
  PROVE  \A n \in 0..m : f[n] = g[n]
<1> DEFINE D == 0..m
           id == [n \in D |-> n]
           P == {n \in D : f[n] = g[n]}
<1>1. /\ m \in Nat /\ Len(s) \in Nat /\ Len(t) \in Nat /\ m <= Len(s) /\ m <= Len(t)
      /\ \A k \in 1..m : s[k] = t[k] /\ (k \in places <=> k \in others)
  BY DEF Alike
<1>2. ASSUME NEW n \in D, \A e \in D : id[e] < id[n] => e \in P PROVE n \in P
  <2>1. CASE n = 0
    BY <2>1 DEF Grows
  <2>2. CASE n # 0
    <3>1. n - 1 \in D /\ id[n - 1] < id[n] /\ n \in 1..m /\ n \in 1..Len(s) /\ n \in 1..Len(t)
      BY <1>1, <2>2
    <3>2. f[n - 1] = g[n - 1]
      BY <1>2, <3>1
    <3>3. f[n] = IF n \in places THEN Append(f[n - 1], s[n]) ELSE f[n - 1]
      BY <3>1 DEF Grows
    <3>4. g[n] = IF n \in others THEN Append(g[n - 1], t[n]) ELSE g[n - 1]
      BY <3>1 DEF Grows
    <3>5. s[n] = t[n] /\ (n \in places <=> n \in others)
      BY <1>1, <3>1
    <3>6. f[n] = g[n]
      BY <3>2, <3>3, <3>4, <3>5
    <3> QED BY <3>6
  <2> QED BY <2>1, <2>2
<1>3. id \in [D -> Nat]
  BY <1>1
<1> HIDE DEF D, id, P
<1>4. D \subseteq P
  BY <1>2, <1>3, Descent
<1> QED BY <1>4 DEF D, P

\* One element more is picked, or is not.
LEMMA PickedMore ==
  ASSUME NEW S, NEW s \in Seq(S), NEW x \in S, NEW places, NEW others,
         \A k \in 1..Len(s) : k \in places <=> k \in others
  PROVE  /\ Picked(s, places) \in Seq(S)
         /\ Picked(Append(s, x), others) =
              IF Len(s) + 1 \in others THEN Append(Picked(s, places), x) ELSE Picked(s, places)
<1>a. PICK t : t = Append(s, x)
  OBVIOUS
<1>b. PICK m : m = Len(s)
  OBVIOUS
<1>1. m \in Nat /\ t \in Seq(S) /\ Len(t) = m + 1 /\ t[m + 1] = x /\ \A k \in 1..m : t[k] = s[k]
  BY <1>a, <1>b, AppendProperties
<1>2. PICK f : f \in [0..m -> Seq(S)] /\ Picked(s, places) = f[m] /\ Grows(f, s, places)
  BY <1>b, PickedUpTo
<1>3. PICK g : g \in [0..Len(t) -> Seq(S)] /\ Picked(t, others) = g[Len(t)] /\ Grows(g, t, others)
  BY <1>1, PickedUpTo
<1>4. \A n \in 0..m : f[n] = g[n]
  <2>1. Alike(s, t, places, others, m)
    BY <1>1, <1>b DEF Alike
  <2>2. Grows(f, s, places) /\ Grows(g, t, others)
    BY <1>2, <1>3
  <2> QED BY <2>1, <2>2, PickedAlike
<1>5. g[m + 1] = IF m + 1 \in others THEN Append(g[m], x) ELSE g[m]
  <2>1. m + 1 \in 1..Len(t) /\ (m + 1) - 1 = m
    BY <1>1
  <2> QED BY <1>1, <1>3, <2>1 DEF Grows
<1>6. g[m] = Picked(s, places) /\ Picked(s, places) \in Seq(S)
  <2>1. m \in 0..m
    BY <1>1
  <2> QED BY <1>2, <1>4, <2>1
<1> QED BY <1>1, <1>3, <1>5, <1>6, <1>a, <1>b

\* If all places are picked, the sequence stays as it is.
LEMMA PickedAll ==
  ASSUME NEW S, NEW s \in Seq(S), NEW places, \A k \in 1..Len(s) : k \in places
  PROVE  Picked(s, places) = s
<1>a. PICK m : m = Len(s)
  OBVIOUS
<1>1. m \in Nat /\ \A k \in 1..m : s[k] \in S
  BY <1>a
<1>2. PICK f : f \in [0..m -> Seq(S)] /\ Picked(s, places) = f[m] /\ Grows(f, s, places)
  BY <1>a, PickedUpTo
<1> DEFINE D == 0..m
           id == [n \in D |-> n]
           P == {n \in D : f[n] = SubSeq(s, 1, n)}
<1>3. ASSUME NEW n \in D, \A e \in D : id[e] < id[n] => e \in P PROVE n \in P
  <2>1. CASE n = 0
    <3>1. SubSeq(s, 1, 0) = <<>>
      BY SubSeqEmpty
    <3>2. f[0] = <<>>
      BY <1>2 DEF Grows
    <3> QED BY <2>1, <3>1, <3>2
  <2>2. CASE n # 0
    <3>1. n - 1 \in D /\ id[n - 1] < id[n] /\ n \in 1..m
      BY <1>1, <2>2
    <3>2. f[n - 1] = SubSeq(s, 1, n - 1)
      BY <1>3, <3>1
    <3>3. f[n] = Append(f[n - 1], s[n])
      <4>1. n \in 1..Len(s) /\ n \in places
        BY <1>a, <3>1
      <4> QED BY <1>2, <4>1 DEF Grows
    <3>4. SubSeq(s, 1, n) = Append(SubSeq(s, 1, n - 1), s[n])
      BY <1>a, <2>2, PartIs
    <3>5. f[n] = SubSeq(s, 1, n)
      BY <3>2, <3>3, <3>4
    <3> QED BY <3>5
  <2> QED BY <2>1, <2>2
<1>4. id \in [D -> Nat]
  BY <1>1
<1> HIDE DEF D, id, P
<1>5. D \subseteq P
  BY <1>3, <1>4, Descent
<1>6. f[m] = SubSeq(s, 1, m)
  <2>1. m \in D
    BY <1>1 DEF D
  <2> QED BY <1>5, <2>1 DEF P
<1>7. SubSeq(s, 1, m) = s
  <2> DEFINE p == SubSeq(s, 1, m)
  <2>1. m \in 0..Len(s)
    BY <1>1, <1>a
  <2>2. p \in Seq(S) /\ Len(p) = m /\ \A j \in 1..m : p[j] = s[j]
    BY <2>1, PartIs
  <2> HIDE DEF p
  <2>3. p = s
    BY <1>a, <2>2, SeqEqual
  <2> QED BY <2>3 DEF p
<1> QED BY <1>2, <1>6, <1>7

\* What fields hold.
Held == Nat \cup Seq(Nat)

\* The values of one field more.
LEMMA ValuesMore ==
  ASSUME NEW fs \in Seq(WireField), NEW f \in WireField, NEW num, NEW wire
  PROVE  /\ Values(fs, num, wire) \in Seq(Held)
         /\ Values(Append(fs, f), num, wire) =
              IF Fits(f, num, wire) THEN Append(Values(fs, num, wire), f.value) ELSE Values(fs, num, wire)
<1>a. PICK m : m = Len(fs)
  OBVIOUS
<1>b. PICK gs : gs = Append(fs, f)
  OBVIOUS
<1> DEFINE s == [i \in DOMAIN fs |-> fs[i].value]
           t == [i \in DOMAIN gs |-> gs[i].value]
           places == {i \in DOMAIN fs : Fits(fs[i], num, wire)}
           others == {i \in DOMAIN gs : Fits(gs[i], num, wire)}
<1>1. m \in Nat /\ DOMAIN fs = 1..m /\ \A k \in 1..m : fs[k] \in WireField
  BY <1>a
<1>2. gs \in Seq(WireField) /\ Len(gs) = m + 1 /\ gs[m + 1] = f /\ (\A k \in 1..m : gs[k] = fs[k])
      /\ DOMAIN gs = 1..(m + 1)
  <2>1. gs \in Seq(WireField) /\ Len(gs) = m + 1 /\ gs[m + 1] = f /\ \A k \in 1..m : gs[k] = fs[k]
    BY <1>a, <1>b, AppendProperties
  <2> QED BY <2>1
<1>3. \A g \in WireField : g.value \in Held
  BY DEF WireField, Held
<1>4. s \in Seq(Held) /\ Len(s) = m
  <2>1. s \in [1..m -> Held]
    BY <1>1, <1>3
  <2> HIDE DEF s
  <2> QED BY <1>1, <2>1
<1>5. Append(s, f.value) = t
  <2>1. t \in [1..(m + 1) -> Held]
    <3>1. \A k \in 1..(m + 1) : gs[k] \in WireField
      BY <1>2
    <3> QED BY <1>2, <1>3, <3>1
  <2>2. t \in Seq(Held) /\ Len(t) = m + 1
    <3> HIDE DEF t
    <3> QED BY <1>1, <2>1
  <2> DEFINE a == Append(s, f.value)
  <2>3. a \in Seq(Held) /\ Len(a) = m + 1 /\ a[m + 1] = f.value /\ \A k \in 1..m : a[k] = s[k]
    <3>1. f.value \in Held
      BY <1>3
    <3> HIDE DEF s
    <3> QED BY <1>4, <3>1, AppendProperties
  <2>4. t[m + 1] = f.value /\ \A k \in 1..m : t[k] = s[k]
    BY <1>1, <1>2
  <2> HIDE DEF a, t, s
  <2>5. \A k \in 1..Len(a) : a[k] = t[k]
    <3>1. \A k \in 1..(m + 1) : k \in 1..m \/ k = m + 1
      BY <1>1
    <3> QED BY <2>3, <2>4, <3>1
  <2>6. a = t
    BY <2>2, <2>3, <2>5, SeqEqual
  <2> QED BY <2>6 DEF a
<1>6. \A k \in 1..Len(s) : k \in places <=> k \in others
  <2> SUFFICES ASSUME NEW k \in 1..m PROVE k \in places <=> k \in others
    BY <1>4
  <2>1. k \in 1..(m + 1)
    BY <1>1
  <2> QED BY <1>1, <1>2, <2>1
<1>7. Len(s) + 1 \in others <=> Fits(f, num, wire)
  <2>1. m + 1 \in 1..(m + 1)
    BY <1>1
  <2> HIDE DEF s
  <2> QED BY <1>2, <1>4, <2>1
<1>8. Values(fs, num, wire) = Picked(s, places) /\ Values(gs, num, wire) = Picked(t, others)
  BY DEF Values
<1>9. f.value \in Held
  BY <1>3
<1> HIDE DEF s, t, places, others
<1>10. /\ Picked(s, places) \in Seq(Held)
       /\ Picked(Append(s, f.value), others) =
            IF Len(s) + 1 \in others THEN Append(Picked(s, places), f.value) ELSE Picked(s, places)
  <2>1. PICK v, x, had, has : v = s /\ x = f.value /\ had = places /\ has = others
    OBVIOUS
  <2>2. v \in Seq(Held) /\ x \in Held /\ \A k \in 1..Len(v) : k \in had <=> k \in has
    BY <1>4, <1>6, <1>9, <2>1
  <2>3. /\ Picked(v, had) \in Seq(Held)
        /\ Picked(Append(v, x), has) = IF Len(v) + 1 \in has THEN Append(Picked(v, had), x) ELSE Picked(v, had)
    BY <2>2, PickedMore
  <2> QED BY <2>1, <2>3
<1> QED BY <1>5, <1>7, <1>8, <1>10, <1>b

\* No fields, no values.
LEMMA ValuesNothing == \A num, wire : Values(<<>>, num, wire) = <<>>
<1> TAKE num, wire
<1>1. [i \in DOMAIN <<>> |-> <<>>[i].value] = <<>>
  OBVIOUS
<1> QED BY <1>1, PickedNothing DEF Values

\* The last of the values is that of the last field that fits.
LEMMA LastMore ==
  ASSUME NEW fs \in Seq(WireField), NEW f \in WireField, NEW num, NEW wire
  PROVE  LastOf(Append(fs, f), num, wire) = IF Fits(f, num, wire) THEN <<f.value>> ELSE LastOf(fs, num, wire)
<1> DEFINE vs == Values(fs, num, wire)
           ws == Values(Append(fs, f), num, wire)
<1>1. vs \in Seq(Held) /\ ws = IF Fits(f, num, wire) THEN Append(vs, f.value) ELSE vs
  BY ValuesMore
<1>2. LastOf(Append(fs, f), num, wire) = (IF ws = <<>> THEN <<>> ELSE <<Last(ws)>>)
      /\ LastOf(fs, num, wire) = IF vs = <<>> THEN <<>> ELSE <<Last(vs)>>
  BY DEF LastOf
<1> HIDE DEF vs, ws
<1>3. CASE Fits(f, num, wire)
  <2>1. f.value \in Held
    BY DEF WireField, Held
  <2>2. ws # <<>> /\ Last(ws) = f.value
    BY <1>1, <1>3, <2>1, AppendProperties DEF Last
  <2> QED BY <1>2, <1>3, <2>2
<1> QED BY <1>1, <1>2, <1>3

\* The first is that of the first field that fits.
LEMMA FirstMore ==
  ASSUME NEW fs \in Seq(WireField), NEW f \in WireField, NEW num, NEW wire
  PROVE  FirstOf(Append(fs, f), num, wire) =
           IF FirstOf(fs, num, wire) = <<>> /\ Fits(f, num, wire) THEN <<f.value>> ELSE FirstOf(fs, num, wire)
<1> DEFINE vs == Values(fs, num, wire)
           ws == Values(Append(fs, f), num, wire)
<1>1. vs \in Seq(Held) /\ ws = IF Fits(f, num, wire) THEN Append(vs, f.value) ELSE vs
  BY ValuesMore
<1>2. FirstOf(Append(fs, f), num, wire) = (IF ws = <<>> THEN <<>> ELSE <<Head(ws)>>)
      /\ FirstOf(fs, num, wire) = IF vs = <<>> THEN <<>> ELSE <<Head(vs)>>
  BY DEF FirstOf
<1> HIDE DEF vs, ws
<1>a. <<Head(vs)>> # <<>>
  OBVIOUS
<1>3. CASE Fits(f, num, wire)
  <2>1. f.value \in Held
    BY DEF WireField, Held
  <2>2. ws # <<>> /\ ws = Append(vs, f.value)
    BY <1>1, <1>3, <2>1, AppendProperties
  <2>3. CASE vs = <<>>
    <3>1. Head(ws) = f.value
      BY <2>1, <2>2, <2>3
    <3> QED BY <1>2, <1>3, <2>2, <2>3, <3>1
  <2>4. CASE vs # <<>>
    <3>1. Head(ws) = Head(vs)
      <4>1. 1 \in 1..Len(vs)
        BY <1>1, <2>4
      <4>2. ws[1] = vs[1]
        BY <1>1, <2>1, <2>2, <4>1, AppendProperties
      <4> QED BY <1>1, <2>1, <2>2, <2>4, <4>2
    <3> QED BY <1>a, <1>2, <1>3, <2>2, <2>4, <3>1
  <2> QED BY <2>3, <2>4
<1> QED BY <1>1, <1>2, <1>3

\* Of no fields there is neither a first nor a last.
LEMMA OfNothing == \A num, wire : FirstOf(<<>>, num, wire) = <<>> /\ LastOf(<<>>, num, wire) = <<>>
BY ValuesNothing DEF FirstOf, LastOf

\* If all fields fit, the values are those of all, in order.
LEMMA ValuesAll ==
  ASSUME NEW fs \in Seq(WireField), NEW num, NEW wire, \A k \in 1..Len(fs) : Fits(fs[k], num, wire)
  PROVE  Values(fs, num, wire) = [i \in 1..Len(fs) |-> fs[i].value]
<1> DEFINE s == [i \in 1..Len(fs) |-> fs[i].value]
           places == {i \in 1..Len(fs) : Fits(fs[i], num, wire)}
<1>1. DOMAIN fs = 1..Len(fs) /\ Len(fs) \in Nat
  OBVIOUS
<1>2. Values(fs, num, wire) = Picked(s, places)
  BY <1>1 DEF Values
<1>3. s \in Seq(Held) /\ Len(s) = Len(fs)
  <2>1. \A k \in 1..Len(fs) : fs[k].value \in Held
    <3>1. \A g \in WireField : g.value \in Held
      BY DEF WireField, Held
    <3> QED BY <3>1
  <2>2. s \in [1..Len(fs) -> Held]
    BY <2>1
  <2> HIDE DEF s
  <2> QED BY <1>1, <2>2
<1>4. \A k \in 1..Len(s) : k \in places
  BY <1>3
<1> HIDE DEF s, places
<1>5. Picked(s, places) = s
  BY <1>3, <1>4, PickedAll
<1> QED BY <1>2, <1>5 DEF s

-----------------------------------------------------------------------------
(***************************************************************************)
(* Subscriptions, plans, and the allowances of fee grants.                 *)
(***************************************************************************)

\* A number, or bytes, as a field.
NumberIn(num, n) == [num |-> num, wire |-> 0, value |-> n]
BytesIn(num, data) == [num |-> num, wire |-> 2, value |-> data]

\* Such a field is a field,
LEMMA NumberInIs ==
  ASSUME NEW num \in Nat, NEW n \in Nat
  PROVE  /\ NumberIn(num, n) \in WireField /\ Written(NumberIn(num, n)) = VarintField(num, n)
         /\ NumberIn(num, n).value = n
         /\ \A k, w : Fits(NumberIn(num, n), k, w) <=> k = num /\ w = 0
BY DEF NumberIn, WireField, Written, Fits

\* and so is this one.
LEMMA BytesInIs ==
  ASSUME NEW num \in Nat, NEW data \in Seq(Nat)
  PROVE  /\ BytesIn(num, data) \in WireField /\ Written(BytesIn(num, data)) = BytesField(num, data)
         /\ BytesIn(num, data).value = data
         /\ \A k, w : Fits(BytesIn(num, data), k, w) <=> k = num /\ w = 2
BY DEF BytesIn, WireField, Written, Fits

\* Messages of up to three fields.
One(f) == Append(<<>>, f)
Two(f, g) == Append(One(f), g)
Three(f, g, h) == Append(Two(f, g), h)

\* A message of one field,
LEMMA EncodesOne ==
  ASSUME NEW f \in WireField
  PROVE  Encodes(Written(f), One(f)) /\ One(f) \in Seq(WireField)
<1>1. Encodes(<<>> \o Written(f), One(f))
  BY EncodesNothing, EncodesMore DEF One
<1>2. <<>> \o Written(f) = Written(f)
  BY WrittenIs
<1> QED BY <1>1, <1>2 DEF Encodes

\* of two,
LEMMA EncodesTwo ==
  ASSUME NEW f \in WireField, NEW g \in WireField
  PROVE  Encodes(Written(f) \o Written(g), Two(f, g)) /\ Two(f, g) \in Seq(WireField)
<1>1. Encodes(Written(f) \o Written(g), Two(f, g))
  BY EncodesOne, EncodesMore DEF Two
<1> QED BY <1>1 DEF Encodes

\* and of three says these fields.
LEMMA EncodesThree ==
  ASSUME NEW f \in WireField, NEW g \in WireField, NEW h \in WireField
  PROVE  /\ Encodes(Written(f) \o Written(g) \o Written(h), Three(f, g, h))
         /\ Three(f, g, h) \in Seq(WireField)
<1>1. Encodes(Written(f) \o Written(g) \o Written(h), Three(f, g, h))
  BY EncodesTwo, EncodesMore DEF Three
<1> QED BY <1>1 DEF Encodes

\* The last and the first of up to three fields.
LEMMA OfOne ==
  ASSUME NEW f \in WireField, NEW num, NEW wire
  PROVE  /\ LastOf(One(f), num, wire) = IF Fits(f, num, wire) THEN <<f.value>> ELSE <<>>
         /\ FirstOf(One(f), num, wire) = IF Fits(f, num, wire) THEN <<f.value>> ELSE <<>>
<1>0. <<>> \in Seq(WireField)
  OBVIOUS
<1>1. PICK e : e = <<>>
  OBVIOUS
<1>2. One(f) = Append(e, f) /\ e \in Seq(WireField)
  BY <1>0, <1>1 DEF One
<1>3. FirstOf(e, num, wire) = <<>> /\ LastOf(e, num, wire) = <<>>
  BY <1>1, OfNothing
<1>4. LastOf(One(f), num, wire) = IF Fits(f, num, wire) THEN <<f.value>> ELSE LastOf(e, num, wire)
  BY <1>2, LastMore
<1>5. FirstOf(One(f), num, wire) =
        IF FirstOf(e, num, wire) = <<>> /\ Fits(f, num, wire) THEN <<f.value>> ELSE FirstOf(e, num, wire)
  BY <1>2, FirstMore
<1> QED BY <1>3, <1>4, <1>5

\* Of two fields, the one that fits and comes last, or first.
LEMMA OfTwo ==
  ASSUME NEW f \in WireField, NEW g \in WireField, NEW num, NEW wire
  PROVE  /\ LastOf(Two(f, g), num, wire) =
              IF Fits(g, num, wire) THEN <<g.value>> ELSE LastOf(One(f), num, wire)
         /\ FirstOf(Two(f, g), num, wire) =
              IF FirstOf(One(f), num, wire) = <<>> /\ Fits(g, num, wire) THEN <<g.value>>
              ELSE FirstOf(One(f), num, wire)
BY EncodesOne, LastMore, FirstMore DEF Two

\* The same of three.
LEMMA OfThree ==
  ASSUME NEW f \in WireField, NEW g \in WireField, NEW h \in WireField, NEW num, NEW wire
  PROVE  /\ LastOf(Three(f, g, h), num, wire) =
              IF Fits(h, num, wire) THEN <<h.value>> ELSE LastOf(Two(f, g), num, wire)
         /\ FirstOf(Three(f, g, h), num, wire) =
              IF FirstOf(Two(f, g), num, wire) = <<>> /\ Fits(h, num, wire) THEN <<h.value>>
              ELSE FirstOf(Two(f, g), num, wire)
BY EncodesTwo, LastMore, FirstMore DEF Three

\* _decodePlanSubscription finds the id and the plan of a subscription, whatever
\* they are, in either order and with any field it does not know in between.
THEOREM SubscriptionsAreRead ==
  ASSUME NEW id \in Nat \ {0}, NEW plan \in Nat \ {0}, NEW odd \in WireField, odd.num \notin {1, 2},
         NEW swapped \in BOOLEAN
  PROVE  SubscriptionIsRead(id, plan, odd, swapped)
<1>1. PICK i : i = NumberIn(1, id)
  OBVIOUS
<1>2. i \in WireField /\ i = [num |-> 1, wire |-> 0, value |-> id] /\ i.value = id
      /\ \A k, w : Fits(i, k, w) <=> k = 1 /\ w = 0
  BY <1>1, NumberInIs DEF NumberIn
<1>3. \A w : ~Fits(odd, 1, w) /\ ~Fits(odd, 2, w)
  BY DEF Fits
<1>4. PICK base : base = Message(<<odd, i, odd>>)
  OBVIOUS
<1>5. FieldsUpTo(base) = <<odd, i, odd>> /\ base \in Seq(Nat) /\ <<odd, i, odd>> \in Seq(WireField)
  <2>1. <<odd, i, odd>> \in Seq(WireField)
    BY <1>2
  <2>2. Encodes(base, <<odd, i, odd>>)
    BY <1>4, <2>1, EncodesMessage
  <2> QED BY <2>1, <2>2, EncodesRead DEF Encodes
<1>6. LastOf(FieldsUpTo(base), 1, 0) = <<id>>
  <2>1. <<odd, i, odd>> = Three(odd, i, odd)
    BY DEF One, Two, Three
  <2>2. ~Fits(odd, 1, 0) /\ Fits(i, 1, 0)
    BY <1>2, <1>3
  <2>3. LastOf(Three(odd, i, odd), 1, 0) = <<id>>
    BY <1>2, <2>2, OfThree, OfTwo
  <2> QED BY <1>5, <2>1, <2>3
<1>7. base # <<>>
  <2> SUFFICES ASSUME base = <<>> PROVE FALSE
    OBVIOUS
  <2>2. FieldsUpTo(base) = <<>>
    BY EncodesNothing, EncodesRead
  <2>3. Len(<<odd, i, odd>>) = 3
    OBVIOUS
  <2> QED BY <1>5, <2>2, <2>3
<1>8. PICK b, p : b = BytesIn(1, base) /\ p = NumberIn(2, plan)
  OBVIOUS
<1>9. /\ b \in WireField /\ Written(b) = Embedded(1, base) /\ b.value = base
      /\ \A k, w : Fits(b, k, w) <=> k = 1 /\ w = 2
  <2>1. base \in Seq(Nat)
    BY <1>5
  <2>2. /\ b \in WireField /\ Written(b) = BytesField(1, base) /\ b.value = base
        /\ \A k, w : Fits(b, k, w) <=> k = 1 /\ w = 2
    BY <1>8, <2>1, BytesInIs
  <2>3. Embedded(1, base) = BytesField(1, base)
    BY <1>7 DEF Embedded
  <2> QED BY <2>2, <2>3
<1>10. /\ p \in WireField /\ Written(p) = VarintField(2, plan) /\ p.value = plan
       /\ \A k, w : Fits(p, k, w) <=> k = 2 /\ w = 0
  BY <1>8, NumberInIs
<1>11. PICK sub : sub = IF swapped THEN Written(odd) \o VarintField(2, plan) \o Embedded(1, base)
                        ELSE Written(odd) \o Embedded(1, base) \o VarintField(2, plan)
  OBVIOUS
<1>12. /\ sub \in Seq(Nat) /\ LastOf(FieldsUpTo(sub), 1, 2) = <<base>>
       /\ LastOf(FieldsUpTo(sub), 2, 0) = <<plan>>
  <2>1. CASE swapped
    <3>1. sub = Written(odd) \o Written(p) \o Written(b)
      BY <1>9, <1>10, <1>11, <2>1
    <3>2. PICK fs : fs = Three(odd, p, b)
      OBVIOUS
    <3>3. Encodes(sub, fs)
      BY <1>9, <1>10, <3>1, <3>2, EncodesThree
    <3>4. FieldsUpTo(sub) = fs /\ sub \in Seq(Nat)
      BY <3>3, EncodesRead DEF Encodes
    <3>5. LastOf(fs, 1, 2) = <<base>> /\ LastOf(fs, 2, 0) = <<plan>>
      <4>1. /\ ~Fits(odd, 1, 2) /\ ~Fits(odd, 2, 0) /\ Fits(b, 1, 2) /\ ~Fits(b, 2, 0)
            /\ Fits(p, 2, 0) /\ ~Fits(p, 1, 2)
        BY <1>3, <1>9, <1>10
      <4> QED BY <1>9, <1>10, <3>2, <4>1, OfThree, OfTwo, OfOne
    <3> QED BY <3>4, <3>5
  <2>2. CASE ~swapped
    <3>1. sub = Written(odd) \o Written(b) \o Written(p)
      BY <1>9, <1>10, <1>11, <2>2
    <3>2. PICK fs : fs = Three(odd, b, p)
      OBVIOUS
    <3>3. Encodes(sub, fs)
      BY <1>9, <1>10, <3>1, <3>2, EncodesThree
    <3>4. FieldsUpTo(sub) = fs /\ sub \in Seq(Nat)
      BY <3>3, EncodesRead DEF Encodes
    <3>5. LastOf(fs, 1, 2) = <<base>> /\ LastOf(fs, 2, 0) = <<plan>>
      <4>1. /\ ~Fits(odd, 1, 2) /\ ~Fits(odd, 2, 0) /\ Fits(b, 1, 2) /\ ~Fits(b, 2, 0)
            /\ Fits(p, 2, 0) /\ ~Fits(p, 1, 2)
        BY <1>3, <1>9, <1>10
      <4> QED BY <1>9, <1>10, <3>2, <4>1, OfThree, OfTwo, OfOne
    <3> QED BY <3>4, <3>5
  <2> QED BY <2>1, <2>2
<1>13. NonZero(<<id>>) = <<id>> /\ NonZero(<<plan>>) = <<plan>>
  <2>1. <<id>> # <<0>> /\ <<plan>> # <<0>>
    OBVIOUS
  <2> QED BY <2>1 DEF NonZero
<1>14. DecodePlanSubscription(sub) = [id |-> <<id>>, plan |-> <<plan>>]
  <2>1. <<base>> # <<>> /\ <<base>>[1] = base
    OBVIOUS
  <2> QED BY <1>6, <1>12, <1>13, <2>1 DEF DecodePlanSubscription
<1>15. PICK any : any = BytesField(1, <<47, 115>>) \o BytesField(2, sub)
  OBVIOUS
<1>16. DecodeAny(any).bytes = <<sub>>
  <2>0. <<47, 115>> \in Seq(Nat)
    OBVIOUS
  <2>1. PICK u : u = <<47, 115>>
    OBVIOUS
  <2>a. u \in Seq(Nat)
    BY <2>0, <2>1
  <2>b. PICK t, s : t = BytesIn(1, u) /\ s = BytesIn(2, sub)
    OBVIOUS
  <2>2. /\ t \in WireField /\ Written(t) = BytesField(1, u)
        /\ \A k, w : Fits(t, k, w) <=> k = 1 /\ w = 2
    BY <2>a, <2>b, BytesInIs
  <2>3. Written(t) = BytesField(1, <<47, 115>>) /\ t \in WireField
    BY <2>1, <2>2
  <2>4. /\ s \in WireField /\ Written(s) = BytesField(2, sub) /\ s.value = sub
        /\ \A k, w : Fits(s, k, w) <=> k = 2 /\ w = 2
    BY <1>12, <2>b, BytesInIs
  <2>5. PICK fs : fs = Two(t, s)
    OBVIOUS
  <2>6. Encodes(any, fs)
    BY <1>15, <2>3, <2>4, <2>5, EncodesTwo
  <2>7. FieldsUpTo(any) = fs
    BY <2>6, EncodesRead
  <2>8. LastOf(fs, 2, 2) = <<sub>>
    <3>1. Fits(s, 2, 2)
      BY <2>4
    <3> QED BY <2>3, <2>4, <2>5, <3>1, OfTwo
  <2> QED BY <2>7, <2>8 DEF DecodeAny, AnyOf
<1>17. DecodePlanSubscription(DecodeAny(any).bytes[1]) = [id |-> <<id>>, plan |-> <<plan>>]
  <2>1. <<sub>>[1] = sub
    OBVIOUS
  <2> QED BY <1>14, <1>16, <2>1
<1> QED BY <1>2, <1>4, <1>11, <1>15, <1>17 DEF SubscriptionIsRead

\* So are those that are looked at with TLC.
LEMMA AllSubscriptionsRead == SubscriptionRead
<1> SUFFICES ASSUME NEW id \in Numbers64 \ {0}, NEW plan \in Numbers64 \ {0},
                    NEW odd \in {f \in AnyField : f.num = 16}, NEW swapped \in BOOLEAN
             PROVE  SubscriptionIsRead(id, plan, odd, swapped)
  BY DEF SubscriptionRead
<1>1. id \in Nat \ {0} /\ plan \in Nat \ {0}
  BY DEF Numbers64
<1>2. odd \in WireField /\ odd.num \notin {1, 2}
  <2>1. odd \in AnyField /\ odd.num = 16
    OBVIOUS
  <2> QED BY <2>1, AnyFieldsAreFields
<1> QED BY <1>1, <1>2, SubscriptionsAreRead

\* Two plans are read, in their order, and the one without an id is left out.
LEMMA PlanIsRead ==
  ASSUME NEW n \in Nat
  PROVE  \E m : /\ m \in Seq(Nat) /\ PlanWritten(n) = BytesField(1, m)
                /\ Plan(Fields(m)) = [id |-> <<n>>, prov |-> <<<<7>>>>]
<1>0. <<7>> \in Seq(Nat)
  OBVIOUS
<1>1. PICK u : u = <<7>>
  OBVIOUS
<1>2. u \in Seq(Nat)
  BY <1>0, <1>1
<1>3. PICK f, g, h : f = NumberIn(1, n) /\ g = BytesIn(2, u) /\ h = NumberIn(9, n)
  OBVIOUS
<1>4. f \in WireField /\ Written(f) = VarintField(1, n) /\ f.value = n /\ Fits(f, 1, 0) /\ ~Fits(f, 2, 2)
  BY <1>3, NumberInIs
<1>5. g \in WireField /\ Written(g) = BytesField(2, u) /\ g.value = u /\ Fits(g, 2, 2)
  BY <1>2, <1>3, BytesInIs
<1>6. h \in WireField /\ Written(h) = VarintField(9, n)
  BY <1>3, NumberInIs
<1>7. PICK m : m = Written(f) \o Written(g) \o Written(h)
  OBVIOUS
<1>8. m \in Seq(Nat) /\ Fields(m) = Three(f, g, h)
  <2>1. Encodes(m, Three(f, g, h))
    BY <1>4, <1>5, <1>6, <1>7, EncodesThree
  <2> QED BY <2>1, EncodesRead DEF Encodes
<1>9. FirstOf(Three(f, g, h), 1, 0) = <<n>> /\ FirstOf(Three(f, g, h), 2, 2) = <<u>>
  <2>1. FirstOf(One(f), 1, 0) = <<n>> /\ FirstOf(One(f), 2, 2) = <<>> /\ <<n>> # <<>> /\ <<u>> # <<>>
    BY <1>4, OfOne
  <2>2. FirstOf(Two(f, g), 1, 0) = <<n>> /\ FirstOf(Two(f, g), 2, 2) = <<u>>
    BY <1>4, <1>5, <2>1, OfTwo
  <2> QED BY <1>4, <1>5, <1>6, <2>1, <2>2, OfThree
<1>10. Plan(Fields(m)) = [id |-> <<n>>, prov |-> <<<<7>>>>]
  BY <1>1, <1>8, <1>9 DEF Plan
<1>11. PlanWritten(n) = BytesField(1, m)
  BY <1>1, <1>4, <1>5, <1>6, <1>7 DEF PlanWritten
<1> QED BY <1>8, <1>10, <1>11

\* The tuples of the model, in the words of Append.
LEMMA Spelled ==
  ASSUME NEW p, NEW q, NEW r
  PROVE  Append(Append(<<>>, p), q) = <<p, q>> /\ Append(Append(Append(<<>>, p), q), r) = <<p, q, r>>
<1>1. PICK S : S = {p, q, r}
  OBVIOUS
<1>2. p \in S /\ q \in S /\ r \in S
  BY <1>1
<1>0. <<>> \in Seq(S) /\ Len(<<>>) = 0
  OBVIOUS
<1>3. PICK e : e = <<>>
  OBVIOUS
<1>4. PICK a : a = Append(e, p)
  OBVIOUS
<1>5. PICK b : b = Append(a, q)
  OBVIOUS
<1>6. PICK c : c = Append(b, r)
  OBVIOUS
<1>7. e \in Seq(S) /\ Len(e) = 0
  BY <1>0, <1>3
<1>8. a \in Seq(S) /\ Len(a) = 1 /\ a[1] = p
  <2>1. 0 + 1 = 1
    OBVIOUS
  <2> QED BY <1>2, <1>4, <1>7, <2>1, AppendProperties
<1>9. b \in Seq(S) /\ Len(b) = 2 /\ b[1] = p /\ b[2] = q
  <2>1. b \in Seq(S) /\ Len(b) = Len(a) + 1 /\ b[Len(a) + 1] = q /\ \A i \in 1..Len(a) : b[i] = a[i]
    <3>1. a \in Seq(S) /\ q \in S
      BY <1>2, <1>8
    <3> QED BY <1>5, <3>1, AppendProperties
  <2>2. Len(a) + 1 = 2 /\ 1 \in 1..Len(a)
    BY <1>8
  <2> QED BY <1>8, <2>1, <2>2
<1>10. c \in Seq(S) /\ Len(c) = 3 /\ c[1] = p /\ c[2] = q /\ c[3] = r
  <2>1. c \in Seq(S) /\ Len(c) = Len(b) + 1 /\ c[Len(b) + 1] = r /\ \A i \in 1..Len(b) : c[i] = b[i]
    <3>1. b \in Seq(S) /\ r \in S
      BY <1>2, <1>9
    <3> QED BY <1>6, <3>1, AppendProperties
  <2>2. Len(b) + 1 = 3 /\ 1 \in 1..Len(b) /\ 2 \in 1..Len(b)
    BY <1>9
  <2> QED BY <1>9, <2>1, <2>2
<1>11. <<p, q>> \in Seq(S) /\ Len(<<p, q>>) = 2 /\ <<p, q>>[1] = p /\ <<p, q>>[2] = q
  BY <1>2
<1>12. /\ <<p, q, r>> \in Seq(S) /\ Len(<<p, q, r>>) = 3
       /\ <<p, q, r>>[1] = p /\ <<p, q, r>>[2] = q /\ <<p, q, r>>[3] = r
  BY <1>2
<1>13. PICK v, w : v = <<p, q>> /\ w = <<p, q, r>>
  OBVIOUS
<1>14. (\A k \in 1..2 : k = 1 \/ k = 2) /\ \A k \in 1..3 : k = 1 \/ k = 2 \/ k = 3
  OBVIOUS
<1>15. b = v
  <2>1. v \in Seq(S) /\ Len(v) = 2 /\ v[1] = p /\ v[2] = q
    BY <1>11, <1>13
  <2>2. \A k \in 1..Len(b) : b[k] = v[k]
    BY <1>9, <1>14, <2>1
  <2> QED BY <1>9, <2>1, <2>2, SeqEqual
<1>16. c = w
  <2>1. w \in Seq(S) /\ Len(w) = 3 /\ w[1] = p /\ w[2] = q /\ w[3] = r
    BY <1>12, <1>13
  <2>2. \A k \in 1..Len(c) : c[k] = w[k]
    BY <1>10, <1>14, <2>1
  <2> QED BY <1>10, <2>1, <2>2, SeqEqual
<1>17. Append(Append(<<>>, p), q) = b /\ Append(Append(Append(<<>>, p), q), r) = c
  BY <1>3, <1>4, <1>5, <1>6, Zenon
<1> QED BY <1>13, <1>15, <1>16, <1>17, Zenon

\* Picked from three, all but the second.
LEMMA PickedOuter ==
  ASSUME NEW p, NEW q, NEW r
  PROVE  Picked(<<p, q, r>>, {1, 3}) = <<p, r>>
<1>1. PICK s, S, places : s = <<p, q, r>> /\ S = {p, q, r} /\ places = {1, 3}
  OBVIOUS
<1>2. s \in Seq(S) /\ Len(s) = 3 /\ s[1] = p /\ s[3] = r
  BY <1>1
<1>3. 1 \in places /\ 2 \notin places /\ 3 \in places
  BY <1>1
<1>4. PICK f : f \in [0..Len(s) -> Seq(S)] /\ Picked(s, places) = f[Len(s)] /\ Grows(f, s, places)
  BY <1>2, PickedUpTo
<1>5. \A n \in 1..3 : f[n] = IF n \in places THEN Append(f[n - 1], s[n]) ELSE f[n - 1]
  BY <1>2, <1>4 DEF Grows
<1>6. f[1] = Append(<<>>, p)
  <2>1. f[0] = <<>>
    BY <1>4 DEF Grows
  <2>2. 1 \in 1..3 /\ 1 - 1 = 0
    OBVIOUS
  <2>3. f[1] = Append(f[0], s[1])
    BY <1>3, <1>5, <2>2
  <2> QED BY <1>2, <2>1, <2>3
<1>7. f[3] = Append(f[1], r)
  <2>1. 2 \in 1..3 /\ 2 - 1 = 1 /\ 3 \in 1..3 /\ 3 - 1 = 2
    OBVIOUS
  <2>2. f[2] = f[1]
    BY <1>3, <1>5, <2>1
  <2>3. f[3] = Append(f[2], s[3])
    BY <1>3, <1>5, <2>1
  <2> QED BY <1>2, <2>2, <2>3
<1>8. Append(Append(<<>>, p), r) = <<p, r>>
  BY Spelled
<1> QED BY <1>1, <1>2, <1>4, <1>6, <1>7, <1>8

\* discoverPlans reads the list of plans, whatever their ids, in its order and
\* without the plan that has no id.
THEOREM PlansRead ==
  ASSUME NEW id \in Nat, NEW other \in Nat
  PROVE  PlansAreRead(id, other)
<1>1. PICK x : /\ x \in Seq(Nat) /\ PlanWritten(id) = BytesField(1, x)
               /\ Plan(Fields(x)) = [id |-> <<id>>, prov |-> <<<<7>>>>]
  BY PlanIsRead
<1>2. PICK y : /\ y \in Seq(Nat) /\ PlanWritten(other) = BytesField(1, y)
               /\ Plan(Fields(y)) = [id |-> <<other>>, prov |-> <<<<7>>>>]
  BY PlanIsRead
<1>a. <<>> \in Seq(Nat) /\ <<8, 2>> \in Seq(Nat)
  OBVIOUS
<1>3. PICK e, t : e = <<>> /\ t = <<8, 2>>
  OBVIOUS
<1>b. e \in Seq(Nat) /\ t \in Seq(Nat)
  BY <1>a, <1>3
<1>4. PICK a, b, c, d : a = BytesIn(1, x) /\ b = BytesIn(1, e) /\ c = BytesIn(1, y) /\ d = BytesIn(2, t)
  OBVIOUS
<1>5. /\ a \in WireField /\ Written(a) = PlanWritten(id) /\ a.value = x /\ Fits(a, 1, 2)
      /\ b \in WireField /\ Written(b) = BytesField(1, e) /\ b.value = e /\ Fits(b, 1, 2)
      /\ c \in WireField /\ Written(c) = PlanWritten(other) /\ c.value = y /\ Fits(c, 1, 2)
      /\ d \in WireField /\ Written(d) = BytesField(2, t) /\ ~Fits(d, 1, 2)
  BY <1>1, <1>2, <1>4, <1>b, BytesInIs
<1>6. PICK fs : fs = Three(a, b, c)
  OBVIOUS
<1>7. PICK buf : buf = Written(a) \o Written(b) \o Written(c) \o Written(d)
  OBVIOUS
<1>8. Fields(buf) = Append(fs, d) /\ fs \in Seq(WireField)
  <2>1. Encodes(Written(a) \o Written(b) \o Written(c), fs) /\ fs \in Seq(WireField)
    BY <1>5, <1>6, EncodesThree
  <2>2. Encodes(buf, Append(fs, d))
    BY <1>5, <1>7, <2>1, EncodesMore
  <2> QED BY <2>1, <2>2, EncodesRead
<1>9. Values(Append(fs, d), 1, 2) = <<x, e, y>>
  <2>0. <<>> \in Seq(WireField)
    OBVIOUS
  <2>1. PICK none : none = <<>>
    OBVIOUS
  <2>2. none \in Seq(WireField) /\ Values(none, 1, 2) = <<>> /\ One(a) = Append(none, a)
    BY <2>0, <2>1, ValuesNothing DEF One
  <2>3. Values(One(a), 1, 2) = Append(Values(none, 1, 2), x)
    BY <1>5, <2>2, ValuesMore
  <2>4. Values(Two(a, b), 1, 2) = Append(Values(One(a), 1, 2), e)
    BY <1>5, EncodesOne, ValuesMore DEF Two
  <2>5. Values(fs, 1, 2) = Append(Values(Two(a, b), 1, 2), y)
    BY <1>5, <1>6, EncodesTwo, ValuesMore DEF Three
  <2>6. Values(Append(fs, d), 1, 2) = Values(fs, 1, 2)
    BY <1>5, <1>8, ValuesMore
  <2>7. Append(Append(Append(<<>>, x), e), y) = <<x, e, y>>
    BY Spelled
  <2> QED BY <2>2, <2>3, <2>4, <2>5, <2>6, <2>7
<1>10. DecodePlans(buf) = PlansOf(<<x, e, y>>)
  BY <1>8, <1>9 DEF DecodePlans
<1>11. PICK p, q, r : p = Plan(Fields(x)) /\ q = Plan(Fields(e)) /\ r = Plan(Fields(y))
  OBVIOUS
<1>12. q.id = <<>> /\ p.id # <<>> /\ r.id # <<>>
  <2>1. Fields(e) = <<>>
    BY <1>3, EncodesNothing, EncodesRead
  <2>2. q.id = <<>>
    BY <1>11, <2>1, OfNothing DEF Plan
  <2>3. <<id>> # <<>> /\ <<other>> # <<>>
    OBVIOUS
  <2> QED BY <1>1, <1>2, <1>11, <2>2, <2>3
<1>13. PlansOf(<<x, e, y>>) = Known(<<p, q, r>>)
  <2>1. [i \in DOMAIN <<x, e, y>> |-> Plan(Fields(<<x, e, y>>[i]))] = <<p, q, r>>
    BY <1>11
  <2> QED BY <2>1 DEF PlansOf
<1>14. Known(<<p, q, r>>) = <<p, r>>
  <2>1. {i \in DOMAIN <<p, q, r>> : <<p, q, r>>[i].id # <<>>} = {1, 3}
    BY <1>12
  <2> QED BY <2>1, PickedOuter DEF Known
<1>15. buf = PlanWritten(id) \o BytesField(1, <<>>) \o PlanWritten(other) \o BytesField(2, <<8, 2>>)
  BY <1>3, <1>5, <1>7
<1> QED BY <1>1, <1>2, <1>10, <1>11, <1>13, <1>14, <1>15 DEF PlansAreRead

---------------------------------------------------------------------------
\* An allowance as the reader holds it.
Seen(a) == [type |-> <<a.type>>, bytes |-> <<a.bytes>>]
\* An allowance that can be written: the name of its type, and its bytes.
Writable == [type : Seq(Nat), bytes : Seq(Nat)]

\* A single field of bytes is found again.
LEMMA BytesFound ==
  ASSUME NEW data \in Seq(Nat), NEW num \in Nat
  PROVE  BytesField(num, data) \in Seq(Nat) /\ FirstOf(Fields(BytesField(num, data)), num, 2) = <<data>>
<1>1. PICK f : f = BytesIn(num, data)
  OBVIOUS
<1>2. f \in WireField /\ Written(f) = BytesField(num, data) /\ f.value = data /\ Fits(f, num, 2)
  BY <1>1, BytesInIs
<1>3. Encodes(Written(f), One(f))
  BY <1>2, EncodesOne
<1>4. Fields(Written(f)) = One(f) /\ Written(f) \in Seq(Nat)
  BY <1>3, EncodesRead DEF Encodes
<1>5. FirstOf(One(f), num, 2) = <<data>>
  BY <1>2, OfOne
<1> QED BY <1>2, <1>4, <1>5

\* An Any is read as the type and the bytes it holds.
LEMMA AnyIsRead ==
  ASSUME NEW a \in Writable
  PROVE  AnyWritten(a) \in Seq(Nat) /\ Allowance(Fields(AnyWritten(a))) = Seen(a)
<1>1. PICK f, g : f = BytesIn(1, a.type) /\ g = BytesIn(2, a.bytes)
  OBVIOUS
<1>2. a.type \in Seq(Nat) /\ a.bytes \in Seq(Nat)
  BY DEF Writable
<1>3. /\ f \in WireField /\ Written(f) = BytesField(1, a.type) /\ f.value = a.type
      /\ Fits(f, 1, 2) /\ ~Fits(f, 2, 2)
      /\ g \in WireField /\ Written(g) = BytesField(2, a.bytes) /\ g.value = a.bytes /\ Fits(g, 2, 2)
  BY <1>1, <1>2, BytesInIs
<1>4. Encodes(AnyWritten(a), Two(f, g))
  BY <1>3, EncodesTwo DEF AnyWritten
<1>5. Fields(AnyWritten(a)) = Two(f, g) /\ AnyWritten(a) \in Seq(Nat)
  BY <1>4, EncodesRead DEF Encodes
<1>6. FirstOf(Two(f, g), 1, 2) = <<a.type>> /\ FirstOf(Two(f, g), 2, 2) = <<a.bytes>>
  <2>1. FirstOf(One(f), 1, 2) = <<a.type>> /\ FirstOf(One(f), 2, 2) = <<>> /\ <<a.type>> # <<>>
    BY <1>3, OfOne
  <2> QED BY <1>3, <2>1, OfTwo
<1> QED BY <1>5, <1>6 DEF Allowance, Seen

\* A grant leads the reader to the allowance in it.
LEMMA GrantIsRead ==
  ASSUME NEW a \in Writable
  PROVE  SpendLimit(GrantWritten(a)) = Limit(Unwrapped(Unwrapped(Unwrapped(Seen(a)))))
<1>0. <<5>> \in Seq(Nat) /\ <<6>> \in Seq(Nat)
  OBVIOUS
<1>1. PICK u, v : u = <<5>> /\ v = <<6>>
  OBVIOUS
<1>2. u \in Seq(Nat) /\ v \in Seq(Nat)
  BY <1>0, <1>1
<1>3. PICK w : w = AnyWritten(a)
  OBVIOUS
<1>4. w \in Seq(Nat) /\ Allowance(Fields(w)) = Seen(a)
  BY <1>3, AnyIsRead
<1>5. PICK f, g, h : f = BytesIn(1, u) /\ g = BytesIn(2, v) /\ h = BytesIn(3, w)
  OBVIOUS
<1>6. /\ f \in WireField /\ Written(f) = BytesField(1, u) /\ ~Fits(f, 3, 2)
      /\ g \in WireField /\ Written(g) = BytesField(2, v) /\ ~Fits(g, 3, 2)
      /\ h \in WireField /\ Written(h) = BytesField(3, w) /\ h.value = w /\ Fits(h, 3, 2)
  BY <1>2, <1>4, <1>5, BytesInIs
<1>7. PICK m : m = Written(f) \o Written(g) \o Written(h)
  OBVIOUS
<1>8. m \in Seq(Nat) /\ Fields(m) = Three(f, g, h)
  <2>1. Encodes(m, Three(f, g, h))
    BY <1>6, <1>7, EncodesThree
  <2> QED BY <2>1, EncodesRead DEF Encodes
<1>9. FirstOf(Three(f, g, h), 3, 2) = <<w>>
  <2>1. FirstOf(One(f), 3, 2) = <<>>
    BY <1>6, OfOne
  <2>2. FirstOf(Two(f, g), 3, 2) = <<>>
    BY <1>6, <2>1, OfTwo
  <2> QED BY <1>6, <2>2, OfThree
<1>10. PICK buf : buf = BytesField(1, m)
  OBVIOUS
<1>11. FirstOf(Fields(buf), 1, 2) = <<m>>
  BY <1>8, <1>10, BytesFound
<1>12. GrantWritten(a) = buf
  BY <1>1, <1>3, <1>6, <1>7, <1>10 DEF GrantWritten
<1>13. Inside(<<m>>) = Three(f, g, h) /\ Inside(<<w>>) = Fields(w)
  <2>1. <<m>> # <<>> /\ <<m>>[1] = m /\ <<w>> # <<>> /\ <<w>>[1] = w
    OBVIOUS
  <2> QED BY <1>8, <2>1 DEF Inside
<1>14. SpendLimit(buf) = Limit(Unwrapped(Unwrapped(Unwrapped(Allowance(Inside(FirstOf(Inside(<<m>>), 3, 2)))))))
  BY <1>11 DEF SpendLimit
<1> QED BY <1>4, <1>9, <1>12, <1>13, <1>14

\* What an allowance wrapped in another one leaves after one turn.
LEMMA Wrapping ==
  ASSUME NEW a \in Writable
  PROVE  /\ InPeriodic(a) \in Writable /\ InAllowedMsg(a) \in Writable
         /\ a.type = Basic => Unwrapped(Seen(a)) = Seen(a)
         /\ a.type = Basic => Unwrapped(Seen(InPeriodic(a))) = Seen(a)
         /\ Unwrapped(Seen(InAllowedMsg(a))) = Seen(a)
<1>1. a.type \in Seq(Nat) /\ a.bytes \in Seq(Nat)
  BY DEF Writable
<1>2. /\ Basic \in Seq(Nat) /\ Periodic \in Seq(Nat) /\ AllowedMsg \in Seq(Nat)
      /\ Basic # Periodic /\ Basic # AllowedMsg /\ Periodic # AllowedMsg
  BY DEF Basic, Periodic, AllowedMsg
<1>3. AnyWritten(a) \in Seq(Nat) /\ Allowance(Fields(AnyWritten(a))) = Seen(a)
  BY AnyIsRead
<1>4. \A x : Inside(<<x>>) = Fields(x)
  <2> TAKE x
  <2>1. <<x>> # <<>> /\ <<x>>[1] = x
    OBVIOUS
  <2> QED BY <2>1 DEF Inside
<1>5. \A x, y : <<x>> = <<y>> => x = y
  <2> SUFFICES ASSUME NEW x, NEW y, <<x>> = <<y>> PROVE x = y
    OBVIOUS
  <2>1. <<x>>[1] = x /\ <<y>>[1] = y
    OBVIOUS
  <2> QED BY <2>1
<1>6. \A x : <<x>> # <<>>
  OBVIOUS
<1>7. \A s : /\ (s.type = <<Basic>> => Unwrapped(s) = s)
             /\ \A data : s.type = <<Periodic>> /\ FirstOf(Inside(s.bytes), 1, 2) = <<data>>
                  => Unwrapped(s) = [type |-> <<Basic>>, bytes |-> <<data>>]
             /\ \A data : s.type = <<AllowedMsg>> /\ FirstOf(Inside(s.bytes), 1, 2) = <<data>>
                  => Unwrapped(s) = Allowance(Fields(data))
  <2> TAKE s
  <2>1. ASSUME s.type = <<Basic>> PROVE Unwrapped(s) = s
    <3>1. s.type # <<Periodic>>
      BY <1>2, <1>5, <2>1
    <3> QED BY <2>1, <3>1 DEF Unwrapped
  <2>2. ASSUME NEW data, s.type = <<Periodic>>, FirstOf(Inside(s.bytes), 1, 2) = <<data>>
        PROVE  Unwrapped(s) = [type |-> <<Basic>>, bytes |-> <<data>>]
    <3>1. s.type # <<Basic>> /\ <<data>> # <<>>
      BY <1>2, <1>5, <2>2
    <3> QED BY <2>2, <3>1 DEF Unwrapped
  <2>3. ASSUME NEW data, s.type = <<AllowedMsg>>, FirstOf(Inside(s.bytes), 1, 2) = <<data>>
        PROVE  Unwrapped(s) = Allowance(Fields(data))
    <3>1. s.type # <<Basic>> /\ s.type # <<Periodic>> /\ <<data>> # <<>>
      BY <1>2, <1>5, <2>3
    <3>2. Inside(<<data>>) = Fields(data)
      BY <1>4
    <3> QED BY <2>3, <3>1, <3>2 DEF Unwrapped
  <2> QED BY <2>1, <2>2, <2>3
<1>8. a.type = Basic => Unwrapped(Seen(a)) = Seen(a)
  BY <1>7 DEF Seen
<1>9. InPeriodic(a) \in Writable
  <2>1. BytesField(1, a.bytes) \in Seq(Nat)
    BY <1>1, BytesFound
  <2> QED BY <1>2, <2>1 DEF InPeriodic, Writable
<1>10. InAllowedMsg(a) \in Writable
  <2>1. BytesField(1, AnyWritten(a)) \in Seq(Nat)
    BY <1>3, BytesFound
  <2> QED BY <1>2, <2>1 DEF InAllowedMsg, Writable
<1>11. ASSUME a.type = Basic PROVE Unwrapped(Seen(InPeriodic(a))) = Seen(a)
  <2>1. PICK s : s = Seen(InPeriodic(a))
    OBVIOUS
  <2>2. s.type = <<Periodic>> /\ s.bytes = <<BytesField(1, a.bytes)>>
    BY <2>1 DEF Seen, InPeriodic
  <2>3. FirstOf(Inside(s.bytes), 1, 2) = <<a.bytes>>
    <3>1. Inside(s.bytes) = Fields(BytesField(1, a.bytes))
      BY <1>4, <2>2
    <3>2. FirstOf(Fields(BytesField(1, a.bytes)), 1, 2) = <<a.bytes>>
      BY <1>1, BytesFound
    <3> QED BY <3>1, <3>2
  <2>4. Unwrapped(s) = [type |-> <<Basic>>, bytes |-> <<a.bytes>>]
    BY <1>7, <2>2, <2>3
  <2> QED BY <1>11, <2>1, <2>4 DEF Seen
<1>12. Unwrapped(Seen(InAllowedMsg(a))) = Seen(a)
  <2>1. PICK s : s = Seen(InAllowedMsg(a))
    OBVIOUS
  <2>2. s.type = <<AllowedMsg>> /\ s.bytes = <<BytesField(1, AnyWritten(a))>>
    BY <2>1 DEF Seen, InAllowedMsg
  <2>3. FirstOf(Inside(s.bytes), 1, 2) = <<AnyWritten(a)>>
    BY <1>3, <1>4, <2>2, BytesFound
  <2>4. Unwrapped(s) = Allowance(Fields(AnyWritten(a)))
    BY <1>7, <2>2, <2>3
  <2> QED BY <1>3, <2>1, <2>4
<1> QED BY <1>8, <1>9, <1>10, <1>11, <1>12

\* Whatever its wrapping, the basic allowance is what remains.
LEMMA Unwrapping ==
  ASSUME NEW basic \in Writable, basic.type = Basic, NEW a \in Wrappings(basic)
  PROVE  a \in Writable /\ Unwrapped(Unwrapped(Unwrapped(Seen(a)))) = Seen(basic)
<1>1. Unwrapped(Seen(basic)) = Seen(basic)
  BY Wrapping
<1>2. PICK p : p = InPeriodic(basic)
  OBVIOUS
<1>3. p \in Writable /\ Unwrapped(Seen(p)) = Seen(basic)
  BY <1>2, Wrapping
<1>4. ASSUME NEW b \in Writable
      PROVE  InAllowedMsg(b) \in Writable /\ Unwrapped(Seen(InAllowedMsg(b))) = Seen(b)
  BY Wrapping
<1>5. a \in {basic, p, InAllowedMsg(basic), InAllowedMsg(p),
             InAllowedMsg(InAllowedMsg(basic)), InAllowedMsg(InAllowedMsg(p))}
  BY <1>2 DEF Wrappings
<1>6. CASE a = basic
  BY <1>1, <1>6
<1>7. CASE a = p
  BY <1>1, <1>3, <1>7
<1>8. CASE a = InAllowedMsg(basic)
  BY <1>1, <1>4, <1>8
<1>9. CASE a = InAllowedMsg(p)
  BY <1>1, <1>3, <1>4, <1>9
<1>10. CASE a = InAllowedMsg(InAllowedMsg(basic))
  BY <1>1, <1>4, <1>10
<1>11. CASE a = InAllowedMsg(InAllowedMsg(p))
  BY <1>1, <1>3, <1>4, <1>11
<1> QED BY <1>5, <1>6, <1>7, <1>8, <1>9, <1>10, <1>11

\* A coin is read as its denomination and its amount.
LEMMA CoinIsRead ==
  ASSUME NEW amount \in Seq(Nat)
  PROVE  CoinWritten(amount) \in Seq(Nat) /\ FirstOf(Fields(CoinWritten(amount)), 2, 2) = <<amount>>
<1>0. <<9>> \in Seq(Nat)
  OBVIOUS
<1>1. PICK u : u = <<9>>
  OBVIOUS
<1>2. u \in Seq(Nat)
  BY <1>0, <1>1
<1>3. PICK f, g : f = BytesIn(1, u) /\ g = BytesIn(2, amount)
  OBVIOUS
<1>4. /\ f \in WireField /\ Written(f) = BytesField(1, u) /\ ~Fits(f, 2, 2)
      /\ g \in WireField /\ Written(g) = BytesField(2, amount) /\ g.value = amount /\ Fits(g, 2, 2)
  BY <1>2, <1>3, BytesInIs
<1>5. CoinWritten(amount) = Written(f) \o Written(g)
  BY <1>1, <1>4 DEF CoinWritten
<1>6. Encodes(Written(f) \o Written(g), Two(f, g))
  BY <1>4, EncodesTwo
<1>7. Fields(CoinWritten(amount)) = Two(f, g) /\ CoinWritten(amount) \in Seq(Nat)
  BY <1>5, <1>6, EncodesRead DEF Encodes
<1>8. FirstOf(Two(f, g), 2, 2) = <<amount>>
  <2>1. FirstOf(One(f), 2, 2) = <<>>
    BY <1>4, OfOne
  <2> QED BY <1>4, <2>1, OfTwo
<1> QED BY <1>7, <1>8

\* queryFeeGrantRpcFirst reads the spend limit of a grant for any number of coins
\* and any amounts, however the chain wrapped it, in three wrappings at most.
THEOREM LimitsAreRead ==
  ASSUME NEW amounts \in Seq(Seq(Nat))
  PROVE  LimitIsRead(amounts)
<1>1. PICK n : n = Len(amounts)
  OBVIOUS
<1>2. n \in Nat /\ DOMAIN amounts = 1..n /\ \A i \in 1..n : amounts[i] \in Seq(Nat)
  BY <1>1
<1>3. PICK fs : fs = [i \in 1..n |-> [num |-> 1, wire |-> 2, value |-> CoinWritten(amounts[i])]]
  OBVIOUS
<1>4. \A i \in 1..n : CoinWritten(amounts[i]) \in Seq(Nat)
                      /\ FirstOf(Fields(CoinWritten(amounts[i])), 2, 2) = <<amounts[i]>>
  BY <1>2, CoinIsRead
<1>5. /\ fs \in Seq(WireField) /\ Len(fs) = n
      /\ \A i \in 1..n : fs[i].value = CoinWritten(amounts[i]) /\ Fits(fs[i], 1, 2)
  <2>1. \A i \in 1..n : /\ fs[i] = BytesIn(1, CoinWritten(amounts[i])) /\ fs[i] \in WireField
                        /\ fs[i].value = CoinWritten(amounts[i]) /\ Fits(fs[i], 1, 2)
    <3> TAKE i \in 1..n
    <3>1. fs[i] = BytesIn(1, CoinWritten(amounts[i]))
      BY <1>3 DEF BytesIn
    <3> QED BY <1>4, <3>1, BytesInIs
  <2>2. fs \in [1..n -> WireField]
    BY <1>3, <2>1
  <2>3. fs \in Seq(WireField) /\ Len(fs) = n
    BY <1>2, <2>2
  <2> QED BY <2>1, <2>3
<1>6. PICK basic : basic = BasicOf(amounts)
  OBVIOUS
<1>7. basic.type = Basic /\ basic.bytes = Message(fs) /\ basic = [type |-> Basic, bytes |-> Message(fs)]
  BY <1>2, <1>3, <1>6 DEF BasicOf
<1>8. Message(fs) \in Seq(Nat) /\ Fields(Message(fs)) = fs
  BY <1>5, EncodesMessage, EncodesRead DEF Encodes
<1>9. basic \in Writable
  <2>1. Basic \in Seq(Nat)
    BY DEF Basic
  <2> QED BY <1>7, <1>8, <2>1 DEF Writable
<1>10. PICK coins : coins = Values(fs, 1, 2)
  OBVIOUS
<1>11. coins = [i \in 1..n |-> CoinWritten(amounts[i])]
  <2>1. coins = [i \in 1..Len(fs) |-> fs[i].value]
    BY <1>5, <1>10, ValuesAll
  <2> QED BY <1>5, <2>1
<1>12. Amounts(coins) = [i \in DOMAIN amounts |-> <<amounts[i]>>]
  <2>1. DOMAIN coins = 1..n /\ \A i \in 1..n : coins[i] = CoinWritten(amounts[i])
    BY <1>11
  <2>2. Amounts(coins) = [i \in 1..n |-> FirstOf(Fields(coins[i]), 2, 2)]
    BY <2>1 DEF Amounts
  <2>3. \A i \in 1..n : FirstOf(Fields(coins[i]), 2, 2) = <<amounts[i]>>
    BY <1>4, <2>1
  <2> QED BY <1>2, <2>2, <2>3
<1>13. Limit(Seen(basic)) = [i \in DOMAIN amounts |-> <<amounts[i]>>]
  <2>1. Inside(<<Message(fs)>>) = fs
    <3>1. <<Message(fs)>> # <<>> /\ <<Message(fs)>>[1] = Message(fs)
      OBVIOUS
    <3> QED BY <1>8, <3>1 DEF Inside
  <2>2. Limit(Seen(basic)) = Amounts(Values(Inside(<<Message(fs)>>), 1, 2))
    BY <1>7 DEF Limit, Seen
  <2> QED BY <1>10, <1>12, <2>1, <2>2
<1>14. ASSUME NEW a \in Wrappings(basic)
       PROVE  SpendLimit(GrantWritten(a)) = [i \in DOMAIN amounts |-> <<amounts[i]>>]
  <2>1. a \in Writable /\ Unwrapped(Unwrapped(Unwrapped(Seen(a)))) = Seen(basic)
    BY <1>7, <1>9, Unwrapping
  <2> QED BY <1>13, <2>1, GrantIsRead
<1> QED BY <1>6, <1>14 DEF LimitIsRead

\* All three readers on the answers that are looked at with TLC.
LEMMA AllAnswersRead == AnswersRead
<1>1. ASSUME NEW id \in Numbers64, NEW other \in Numbers64 PROVE PlansAreRead(id, other)
  <2>1. id \in Nat /\ other \in Nat
    BY DEF Numbers64
  <2> QED BY <2>1, PlansRead
<1>2. ASSUME NEW amounts \in {<<>>} \cup {<<a>> : a \in Pieces} \cup {<<a, b>> : a, b \in Pieces}
      PROVE  LimitIsRead(amounts)
  <2>1. Pieces \subseteq Seq(Nat)
    BY DEF Pieces
  <2>2. \/ amounts = <<>> \/ (\E a \in Pieces : amounts = <<a>>)
        \/ (\E a, b \in Pieces : amounts = <<a, b>>)
    OBVIOUS
  <2>3. PICK T : T = Seq(Nat)
    OBVIOUS
  <2>4. <<>> \in Seq(T) /\ \A a, b \in T : <<a>> \in Seq(T) /\ <<a, b>> \in Seq(T)
    OBVIOUS
  <2>5. \A a \in Pieces : a \in T
    BY <2>1, <2>3
  <2>6. amounts \in Seq(T)
    <3>1. CASE amounts = <<>>
      BY <2>4, <3>1
    <3>2. ASSUME NEW a \in Pieces, amounts = <<a>> PROVE amounts \in Seq(T)
      BY <2>4, <2>5, <3>2
    <3>3. ASSUME NEW a \in Pieces, NEW b \in Pieces, amounts = <<a, b>> PROVE amounts \in Seq(T)
      BY <2>4, <2>5, <3>3
    <3> QED BY <2>2, <3>1, <3>2, <3>3
  <2> QED BY <2>3, <2>6, LimitsAreRead
<1> QED BY <1>1, <1>2 DEF AnswersRead

-----------------------------------------------------------------------------
(***************************************************************************)
(* The lists that are made of two answers.                                 *)
(***************************************************************************)

\* A chain's subscriptions: finitely many, each under an id of its own.
OneEach(chain) ==
  /\ IsFiniteSet(chain)
  /\ \A s \in chain : s.mine \in BOOLEAN /\ s.active \in BOOLEAN /\ s.granted \in BOOLEAN
  /\ \A s, t \in chain : s.id = t.id => s = t

\* What the LCD's list, or RPC's, says of a subscription.
ByLcd(s, rpcOk, lcdOk, allocations) ==
  lcdOk /\ s.active /\ (s.mine \/ (s.granted /\ s.id \in allocations))
ByRpc(s, rpcOk, lcdOk) == rpcOk /\ s.mine /\ ~(lcdOk /\ s.active)

\* The entries of the result, and the subscriptions they stand for.
Lists(chain, rpcOk, lcdOk, allocations, out) ==
  \A e : e \in out <=>
    \E s \in chain : \/ e = Entry(s, TRUE) /\ ByLcd(s, rpcOk, lcdOk, allocations)
                     \/ e = Entry(s, FALSE) /\ ByRpc(s, rpcOk, lcdOk)

\* The subscription an entry of the result stands for.
Meant(chain, e) == CHOOSE s \in chain : s.id = e.id

\* Merged lists what the two lists say, the LCD's first.
LEMMA MergedIs ==
  ASSUME NEW chain, OneEach(chain), NEW rpcOk \in BOOLEAN, NEW lcdOk \in BOOLEAN,
         NEW allocations, NEW out, out = Merged(chain, rpcOk, lcdOk, allocations)
  PROVE  Lists(chain, rpcOk, lcdOk, allocations, out)
<1> DEFINE direct == IF rpcOk THEN FromRpc(chain) ELSE {}
           have == {e.id : e \in direct}
           listed == IF lcdOk THEN FromLcd(chain, have, allocations) ELSE {}
<1>0. \A s, t \in chain : s.id = t.id => s = t
  BY DEF OneEach
<1>1. \A s : Entry(s, TRUE).id = s.id /\ Entry(s, FALSE).id = s.id
  BY DEF Entry
<1>2. \A e : e \in direct <=> \E s \in chain : rpcOk /\ s.mine /\ e = Entry(s, FALSE)
  BY DEF FromRpc
<1> HIDE DEF direct
<1>3. \A s \in chain : s.id \in have <=> rpcOk /\ s.mine
  <2> SUFFICES ASSUME NEW s \in chain
               PROVE  s.id \in have <=> rpcOk /\ s.mine
    OBVIOUS
  <2>1. ASSUME rpcOk, s.mine PROVE s.id \in have
    <3>1. Entry(s, FALSE) \in direct
      BY <1>2, <2>1
    <3> QED BY <3>1, <1>1
  <2>2. ASSUME s.id \in have PROVE rpcOk /\ s.mine
    <3>1. PICK e \in direct : e.id = s.id
      BY <2>2
    <3>2. PICK t \in chain : rpcOk /\ t.mine /\ e = Entry(t, FALSE)
      BY <1>2, <3>1
    <3>3. t = s
      BY <3>1, <3>2, <1>0, <1>1
    <3> QED BY <3>2, <3>3
  <2> QED BY <2>1, <2>2
<1> HIDE DEF have
<1>4. \A e : e \in listed <=>
        \E s \in chain : e = Entry(s, TRUE) /\ ByLcd(s, rpcOk, lcdOk, allocations)
  <2>1. \A e : e \in listed <=>
          \E s \in chain : /\ lcdOk /\ e = Entry(s, TRUE) /\ s.active
                           /\ s.id \in have \/ s.mine \/ (s.granted /\ s.id \in allocations)
    BY DEF FromLcd
  <2> HIDE DEF listed
  <2> QED BY <2>1, <1>3 DEF ByLcd, OneEach
<1> HIDE DEF listed
<1>5. \A s \in chain : (\A l \in listed : l.id # s.id) <=> ~ByLcd(s, rpcOk, lcdOk, allocations)
  <2> SUFFICES ASSUME NEW s \in chain
               PROVE  (\E l \in listed : l.id = s.id) <=> ByLcd(s, rpcOk, lcdOk, allocations)
    OBVIOUS
  <2>1. ASSUME ByLcd(s, rpcOk, lcdOk, allocations) PROVE \E l \in listed : l.id = s.id
    <3>1. Entry(s, TRUE) \in listed
      BY <1>4, <2>1
    <3> QED BY <3>1, <1>1
  <2>2. ASSUME NEW l \in listed, l.id = s.id PROVE ByLcd(s, rpcOk, lcdOk, allocations)
    <3>1. PICK t \in chain : l = Entry(t, TRUE) /\ ByLcd(t, rpcOk, lcdOk, allocations)
      BY <1>4
    <3>2. t = s
      BY <3>1, <2>2, <1>0, <1>1
    <3> QED BY <3>1, <3>2
  <2> QED BY <2>1, <2>2
<1>6. \A e : e \in direct /\ (\A l \in listed : l.id # e.id) <=>
        \E s \in chain : e = Entry(s, FALSE) /\ ByRpc(s, rpcOk, lcdOk)
  <2>1. \A s \in chain : rpcOk /\ s.mine /\ ~ByLcd(s, rpcOk, lcdOk, allocations)
                            <=> ByRpc(s, rpcOk, lcdOk)
    BY DEF ByLcd, ByRpc, OneEach
  <2> SUFFICES ASSUME NEW e
               PROVE  e \in direct /\ (\A l \in listed : l.id # e.id) <=>
                        \E s \in chain : e = Entry(s, FALSE) /\ ByRpc(s, rpcOk, lcdOk)
    OBVIOUS
  <2>2. ASSUME e \in direct, \A l \in listed : l.id # e.id
        PROVE  \E s \in chain : e = Entry(s, FALSE) /\ ByRpc(s, rpcOk, lcdOk)
    <3>1. PICK s \in chain : rpcOk /\ s.mine /\ e = Entry(s, FALSE)
      BY <1>2, <2>2
    <3>2. e.id = s.id
      BY <3>1, <1>1
    <3>3. ~ByLcd(s, rpcOk, lcdOk, allocations)
      BY <1>5, <2>2, <3>2
    <3>4. ByRpc(s, rpcOk, lcdOk)
      BY <2>1, <3>1, <3>3
    <3> QED BY <3>1, <3>4
  <2>3. ASSUME NEW s \in chain, e = Entry(s, FALSE), ByRpc(s, rpcOk, lcdOk)
        PROVE  e \in direct /\ (\A l \in listed : l.id # e.id)
    <3>1. e.id = s.id
      BY <2>3, <1>1
    <3>2. rpcOk /\ s.mine /\ ~ByLcd(s, rpcOk, lcdOk, allocations)
      BY <2>1, <2>3
    <3>3. e \in direct
      BY <1>2, <2>3, <3>2
    <3>4. \A l \in listed : l.id # s.id
      BY <1>5, <3>2
    <3> QED BY <3>1, <3>3, <3>4
  <2> QED BY <2>2, <2>3
<1>7. out = listed \cup {e \in direct : \A l \in listed : l.id # e.id}
  BY DEF Merged, direct, have, listed
<1> QED BY <1>4, <1>6, <1>7 DEF Lists

\* The subscriptions that are found.
Finds(chain, out) == {Meant(chain, e) : e \in out}

\* An entry leads back to its subscription.
LEMMA MeantIs ==
  ASSUME NEW chain, OneEach(chain), NEW s \in chain
  PROVE  Meant(chain, Entry(s, TRUE)) = s /\ Meant(chain, Entry(s, FALSE)) = s
BY DEF Meant, Entry, OneEach

\* What the list owes its reader.
Exact(chain, rpcOk, lcdOk, allocations, out, found) ==
  /\ Cardinality(found) = Cardinality(out)
  /\ \A s \in found : s.mine \/ s.granted
  /\ \A e \in out : e.expiry => Usable(Meant(chain, e))
  /\ \A s \in chain : Usable(s) =>
       (s \in found <=> IF s.mine THEN rpcOk \/ lcdOk ELSE lcdOk /\ s.id \in allocations)
  /\ lcdOk /\ ~rpcOk /\ (\A s \in chain : s.id \in allocations) =>
       found = {s \in chain : Usable(s)}

\* querySubscriptions, for any subscriptions of the chain and whichever of the two
\* lists is missing: none is listed twice, none is listed that the wallet has no
\* part in, an expired one is given no expiry, and what is missing is what the
\* list that failed would have brought.
THEOREM MergeIsExact ==
  ASSUME NEW chain, OneEach(chain), NEW rpcOk \in BOOLEAN, NEW lcdOk \in BOOLEAN,
         NEW allocations, NEW out, out = Merged(chain, rpcOk, lcdOk, allocations),
         NEW found, found = Finds(chain, out)
  PROVE  Exact(chain, rpcOk, lcdOk, allocations, out, found)
<1>0. /\ IsFiniteSet(chain)
      /\ \A s \in chain : s.mine \in BOOLEAN /\ s.active \in BOOLEAN /\ s.granted \in BOOLEAN
  BY DEF OneEach
<1>1. \A e : e \in out <=>
        \E s \in chain : \/ e = Entry(s, TRUE) /\ ByLcd(s, rpcOk, lcdOk, allocations)
                         \/ e = Entry(s, FALSE) /\ ByRpc(s, rpcOk, lcdOk)
  <2>1. Lists(chain, rpcOk, lcdOk, allocations, out)
    BY MergedIs
  <2> QED BY <2>1 DEF Lists
<1>2. \A s \in chain : Meant(chain, Entry(s, TRUE)) = s /\ Meant(chain, Entry(s, FALSE)) = s
  BY MeantIs
<1> USE DEF Finds
<1>3. \A s \in chain : s \in found <=>
        ByLcd(s, rpcOk, lcdOk, allocations) \/ ByRpc(s, rpcOk, lcdOk)
  <2> SUFFICES ASSUME NEW s \in chain
               PROVE  s \in found <=> ByLcd(s, rpcOk, lcdOk, allocations) \/ ByRpc(s, rpcOk, lcdOk)
    OBVIOUS
  <2>1. ASSUME ByLcd(s, rpcOk, lcdOk, allocations) PROVE s \in found
    <3>1. Entry(s, TRUE) \in out
      BY <1>1, <2>1
    <3> QED BY <3>1, <1>2
  <2>2. ASSUME ByRpc(s, rpcOk, lcdOk) PROVE s \in found
    <3>1. Entry(s, FALSE) \in out
      BY <1>1, <2>2
    <3> QED BY <3>1, <1>2
  <2>3. ASSUME s \in found PROVE ByLcd(s, rpcOk, lcdOk, allocations) \/ ByRpc(s, rpcOk, lcdOk)
    <3>1. PICK e \in out : s = Meant(chain, e)
      BY <2>3
    <3>2. PICK t \in chain : \/ e = Entry(t, TRUE) /\ ByLcd(t, rpcOk, lcdOk, allocations)
                             \/ e = Entry(t, FALSE) /\ ByRpc(t, rpcOk, lcdOk)
      BY <1>1
    <3>3. t = s
      BY <3>1, <3>2, <1>2
    <3> QED BY <3>2, <3>3
  <2> QED BY <2>1, <2>2, <2>3
<1>4. found \subseteq chain
  <2> SUFFICES ASSUME NEW e \in out PROVE Meant(chain, e) \in chain
    OBVIOUS
  <2>1. PICK t \in chain : \/ e = Entry(t, TRUE) /\ ByLcd(t, rpcOk, lcdOk, allocations)
                           \/ e = Entry(t, FALSE) /\ ByRpc(t, rpcOk, lcdOk)
    BY <1>1
  <2> QED BY <2>1, <1>2
<1>5. Cardinality(found) = Cardinality(out)
  <2> DEFINE f == [e \in out |-> Meant(chain, e)]
  <2>1. IsFiniteSet(found)
    BY <1>0, <1>4, FS_Subset
  <2>2. f \in [out -> found] /\ \A e \in out : f[e] = Meant(chain, e)
    OBVIOUS
  <2>3. \A d, e \in out : Meant(chain, d) = Meant(chain, e) => d = e
    <3>1. \A s \in chain : ~(ByLcd(s, rpcOk, lcdOk, allocations) /\ ByRpc(s, rpcOk, lcdOk))
      BY DEF ByLcd, ByRpc
    <3> SUFFICES ASSUME NEW d \in out, NEW e \in out, Meant(chain, d) = Meant(chain, e)
                 PROVE  d = e
      OBVIOUS
    <3>2. PICK s \in chain : \/ d = Entry(s, TRUE) /\ ByLcd(s, rpcOk, lcdOk, allocations)
                             \/ d = Entry(s, FALSE) /\ ByRpc(s, rpcOk, lcdOk)
      BY <1>1
    <3>3. PICK t \in chain : \/ e = Entry(t, TRUE) /\ ByLcd(t, rpcOk, lcdOk, allocations)
                             \/ e = Entry(t, FALSE) /\ ByRpc(t, rpcOk, lcdOk)
      BY <1>1
    <3>4. s = t
      <4>1. Meant(chain, d) = s
        BY <3>2, <1>2
      <4>2. Meant(chain, e) = t
        BY <3>3, <1>2
      <4> QED BY <4>1, <4>2
    <3> QED BY <3>1, <3>2, <3>3, <3>4
  <2>4. f \in Injection(out, found)
    BY <2>2, <2>3 DEF Injection, IsInjective
  <2>5. \A s \in found : \E e \in out : f[e] = s
    BY <2>2
  <2>6. f \in Surjection(out, found)
    BY <2>2, <2>5 DEF Surjection
  <2> HIDE DEF f
  <2> QED BY <2>1, <2>4, <2>6, FS_Injection
<1>6. \A s \in found : s.mine \/ s.granted
  BY <1>3, <1>4 DEF ByLcd, ByRpc
<1>7. \A e \in out : e.expiry => Usable(Meant(chain, e))
  <2> SUFFICES ASSUME NEW e \in out, e.expiry
               PROVE  Usable(Meant(chain, e))
    OBVIOUS
  <2>1. \A s : ~Entry(s, FALSE).expiry
    BY DEF Entry
  <2>2. PICK s \in chain : e = Entry(s, TRUE) /\ ByLcd(s, rpcOk, lcdOk, allocations)
    BY <1>1, <2>1
  <2> QED BY <2>2, <1>2 DEF ByLcd, Usable
<1>8. \A s \in chain : Usable(s) =>
        (s \in found <=> IF s.mine THEN rpcOk \/ lcdOk ELSE lcdOk /\ s.id \in allocations)
  BY <1>3 DEF ByLcd, ByRpc, Usable
<1>9. lcdOk /\ ~rpcOk /\ (\A s \in chain : s.id \in allocations) =>
        found = {s \in chain : Usable(s)}
  BY <1>3, <1>4 DEF ByLcd, ByRpc, Usable
<1> QED BY <1>5, <1>6, <1>7, <1>8, <1>9 DEF Exact

\* The chains that are looked at with TLC are chains.
LEMMA ChainsAreChains ==
  ASSUME NEW chain \in Chains
  PROVE  OneEach(chain) /\ \A s \in chain : s.id \in {1, 2}
<1>1. PICK subs \in [1..2 -> AnySub] :
        chain = {[id |-> i, plan |-> subs[i].plan, mine |-> subs[i].mine,
                  active |-> subs[i].active, granted |-> subs[i].granted] : i \in 1..2}
  BY DEF Chains
<1> DEFINE sub(i) == [id |-> i, plan |-> subs[i].plan, mine |-> subs[i].mine,
                      active |-> subs[i].active, granted |-> subs[i].granted]
<1>2. chain = {sub(1), sub(2)}
  BY <1>1
<1>3. \A i \in 1..2 : /\ sub(i).id = i /\ sub(i).mine \in BOOLEAN
                      /\ sub(i).active \in BOOLEAN /\ sub(i).granted \in BOOLEAN
  BY DEF AnySub
<1> HIDE DEF sub
<1>4. IsFiniteSet(chain)
  <2>1. IsFiniteSet({sub(1)})
    BY FS_Singleton
  <2>2. chain = {sub(1)} \cup {sub(2)}
    BY <1>2
  <2> QED BY <2>1, <2>2, FS_AddElement
<1> QED BY <1>2, <1>3, <1>4 DEF OneEach

\* So it is with them.
LEMMA SubscriptionsAreExact == SubscriptionsExact
<1> SUFFICES ASSUME NEW chain \in Chains, NEW rpcOk \in BOOLEAN, NEW lcdOk \in BOOLEAN,
                    NEW allocations \in SUBSET {1, 2}
             PROVE  LET out == Merged(chain, rpcOk, lcdOk, allocations)
                        sub(e) == CHOOSE s \in chain : s.id = e.id
                        found == {sub(e) : e \in out}
                    IN /\ Cardinality(found) = Cardinality(out)
                       /\ \A s \in found : s.mine \/ s.granted
                       /\ \A e \in out : e.expiry => Usable(sub(e))
                       /\ \A s \in chain : Usable(s) =>
                            (s \in found <=> IF s.mine THEN rpcOk \/ lcdOk
                                                       ELSE lcdOk /\ s.id \in allocations)
                       /\ lcdOk /\ ~rpcOk /\ allocations = {1, 2} =>
                            found = {s \in chain : Usable(s)}
  BY DEF SubscriptionsExact
<1>1. OneEach(chain) /\ \A s \in chain : s.id \in {1, 2}
  BY ChainsAreChains
<1>2. PICK out : out = Merged(chain, rpcOk, lcdOk, allocations)
  OBVIOUS
<1>3. PICK found : found = Finds(chain, out)
  OBVIOUS
<1>4. Exact(chain, rpcOk, lcdOk, allocations, out, found)
  BY <1>1, <1>2, <1>3, MergeIsExact
<1> QED BY <1>1, <1>2, <1>3, <1>4 DEF Exact, Finds, Meant

\* The nodes a plan is shown on.
ShownOn(shown, p) == {n \in DOMAIN shown : p \in shown[n]}

\* All or nothing, and nothing once a look-up throws.
Whole(plans, rpcOk, truth, lost, shown) ==
  /\ \A p \in plans : ShownOn(shown, p) \in {{}, truth[p]}
  /\ lost \ rpcOk # {} => \A p \in plans : ShownOn(shown, p) = {}

\* fetchPlanMembership shows a plan on all of its nodes or on none, whatever plans
\* there are and whichever of their look-ups fail.
THEOREM MembershipIsWhole ==
  ASSUME NEW plans, NEW rpcOk, NEW truth, NEW errs, NEW lost, lost \subseteq plans,
         NEW shown, shown = Membership(plans, rpcOk, truth, errs, lost)
  PROVE  Whole(plans, rpcOk, truth, lost, shown)
<1>1. DOMAIN shown = UNION {truth[p] : p \in plans}
  BY DEF Membership
<1>2. CASE \E p \in lost : AsksLcd(p, rpcOk, truth)
  <2>1. \A n \in DOMAIN shown : shown[n] = {}
    BY <1>2 DEF Membership
  <2> QED BY <2>1 DEF ShownOn, Whole
<1>3. CASE ~\E p \in lost : AsksLcd(p, rpcOk, truth)
  <2>1. \A n \in DOMAIN shown : shown[n] = {p \in plans : n \in PlanNodes(p, rpcOk, truth, errs)}
    BY <1>3 DEF Membership
  <2>2. \A p \in plans : PlanNodes(p, rpcOk, truth, errs) \in {{}, truth[p]}
    BY DEF PlanNodes
  <2>3. \A p \in plans : ShownOn(shown, p) = PlanNodes(p, rpcOk, truth, errs)
    BY <1>1, <2>1, <2>2 DEF ShownOn
  <2>4. lost \ rpcOk = {}
    BY <1>3 DEF AsksLcd
  <2> QED BY <2>2, <2>3, <2>4 DEF Whole
<1> QED BY <1>2, <1>3

\* So it is with the plans that are looked at with TLC.
LEMMA PlansAreWhole == MembershipWhole
<1> SUFFICES ASSUME NEW truth \in [{36, 37} -> SUBSET {1, 2}], NEW rpcOk \in SUBSET {36, 37},
                    NEW errs \in SUBSET {36, 37}, NEW lost \in SUBSET {36, 37}
             PROVE  LET shown == Membership({36, 37}, rpcOk, truth, errs, lost)
                        on(p) == {n \in DOMAIN shown : p \in shown[n]}
                    IN /\ \A p \in {36, 37} : on(p) \in {{}, truth[p]}
                       /\ lost \ rpcOk # {} => on(36) \cup on(37) = {}
  BY DEF MembershipWhole
<1>1. PICK plans : plans = {36, 37}
  OBVIOUS
<1>0. lost \subseteq plans
  BY <1>1
<1>2. PICK shown : shown = Membership(plans, rpcOk, truth, errs, lost)
  OBVIOUS
<1>3. Whole(plans, rpcOk, truth, lost, shown)
  BY <1>0, <1>2, MembershipIsWhole
<1> QED BY <1>1, <1>2, <1>3 DEF ShownOn, Whole

\* querySubscriberPlansEnriched never takes a failure for the answer that there is
\* no grant, nor the other way round, for any number of looks at the grant.
THEOREM EnrichedIsHonest ==
  ASSUME NEW owner, NEW grant \in BOOLEAN, NEW looks, looks # {},
         \A l \in looks : l.rpc \in BOOLEAN /\ l.lcd \in BOOLEAN,
         NEW row, row = Enriched(owner, grant, looks)
  PROVE  /\ row.active => grant
         /\ owner = "other" /\ grant => row.active \/ row.failed
         /\ row.failed => \A l \in looks : ~l.rpc /\ ~l.lcd
<1>1. PICK seen : seen = UNION {GrantSeen(grant, l.rpc, l.lcd) : l \in looks}
  OBVIOUS
<1>2. \A x : x \in seen <=> x = grant /\ \E l \in looks : l.rpc \/ l.lcd
  BY <1>1 DEF GrantSeen
<1>3. /\ row.active <=> owner = "other" /\ TRUE \in seen
      /\ row.failed <=> owner = "other" /\ seen = {}
  BY <1>1 DEF Enriched
<1>4. row.active => grant
  BY <1>2, <1>3
<1>5. owner = "other" /\ grant => row.active \/ row.failed
  BY <1>2, <1>3
<1>6. row.failed => \A l \in looks : ~l.rpc /\ ~l.lcd
  BY <1>2, <1>3
<1> QED BY <1>4, <1>5, <1>6

\* So it is with one look or two.
LEMMA GrantsAreHonest == GrantsHonest
<1> DEFINE Look == [rpc : BOOLEAN, lcd : BOOLEAN]
<1> SUFFICES ASSUME NEW owner \in {"self", "other", "unknown"}, NEW grant \in BOOLEAN,
                    NEW looks \in {{l} : l \in Look} \cup {{k, l} : k, l \in Look}
             PROVE  LET row == Enriched(owner, grant, looks) IN
                    /\ row.active => grant
                    /\ owner = "other" /\ grant => row.active \/ row.failed
                    /\ row.failed => \A l \in looks : ~l.rpc /\ ~l.lcd
  BY DEF GrantsHonest
<1>1. looks # {} /\ looks \subseteq Look
  OBVIOUS
<1>2. \A l \in looks : l.rpc \in BOOLEAN /\ l.lcd \in BOOLEAN
  BY <1>1
<1>3. PICK row : row = Enriched(owner, grant, looks)
  OBVIOUS
<1>4. /\ row.active => grant
      /\ owner = "other" /\ grant => row.active \/ row.failed
      /\ row.failed => \A l \in looks : ~l.rpc /\ ~l.lcd
  <2> HIDE DEF Look
  <2> QED BY <1>1, <1>2, <1>3, EnrichedIsHonest
<1> QED BY <1>3, <1>4

-----------------------------------------------------------------------------

\* What the chain says is understood: messages, answers and lists.  The readers
\* and the lists are the same in every state, so that the proof is theirs alone.
THEOREM QueriesUnderstand == Spec => []Understood
<1>1. Understood
  BY ReadsBack, AllSubscriptionsRead, AllAnswersRead, SubscriptionsAreExact,
     PlansAreWhole, GrantsAreHonest DEF Understood
<1> QED BY <1>1, PTL
=============================================================================
