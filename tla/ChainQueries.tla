---------------------------- MODULE ChainQueries ----------------------------
(***************************************************************************)
(* The queries of core/chain.js.  Every query goes to the RPC client that  *)
(* the process shares; most go through withFreshRpc, which gives each of   *)
(* two attempts a deadline and drops the shared client between them; what  *)
(* RPC does not answer is asked of the LCD endpoints, in a way of its own  *)
(* for each kind of query.  Queries of the audit loop, of the continuous   *)
(* loop and of the dashboards run side by side.                            *)
(*                                                                         *)
(*   cached   _rpcClient: the number of the shared client, or NoClient     *)
(*   made     clients created so far, numbered as they are stored          *)
(*   closed   clients cleanupRpc disconnected                              *)
(*   dialing  connections being made: [call, attempt]                      *)
(*   lcd      _activeLcd, or NoLcd                                         *)
(*   up       the LCD endpoints that answer                                *)
(*   call     the queries                                                  *)
(*                                                                         *)
(* The client library is external: a connection is made or not, a query is *)
(* answered, fails or hangs, also on a client another query closed.        *)
(***************************************************************************)
EXTENDS ProtoWire, Subscriptions

CONSTANTS
  Calls,        \* queries made
  Asks,         \* the kinds of query each may be
  Lcds,         \* 1..n: LCD_LIST
  MaxFlips      \* bound: LCD endpoints going down or coming back

\* queryNodeStatusDirect; queryBalance; withFreshRpc with no LCD behind it (plan
\* nodes, plan owner, reports); getAllNodes, which does without withFreshRpc.
Kinds == {"status", "balance", "plain", "nodes"}
NoClient == 0
NoLcd == 0

ASSUME ChainAssumption ==
  /\ Asks \in [Calls -> SUBSET Kinds]
  /\ IsFiniteSet(Lcds) /\ Lcds = 1..Cardinality(Lcds) /\ Lcds # {}
  /\ MaxFlips \in Nat

VARIABLES cached, made, closed, dialing, lcd, up, flips, call
vars == <<cached, made, closed, dialing, lcd, up, flips, call>>

Call == [kind : Kinds \cup {"none"}, pc : {"idle", "dial", "query", "probe", "lcd", "end"}, n : 0..2,
         client : Nat, first : Nat, at : Nat, failed : SUBSET Lcds,
         out : {"none", "rpc", "lcd", "unknown", "thrown"}]

TypeOK ==
  /\ made \in Nat /\ cached \in 0..made /\ closed \subseteq 1..made
  /\ dialing \subseteq Calls \X (1..2)
  /\ lcd \in Lcds \cup {NoLcd} /\ up \subseteq Lcds /\ flips \in 0..MaxFlips
  /\ call \in [Calls -> Call]

Init ==
  /\ cached = NoClient /\ made = 0 /\ closed = {} /\ dialing = {}
  /\ lcd = NoLcd /\ up = Lcds /\ flips = 0
  /\ call = [c \in Calls |-> [kind |-> "none", pc |-> "idle", n |-> 0, client |-> NoClient,
                              first |-> NoClient, at |-> 0, failed |-> {}, out |-> "none"]]

---------------------------------------------------------------------------
(* The shared client. *)

Is(c, kind) == call[c].kind = kind
Wrapped(c) == call[c].kind \in {"status", "balance", "plain"}

Set(c, rec) == call' = [call EXCEPT ![c] = rec]
End(c, out) ==
  Set(c, [call[c] EXCEPT !.pc = "end", !.out = out, !.client = NoClient, !.first = NoClient, !.at = 0])

\* getRpcClient: the shared client if there is one, a new connection otherwise.
Attempt(c, kind, shared) ==
  IF shared # NoClient
  THEN /\ Set(c, [call[c] EXCEPT !.kind = kind, !.pc = "query", !.n = 1, !.client = shared])
       /\ UNCHANGED dialing
  ELSE /\ Set(c, [call[c] EXCEPT !.kind = kind, !.pc = "dial", !.n = 1])
       /\ dialing' = dialing \cup {<<c, 1>>}

Begin(c) ==
  /\ call[c].pc = "idle"
  /\ \E kind \in Asks[c] : Attempt(c, kind, cached)
  /\ UNCHANGED <<cached, made, closed, lcd, up, flips>>

Waits(c, n) == call[c].pc = "dial" /\ call[c].n = n

\* A connection is stored when it is made, also when its caller has given up on it.
Dialed(c, n) ==
  /\ <<c, n>> \in dialing
  /\ dialing' = dialing \ {<<c, n>>}
  /\ made' = made + 1 /\ cached' = made + 1
  /\ IF Waits(c, n)
     THEN Set(c, [call[c] EXCEPT !.pc = "query", !.client = made + 1])
     ELSE UNCHANGED call
  /\ UNCHANGED <<closed, lcd, up, flips>>

---------------------------------------------------------------------------
(* What follows a failed attempt. *)

\* ensureLcd hands out the endpoint it found once, or looks for one.
Fallback(c) ==
  IF Is(c, "plain") THEN End(c, "thrown")
  ELSE IF Is(c, "status") THEN Set(c, [call[c] EXCEPT !.pc = "lcd", !.at = 1])
  ELSE IF lcd # NoLcd THEN Set(c, [call[c] EXCEPT !.pc = "lcd", !.at = lcd])
  ELSE Set(c, [call[c] EXCEPT !.pc = "probe", !.at = 1])

\* Mutant: the retry takes the shared client, which nobody has dropped.
Fails_Kept(c, dials) ==
  IF Wrapped(c) /\ call[c].n = 1
  THEN /\ Set(c, [call[c] EXCEPT !.n = 2, !.first = call[c].client, !.client = cached,
                                 !.pc = IF cached = NoClient THEN "dial" ELSE "query"])
       /\ dialing' = IF cached = NoClient THEN dials \cup {<<c, 2>>} ELSE dials
       /\ UNCHANGED <<closed, cached>>
  ELSE Fallback(c) /\ dialing' = dials /\ UNCHANGED <<closed, cached>>

\* After its first attempt withFreshRpc drops the shared client, whoever made
\* it, and connects again.
Fails(c, dials) ==
  IF Wrapped(c) /\ call[c].n = 1
  THEN /\ Set(c, [call[c] EXCEPT !.n = 2, !.first = call[c].client, !.client = NoClient, !.pc = "dial"])
       /\ dialing' = dials \cup {<<c, 2>>}
       /\ closed' = closed \cup ({cached} \ {NoClient})
       /\ cached' = NoClient
  ELSE Fallback(c) /\ dialing' = dials /\ UNCHANGED <<closed, cached>>

\* All RPC endpoints refuse: getRpcClient gives no client.
DialFails(c, n) ==
  LET left == dialing \ {<<c, n>>} IN
  /\ <<c, n>> \in dialing
  /\ IF Waits(c, n) THEN Fails(c, left)
     ELSE dialing' = left /\ UNCHANGED <<call, closed, cached>>
  /\ UNCHANGED <<made, lcd, up, flips>>

Answers(c) ==
  /\ call[c].pc = "query"
  /\ End(c, "rpc")
  /\ UNCHANGED <<cached, made, closed, dialing, lcd, up, flips>>

\* The chain knows no such node: RPC gives null, and the LCDs are asked as well.
\* An empty list of nodes counts as no answer, too.
AnswersNothing(c) ==
  /\ call[c].pc = "query" /\ call[c].kind \in {"status", "nodes"}
  /\ Fallback(c)
  /\ UNCHANGED <<cached, made, closed, dialing, lcd, up, flips>>

QueryErrs(c) ==
  /\ call[c].pc = "query"
  /\ Fails(c, dialing)
  /\ UNCHANGED <<made, lcd, up, flips>>

\* Mutant: making the connection has no deadline.
TimesOut_QueryOnly(c) ==
  /\ Wrapped(c) /\ call[c].pc = "query"
  /\ Fails(c, dialing)
  /\ UNCHANGED <<made, lcd, up, flips>>

\* The deadlines of withFreshRpc, one on the connection and one on the query.
TimesOut(c) ==
  /\ Wrapped(c) /\ call[c].pc \in {"dial", "query"}
  /\ Fails(c, dialing)
  /\ UNCHANGED <<made, lcd, up, flips>>

---------------------------------------------------------------------------
(* The LCD endpoints. *)

\* findWorkingLcd tries them in order.
Probe(c) ==
  LET i == call[c].at IN
  /\ call[c].pc = "probe"
  /\ IF i \in up THEN lcd' = i /\ Set(c, [call[c] EXCEPT !.pc = "lcd"])
     ELSE /\ UNCHANGED lcd
          /\ IF i + 1 \in Lcds THEN Set(c, [call[c] EXCEPT !.at = i + 1, !.failed = @ \cup {i}])
             ELSE End(c, IF Is(c, "nodes") THEN "thrown" ELSE "unknown")
  /\ UNCHANGED <<cached, made, closed, dialing, up, flips>>

\* A node's status is asked of each endpoint until one answers; the other
\* queries ask the one that was found.
AskLcd(c) ==
  LET i == call[c].at IN
  /\ call[c].pc = "lcd"
  /\ IF i \in up THEN End(c, "lcd")
     ELSE IF Is(c, "status")
     THEN Set(c, [call[c] EXCEPT !.failed = @ \cup {i}, !.at = i + 1,
                    !.pc = IF i + 1 \in Lcds THEN "lcd" ELSE "end",
                    !.out = IF i + 1 \in Lcds THEN "none" ELSE "unknown"])
     ELSE End(c, IF Is(c, "nodes") THEN "thrown" ELSE "unknown")
  /\ UNCHANGED <<cached, made, closed, dialing, lcd, up, flips>>

Flip(l) ==
  /\ flips < MaxFlips /\ flips' = flips + 1
  /\ up' = IF l \in up THEN up \ {l} ELSE up \cup {l}
  /\ UNCHANGED <<cached, made, closed, dialing, lcd, call>>

\* The scripted API (easy.js) drops the client when it is done with it.
Cleanup ==
  /\ cached # NoClient
  /\ closed' = closed \cup {cached} /\ cached' = NoClient
  /\ UNCHANGED <<made, dialing, lcd, up, flips, call>>

Timer(c) == TimesOut(c) \/ Probe(c) \/ AskLcd(c)

Next ==
  \/ \E c \in Calls :
       \/ Begin(c) \/ Answers(c) \/ AnswersNothing(c) \/ QueryErrs(c) \/ Timer(c)
       \/ \E n \in 1..2 : Dialed(c, n) \/ DialFails(c, n)
  \/ \E l \in Lcds : Flip(l)
  \/ Cleanup

Spec == Init /\ [][Next]_vars

\* Timers fire: each fetch of an LCD, too, has a deadline.
FairSpec == Spec /\ \A c \in Calls : WF_vars(Timer(c))

---------------------------------------------------------------------------
(* Properties of the calls. *)

\* A client that failed a query is never met again: the retry runs on another
\* one, and whatever the other queries do in between, late connections included,
\* the shared client is none that was dropped.
Rotated ==
  /\ cached \notin closed
  /\ \A c \in Calls : call[c].n = 2 /\ call[c].first # NoClient =>
       call[c].first # cached /\ call[c].first # call[c].client

\* queryNodeStatusDirect says it does not know only when both RPC attempts failed,
\* or gave nothing, and every LCD failed it in turn: one dead endpoint costs a node nothing.
StatusKnown ==
  \A c \in Calls : Is(c, "status") /\ call[c].out = "unknown" => call[c].failed = Lcds

FallsBack == TypeOK /\ Rotated /\ StatusKnown

\* What the chain says is understood: its messages and its lists.  A fact about
\* the readers alone, so that it is looked at once, before the first query.
Understood ==
  flips = 0 /\ (\A c \in Calls : call[c].pc = "idle") =>
    /\ ReadBack /\ SubscriptionRead /\ AnswersRead
    /\ SubscriptionsExact /\ MembershipWhole /\ GrantsHonest

\* A wedged endpoint holds no query of withFreshRpc for ever: each is answered,
\* or falls back, or throws.
CallsSettle == \A c \in Calls : Wrapped(c) ~> (call[c].pc = "end")
=============================================================================
