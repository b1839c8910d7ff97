--------------------------- MODULE OnchainReporter ---------------------------
(***************************************************************************)
(* The on-chain reports of the audit passes, over the wallet they share    *)
(* with the payments.  A pass buffers the row of every node it tested and, *)
(* from the second row on, sends what is buffered in a memo without        *)
(* waiting for it; at its end it waits for one last report.                *)
(*                                                                         *)
(*   reporter  _onchainReporter: the pass whose reporter it is, or NoPass  *)
(*   rep       the reporter objects: buffered rows, rows reported so far   *)
(*   flight    the reports handed to the wallet, in order                  *)
(*   pass      the passes: runAudit, runRetestSkips and the plan tests     *)
(*   tested    the rows of the passes that report (observed only)          *)
(***************************************************************************)
EXTENDS Wallet, ReportMemo, FiniteSets

CONSTANTS
  Passes,      \* 1..n: the passes of the process, in the order they start
  Payments,    \* payments and other broadcasts of the passes
  Reports,     \* 1..n: the reports, in the order they are sent
  Outcomes,    \* results a node test may end in
  MaxRows,     \* bound: rows of a pass
  Beside       \* whether a pass may start while the one before unwinds

NoPass == 0
FlushAt == 2

ASSUME ReporterAssumption ==
  /\ IsFiniteSet(Passes) /\ Passes = 1..Cardinality(Passes)
  /\ IsFiniteSet(Reports) /\ Reports = 1..Cardinality(Reports)
  /\ Txs = Payments \cup Reports /\ Payments \cap Reports = {} /\ Granted \subseteq Payments
  /\ Outcomes \subseteq Result
  /\ MaxRows \in Nat /\ Beside \in BOOLEAN

VARIABLES reporter, rep, flight, pass, tested
vars == <<wallet, reporter, rep, flight, pass, tested>>

Row == [pass : Passes, n : 1..MaxRows, result : Outcomes]
MemoLine == [node : 1..MaxRows, ok : 0..1, mbps : Nat \cup {Blank},
             peers : 0..U16, lat : 0..U16 \cup {Blank}]
Pass == [pc : {"off", "run", "ending", "done"}, on : BOOLEAN, rows : 0..MaxRows,
         client : Endpoints, waits : Reports \cup {0}]

TypeOK ==
  /\ WalletTypeOK
  /\ reporter \in Passes \cup {NoPass}
  /\ rep \in [Passes -> [buffer : Seq(Row), committed : Nat]]
  /\ flight \in Seq([pass : Passes, rows : Seq(Row), memo : Seq(MemoLine)])
  /\ DOMAIN flight \subseteq Reports
  /\ pass \in [Passes -> Pass]
  /\ tested \subseteq Row

Init ==
  /\ WalletInit
  /\ reporter = NoPass /\ flight = <<>> /\ tested = {}
  /\ rep = [p \in Passes |-> [buffer |-> <<>>, committed |-> 0]]
  /\ pass = [p \in Passes |-> [pc |-> "off", on |-> FALSE, rows |-> 0, client |-> 0, waits |-> 0]]

---------------------------------------------------------------------------
(* The reporter. *)

Records(rows) == [i \in DOMAIN rows |-> ToRecord(rows[i].n, rows[i].result)]

Keep(q, rows) ==
  /\ rep' = [rep EXCEPT ![q].buffer = rows]
  /\ UNCHANGED <<flight, wallet>>

\* Mutant: the buffer is spliced when the report has gone through, not before.
Send_Unspliced(q, rows, n) ==
  LET id == Len(flight) + 1 IN
  /\ id \in Reports
  /\ rep' = [rep EXCEPT ![q].buffer = rows]
  /\ flight' = Append(flight, [pass |-> q, rows |-> SubSeq(rows, 1, n),
                               memo |-> Encode(Records(SubSeq(rows, 1, n)))])
  /\ Request(id, pass[q].client)

\* The part of _flushOnchainBatch up to its await: it packs and splices the
\* buffer, and the commit joins the wallet's chain, all in one go.
Send(q, rows, n) ==
  LET id == Len(flight) + 1 IN
  /\ id \in Reports
  /\ rep' = [rep EXCEPT ![q].buffer = SubSeq(rows, n + 1, Len(rows))]
  /\ flight' = Append(flight, [pass |-> q, rows |-> SubSeq(rows, 1, n),
                               memo |-> Encode(Records(SubSeq(rows, 1, n)))])
  /\ Request(id, pass[q].client)

\* Mutant: the last report, too, waits for a second row.
Flush_Unforced(q, rows, force) ==
  LET n == Packed(Records(rows)) IN
  IF Len(rows) < FlushAt THEN Keep(q, rows)
  ELSE IF n = 0 THEN Keep(q, Tail(rows))
  ELSE Send(q, rows, n)

Flush(q, rows, force) ==
  LET n == Packed(Records(rows)) IN
  IF rows = <<>> \/ (~force /\ Len(rows) < FlushAt) THEN Keep(q, rows)
  ELSE IF n = 0 THEN Keep(q, Tail(rows))
  ELSE Send(q, rows, n)

\* The rest of it: the rows of a report that went through are counted, those of
\* one that failed are gone.
Counted(t) ==
  IF t \in Reports /\ tx'[t].pc = "done"
  THEN rep' = [rep EXCEPT ![flight[t].pass].committed = @ + Len(flight[t].rows)]
  ELSE UNCHANGED rep

---------------------------------------------------------------------------
(* The passes. *)

\* A pass makes itself a client and, if reporting is on, a new reporter.
MayStart(p) ==
  /\ pass[p].pc = "off"
  /\ \A q \in Passes : q < p => pass[q].pc = "done" \/ (Beside /\ pass[q].pc # "off")

Start(p) ==
  /\ MayStart(p)
  /\ CreateClient
  /\ \E on \in BOOLEAN :
       /\ pass' = [pass EXCEPT ![p] = [@ EXCEPT !.pc = "run", !.on = on, !.client = rpc']]
       /\ reporter' = IF on THEN p ELSE NoPass
  /\ UNCHANGED <<rep, flight, tested>>

Pay(p, t) ==
  /\ pass[p].pc = "run"
  /\ Request(t, pass[p].client)
  /\ UNCHANGED <<reporter, rep, flight, pass, tested>>

\* upsertResult hands the row of a test to whatever reporter there is.
Record(p, result) ==
  LET row == [pass |-> p, n |-> pass[p].rows + 1, result |-> result] IN
  /\ pass[p].pc = "run" /\ pass[p].rows < MaxRows
  /\ pass' = [pass EXCEPT ![p].rows = @ + 1]
  /\ tested' = IF pass[p].on /\ Reportable(result) THEN tested \cup {row} ELSE tested
  /\ IF reporter # NoPass /\ Reportable(result)
     THEN Flush(reporter, Append(rep[reporter].buffer, row), FALSE)
     ELSE UNCHANGED <<rep, flight, wallet>>
  /\ UNCHANGED reporter

\* _finalizeOnchainReporter up to its await.
Finalise(p) ==
  /\ pass[p].pc = "run"
  /\ IF reporter = NoPass
     THEN /\ pass' = [pass EXCEPT ![p].pc = "done"]
          /\ UNCHANGED <<rep, flight, wallet>>
     ELSE /\ Flush(reporter, rep[reporter].buffer, TRUE)
          /\ pass' = [pass EXCEPT ![p] = [@ EXCEPT !.pc = "ending",
                        !.waits = IF flight' = flight THEN 0 ELSE Len(flight')]]
  /\ UNCHANGED <<reporter, tested>>

\* And the rest of it, which drops the reporter whose ever it is by now.
Close(p) ==
  /\ pass[p].pc = "ending"
  /\ pass[p].waits # 0 => Settled(pass[p].waits)
  /\ reporter' = NoPass
  /\ pass' = [pass EXCEPT ![p].pc = "done"]
  /\ UNCHANGED <<wallet, rep, flight, tested>>

Transact(t) == Broadcast(t) /\ Counted(t) /\ UNCHANGED <<reporter, flight, pass, tested>>

Next ==
  \/ \E p \in Passes :
       \/ Start(p) \/ Finalise(p) \/ Close(p)
       \/ \E t \in Payments : Pay(p, t)
       \/ \E r \in Outcomes : Record(p, r)
  \/ \E t \in Txs : Transact(t)

Spec == Init /\ [][Next]_vars

\* An SDK broadcast ends, by its answer or its time-out, and continuations run.
Fair == (\A t \in Txs : WF_vars(Transact(t))) /\ (\A p \in Passes : WF_vars(Close(p)))
FairSpec == Spec /\ Fair

---------------------------------------------------------------------------
(* Properties. *)

Sent(row) == {s \in (DOMAIN flight) \X (1..MaxRecords) :
                LET rows == flight[s[1]].rows IN s[2] <= Len(rows) /\ rows[s[2]] = row}

\* A pass that has ended left no row behind in its buffer: every reportable row
\* it tested went to the wallet in exactly one report, though only one report is
\* forced at the end.  Holds for passes that do not overlap.
NoRowLeftBehind ==
  /\ TypeOK
  /\ \A row \in tested : pass[row.pass].pc = "done" => \E s \in Sent(row) : Sent(row) = {s}

\* What is on the chain: the rows of the reports that landed with effect.
Shown(e) == IF e.ok /\ e.tx \in Reports THEN flight[e.tx].rows ELSE <<>>
PostedRows ==
  LET rows[i \in 0..Len(ledger)] == IF i = 0 THEN <<>> ELSE rows[i - 1] \o Shown(ledger[i])
  IN rows[Len(ledger)]

Log == INSTANCE ReportLog WITH posted <- PostedRows

\* Reports fail, are lost and are sent while others are in flight: still no row
\* is posted twice and the rows of a pass are posted in the order of its tests.
Reported == Log!Spec

\* What is posted can be read (see MemoReadable).  A fact about the codec alone,
\* so that it is looked at once, before the first test.
Readable == (\A p \in Passes : pass[p].pc = "off") => MemoReadable

\* Every broadcast settles, none of them for want of an endpoint that answers, and a
\* pass ends though its last report waits behind every payment before it.
FinaliseReturns ==
  /\ EveryoneServed /\ []ReachesLive
  /\ \A p \in Passes : (pass[p].pc = "ending") ~> (pass[p].pc = "done")
==============================================================================
