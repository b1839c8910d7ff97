--------------------------- MODULE PlanRuns_proofs ---------------------------
(***************************************************************************)
(* Theorems about PlanRuns, for every plan, every number of passes, deaths  *)
(* and leavers, and every bound.  What a run shows as spent is what the     *)
(* wallet paid (the invariant Spend).  Beside it stand the types, Watched   *)
(* (an open batch has its pass), Order (nodes are taken up once), Members   *)
(* (the list the test knows) and Kept (the rows of the run and its batch),  *)
(* each inductive with those before it.                                     *)
(***************************************************************************)
EXTENDS PlanRuns, FiniteSetTheorems, FunctionTheorems, SequenceTheorems, TLAPS

\* The fields the proof writes to are there.
StateFields == {"status", "stop", "again", "total", "tested", "failed", "active",
                "head", "granter", "spent"}
LedgerFields == {"paid", "passes", "deaths", "cut", "mixed", "bounced", "early"}

\* A state object agrees with a ledger.
Books(s, l) ==
  /\ DOMAIN s = StateFields /\ DOMAIN l = LedgerFields
  /\ s.spent \in Nat /\ l.paid \in Nat /\ l.bounced \in BOOLEAN
  /\ s.spent <= l.paid
  /\ ~l.bounced => s.spent = l.paid

\* The inductive invariant.  A boot reads the spend back from the snapshot, so
\* that the snapshot, too, must never show more than was paid.
Snapshot == DOMAIN disk = {"rows", "spent"} /\ disk.spent \in Nat /\ disk.spent <= ledger.paid
Spend == Books(state, ledger) /\ Snapshot

LEMMA SpendInit == Init => Spend
BY DEF Init, Spend, Books, Snapshot, Blank, StateFields, LedgerFields

-----------------------------------------------------------------------------
\* A state event takes the spend of the state to the snapshot.
LEMMA Told ==
  ASSUME Snapshot, Books(state', ledger'), StateEvent(state')
  PROVE  Snapshot'
BY DEF Snapshot, Books, StateEvent

\* A row takes the spend it is written with to the snapshot.
LEMMA Recorded ==
  ASSUME Snapshot, NEW s, NEW n, NEW verdict, Record(s, n, verdict), Books(s, ledger')
  PROVE  Spend'
BY DEF Snapshot, Spend, Books, Record

\* A pass that ends leaves its books to the next one, or closes them.
LEMMA Left ==
  ASSUME Spend, NEW s, NEW told, Books(s, told), Leaves(s, told)
  PROVE  Spend'
<1>1. Books(state', ledger')
  <2>1. CASE state' = [s EXCEPT !.again = @ /\ ~pass.loop] /\ ledger' = told
    BY <2>1 DEF Books, StateFields
  <2>2. CASE /\ state' = [Fresh(s) EXCEPT !.status = "running", !.again = Repeats]
             /\ ledger' = NewRun(told)
    BY <2>2 DEF Books, Fresh, NewRun, StateFields, LedgerFields
  <2>3. QED
    BY <2>1, <2>2 DEF Leaves
<1>2. disk' = [disk EXCEPT !.spent = state'.spent]
  BY DEF Leaves
<1>3. QED
  BY <1>1, <1>2 DEF Spend, Books, Snapshot

-----------------------------------------------------------------------------
\* Launches: a fresh run starts both books at zero, the others carry them on.
LEMMA OperatorStep ==
  ASSUME Spend, Operator
  PROVE  Spend'
<1>1. CASE \E granter \in {"self", "owner"}, again \in BOOLEAN : TestSubPlan(granter, again)
  <2>1. PICK granter \in {"self", "owner"}, again \in BOOLEAN : TestSubPlan(granter, again)
    BY <1>1
  <2>2. ledger' = NewRun(ledger) /\ disk' = [disk EXCEPT !.spent = 0]
    BY <2>1 DEF TestSubPlan
  <2>3. DOMAIN Fresh(state) = StateFields /\ Fresh(state).spent = 0
    BY DEF Spend, Books, Fresh, StateFields
  <2>4. DOMAIN state' = StateFields /\ state'.spent = 0
    <3> DEFINE f == Fresh(state)
    <3>1. state' = [f EXCEPT !.status = "running", !.again = again,
                       !.granter = granter, !.active = 0, !.head = Nobody]
      BY <2>1 DEF TestSubPlan
    <3>2. DOMAIN f = StateFields /\ f.spent = 0
      BY <2>3
    <3> HIDE DEF f
    <3>3. QED
      BY <3>1, <3>2 DEF StateFields
  <2>5. DOMAIN ledger' = LedgerFields /\ ledger'.paid = 0 /\ ledger'.bounced \in BOOLEAN
    BY <2>2 DEF Spend, Books, NewRun, LedgerFields
  <2>6. Books(state', ledger')
    BY <2>4, <2>5 DEF Books
  <2>7. DOMAIN disk' = {"rows", "spent"} /\ disk'.spent = 0
    BY <2>2 DEF Spend, Snapshot
  <2>8. QED
    BY <2>5, <2>6, <2>7 DEF Spend, Snapshot
<1>2. CASE TestPlan
  BY <1>2 DEF Spend, Books, Snapshot, TestPlan, Recounted, StateFields, LedgerFields
<1>3. CASE Resume
  BY <1>3 DEF Spend, Books, Snapshot, Resume, Recounted, StateFields, LedgerFields
<1>4. CASE ResumeRefused
  BY <1>4 DEF Spend, Books, Snapshot, ResumeRefused, StateFields
<1>5. CASE Stop
  BY <1>5 DEF Spend, Books, Snapshot, Stop, StateFields
<1>6. QED
  BY <1>1, <1>2, <1>3, <1>4, <1>5 DEF Operator

\* The way to the first node: a pass that is not a resume starts at zero, and
\* runPlanTest may pay for a subscription.
LEMMA SetupStep ==
  ASSUME Spend, Throws \/ Setup \/ CheckSub \/ CheckPlan \/ Fetch
  PROVE  Spend'
<1>1. CASE Throws
  <2>1. Books([state EXCEPT !.status = "error", !.again = @ /\ ~pass.loop], ledger)
    BY DEF Spend, Books, StateFields
  <2>2. QED
    BY <1>1, <2>1, Left DEF Throws
<1>2. CASE Setup
  <2>1. Books(state', ledger')
    BY <1>2 DEF Setup, Spend, Books, StateFields, LedgerFields
  <2>2. StateEvent(state')
    BY <1>2 DEF Setup
  <2>3. QED
    BY <2>1, <2>2, Told DEF Spend, Books, Snapshot, StateEvent
<1>3. ASSUME NEW status, Returns(status)
      PROVE  Spend'
  <2>1. Books([state EXCEPT !.status = status], ledger)
    BY DEF Spend, Books, StateFields
  <2>2. QED
    BY <1>3, <2>1, Left DEF Returns
<1>4. CASE CheckSub
  <2>1. CASE UNCHANGED <<state, disk, ledger>>
    BY <2>1 DEF Spend, Books, Snapshot
  <2>2. QED
    BY <1>3, <1>4, <2>1 DEF CheckSub
<1>5. CASE CheckPlan
  <2>1. CASE UNCHANGED <<state, disk, ledger>>
    BY <2>1 DEF Spend, Books, Snapshot
  <2>2. CASE Charged(1) /\ UNCHANGED disk
    BY <2>2 DEF Charged, Spend, Books, Snapshot, StateFields, LedgerFields
  <2>3. QED
    BY <1>3, <1>5, <2>1, <2>2 DEF CheckPlan
<1>6. CASE Fetch
  <2>1. ASSUME NEW total, state' = [state EXCEPT !.total = total], StateEvent(state'),
               UNCHANGED ledger
        PROVE  Spend'
    <3>1. Books(state', ledger')
      BY <2>1 DEF Spend, Books, StateFields
    <3>2. QED
      BY <2>1, <3>1, Told DEF Spend
  <2>2. QED
    BY <1>3, <1>6, <2>1 DEF Fetch
<1>7. QED
  BY <1>1, <1>2, <1>4, <1>5, <1>6

-----------------------------------------------------------------------------
\* The nodes: the gas of a session is booked exactly when the wallet pays it, and
\* a fresh session always.
LEMMA NodeStep ==
  ASSUME Spend, Sweep \/ TakeUp \/ SessionOpens \/ SessionFails \/ PayFresh \/ Tested \/ Interrupted
  PROVE  Spend'
<1>1. ASSUME NEW told, Finish(told), DOMAIN told = LedgerFields,
             told.paid = ledger.paid, told.bounced = ledger.bounced
      PROVE  Spend'
  <2>1. Books([Reconciled(state) EXCEPT !.status = "done"], told)
    BY <1>1 DEF Spend, Books, Reconciled, Recounted, StateFields
  <2>2. QED
    BY <1>1, <2>1, Left DEF Finish
<1>2. CASE Sweep
  BY <1>1, <1>2 DEF Sweep, Spend, Books
<1>3. CASE TakeUp
  <2>1. ledger' = [ledger EXCEPT !.cut = Nobody]
    BY <1>3 DEF TakeUp
  <2>2. PICK n : \/ state' = Noted(n) /\ disk' = [disk EXCEPT !.spent = state.spent]
                 \/ Record(Noted(n), n, "evicted")
    BY <1>3 DEF TakeUp
  <2>3. Books(Noted(n), ledger')
    BY <2>1 DEF Spend, Books, Noted, StateFields, LedgerFields
  <2>4. CASE state' = Noted(n) /\ disk' = [disk EXCEPT !.spent = state.spent]
    BY <2>1, <2>3, <2>4 DEF Spend, Books, Snapshot
  <2>5. CASE Record(Noted(n), n, "evicted")
    BY <2>3, <2>5, Recorded DEF Spend
  <2>6. QED
    BY <2>2, <2>4, <2>5
<1>4. CASE SessionOpens
  <2>1. Books(Payment, ledger')
    BY <1>4 DEF SessionOpens, Payment, Gas, Spend, Books, StateFields, LedgerFields
  <2>2. CASE state' = Payment /\ UNCHANGED disk
    BY <1>4, <2>1, <2>2 DEF SessionOpens, Spend, Books, Snapshot, LedgerFields
  <2>3. CASE Record(Payment, Here, "fail")
    BY <2>1, <2>3, Recorded DEF Spend
  <2>4. QED
    BY <1>4, <2>2, <2>3 DEF SessionOpens
<1>5. CASE SessionFails
  <2>1. Books(state, ledger')
    BY <1>5 DEF SessionFails, Spend
  <2>2. QED
    BY <1>5, <2>1, Recorded DEF SessionFails, Spend
<1>6. CASE PayFresh
  <2>1. Books(state', ledger')
    BY <1>6 DEF PayFresh, Spend, Books, StateFields, LedgerFields
  <2>2. StateEvent(state')
    BY <1>6 DEF PayFresh
  <2>3. QED
    BY <2>1, <2>2, Told DEF Spend, Books, Snapshot, StateEvent
<1>7. CASE Tested
  <2>1. PICK passed, failed, verdict :
          /\ Record([state EXCEPT !.tested = passed, !.failed = failed], Here, verdict)
          /\ ledger' = ledger
    BY <1>7 DEF Tested
  <2>2. Books([state EXCEPT !.tested = passed, !.failed = failed], ledger')
    BY <2>1 DEF Spend, Books, StateFields
  <2>3. QED
    BY <2>1, <2>2, Recorded DEF Spend
<1>8. CASE Interrupted
  BY <1>1, <1>8 DEF Interrupted, Spend, Books, LedgerFields
<1>9. QED
  BY <1>2, <1>3, <1>4, <1>5, <1>6, <1>7, <1>8

LEMMA SpendStep ==
  ASSUME Spend, [Next]_vars
  PROVE  Spend'
<1>1. CASE Pipeline
  BY <1>1, SetupStep, NodeStep DEF Pipeline
<1>2. CASE Evict \/ Revoke \/ UNCHANGED vars
  BY <1>2 DEF Evict, Revoke, vars, Spend, Books, Snapshot
<1>3. CASE Crash
  BY <1>3 DEF Crash, Spend, Books, Snapshot, Blank, Recounted, StateFields, LedgerFields
<1>4. QED
  BY <1>1, <1>2, <1>3, OperatorStep DEF Next

\* The spend shown is never more than the wallet paid for the run, and, unless the
\* process has died in it, exactly that (runSpentUdvpn).
THEOREM SpendAlwaysTrue == Spec => []SpendTrue
<1>1. Spend => SpendTrue
  BY DEF Spend, Books, SpendTrue
<1>2. QED
  BY <1>1, SpendInit, SpendStep, PTL DEF Spec

-----------------------------------------------------------------------------
(* The batches table, and what the operators of BatchTracking make of it.  *)

PassFields == {"at", "kind", "resume", "loop", "todo", "first", "known", "node"}
BatchFields == {"open", "size", "passed", "failed", "rows"}

Entries == Seq(Verdicts)
IsBatch(x) == DOMAIN x = BatchFields /\ x.rows \in [Nodes -> Entries]
\* A table is a sequence of batches.
Table(t) ==
  /\ Len(t) \in Nat /\ t = [b \in 1..Len(t) |-> t[b]]
  /\ \A b \in DOMAIN t : IsBatch(t[b])

LEMMA Appended ==
  ASSUME NEW t, Table(t), NEW x, IsBatch(x)
  PROVE  LET u == Append(t, x) IN
         /\ Table(u) /\ Len(u) = Len(t) + 1 /\ u[Len(t) + 1] = x
         /\ \A b \in DOMAIN t : u[b] = t[b]
<1> DEFINE S == {t[b] : b \in DOMAIN t} \cup {x}
           u == Append(t, x)
<1>1. t = [b \in 1..Len(t) |-> t[b]] /\ t \in [1..Len(t) -> S]
  BY DEF Table
<1>2. t \in Seq(S)
  BY <1>1, IsASeq DEF Table
<1>3. /\ u \in Seq(S) /\ Len(u) = Len(t) + 1
      /\ \A i \in 1..Len(t) : u[i] = t[i]
      /\ u[Len(t) + 1] = x
  BY <1>2, AppendProperties
<1>4. u = [b \in 1..Len(u) |-> u[b]] /\ Len(u) \in Nat
  BY <1>3, LenProperties
<1>5. \A b \in DOMAIN u : IsBatch(u[b])
  BY <1>3, <1>4 DEF Table
<1> QED
  BY <1>3, <1>4, <1>5 DEF Table

LEMMA NewBatchIs ==
  ASSUME NEW size
  PROVE  IsBatch(NewBatch(size)) /\ NewBatch(size).open
         /\ \A n \in Nodes : NewBatch(size).rows[n] = <<>>
BY DEF IsBatch, NewBatch, BatchFields, Entries

\* A wrapper has no batch or one of the table.
Fits(w, t) == w \in [batch : {0} \cup DOMAIN t, closed : BOOLEAN]

\* What a row makes of the table t of a pass with the wrapper w, still listening.
Written(t, u, w, n, verdict, size) ==
  LET c == BatchFor(t, w)
      old == IF w.batch = 0 THEN NewBatch(size) ELSE t[c] IN
  /\ Table(u) /\ DOMAIN t \subseteq DOMAIN u /\ c \in DOMAIN u /\ c # 0
  /\ DOMAIN u \subseteq DOMAIN t \cup {c}
  /\ \A b \in DOMAIN t \ {c} : u[b] = t[b]
  /\ u[c].open = old.open
  /\ u[c].rows = [old.rows EXCEPT ![n] = Append(@, verdict)]

LEMMA RowWritten ==
  ASSUME NEW t, Table(t), NEW w, Fits(w, t), Listening(w),
         NEW n \in Nodes, NEW verdict \in Verdicts, NEW size
  PROVE  Written(t, WithRow(t, w, n, verdict, size), w, n, verdict, size)
<1> DEFINE c == BatchFor(t, w)
           old == IF w.batch = 0 THEN NewBatch(size) ELSE t[c]
           o == IF w.batch = 0 THEN Append(t, NewBatch(size)) ELSE t
           u == WithRow(t, w, n, verdict, size)
<1>1. /\ Table(o) /\ DOMAIN t \subseteq DOMAIN o /\ c \in DOMAIN o /\ c # 0
      /\ DOMAIN o \subseteq DOMAIN t \cup {c}
      /\ o[c] = old /\ \A b \in DOMAIN t : o[b] = t[b]
  <2>1. CASE w.batch = 0
    <3>1. c = Len(t) + 1 /\ o = Append(t, NewBatch(size)) /\ old = NewBatch(size)
      BY <2>1 DEF BatchFor
    <3>2. QED
      <4>1. LET v == Append(t, NewBatch(size)) IN
            /\ Table(v) /\ Len(v) = Len(t) + 1 /\ v[Len(t) + 1] = NewBatch(size)
            /\ \A b \in DOMAIN t : v[b] = t[b]
        BY NewBatchIs, Appended
      <4> HIDE DEF c, o, old
      <4> QED
        BY <3>1, <4>1 DEF Table
  <2>2. CASE w.batch # 0
    BY <2>2 DEF BatchFor, Fits, Table
  <2> QED
    BY <2>1, <2>2
<1>2. u = [o EXCEPT ![c].rows[n] = Append(@, verdict)]
  BY DEF WithRow
<1> HIDE DEF o, u, c
<1>3. IsBatch(o[c]) /\ o[c].rows[n] \in Seq(Verdicts)
  BY <1>1 DEF Table, IsBatch, Entries
<1>4. Append(o[c].rows[n], verdict) \in Seq(Verdicts)
  BY <1>3
<1>5. /\ DOMAIN u = DOMAIN o /\ Len(u) = Len(o)
      /\ \A b \in DOMAIN o \ {c} : u[b] = o[b]
      /\ u[c] = [o[c] EXCEPT !.rows = [o[c].rows EXCEPT ![n] = Append(o[c].rows[n], verdict)]]
  BY <1>1, <1>2 DEF Table
<1>6. IsBatch(u[c]) /\ u[c].open = o[c].open
  BY <1>3, <1>4, <1>5 DEF IsBatch, BatchFields, Entries
<1>7. u[c].rows = [o[c].rows EXCEPT ![n] = Append(@, verdict)]
  BY <1>3, <1>5 DEF IsBatch, BatchFields
<1>8. u = [b \in 1..Len(u) |-> u[b]]
  BY <1>1, <1>2, <1>5 DEF Table
<1>9. Table(u)
  BY <1>1, <1>5, <1>6, <1>8 DEF Table
<1> QED
  BY <1>1, <1>5, <1>6, <1>7, <1>9 DEF u, c, Written

\* A table changed in place keeps its length.
LEMMA SameLength ==
  ASSUME NEW t, Table(t), NEW u, DOMAIN u = DOMAIN t, u = [b \in DOMAIN u |-> u[b]]
  PROVE  u = [b \in 1..Len(u) |-> u[b]] /\ Len(u) = Len(t)
<1> DEFINE S == {u[b] : b \in DOMAIN u}
<1>1. DOMAIN u = 1..Len(t) /\ Len(t) \in Nat
  BY DEF Table
<1>2. u \in [1..Len(t) -> S]
  BY <1>1
<1>3. u \in Seq(S)
  BY <1>1, <1>2, IsASeq
<1>4. Len(u) \in Nat /\ DOMAIN u = 1..Len(u)
  BY <1>3, LenProperties
<1>5. Len(u) = Len(t)
  BY <1>1, <1>4
<1> QED
  BY <1>1, <1>5

\* What a state event makes of the table t of a pass with the wrapper w.
Settled(t, u, w, status, passed, failed) ==
  /\ Table(u) /\ DOMAIN u = DOMAIN t
  /\ \A b \in DOMAIN t : u[b].rows = t[b].rows
  /\ \A b \in DOMAIN t \ {w.batch} : u[b] = t[b]
  /\ ~Closes(w, status) => u = t
  /\ Closes(w, status) =>
       /\ w.batch \in DOMAIN t /\ u[w.batch].open = FALSE
       /\ u[w.batch].passed = passed /\ u[w.batch].failed = failed

LEMMA EventTold ==
  ASSUME NEW t, Table(t), NEW w, Fits(w, t), NEW status, NEW passed, NEW failed
  PROVE  Settled(t, AfterState(t, w, status, passed, failed), w, status, passed, failed)
<1> DEFINE u == AfterState(t, w, status, passed, failed)
<1>1. CASE ~Closes(w, status)
  BY <1>1 DEF AfterState, Settled
<1>2. CASE Closes(w, status)
  <2>1. w.batch \in DOMAIN t
    BY <1>2 DEF Closes, Fits
  <2>2. u = [t EXCEPT ![w.batch].open = FALSE, ![w.batch].passed = passed,
                      ![w.batch].failed = failed]
    BY <1>2 DEF AfterState
  <2>3. /\ DOMAIN u = DOMAIN t
        /\ \A b \in DOMAIN t \ {w.batch} : u[b] = t[b]
        /\ u[w.batch] = [t[w.batch] EXCEPT !.open = FALSE, !.passed = passed, !.failed = failed]
    BY <2>1, <2>2 DEF Table
  <2> HIDE DEF u
  <2>4. IsBatch(t[w.batch])
    BY <2>1 DEF Table
  <2>5. /\ IsBatch(u[w.batch]) /\ u[w.batch].rows = t[w.batch].rows
        /\ u[w.batch].open = FALSE /\ u[w.batch].passed = passed /\ u[w.batch].failed = failed
    BY <2>3, <2>4 DEF IsBatch, BatchFields
  <2>6. u = [b \in 1..Len(u) |-> u[b]] /\ Len(u) = Len(t)
    <3>1. u = [b \in DOMAIN u |-> u[b]]
      BY <2>2 DEF Table
    <3> QED
      BY <2>3, <3>1, SameLength
  <2>7. Table(u)
    BY <2>3, <2>5, <2>6 DEF Table
  <2> QED
    BY <1>2, <2>1, <2>3, <2>5, <2>7 DEF u, Settled
<1> QED
  BY <1>1, <1>2

\* What a resume makes of the table t when it is handed the batch b.
TakenUp(t, u, b) ==
  /\ Table(u) /\ DOMAIN u = DOMAIN t
  /\ \A c \in DOMAIN t : u[c].rows = t[c].rows
  /\ \A c \in DOMAIN t \ {b} : u[c] = t[c]
  /\ b # 0 => u[b].open = TRUE

LEMMA ReopenedIs ==
  ASSUME NEW t, Table(t), NEW b \in {0} \cup DOMAIN t
  PROVE  TakenUp(t, Reopened(t, b), b)
<1> DEFINE u == Reopened(t, b)
<1>1. CASE b = 0
  BY <1>1 DEF Reopened, TakenUp
<1>2. CASE b # 0
  <2>1. b \in DOMAIN t /\ u = [t EXCEPT ![b].open = TRUE]
    BY <1>2 DEF Reopened
  <2>2. /\ DOMAIN u = DOMAIN t
        /\ \A c \in DOMAIN t \ {b} : u[c] = t[c]
        /\ u[b] = [t[b] EXCEPT !.open = TRUE]
        /\ u = [c \in DOMAIN u |-> u[c]]
    BY <2>1 DEF Table
  <2> HIDE DEF u
  <2>3. IsBatch(u[b]) /\ u[b].rows = t[b].rows /\ u[b].open = TRUE
    BY <2>1, <2>2 DEF Table, IsBatch, BatchFields
  <2>4. u = [c \in 1..Len(u) |-> u[c]] /\ Len(u) = Len(t)
    BY <2>2, SameLength
  <2> QED
    BY <1>2, <2>1, <2>2, <2>3, <2>4 DEF Table, u, TakenUp
<1> QED
  BY <1>1, <1>2

LEMMA SweptIs ==
  ASSUME NEW t, Table(t)
  PROVE  LET u == Swept(t) IN
         /\ Table(u) /\ DOMAIN u = DOMAIN t
         /\ \A b \in DOMAIN t :
              /\ u[b].rows = t[b].rows /\ ~u[b].open
              /\ ~t[b].open => u[b] = t[b]
              /\ t[b].open => /\ u[b].passed = Cardinality(PassedRows(t[b]))
                              /\ u[b].failed = Cardinality(RowsOf(t[b]) \ PassedRows(t[b]))
<1> DEFINE u == Swept(t)
<1>1. /\ DOMAIN u = DOMAIN t
      /\ \A b \in DOMAIN t : u[b] = IF ~t[b].open THEN t[b]
           ELSE [t[b] EXCEPT !.open = FALSE,
                   !.passed = Cardinality(PassedRows(t[b])),
                   !.failed = Cardinality(RowsOf(t[b]) \ PassedRows(t[b]))]
  BY DEF Swept
<1>2. u = [b \in 1..Len(u) |-> u[b]] /\ Len(u) = Len(t)
  <2>1. u = [b \in DOMAIN u |-> u[b]]
    BY DEF Swept
  <2> QED
    BY <1>1, <2>1, SameLength
<1> HIDE DEF u
<1>3. ASSUME NEW b \in DOMAIN t
      PROVE  /\ IsBatch(u[b]) /\ u[b].rows = t[b].rows
             /\ ~u[b].open
             /\ ~t[b].open => u[b] = t[b]
             /\ t[b].open => /\ u[b].passed = Cardinality(PassedRows(t[b]))
                             /\ u[b].failed = Cardinality(RowsOf(t[b]) \ PassedRows(t[b]))
  <2>1. IsBatch(t[b])
    BY DEF Table
  <2>2. CASE ~t[b].open
    BY <1>1, <2>1, <2>2
  <2>3. CASE t[b].open
    <3> DEFINE p == Cardinality(PassedRows(t[b]))
               f == Cardinality(RowsOf(t[b]) \ PassedRows(t[b]))
    <3>1. u[b] = [t[b] EXCEPT !.open = FALSE, !.passed = p, !.failed = f]
      BY <1>1, <2>3
    <3> HIDE DEF p, f
    <3>2. /\ IsBatch(u[b]) /\ u[b].rows = t[b].rows /\ u[b].open = FALSE
          /\ u[b].passed = p /\ u[b].failed = f
      BY <2>1, <3>1 DEF IsBatch, BatchFields
    <3> QED
      BY <2>3, <3>2 DEF p, f
  <2> QED
    BY <2>2, <2>3
<1> QED
  BY <1>1, <1>2, <1>3 DEF Table, u

-----------------------------------------------------------------------------
(* Types: every step keeps them.                                           *)

Statuses == Final \cup {"idle", "running"}
StateOK(s, t) == /\ DOMAIN s = StateFields /\ s.status \in Statuses
                 /\ s.active \in {0} \cup DOMAIN t
AtNode(p) == p.at \in {"session", "testing", "retesting"}
PassOK(p) ==
  /\ DOMAIN p = PassFields /\ p.at \in Points
  /\ p.known \subseteq Nodes /\ p.todo \subseteq Nodes
  /\ p.first \in {Nobody} \cup p.todo
  /\ AtNode(p) => p.node \in Nodes
Typed ==
  /\ StateOK(state, batches) /\ PassOK(pass)
  /\ results \in [Nodes -> Verdicts]
  /\ DOMAIN disk = {"rows", "spent"} /\ disk.rows \in [Nodes -> Verdicts]
  /\ DOMAIN chain = {"members", "granted", "subscribed"} /\ chain.members \subseteq Nodes
  /\ DOMAIN ledger = LedgerFields
  /\ Fits(wrapper, batches) /\ Table(batches)

LEMMA TypedInit == Init => Typed
<1> SUFFICES ASSUME Init PROVE Typed
  OBVIOUS
<1>1. Table(batches) /\ Fits(wrapper, batches)
  BY DEF Init, Table, Fits, Unopened
<1>2. StateOK(state, batches) /\ PassOK(pass)
  BY DEF Init, StateOK, PassOK, Blank, Off, Statuses, StateFields, PassFields, Points, AtNode
<1> QED
  BY <1>1, <1>2 DEF Typed, Init, Verdicts, LedgerFields

LEMMA RecordTyped ==
  ASSUME Typed, NEW s, StateOK(s, batches), NEW n \in Nodes,
         NEW verdict \in Verdicts, Record(s, n, verdict)
  PROVE  /\ StateOK(state', batches') /\ results' \in [Nodes -> Verdicts]
         /\ DOMAIN disk' = {"rows", "spent"} /\ disk'.rows \in [Nodes -> Verdicts]
         /\ Fits(wrapper', batches') /\ Table(batches')
<1>1. CASE ~Listening(wrapper)
  <2>1. batches' = batches /\ wrapper' = wrapper
    BY <1>1 DEF Record, WithRow, Typed, Fits
  <2>2. state' = [s EXCEPT !.head = Pending(s), !.active = s.active]
    BY <1>1 DEF Record
  <2>3. StateOK(state', batches')
    BY <2>1, <2>2 DEF StateOK, StateFields
  <2> QED
    BY <2>1, <2>3 DEF Typed, Record
<1>2. CASE Listening(wrapper)
  <2> DEFINE c == BatchFor(batches, wrapper)
  <2>1. /\ Table(batches') /\ DOMAIN batches \subseteq DOMAIN batches' /\ c \in DOMAIN batches'
    BY <1>2, RowWritten DEF Typed, Record, Written
  <2>2. wrapper' = [wrapper EXCEPT !.batch = c]
    BY <1>2 DEF Record
  <2>3. Fits(wrapper', batches')
    BY <2>1, <2>2 DEF Typed, Fits
  <2>4. state' = [s EXCEPT !.head = Pending(s), !.active = IF wrapper.batch = 0 THEN c ELSE s.active]
    BY <1>2 DEF Record
  <2> HIDE DEF c
  <2>5. StateOK(state', batches')
    BY <2>1, <2>4 DEF StateOK, StateFields
  <2> QED
    BY <2>1, <2>3, <2>5 DEF Typed, Record
<1> QED
  BY <1>1, <1>2

LEMMA EventTyped ==
  ASSUME Typed, NEW s, StateEvent(s)
  PROVE  /\ DOMAIN disk' = {"rows", "spent"} /\ disk'.rows \in [Nodes -> Verdicts]
         /\ Fits(wrapper', batches') /\ Table(batches') /\ DOMAIN batches' = DOMAIN batches
<1>1. Table(batches') /\ DOMAIN batches' = DOMAIN batches
  <2>1. batches' = AfterState(batches, wrapper, s.status, s.tested, s.failed)
    BY DEF StateEvent
  <2>2. Table(batches) /\ Fits(wrapper, batches)
    BY DEF Typed
  <2>3. Settled(batches, batches', wrapper, s.status, s.tested, s.failed)
    BY <2>1, <2>2, EventTold
  <2> QED
    BY <2>3 DEF Settled
<1>2. Fits(wrapper', batches')
  BY <1>1 DEF Typed, StateEvent, Fits, Closes
<1> QED
  BY <1>1, <1>2 DEF Typed, StateEvent

LEMMA NewRunIs ==
  ASSUME NEW l, DOMAIN l = LedgerFields
  PROVE  /\ DOMAIN NewRun(l) = LedgerFields
         /\ NewRun(l).cut = Nobody /\ NewRun(l).mixed = FALSE /\ NewRun(l).early = FALSE
BY DEF NewRun, LedgerFields

LEMMA LeavesTyped ==
  ASSUME Typed, NEW s, StateOK(s, batches), NEW told, DOMAIN told = LedgerFields,
         Leaves(s, told)
  PROVE  Typed'
<1>1. Table(batches') /\ DOMAIN batches' = DOMAIN batches
  <2>1. batches' = AfterState(batches, wrapper, s.status, s.tested, s.failed)
    BY DEF Leaves
  <2>2. Table(batches) /\ Fits(wrapper, batches)
    BY DEF Typed
  <2>3. Settled(batches, batches', wrapper, s.status, s.tested, s.failed)
    BY <2>1, <2>2, EventTold
  <2> QED
    BY <2>3 DEF Settled
<1>2. StateOK(state', batches') /\ PassOK(pass') /\ DOMAIN ledger' = LedgerFields
      /\ results' \in [Nodes -> Verdicts]
  <2>1. CASE /\ state' = [Fresh(s) EXCEPT !.status = "running", !.again = Repeats]
             /\ results' = NoRows
             /\ pass' = [Off EXCEPT !.at = "setup", !.loop = TRUE]
             /\ ledger' = NewRun(told)
    <3>1. StateOK(state', batches')
      BY <1>1, <2>1 DEF StateOK, Fresh, StateFields, Statuses
    <3>2. PassOK(pass')
      BY <2>1 DEF PassOK, Off, PassFields, AtNode, Points
    <3> QED
      BY <2>1, <3>1, <3>2, NewRunIs DEF NoRows, Verdicts
  <2>2. CASE /\ state' = [s EXCEPT !.again = @ /\ ~pass.loop]
             /\ pass' = Off /\ ledger' = told /\ UNCHANGED results
    <3>1. StateOK(state', batches')
      BY <1>1, <2>2 DEF StateOK, StateFields, Statuses
    <3>2. PassOK(pass')
      BY <2>2 DEF PassOK, Off, PassFields, AtNode, Points
    <3> QED
      BY <2>2, <3>1, <3>2 DEF Typed
  <2> QED
    BY <2>1, <2>2 DEF Leaves
<1>3. Fits(wrapper', batches')
  BY <1>1 DEF Leaves, Fits, Unopened
<1> QED
  BY <1>1, <1>2, <1>3 DEF Leaves, Typed

LEMMA LaunchTyped ==
  ASSUME Typed, Operator
  PROVE  Typed'
<1>1. CASE \E granter \in {"self", "owner"}, again \in BOOLEAN : TestSubPlan(granter, again)
  <2>1. PICK granter \in {"self", "owner"}, again \in BOOLEAN : TestSubPlan(granter, again)
    BY <1>1
  <2>2. DOMAIN Fresh(state) = StateFields
    BY DEF Typed, StateOK, Fresh, StateFields
  <2>3. StateOK(state', batches)
    <3> DEFINE f == Fresh(state)
    <3>1. state' = [f EXCEPT !.status = "running", !.again = again,
                       !.granter = granter, !.active = 0, !.head = Nobody]
      BY <2>1 DEF TestSubPlan
    <3>2. DOMAIN f = StateFields
      BY <2>2
    <3> HIDE DEF f
    <3> QED
      BY <3>1, <3>2 DEF StateOK, StateFields, Statuses
  <2>4. PassOK(pass')
    BY <2>1 DEF TestSubPlan, PassOK, Off, PassFields, Points, AtNode
  <2>5. DOMAIN ledger' = LedgerFields
    BY <2>1, NewRunIs DEF TestSubPlan, Typed
  <2> QED
    BY <2>1, <2>3, <2>4, <2>5 DEF TestSubPlan, Typed, NoRows, Verdicts, Fits, Unopened
<1>2. CASE TestPlan
  <2>1. StateOK(state', batches)
    BY <1>2 DEF TestPlan, Recounted, Typed, StateOK, StateFields, Statuses
  <2>2. PassOK(pass')
    BY <1>2 DEF TestPlan, PassOK, Off, PassFields, Points, AtNode
  <2> QED
    BY <1>2, <2>1, <2>2 DEF TestPlan, Typed, Fits, Unopened, LedgerFields
<1>3. CASE Resume
  <2>1. StateOK(state', batches)
    BY <1>3 DEF Resume, Recounted, Typed, StateOK, StateFields, Statuses
  <2>2. PassOK(pass')
    BY <1>3 DEF Resume, PassOK, Off, PassFields, Points, AtNode
  <2>3. Table(batches') /\ DOMAIN batches' = DOMAIN batches
    BY <1>3, ReopenedIs DEF Resume, Handed, Typed, StateOK, TakenUp
  <2>4. Fits(wrapper', batches') /\ StateOK(state', batches')
    BY <1>3, <2>1, <2>3 DEF Resume, Handed, Typed, StateOK, Fits, Attached
  <2> QED
    BY <1>3, <2>2, <2>3, <2>4 DEF Resume, Typed, LedgerFields
<1>4. CASE ResumeRefused \/ Stop
  <2>1. StateOK(state', batches)
    BY <1>4 DEF ResumeRefused, Stop, Typed, StateOK, StateFields, Statuses, Final
  <2> QED
    BY <1>4, <2>1 DEF ResumeRefused, Stop, Typed
<1> QED
  BY <1>1, <1>2, <1>3, <1>4 DEF Operator

\* The pass only moves on.
LEMMA GoTyped ==
  ASSUME Typed, NEW point \in Points, Go(point), AtNode([at |-> point]) => AtNode(pass)
  PROVE  PassOK(pass') /\ pass'.at = point
<1>1. pass' = [pass EXCEPT !.at = point] /\ PassOK(pass)
  BY DEF Go, Typed
<1>2. DOMAIN pass' = PassFields /\ pass'.at = point /\ pass'.node = pass.node
      /\ pass'.known = pass.known /\ pass'.todo = pass.todo /\ pass'.first = pass.first
  BY <1>1 DEF PassOK, PassFields
<1> QED
  BY <1>1, <1>2 DEF PassOK, AtNode

LEMMA ReturnsTyped ==
  ASSUME Typed, NEW status \in Statuses, Returns(status)
  PROVE  Typed'
<1>1. StateOK([state EXCEPT !.status = status], batches)
  BY DEF Typed, StateOK, StateFields
<1> QED
  BY <1>1, LeavesTyped DEF Returns, Typed

LEMMA WayTyped ==
  ASSUME Typed, Throws \/ Setup \/ CheckSub \/ CheckPlan \/ Fetch
  PROVE  Typed'
<1>1. CASE Throws
  <2>1. StateOK([state EXCEPT !.status = "error", !.again = @ /\ ~pass.loop], batches)
    BY DEF Typed, StateOK, StateFields, Statuses, Final
  <2> QED
    BY <1>1, <2>1, LeavesTyped DEF Throws, Typed
<1>2. CASE Setup
  <2>1. StateOK(state', batches) /\ DOMAIN ledger' = LedgerFields
    BY <1>2 DEF Setup, Typed, StateOK, StateFields, LedgerFields
  <2>2. StateEvent(state')
    BY <1>2 DEF Setup
  <2>3. PassOK(pass')
    BY <1>2, GoTyped DEF Setup, Points, AtNode
  <2>4. /\ DOMAIN disk' = {"rows", "spent"} /\ disk'.rows \in [Nodes -> Verdicts]
        /\ Fits(wrapper', batches') /\ Table(batches') /\ DOMAIN batches' = DOMAIN batches
    BY <2>2, EventTyped
  <2> QED
    BY <1>2, <2>1, <2>3, <2>4 DEF Setup, Typed, StateOK
<1>3. ASSUME NEW status \in {"error", "done"}, Returns(status)
      PROVE  Typed'
  BY <1>3, ReturnsTyped DEF Statuses, Final
<1>4. CASE CheckSub
  <2>1. CASE Go("fetch") /\ UNCHANGED <<state, results, wrapper, batches, disk, chain, ledger>>
    BY <2>1, GoTyped DEF Typed, Points, AtNode
  <2> QED
    BY <1>3, <1>4, <2>1 DEF CheckSub
<1>5. CASE CheckPlan
  <2>1. CASE Go("fetch") /\ UNCHANGED <<state, results, wrapper, batches, disk, chain, ledger>>
    BY <2>1, GoTyped DEF Typed, Points, AtNode
  <2>2. CASE /\ Charged(1) /\ chain' = [chain EXCEPT !.subscribed = TRUE] /\ Go("fetch")
             /\ UNCHANGED <<results, wrapper, batches, disk>>
    <3>1. StateOK(state', batches) /\ DOMAIN ledger' = LedgerFields
      BY <2>2 DEF Charged, Typed, StateOK, StateFields, LedgerFields
    <3>2. PassOK(pass')
      BY <2>2, GoTyped DEF Points, AtNode
    <3> QED
      BY <2>2, <3>1, <3>2 DEF Typed
  <2> QED
    BY <1>3, <1>5, <2>1, <2>2 DEF CheckPlan
<1>6. CASE Fetch
  <2>1. ASSUME NEW total, NEW todo \in SUBSET Nodes, StateEvent(state'),
               state' = [state EXCEPT !.total = total],
               pass' = [pass EXCEPT !.at = "next", !.todo = todo,
                          !.first = Hoisted(todo), !.known = chain.members],
               UNCHANGED <<results, chain, ledger>>
        PROVE  Typed'
    <3>1. StateOK(state', batches)
      BY <2>1 DEF Typed, StateOK, StateFields
    <3>2. PassOK(pass')
      BY <2>1 DEF Typed, PassOK, PassFields, Points, AtNode, Hoisted
    <3>3. /\ DOMAIN disk' = {"rows", "spent"} /\ disk'.rows \in [Nodes -> Verdicts]
          /\ Fits(wrapper', batches') /\ Table(batches') /\ DOMAIN batches' = DOMAIN batches
      BY <2>1, EventTyped
    <3> QED
      BY <2>1, <3>1, <3>2, <3>3 DEF Typed, StateOK
  <2>2. \A online \in SUBSET chain.members : Remaining(online) \in SUBSET Nodes
    BY DEF Typed, Remaining
  <2> QED
    BY <1>3, <1>6, <2>1, <2>2 DEF Fetch
<1> QED
  BY <1>1, <1>2, <1>4, <1>5, <1>6

LEMMA FinishTyped ==
  ASSUME Typed, NEW told, DOMAIN told = LedgerFields, Finish(told)
  PROVE  Typed'
<1>1. StateOK([Reconciled(state) EXCEPT !.status = "done"], batches)
  BY DEF Typed, StateOK, Reconciled, Recounted, StateFields, Statuses, Final
<1> QED
  BY <1>1, LeavesTyped DEF Finish

\* A step that writes a row and is otherwise typed.
LEMMA RowTyped ==
  ASSUME Typed, NEW s, StateOK(s, batches), NEW n \in Nodes,
         NEW verdict \in Verdicts, Record(s, n, verdict),
         PassOK(pass'), DOMAIN ledger' = LedgerFields, UNCHANGED chain
  PROVE  Typed'
BY RecordTyped DEF Typed

LEMMA NextNodeTyped ==
  ASSUME Typed, NEW known \in SUBSET Nodes, NextNode(known)
  PROVE  PassOK(pass')
BY DEF Typed, NextNode, PassOK, PassFields, Points, AtNode

LEMMA NodesTyped ==
  ASSUME Typed, Sweep \/ TakeUp \/ SessionOpens \/ SessionFails \/ PayFresh \/ Tested \/ Interrupted
  PROVE  Typed'
<1> Refreshed \subseteq SUBSET Nodes
  BY DEF Refreshed, Typed, PassOK
<1> pass.known \in SUBSET Nodes
  BY DEF Typed, PassOK
<1>1. CASE Sweep \/ Interrupted
  BY <1>1, FinishTyped DEF Sweep, Interrupted, Typed, LedgerFields
<1>2. CASE TakeUp
  <2>1. ledger' = [ledger EXCEPT !.cut = Nobody] /\ UNCHANGED chain
    BY <1>2 DEF TakeUp
  <2>2. PICK n \in NextUp, known \in {pass.known} \cup Refreshed :
          \/ /\ state' = Noted(n)
             /\ pass' = [pass EXCEPT !.at = "session", !.todo = @ \ {n},
                            !.first = Nobody, !.known = known, !.node = n]
             /\ disk' = [disk EXCEPT !.spent = state.spent]
             /\ UNCHANGED <<results, wrapper, batches>>
          \/ /\ Record(Noted(n), n, "evicted")
             /\ pass' = [pass EXCEPT !.todo = @ \ {n}, !.first = Nobody, !.known = known]
             /\ pass.at = "next"
    BY <1>2 DEF TakeUp, At
  <2>3. n \in Nodes /\ known \in SUBSET Nodes
    BY <2>2 DEF NextUp, Typed, PassOK
  <2>4. StateOK(Noted(n), batches) /\ DOMAIN ledger' = LedgerFields
    BY <2>1 DEF Noted, Typed, StateOK, StateFields, LedgerFields
  <2>5. PassOK(pass')
    <3>1. CASE pass' = [pass EXCEPT !.at = "session", !.todo = @ \ {n},
                          !.first = Nobody, !.known = known, !.node = n]
      BY <2>3, <3>1 DEF Typed, PassOK, PassFields, Points, AtNode
    <3>2. CASE /\ pass' = [pass EXCEPT !.todo = @ \ {n}, !.first = Nobody, !.known = known]
               /\ pass.at = "next"
      BY <2>3, <3>2 DEF Typed, PassOK, PassFields, Points, AtNode
    <3> QED
      BY <2>2, <3>1, <3>2
  <2>6. CASE Record(Noted(n), n, "evicted")
    BY <2>1, <2>3, <2>4, <2>5, <2>6, RowTyped DEF Verdicts
  <2>7. CASE /\ state' = Noted(n) /\ disk' = [disk EXCEPT !.spent = state.spent]
             /\ UNCHANGED <<results, wrapper, batches>>
    BY <2>1, <2>4, <2>5, <2>7 DEF Typed
  <2> QED
    BY <2>2, <2>6, <2>7
<1>3. CASE SessionOpens
  <2>1. /\ At("session") /\ UNCHANGED chain
        /\ ledger' = [ledger EXCEPT !.paid = @ + (IF SelfPaid THEN 1 ELSE 0)]
    BY <1>3 DEF SessionOpens
  <2>2. Here \in Nodes /\ DOMAIN ledger' = LedgerFields
    BY <2>1 DEF At, Here, Typed, PassOK, AtNode, LedgerFields
  <2>3. StateOK(Payment, batches)
    BY DEF Payment, Typed, StateOK, StateFields
  <2>4. CASE /\ state' = Payment /\ Go("testing")
             /\ UNCHANGED <<results, wrapper, batches, disk>>
    <3>1. PassOK(pass')
      BY <2>1, <2>4, GoTyped DEF At, Points, AtNode
    <3> QED
      BY <2>1, <2>2, <2>3, <2>4, <3>1 DEF Typed
  <2>5. CASE Record(Payment, Here, "fail") /\ NextNode(pass.known)
    BY <2>1, <2>2, <2>3, <2>5, NextNodeTyped, RowTyped DEF Verdicts
  <2> QED
    BY <1>3, <2>4, <2>5 DEF SessionOpens
<1>4. CASE SessionFails
  <2>1. Here \in Nodes /\ UNCHANGED <<chain, ledger>>
    BY <1>4 DEF SessionFails, At, Here, Typed, PassOK, AtNode
  <2>2. PICK verdict \in {"fail", "evicted"}, known \in SUBSET Nodes :
          Record(state, Here, verdict) /\ NextNode(known)
    BY <1>4 DEF SessionFails
  <2>3. PassOK(pass')
    BY <2>2, NextNodeTyped
  <2>4. StateOK(state, batches) /\ DOMAIN ledger' = LedgerFields /\ verdict \in Verdicts
    BY <2>1, <2>2 DEF Typed, Verdicts
  <2> QED
    BY <2>1, <2>2, <2>3, <2>4, RowTyped
<1>5. CASE PayFresh
  <2>1. StateOK(state', batches) /\ DOMAIN ledger' = LedgerFields
    BY <1>5 DEF PayFresh, Typed, StateOK, StateFields, LedgerFields
  <2>2. PassOK(pass')
    BY <1>5, GoTyped DEF PayFresh, At, Points, AtNode
  <2>3. StateEvent(state')
    BY <1>5 DEF PayFresh
  <2>4. /\ DOMAIN disk' = {"rows", "spent"} /\ disk'.rows \in [Nodes -> Verdicts]
        /\ Fits(wrapper', batches') /\ Table(batches') /\ DOMAIN batches' = DOMAIN batches
    BY <2>3, EventTyped
  <2> QED
    BY <1>5, <2>1, <2>2, <2>4 DEF PayFresh, Typed, StateOK
<1>6. CASE Tested
  <2>1. PICK verdict \in {"pass", "fail"} : \E tested, failed :
          Record([state EXCEPT !.tested = tested, !.failed = failed], Here, verdict)
    BY <1>6 DEF Tested
  <2>row. PICK tested, failed :
          Record([state EXCEPT !.tested = tested, !.failed = failed], Here, verdict)
    BY <2>1
  <2>2. Here \in Nodes /\ NextNode(pass.known) /\ UNCHANGED <<chain, ledger>>
    BY <1>6 DEF Tested, UnderTest, At, Here, Typed, PassOK, AtNode
  <2>3. StateOK([state EXCEPT !.tested = tested, !.failed = failed], batches)
    BY DEF Typed, StateOK, StateFields
  <2>4. PassOK(pass') /\ DOMAIN ledger' = LedgerFields /\ verdict \in Verdicts
    BY <2>1, <2>2, NextNodeTyped DEF Typed, Verdicts
  <2> QED
    BY <2>row, <2>1, <2>2, <2>3, <2>4, RowTyped
<1> QED
  BY <1>1, <1>2, <1>3, <1>4, <1>5, <1>6

LEMMA MachineTyped ==
  ASSUME Typed, Evict \/ Revoke \/ Crash \/ UNCHANGED vars
  PROVE  Typed'
<1>1. CASE Evict \/ Revoke \/ UNCHANGED vars
  BY <1>1 DEF Evict, Revoke, vars, Typed
<1>2. CASE Crash
  <2>1. Table(batches') /\ DOMAIN batches' = DOMAIN batches
    BY <1>2, SweptIs DEF Crash, Typed
  <2>2. StateOK(state', batches)
    BY <1>2 DEF Crash, Typed, StateOK, Blank, Recounted, StateFields, Statuses
  <2>3. PassOK(pass')
    BY <1>2 DEF Crash, PassOK, Off, PassFields, Points, AtNode
  <2> QED
    BY <1>2, <2>1, <2>2, <2>3 DEF Crash, Typed, StateOK, Fits, Unopened, LedgerFields
<1> QED
  BY <1>1, <1>2

LEMMA TypedStep ==
  ASSUME Typed, [Next]_vars
  PROVE  Typed'
BY LaunchTyped, WayTyped, NodesTyped, MachineTyped DEF Next, Pipeline

-----------------------------------------------------------------------------
(* An open batch has a pass that works with it and has not closed it.      *)

InFlight == pass.at # "off"
Watched ==
  /\ ~InFlight => wrapper = Unopened
  /\ \A b \in DOMAIN batches : batches[b].open => InFlight /\ wrapper = Attached(b)

LEMMA LeavesWatched ==
  ASSUME Typed, Watched, NEW s, s.status \in Final, NEW told, Leaves(s, told)
  PROVE  Watched'
<1>1. batches' = AfterState(batches, wrapper, s.status, s.tested, s.failed)
  BY DEF Leaves
<1>2. Settled(batches, batches', wrapper, s.status, s.tested, s.failed)
  BY <1>1, EventTold DEF Typed
<1>3. \A b \in DOMAIN batches' : ~batches'[b].open
  <2>1. SUFFICES ASSUME NEW b \in DOMAIN batches, batches'[b].open
                 PROVE  FALSE
    BY <1>2 DEF Settled
  <2>2. CASE Closes(wrapper, s.status)
    BY <1>2, <2>1, <2>2 DEF Settled, Watched, Attached
  <2>3. CASE ~Closes(wrapper, s.status)
    <3>1. wrapper = Attached(b) /\ b # 0
      BY <1>2, <2>1, <2>3 DEF Settled, Watched, Typed, Table
    <3> QED
      BY <2>3, <3>1 DEF Closes, Listening, Attached
  <2> QED
    BY <2>2, <2>3
<1>4. wrapper' = Unopened
  BY DEF Leaves
<1> QED
  BY <1>3, <1>4 DEF Watched

LEMMA EventWatched ==
  ASSUME Typed, Watched, NEW s, StateEvent(s), InFlight, InFlight'
  PROVE  Watched'
<1>1. batches' = AfterState(batches, wrapper, s.status, s.tested, s.failed)
      /\ wrapper' = [wrapper EXCEPT !.closed = @ \/ Closes(wrapper, s.status)]
  BY DEF StateEvent
<1>2. Settled(batches, batches', wrapper, s.status, s.tested, s.failed)
  BY <1>1, EventTold DEF Typed
<1>3. ASSUME NEW b \in DOMAIN batches', batches'[b].open
      PROVE  wrapper' = Attached(b)
  <2>1. CASE Closes(wrapper, s.status)
    BY <1>2, <1>3, <2>1 DEF Settled, Watched, Attached
  <2>2. CASE ~Closes(wrapper, s.status)
    <3>1. wrapper = Attached(b)
      BY <1>2, <1>3, <2>2 DEF Settled, Watched
    <3> QED
      BY <1>1, <2>2, <3>1 DEF Attached
  <2> QED
    BY <2>1, <2>2
<1> QED
  BY <1>3 DEF Watched

LEMMA RecordWatched ==
  ASSUME Typed, Watched, NEW s, NEW n \in Nodes, NEW verdict \in Verdicts,
         Record(s, n, verdict), InFlight, InFlight'
  PROVE  Watched'
<1>1. CASE ~Listening(wrapper)
  <2>1. batches' = batches /\ wrapper' = wrapper
    BY <1>1 DEF Record, WithRow, Typed, Fits
  <2> QED
    BY <2>1 DEF Watched
<1>2. CASE Listening(wrapper)
  <2> DEFINE c == BatchFor(batches, wrapper)
  <2>1. /\ DOMAIN batches' \subseteq DOMAIN batches \cup {c}
        /\ \A b \in DOMAIN batches \ {c} : batches'[b] = batches[b]
        /\ 0 \notin DOMAIN batches
    <3>1. Written(batches, batches', wrapper, n, verdict, s.total)
      BY <1>2, RowWritten DEF Typed, Record
    <3>2. 0 \notin DOMAIN batches
      BY DEF Typed, Table
    <3> QED
      BY <3>1, <3>2 DEF Written
  <2>2. wrapper' = [wrapper EXCEPT !.batch = c]
    BY <1>2 DEF Record
  <2>3. ASSUME NEW b \in DOMAIN batches', batches'[b].open
        PROVE  b = c
    <3>1. SUFFICES ASSUME b # c PROVE FALSE
      OBVIOUS
    <3>2. b \in DOMAIN batches /\ wrapper = Attached(b)
      BY <2>1, <2>3, <3>1 DEF Watched
    <3> QED
      BY <2>1, <3>1, <3>2 DEF Attached, BatchFor
  <2>4. wrapper' = Attached(c)
    BY <1>2, <2>2 DEF Typed, Fits, Attached, Listening
  <2> QED
    BY <2>3, <2>4 DEF Watched
<1> QED
  BY <1>1, <1>2

LEMMA WatchedStep ==
  ASSUME Typed, Watched, [Next]_vars
  PROVE  Watched'
<1>1. CASE \E granter \in {"self", "owner"}, again \in BOOLEAN : TestSubPlan(granter, again)
  BY <1>1 DEF TestSubPlan, Watched, InFlight, Quiet, Off, Unopened
<1>2. CASE TestPlan
  BY <1>2 DEF TestPlan, Watched, InFlight, Quiet, Off, Unopened
<1>3. CASE Resume
  <2>1. /\ DOMAIN batches' = DOMAIN batches
        /\ \A b \in DOMAIN batches \ {state.active} : batches'[b] = batches[b]
    BY <1>3, ReopenedIs DEF Resume, Handed, Typed, StateOK, TakenUp
  <2>2. wrapper' = Attached(state.active) /\ InFlight'
    BY <1>3 DEF Resume, Handed, InFlight, Off
  <2>3. \A b \in DOMAIN batches : ~batches[b].open
    BY <1>3 DEF Resume, Quiet, Watched, InFlight
  <2> QED
    BY <2>1, <2>2, <2>3 DEF Watched
<1>4. CASE ResumeRefused \/ Stop \/ Evict \/ Revoke \/ UNCHANGED vars
  BY <1>4 DEF ResumeRefused, Stop, Evict, Revoke, vars, Watched, InFlight
<1>5. CASE Throws
  <2>1. [state EXCEPT !.status = "error", !.again = @ /\ ~pass.loop].status \in Final
    BY DEF Typed, StateOK, StateFields, Final
  <2> QED
    BY <1>5, <2>1, LeavesWatched DEF Throws
<1>6. ASSUME NEW status \in {"error", "done"}, Returns(status)
      PROVE  Watched'
  <2>1. [state EXCEPT !.status = status].status \in Final
    BY <1>6 DEF Typed, StateOK, StateFields, Final
  <2> QED
    BY <1>6, <2>1, LeavesWatched DEF Returns
<1>7. ASSUME NEW told, Finish(told)
      PROVE  Watched'
  <2>1. [Reconciled(state) EXCEPT !.status = "done"].status \in Final
    BY DEF Typed, StateOK, StateFields, Final, Reconciled, Recounted
  <2> QED
    BY <1>7, <2>1, LeavesWatched DEF Finish
<1>8. ASSUME NEW point \in Points \ {"off"}, Go(point)
      PROVE  InFlight'
  BY <1>8 DEF Go, InFlight, Typed, PassOK, PassFields
<1>9. CASE Setup \/ PayFresh
  <2>1. StateEvent(state') /\ InFlight /\ InFlight'
    BY <1>8, <1>9 DEF Setup, PayFresh, At, InFlight, Points
  <2> QED
    BY <2>1, EventWatched
<1>10. CASE CheckSub
  BY <1>6, <1>8, <1>10 DEF CheckSub, At, InFlight, Points, Watched
<1>11. CASE CheckPlan
  BY <1>6, <1>8, <1>11 DEF CheckPlan, At, InFlight, Points, Watched
<1>12. CASE Fetch
  <2>1. ASSUME NEW todo, StateEvent(state'),
               pass' = [pass EXCEPT !.at = "next", !.todo = todo,
                          !.first = Hoisted(todo), !.known = chain.members]
        PROVE  Watched'
    <3>1. InFlight /\ InFlight'
      BY <1>12, <2>1 DEF Fetch, At, InFlight, Typed, PassOK, PassFields
    <3> QED
      BY <2>1, <3>1, EventWatched
  <2> QED
    BY <1>6, <1>12, <2>1 DEF Fetch
<1>13. CASE Sweep \/ Interrupted
  BY <1>7, <1>13 DEF Sweep, Interrupted
<1>14. ASSUME NEW known, NextNode(known)
       PROVE  InFlight'
  BY <1>14 DEF NextNode, InFlight, Typed, PassOK, PassFields
<1>15. CASE TakeUp
  <2>1. PICK n, known :
          /\ n \in NextUp
          /\ \/ /\ pass' = [pass EXCEPT !.at = "session", !.todo = @ \ {n},
                               !.first = Nobody, !.known = known, !.node = n]
                /\ UNCHANGED <<wrapper, batches>>
             \/ /\ Record(Noted(n), n, "evicted")
                /\ pass' = [pass EXCEPT !.todo = @ \ {n}, !.first = Nobody, !.known = known]
    BY <1>15 DEF TakeUp
  <2>2. n \in Nodes /\ InFlight /\ InFlight'
    BY <1>15, <2>1 DEF TakeUp, At, NextUp, InFlight, Typed, PassOK, PassFields
  <2>3. CASE UNCHANGED <<wrapper, batches>>
    BY <2>2, <2>3 DEF Watched
  <2>4. CASE Record(Noted(n), n, "evicted")
    BY <2>2, <2>4, RecordWatched DEF Verdicts
  <2> QED
    BY <2>1, <2>3, <2>4
<1>16. CASE SessionOpens \/ SessionFails \/ Tested
  <2>1. Here \in Nodes /\ InFlight
    BY <1>16 DEF SessionOpens, SessionFails, Tested, UnderTest, At, Here, InFlight,
                 Typed, PassOK, AtNode
  <2>2. CASE Go("testing") /\ UNCHANGED <<wrapper, batches>>
    BY <1>8, <2>1, <2>2 DEF Watched, Points
  <2>3. ASSUME NEW s, NEW verdict \in Verdicts, Record(s, Here, verdict),
               NEW known, NextNode(known)
        PROVE  Watched'
    BY <1>14, <2>1, <2>3, RecordWatched
  <2>4. CASE SessionOpens
    BY <2>2, <2>3, <2>4 DEF SessionOpens, Verdicts
  <2>5. CASE SessionFails
    BY <2>3, <2>5 DEF SessionFails, Verdicts
  <2>6. CASE Tested
    BY <2>3, <2>6 DEF Tested, Verdicts
  <2> QED
    BY <1>16, <2>4, <2>5, <2>6
<1>17. CASE Crash
  <2>1. \A b \in DOMAIN batches' : ~batches'[b].open
    BY <1>17, SweptIs DEF Crash, Typed
  <2> QED
    BY <1>17, <2>1 DEF Crash, Watched
<1> QED
  BY <1>1, <1>2, <1>3, <1>4, <1>5, <1>9, <1>10, <1>11, <1>12, <1>13, <1>15, <1>16, <1>17
     DEF Next, Operator, Pipeline

-----------------------------------------------------------------------------
(* The order of a run: its nodes are taken up once, the one that was cut    *)
(* short first.  It speaks of runs that took in no rows of another.         *)

OnTheWay(p) == p.at \in {"setup", "check", "fetch"}
\* The node a stop or a death cut short is the head the resume starts from; only a
\* death before the first row forgets it, and the run cannot be resumed then.
CutFirst ==
  ledger.cut # Nobody => \/ ~InFlight /\ Rows = {}
                         \/ state.head = ledger.cut /\ (InFlight => pass.resume)
Sorted ==
  /\ pass.todo \cap Rows = {}
  /\ AtNode(pass) => /\ pass.node \notin Rows \cup pass.todo
                     /\ state.head = pass.node /\ ledger.cut = Nobody
  /\ OnTheWay(pass) /\ ~pass.resume => Rows = {}
  /\ CutFirst
Order ==
  /\ InFlight /\ pass.kind # "sub" => ledger.mixed
  /\ ~InFlight \/ OnTheWay(pass) => pass.todo = {}
  /\ AtNode(pass) <=> pass.node # Nobody
  /\ ~ledger.mixed => Sorted

LEMMA OrderInit == Init => Order
BY DEF Init, Order, Sorted, CutFirst, Off, Rows, InFlight, OnTheWay, AtNode

LEMMA LeavesOrder ==
  ASSUME Typed, Order, NEW s, DOMAIN s = StateFields, NEW told, DOMAIN told = LedgerFields,
         Leaves(s, told), told.mixed = ledger.mixed,
         ~ledger.mixed /\ told.cut # Nobody => s.head = told.cut
  PROVE  Order'
<1>1. CASE /\ results' = NoRows
           /\ pass' = [Off EXCEPT !.at = "setup", !.loop = TRUE]
           /\ ledger' = NewRun(told)
  <2>1. Rows' = {} /\ ledger'.cut = Nobody
    BY <1>1, NewRunIs DEF Rows, NoRows
  <2>2. pass'.at = "setup" /\ pass'.kind = "sub" /\ pass'.todo = {} /\ pass'.node = Nobody
    BY <1>1 DEF Off
  <2> QED
    BY <2>1, <2>2 DEF Order, Sorted, CutFirst, InFlight, OnTheWay, AtNode
<1>2. CASE /\ state' = [s EXCEPT !.again = @ /\ ~pass.loop]
           /\ pass' = Off /\ ledger' = told /\ UNCHANGED results
  <2>1. pass'.at = "off" /\ pass'.todo = {} /\ pass'.node = Nobody
    BY <1>2 DEF Off
  <2>2. state'.head = s.head
    BY <1>2 DEF StateFields
  <2> QED
    BY <1>2, <2>1, <2>2 DEF Order, Sorted, CutFirst, InFlight, OnTheWay, AtNode
<1> QED
  BY <1>1, <1>2 DEF Leaves

\* A row joins the others, and the node of a subscription test is no longer pending.
LEMMA RecordRows ==
  ASSUME Typed, NEW s, DOMAIN s = StateFields, NEW n \in Nodes,
         NEW verdict \in Verdicts \ {"none"}, Record(s, n, verdict)
  PROVE  /\ Rows' = Rows \cup {n} /\ results'[n] = verdict
         /\ \A m \in Nodes \ {n} : results'[m] = results[m]
         /\ state'.head = Pending(s) /\ state'.status = s.status /\ state'.stop = s.stop
<1>1. results' = [results EXCEPT ![n] = verdict] /\ results \in [Nodes -> Verdicts]
  BY DEF Record, Typed
<1>2. state'.head = Pending(s) /\ state'.status = s.status /\ state'.stop = s.stop
  BY DEF Record, StateFields
<1> QED
  BY <1>1, <1>2 DEF Rows

LEMMA WayOrder ==
  ASSUME Typed, Order, Throws \/ Setup \/ CheckSub \/ CheckPlan \/ Fetch
  PROVE  Order'
<1>1. OnTheWay(pass) /\ InFlight
  BY DEF Throws, Setup, CheckSub, CheckPlan, Fetch, At, OnTheWay, InFlight
<1>2. ASSUME NEW s, DOMAIN s = StateFields, s.head = state.head, Leaves(s, ledger)
      PROVE  Order'
  <2>1. ~ledger.mixed /\ ledger.cut # Nobody => s.head = ledger.cut
    BY <1>1, <1>2 DEF Order, Sorted, CutFirst
  <2> QED
    BY <1>2, <2>1, LeavesOrder DEF Typed
<1>3. ASSUME NEW status, Returns(status)
      PROVE  Order'
  <2>1. /\ DOMAIN [state EXCEPT !.status = status] = StateFields
        /\ [state EXCEPT !.status = status].head = state.head
    BY DEF Typed, StateOK, StateFields
  <2> QED
    BY <1>2, <1>3, <2>1 DEF Returns
\* The pass goes on along its way.
<1>4. ASSUME NEW point \in {"check", "fetch"}, Go(point), UNCHANGED results,
             state'.head = state.head, ledger'.cut = ledger.cut, ledger'.mixed = ledger.mixed
      PROVE  Order'
  <2>1. /\ pass'.at = point /\ pass'.kind = pass.kind /\ pass'.todo = pass.todo
        /\ pass'.node = pass.node /\ pass'.resume = pass.resume
    BY <1>4 DEF Go, Typed, PassOK, PassFields
  <2> QED
    BY <1>1, <1>4, <2>1 DEF Order, Sorted, CutFirst, InFlight, OnTheWay, AtNode, Rows
<1>5. CASE Throws
  <2>1. LET s == [state EXCEPT !.status = "error", !.again = @ /\ ~pass.loop] IN
        DOMAIN s = StateFields /\ s.head = state.head
    BY DEF Typed, StateOK, StateFields
  <2> QED
    BY <1>2, <1>5, <2>1 DEF Throws
<1>6. CASE Setup
  <2>1. state'.head = state.head /\ ledger'.cut = ledger.cut /\ ledger'.mixed = ledger.mixed
    BY <1>6 DEF Setup, Typed, StateOK, StateFields, LedgerFields
  <2> QED
    BY <1>4, <1>6, <2>1 DEF Setup
<1>7. CASE CheckSub
  BY <1>3, <1>4, <1>7 DEF CheckSub
<1>8. CASE CheckPlan
  <2>1. CASE Charged(1) /\ Go("fetch") /\ UNCHANGED results
    <3>1. state'.head = state.head /\ ledger'.cut = ledger.cut /\ ledger'.mixed = ledger.mixed
      BY <2>1 DEF Charged, Typed, StateOK, StateFields, LedgerFields
    <3> QED
      BY <1>4, <2>1, <3>1
  <2> QED
    BY <1>3, <1>4, <1>8, <2>1 DEF CheckPlan
<1>9. CASE Fetch
  <2>1. ASSUME NEW total, NEW todo, UNCHANGED <<results, ledger>>,
               NEW online \in SUBSET chain.members, todo = Remaining(online),
               state' = [state EXCEPT !.total = total],
               pass' = [pass EXCEPT !.at = "next", !.todo = todo,
                          !.first = Hoisted(todo), !.known = chain.members]
        PROVE  Order'
    <3>1. /\ pass'.at = "next" /\ pass'.kind = pass.kind /\ pass'.todo = todo
          /\ pass'.node = pass.node /\ pass'.resume = pass.resume /\ state'.head = state.head
      BY <2>1 DEF Typed, PassOK, PassFields, StateOK, StateFields
    <3>2. ~ledger.mixed => todo \cap Rows = {}
      BY <1>1, <2>1 DEF Remaining, Order, Sorted
    <3> QED
      BY <1>1, <2>1, <3>1, <3>2 DEF Order, Sorted, CutFirst, InFlight, OnTheWay, AtNode, Rows
  <2> QED
    BY <1>3, <1>9, <2>1 DEF Fetch
<1> QED
  BY <1>5, <1>6, <1>7, <1>8, <1>9

LEMMA RowOrder ==
  ASSUME Typed, Order, NEW s, DOMAIN s = StateFields, NEW n \in Nodes,
         NEW verdict \in Verdicts \ {"none"}, Record(s, n, verdict),
         pass'.at = "next", pass'.kind = pass.kind, pass'.node = Nobody, InFlight,
         pass'.todo \subseteq pass.todo \ {n},
         ~ledger.mixed => ledger'.cut = Nobody,
         ledger'.mixed = ledger.mixed
  PROVE  Order'
<1>1. Rows' = Rows \cup {n}
  BY RecordRows
<1> QED
  BY <1>1 DEF Order, Sorted, CutFirst, InFlight, OnTheWay, AtNode

LEMMA NodesOrder ==
  ASSUME Typed, Order, Sweep \/ TakeUp \/ SessionOpens \/ SessionFails \/ PayFresh \/ Tested \/ Interrupted
  PROVE  Order'
<1>1. CASE Sweep \/ Interrupted
  <2>1. PICK told : /\ Finish(told) /\ DOMAIN told = LedgerFields /\ told.mixed = ledger.mixed
                    /\ \/ told = ledger /\ At("next")
                       \/ told.cut = Here /\ UnderTest
    BY <1>1 DEF Sweep, Interrupted, Typed, LedgerFields
  <2> DEFINE s == [Reconciled(state) EXCEPT !.status = "done"]
  <2>2. DOMAIN s = StateFields /\ s.head = state.head
    BY DEF Typed, StateOK, StateFields, Reconciled, Recounted
  <2>3. ~ledger.mixed /\ told.cut # Nobody => state.head = told.cut
    BY <2>1 DEF Order, Sorted, CutFirst, At, UnderTest, InFlight, AtNode, Here
  <2> QED
    BY <2>1, <2>2, <2>3, LeavesOrder DEF Finish
<1>2. CASE TakeUp
  <2>1. ledger'.cut = Nobody /\ ledger'.mixed = ledger.mixed /\ pass.at = "next"
    BY <1>2 DEF TakeUp, At, Typed, LedgerFields
  <2>2. PICK n, known :
          /\ n \in NextUp
          /\ \/ /\ state' = Noted(n)
                /\ pass' = [pass EXCEPT !.at = "session", !.todo = @ \ {n},
                               !.first = Nobody, !.known = known, !.node = n]
                /\ UNCHANGED results
             \/ /\ Record(Noted(n), n, "evicted")
                /\ pass' = [pass EXCEPT !.todo = @ \ {n}, !.first = Nobody, !.known = known]
    BY <1>2 DEF TakeUp
  <2>3. n \in pass.todo /\ n \in Nodes /\ n # Nobody
    BY <2>2, PlanAssumption DEF NextUp, Typed, PassOK
  <2>4. CASE /\ state' = Noted(n)
             /\ pass' = [pass EXCEPT !.at = "session", !.todo = @ \ {n},
                            !.first = Nobody, !.known = known, !.node = n]
             /\ UNCHANGED results
    <3>1. /\ pass'.at = "session" /\ pass'.todo = pass.todo \ {n} /\ pass'.kind = pass.kind
          /\ pass'.node = n
      BY <2>4 DEF Typed, PassOK, PassFields
    <3>2. pass.kind = "sub" => state'.head = n
      BY <2>4 DEF Noted, Typed, StateOK, StateFields
    <3> QED
      BY <2>1, <2>3, <2>4, <3>1, <3>2 DEF Order, Sorted, CutFirst, InFlight, OnTheWay, AtNode, Rows
  <2>5. CASE /\ Record(Noted(n), n, "evicted")
             /\ pass' = [pass EXCEPT !.todo = @ \ {n}, !.first = Nobody, !.known = known]
    <3>1. /\ pass'.at = "next" /\ pass'.todo = pass.todo \ {n} /\ pass'.kind = pass.kind
          /\ pass'.node = Nobody
      BY <2>1, <2>5 DEF Typed, PassOK, PassFields, Order, AtNode
    <3>2. DOMAIN Noted(n) = StateFields /\ InFlight
      BY <2>1 DEF Noted, Typed, StateOK, StateFields, InFlight
    <3> QED
      <4>1. "evicted" \in Verdicts \ {"none"}
        BY DEF Verdicts
      <4>2. pass'.todo \subseteq pass.todo \ {n}
        BY <3>1
      <4> QED
        BY <2>1, <2>3, <2>5, <3>1, <3>2, <4>1, <4>2, RowOrder
  <2> QED
    BY <2>2, <2>4, <2>5
\* The node in hand gets its row, or goes on.
<1>3. ASSUME NEW s, DOMAIN s = StateFields, NEW verdict \in {"pass", "fail", "evicted"},
             Record(s, Here, verdict), NEW known, NextNode(known), AtNode(pass),
             ledger'.cut = ledger.cut, ledger'.mixed = ledger.mixed
      PROVE  Order'
  <2>1. /\ pass'.at = "next" /\ pass'.kind = pass.kind /\ pass'.node = Nobody
        /\ pass'.todo = pass.todo
    BY <1>3 DEF NextNode, Typed, PassOK, PassFields
  <2>2. Here \in Nodes /\ InFlight /\ verdict \in Verdicts \ {"none"}
    BY <1>3 DEF Typed, PassOK, AtNode, Here, InFlight, Verdicts
  <2>3. Rows' = Rows \cup {Here}
    BY <1>3, <2>2, RecordRows
  <2> QED
    BY <1>3, <2>1, <2>2, <2>3 DEF Order, Sorted, CutFirst, InFlight, OnTheWay, AtNode, Here
<1>4. ASSUME NEW point \in {"testing", "retesting"}, Go(point), AtNode(pass), UNCHANGED results,
             state'.head = state.head, ledger'.cut = ledger.cut, ledger'.mixed = ledger.mixed
      PROVE  Order'
  <2>1. /\ pass'.at = point /\ pass'.kind = pass.kind /\ pass'.todo = pass.todo
        /\ pass'.node = pass.node
    BY <1>4 DEF Go, Typed, PassOK, PassFields
  <2> QED
    BY <1>4, <2>1 DEF Order, Sorted, CutFirst, InFlight, OnTheWay, AtNode, Rows
<1>5. CASE SessionOpens
  <2>1. /\ AtNode(pass) /\ DOMAIN Payment = StateFields /\ Payment.head = state.head
        /\ ledger'.cut = ledger.cut /\ ledger'.mixed = ledger.mixed
    BY <1>5 DEF SessionOpens, At, AtNode, Payment, Typed, StateOK, StateFields, LedgerFields
  <2> QED
    BY <1>3, <1>4, <1>5, <2>1 DEF SessionOpens
<1>6. CASE SessionFails
  <2>1. AtNode(pass) /\ DOMAIN state = StateFields /\ UNCHANGED ledger
    BY <1>6 DEF SessionFails, At, AtNode, Typed, StateOK
  <2> QED
    BY <1>3, <1>6, <2>1 DEF SessionFails
<1>7. CASE PayFresh
  <2>1. /\ AtNode(pass) /\ state'.head = state.head
        /\ ledger'.cut = ledger.cut /\ ledger'.mixed = ledger.mixed
    BY <1>7 DEF PayFresh, At, AtNode, Typed, StateOK, StateFields, LedgerFields
  <2> QED
    BY <1>4, <1>7, <2>1 DEF PayFresh
<1>8. CASE Tested
  <2>1. AtNode(pass) /\ UNCHANGED ledger /\ NextNode(pass.known)
    BY <1>8 DEF Tested, UnderTest, At, AtNode
  <2>2. PICK verdict \in {"pass", "fail"} : \E tested, failed :
          Record([state EXCEPT !.tested = tested, !.failed = failed], Here, verdict)
    BY <1>8 DEF Tested
  <2>row. PICK tested, failed :
          Record([state EXCEPT !.tested = tested, !.failed = failed], Here, verdict)
    BY <2>2
  <2>3. DOMAIN [state EXCEPT !.tested = tested, !.failed = failed] = StateFields
    BY DEF Typed, StateOK, StateFields
  <2> QED
    BY <1>3, <2>1, <2>row, <2>3
<1> QED
  BY <1>1, <1>2, <1>5, <1>6, <1>7, <1>8

LEMMA OrderStep ==
  ASSUME Typed, Order, [Next]_vars
  PROVE  Order'
<1>1. CASE \E granter \in {"self", "owner"}, again \in BOOLEAN : TestSubPlan(granter, again)
  <2>1. /\ pass' = [Off EXCEPT !.at = "setup", !.loop = TRUE]
        /\ results' = NoRows /\ ledger' = NewRun(ledger)
    BY <1>1 DEF TestSubPlan
  <2>2. Rows' = {} /\ ledger'.cut = Nobody
    BY <2>1, NewRunIs DEF Rows, NoRows, Typed
  <2>3. pass'.at = "setup" /\ pass'.kind = "sub" /\ pass'.todo = {} /\ pass'.node = Nobody
    BY <2>1 DEF Off
  <2> QED
    BY <2>2, <2>3 DEF Order, Sorted, CutFirst, InFlight, OnTheWay, AtNode
<1>2. CASE TestPlan
  <2>1. ledger'.mixed /\ pass'.at = "setup" /\ pass'.todo = {} /\ pass'.node = Nobody
    BY <1>2 DEF TestPlan, Off, Typed, LedgerFields
  <2> QED
    BY <2>1 DEF Order, InFlight, OnTheWay, AtNode
<1>3. CASE Resume
  <2>1. /\ pass'.at = "setup" /\ pass'.todo = {} /\ pass'.node = Nobody /\ pass'.kind = "sub"
        /\ pass'.resume
    BY <1>3 DEF Resume, Off
  <2>2. /\ ledger'.cut = ledger.cut /\ ledger'.mixed = ledger.mixed
        /\ state'.head = state.head /\ Rows # {} /\ Rows' = Rows /\ ~InFlight
    BY <1>3 DEF Resume, Resumable, Quiet, InFlight, Rows, Recounted, Typed, StateOK, StateFields,
                LedgerFields
  <2> QED
    BY <2>1, <2>2 DEF Order, Sorted, CutFirst, InFlight, OnTheWay, AtNode
<1>4. CASE ResumeRefused \/ Stop \/ Evict \/ Revoke \/ UNCHANGED vars
  <2>1. UNCHANGED <<pass, results, ledger>> /\ state'.head = state.head
    BY <1>4 DEF ResumeRefused, Stop, Evict, Revoke, vars, Typed, StateOK, StateFields
  <2> QED
    BY <2>1 DEF Order, Sorted, CutFirst, InFlight, OnTheWay, AtNode, Rows
<1>5. CASE Crash
  <2>1. pass'.at = "off" /\ pass'.todo = {} /\ pass'.node = Nobody
    BY <1>5 DEF Crash, Off
  <2>2. /\ ledger'.cut = IF pass.node # Nobody THEN pass.node ELSE ledger.cut
        /\ ledger'.mixed = (ledger.mixed \/ disk.rows # results)
    BY <1>5 DEF Crash, Typed, LedgerFields
  <2>3. SUFFICES ASSUME ~ledger'.mixed, ledger'.cut # Nobody, Rows' # {}
                 PROVE  state'.head = ledger'.cut
    BY <2>1 DEF Order, Sorted, CutFirst, InFlight, OnTheWay, AtNode
  <2>4. results' = results /\ disk.rows = results /\ ~ledger.mixed /\ Rows # {}
    BY <1>5, <2>2, <2>3 DEF Crash, Rows
  <2>5. state'.head = state.head
    BY <1>5, <2>4 DEF Crash, Rows, NoRows, Recounted, Typed, StateOK, StateFields
  <2> QED
    BY <2>2, <2>3, <2>4, <2>5 DEF Order, Sorted, CutFirst
<1> QED
  BY <1>1, <1>2, <1>3, <1>4, <1>5, WayOrder, NodesOrder DEF Next, Operator, Pipeline

\* A row of a run stays: only a node without a row gets one.
LEMMA RowsStay ==
  ASSUME Typed, Order, [Next]_vars, SameRun, NEW m \in Rows
  PROVE  results'[m] = results[m]
<1>1. ASSUME NEW s, NEW n \in Nodes \ Rows, NEW verdict, Record(s, n, verdict)
      PROVE  results'[m] = results[m]
  BY <1>1 DEF Record, Typed, Rows
<1>2. CASE Sweep \/ Interrupted \/ Throws \/ CheckSub \/ CheckPlan \/ Fetch
  BY <1>2 DEF Sweep, Interrupted, Finish, Throws, CheckSub, CheckPlan, Fetch, Returns, Leaves, SameRun
<1>3. CASE TakeUp
  <2>1. NextUp \subseteq Nodes \ Rows
    BY <1>3 DEF NextUp, Order, Sorted, SameRun, Typed, PassOK
  <2> QED
    BY <1>1, <1>3, <2>1 DEF TakeUp
<1>4. CASE SessionOpens \/ SessionFails \/ Tested
  <2>1. Here \in Nodes \ Rows
    BY <1>4 DEF SessionOpens, SessionFails, Tested, UnderTest, At, AtNode, Here, Order, Sorted,
                SameRun, Typed, PassOK
  <2> QED
    BY <1>1, <1>4, <2>1 DEF SessionOpens, SessionFails, Tested
<1>5. CASE Crash
  BY <1>5 DEF Crash, SameRun, Typed, LedgerFields
<1>6. CASE Operator
  BY <1>6 DEF Operator, TestSubPlan, TestPlan, Resume, ResumeRefused, Stop, SameRun
<1>7. CASE Setup \/ PayFresh \/ Evict \/ Revoke \/ UNCHANGED vars
  BY <1>7 DEF Setup, PayFresh, Evict, Revoke, vars
<1> QED
  BY <1>2, <1>3, <1>4, <1>5, <1>6, <1>7 DEF Next, Pipeline

\* A pass that ends takes no node along.
LEMMA LeavesClean ==
  ASSUME NEW s, NEW told, Leaves(s, told)
  PROVE  pass'.at \in {"off", "setup"} /\ pass'.todo = {}
<1>1. pass' = Off \/ pass' = [Off EXCEPT !.at = "setup", !.loop = TRUE]
  BY DEF Leaves
<1>2. CASE pass' = Off
  BY <1>2 DEF Off
<1>3. CASE pass' = [Off EXCEPT !.at = "setup", !.loop = TRUE]
  BY <1>3 DEF Off
<1> QED
  BY <1>1, <1>2, <1>3

\* The session is for a node without a row.
LEMMA SessionForNew ==
  ASSUME Typed, Order, [Next]_vars, SameRun, At("next"), pass'.at = "session"
  PROVE  pass'.node \notin Rows
<1>1. TakeUp
  <2>1. ASSUME NEW s, NEW told, Leaves(s, told)
        PROVE  FALSE
    BY <2>1, LeavesClean
  <2>2. ~Operator /\ ~Crash /\ ~Evict /\ ~Revoke /\ ~UNCHANGED vars
    BY DEF At, Operator, TestSubPlan, TestPlan, Resume, ResumeRefused, Stop, Quiet, Crash, Off,
           Evict, Revoke, vars
  <2>3. ~Sweep
    BY <2>1 DEF Sweep, Finish
  <2> QED
    BY <2>2, <2>3 DEF Next, Pipeline, At, Throws, Setup, CheckSub, CheckPlan, Fetch, SessionOpens,
       SessionFails, PayFresh, Tested, Interrupted, UnderTest
<1>2. PICK n, known :
        /\ n \in NextUp
        /\ \/ pass' = [pass EXCEPT !.at = "session", !.todo = @ \ {n},
                          !.first = Nobody, !.known = known, !.node = n]
           \/ pass' = [pass EXCEPT !.todo = @ \ {n}, !.first = Nobody, !.known = known]
  BY <1>1 DEF TakeUp
<1>3. pass'.node = n
  BY <1>2 DEF At, Typed, PassOK, PassFields
<1>4. n \in pass.todo
  BY <1>2 DEF NextUp, Typed, PassOK
<1> QED
  BY <1>3, <1>4 DEF Order, Sorted, SameRun

\* The node cut short is the head the scan of the resume puts first.
LEMMA CutComesFirst ==
  ASSUME Typed, Order, [Next]_vars, SameRun, At("fetch"), ledger.cut \in pass'.todo
  PROVE  NextUp' = {ledger.cut}
<1>1. ASSUME NEW s, NEW told, Leaves(s, told)
      PROVE  FALSE
  BY <1>1, LeavesClean
<1>2. Fetch
  <2>1. pass.todo = {}
    BY DEF At, Order, OnTheWay
  <2>2. ~Operator /\ ~Crash /\ ~Evict /\ ~Revoke /\ ~UNCHANGED vars
    BY <2>1 DEF At, Operator, TestSubPlan, TestPlan, Resume, ResumeRefused, Stop, Quiet, Crash, Off,
           Evict, Revoke, vars
  <2> QED
    BY <2>2 DEF Next, Pipeline, At, Throws, Setup, CheckSub, CheckPlan, Sweep, TakeUp, SessionOpens,
       SessionFails, PayFresh, Tested, Interrupted, UnderTest
<1>3. PICK online \in SUBSET chain.members :
        pass' = [pass EXCEPT !.at = "next", !.todo = Remaining(online),
                   !.first = Hoisted(Remaining(online)), !.known = chain.members]
  BY <1>1, <1>2 DEF Fetch, Returns
<1> DEFINE todo == Remaining(online)
<1>4. pass'.first = Hoisted(todo) /\ pass'.todo = todo
  BY <1>3 DEF Typed, PassOK, PassFields
<1>5. ledger.cut \in todo /\ todo \subseteq Nodes
  BY <1>4 DEF Typed, Remaining
<1>6. ledger.cut # Nobody /\ pass.resume /\ state.head = ledger.cut
  BY <1>5, PlanAssumption DEF SameRun, Order, Sorted, CutFirst, At, InFlight
<1>7. Hoisted(todo) = ledger.cut
  BY <1>5, <1>6 DEF Hoisted
<1> QED
  BY <1>4, <1>6, <1>7 DEF NextUp

\* What holds throughout, whatever the run took in.
LEMMA TypedAndSorted == Spec => [](Typed /\ Watched /\ Order)
<1>1. Init => Typed /\ Watched /\ Order
  <2>1. Init => Watched
    BY DEF Init, Watched, InFlight, Off
  <2> QED
    BY <2>1, TypedInit, OrderInit
<1>2. Typed /\ Watched /\ Order /\ [Next]_vars => (Typed /\ Watched /\ Order)'
  BY TypedStep, WatchedStep, OrderStep
<1> QED
  BY <1>1, <1>2, PTL DEF Spec

\* No batch is left open without a pass, and no second one beside that of the pass
\* (withBatchTracking, the sweep at boot).
THEOREM NoGhost == Spec => []NoGhostRun
<1>1. Watched => NoGhostRun
  BY DEF Watched, NoGhostRun, InFlight, Attached
<1> QED
  BY <1>1, TypedAndSorted, PTL

\* A resume goes on where the run was cut, row by row (the resume filter and
\* resumeHeadAddr of runSubPlanTest).
THEOREM ResumeGoesOn == Spec => ResumeContinues
<1>1. Typed /\ Watched /\ Order /\ [Next]_vars =>
        [SameRun =>
           /\ \A n \in Rows : results'[n] = results[n]
           /\ At("next") /\ pass'.at = "session" => pass'.node \notin Rows
           /\ At("fetch") /\ ledger.cut \in pass'.todo => NextUp' = {ledger.cut}]_vars
  BY RowsStay, SessionForNew, CutComesFirst
<1> QED
  BY <1>1, TypedAndSorted, PTL DEF Spec, ResumeContinues

-----------------------------------------------------------------------------
(* An eviction row is about a node the chain has dropped: the list the test  *)
(* knows never lacks a member, unless a query of it has failed.              *)

Measured(p) == p.at = "next" \/ AtNode(p)
Members ==
  /\ Measured(pass) => chain.members \subseteq pass.known
  /\ \A n \in chain.members : results[n] # "evicted" /\ disk.rows[n] # "evicted"

LEMMA LeavesMembers ==
  ASSUME Typed, Members, NEW s, NEW told, Leaves(s, told)
  PROVE  Members'
<1>1. ~Measured(pass')
  BY LeavesClean DEF Measured, AtNode
<1>2. /\ results' \in {results, NoRows} /\ UNCHANGED chain
      /\ disk' = [disk EXCEPT !.spent = state'.spent]
  BY DEF Leaves
<1>3. disk'.rows = disk.rows /\ chain.members \subseteq Nodes
  BY <1>2 DEF Typed
<1> QED
  BY <1>1, <1>2, <1>3 DEF Members, NoRows

LEMMA MembersStep ==
  ASSUME "rpc" \notin Faults, Typed, Members, [Next]_vars
  PROVE  Members'
<1>1. CASE Operator
  <2>1. CASE Stop
    BY <2>1 DEF Stop, Members
  <2>2. CASE ~Stop
    <3>1. ~Measured(pass') /\ UNCHANGED chain
      BY <1>1, <2>2 DEF Operator, TestSubPlan, TestPlan, Resume, ResumeRefused, Quiet, Measured, AtNode, Off
    <3>2. results' \in {results, NoRows} /\ disk'.rows = disk.rows
      BY <1>1, <2>2 DEF Operator, TestSubPlan, TestPlan, Resume, ResumeRefused, Typed
    <3> QED
      BY <3>1, <3>2 DEF Members, NoRows, Typed
  <2> QED
    BY <2>1, <2>2
<1>2. CASE Evict \/ Revoke \/ UNCHANGED vars
  <2>1. UNCHANGED <<pass, results, disk>> /\ chain'.members \subseteq chain.members
    BY <1>2 DEF Evict, Revoke, vars, Typed
  <2> QED
    BY <2>1 DEF Members
<1>3. CASE Crash
  BY <1>3 DEF Crash, Members, Measured, AtNode, Off
<1>4. CASE Throws \/ Sweep \/ Interrupted
  BY <1>4, LeavesMembers DEF Throws, Sweep, Interrupted, Finish
<1>5. ASSUME NEW status, Returns(status)
      PROVE  Members'
  BY <1>5, LeavesMembers DEF Returns
<1>6. ASSUME NEW point \in Points, Go(point), Measured([at |-> point]) => Measured(pass),
             UNCHANGED results, disk'.rows = disk.rows, chain'.members = chain.members
      PROVE  Members'
  <2>1. pass'.at = point /\ pass'.known = pass.known
    BY <1>6 DEF Go, Typed, PassOK, PassFields
  <2> QED
    BY <1>6, <2>1 DEF Members, Measured, AtNode
<1>7. CASE Setup \/ PayFresh
  <2>1. disk'.rows = disk.rows
    BY <1>7 DEF Setup, PayFresh, StateEvent, Typed
  <2> QED
    BY <1>6, <1>7, <2>1 DEF Setup, PayFresh, Points, Measured, AtNode, At
<1>8. CASE CheckSub \/ CheckPlan
  <2>1. CASE Go("fetch") /\ UNCHANGED <<results, disk>> /\ chain'.members = chain.members
    BY <1>6, <2>1 DEF Points, Measured, AtNode
  <2> QED
    BY <1>5, <1>8, <2>1 DEF CheckSub, CheckPlan, Typed
<1>9. CASE Fetch
  <2>1. ASSUME NEW todo, StateEvent(state'), UNCHANGED <<results, chain>>,
               pass' = [pass EXCEPT !.at = "next", !.todo = todo,
                          !.first = Hoisted(todo), !.known = chain.members]
        PROVE  Members'
    <3>1. pass'.known = chain.members /\ disk'.rows = disk.rows
      BY <2>1 DEF StateEvent, Typed, PassOK, PassFields
    <3> QED
      BY <2>1, <3>1 DEF Members
  <2> QED
    BY <1>5, <1>9, <2>1 DEF Fetch
\* A row that is an eviction only where the chain has dropped the node.
<1>10. ASSUME NEW s, NEW n \in Nodes, NEW verdict, Record(s, n, verdict), UNCHANGED chain,
              verdict = "evicted" => n \notin chain.members, chain.members \subseteq pass'.known
       PROVE  Members'
  <2>1. results' = [results EXCEPT ![n] = verdict] /\ disk'.rows = results'
    BY <1>10 DEF Record
  <2> QED
    BY <1>10, <2>1 DEF Members, Typed
<1>11. Refreshed = {chain.members}
  BY DEF Refreshed
<1>12. CASE TakeUp
  <2>1. PICK n \in NextUp, known \in {pass.known} \cup Refreshed :
          \/ /\ pass' = [pass EXCEPT !.at = "session", !.todo = @ \ {n},
                            !.first = Nobody, !.known = known, !.node = n]
             /\ disk' = [disk EXCEPT !.spent = state.spent]
             /\ UNCHANGED <<results, wrapper, batches>>
          \/ /\ n \notin known
             /\ Record(Noted(n), n, "evicted")
             /\ pass' = [pass EXCEPT !.todo = @ \ {n}, !.first = Nobody, !.known = known]
    BY <1>12 DEF TakeUp
  <2>2. chain.members \subseteq known /\ UNCHANGED chain /\ n \in Nodes
    BY <1>11, <1>12, <2>1 DEF TakeUp, At, Members, Measured, NextUp, Typed, PassOK
  <2>3. pass'.known = known
    BY <2>1 DEF Typed, PassOK, PassFields
  <2>4. CASE UNCHANGED results /\ disk' = [disk EXCEPT !.spent = state.spent]
    BY <2>2, <2>3, <2>4 DEF Members, Typed
  <2>5. CASE n \notin known /\ Record(Noted(n), n, "evicted")
    BY <1>10, <2>2, <2>3, <2>5
  <2> QED
    BY <2>1, <2>4, <2>5
<1>13. CASE SessionOpens \/ SessionFails \/ Tested
  <2>1. Here \in Nodes /\ UNCHANGED chain.members /\ chain.members \subseteq pass.known
    BY <1>13 DEF SessionOpens, SessionFails, Tested, UnderTest, At, Here, AtNode, Members, Measured,
                 Typed, PassOK
  <2>2. ASSUME NEW known, NextNode(known)
        PROVE  pass'.known = known
    BY <2>2 DEF NextNode, Typed, PassOK, PassFields
  <2>3. CASE SessionOpens
    <3>1. CASE Go("testing") /\ UNCHANGED <<results, disk, chain>>
      BY <1>6, <2>3, <3>1 DEF SessionOpens, At, Points, Measured, AtNode
    <3> QED
      BY <1>10, <2>1, <2>2, <2>3, <3>1 DEF SessionOpens
  <2>4. CASE SessionFails
    BY <1>10, <1>11, <2>1, <2>2, <2>4 DEF SessionFails, Denied
  <2>5. CASE Tested
    BY <1>10, <2>1, <2>2, <2>5 DEF Tested
  <2> QED
    BY <1>13, <2>3, <2>4, <2>5
<1> QED
  BY <1>1, <1>2, <1>3, <1>4, <1>7, <1>8, <1>9, <1>12, <1>13 DEF Next, Pipeline

\* PLAN_EVICTED is said only of nodes the chain has dropped, as long as the queries of
\* the plan's nodes answer: one that fails hands the test an empty or an old list.
THEOREM EvictedAreGone ==
  ASSUME "rpc" \notin Faults
  PROVE  Spec => []EvictedIsGone
<1>1. Init => Members
  BY DEF Init, Members, Measured, AtNode, Off
<1>2. Typed /\ Members /\ [Next]_vars => Members'
  BY MembersStep
<1>3. Members => EvictedIsGone
  BY DEF Members, EvictedIsGone
<1> QED
  BY <1>1, <1>2, <1>3, TypedAndSorted, PTL DEF Spec

-----------------------------------------------------------------------------
(* The rows of a run and its batch.                                        *)

RunRows == [n \in Nodes |-> IF n \in Rows THEN <<results[n]>> ELSE <<>>]
CountsOf(b) == batches[b].passed = Passed(results) /\ batches[b].failed = Failed(results)
Tallied(s) == s.tested = Passed(results) /\ s.failed = Failed(results)

\* While the pass goes on: its batch has the rows of the run and is open until a stop
\* before the first node closes it, with the counters of the rows the pass started with.
Flying ==
  LET w == wrapper.batch IN
  /\ state.status \in {"running", "stopped"} /\ (state.stop <=> state.status = "stopped")
  /\ w = 0 => Rows = {} /\ ~wrapper.closed
  /\ w # 0 => /\ state.active = w /\ batches[w].rows = RunRows
              /\ ~wrapper.closed => batches[w].open
              /\ OnTheWay(pass) => Tallied(state)
  /\ wrapper.closed => state.stop /\ ~AtNode(pass) /\ CountsOf(w)
\* Between passes: the batch the state keeps has the rows, and is counted.
Landed ==
  Rows # {} => /\ state.active # 0 /\ batches[state.active].rows = RunRows
               /\ CountsOf(state.active)
Kept ==
  ~ledger.mixed /\ ~ledger.early => IF InFlight THEN Flying ELSE Landed

LEMMA KeptInit == Init => Kept
BY DEF Init, Kept, InFlight, Off, Landed, Rows

\* A pass that leaves its batch leaves the counters of its rows in it.
LEMMA LeavesKept ==
  ASSUME Typed, Order, Kept, InFlight, NEW s, StateOK(s, batches), s.active = state.active,
         s.status \in Final, Flying /\ wrapper.batch # 0 => wrapper.closed \/ Tallied(s),
         NEW told, DOMAIN told = LedgerFields, told.mixed = ledger.mixed,
         told.early = ledger.early, Leaves(s, told)
  PROVE  Kept'
<1>1. CASE /\ state' = [Fresh(s) EXCEPT !.status = "running", !.again = Repeats]
           /\ results' = NoRows
           /\ pass' = [Off EXCEPT !.at = "setup", !.loop = TRUE]
  <2>1. /\ DOMAIN Fresh(s) = StateFields /\ Fresh(s).stop = FALSE
    BY DEF StateOK, StateFields, Fresh
  <2>2. state'.status = "running" /\ ~state'.stop
    <3> HIDE DEF Fresh
    <3> QED
      BY <1>1, <2>1 DEF StateFields
  <2>3. wrapper' = Unopened /\ Rows' = {}
    BY <1>1 DEF Leaves, Rows, NoRows
  <2>4. pass'.at = "setup"
    BY <1>1 DEF Off
  <2> QED
    BY <2>2, <2>3, <2>4 DEF Kept, Flying, InFlight, Unopened, AtNode
<1>2. CASE /\ state' = [s EXCEPT !.again = @ /\ ~pass.loop]
           /\ pass' = Off /\ ledger' = told /\ UNCHANGED results
  <2>1. state'.active = state.active /\ pass'.at = "off"
    BY <1>2 DEF StateOK, StateFields, Off
  <2>2. Settled(batches, batches', wrapper, s.status, s.tested, s.failed)
    <3>1. batches' = AfterState(batches, wrapper, s.status, s.tested, s.failed)
      BY DEF Leaves
    <3> QED
      BY <3>1, EventTold DEF Typed
  <2>3. SUFFICES ASSUME Flying, Rows # {}
                 PROVE  Landed'
    BY <1>2, <2>1 DEF Kept, InFlight, Landed, Rows
  <2> DEFINE w == wrapper.batch
  <2>4. /\ w # 0 /\ state.active = w /\ batches[w].rows = RunRows /\ w \in DOMAIN batches
    BY <2>3 DEF Flying, Typed, Fits
  <2>5. batches'[w].rows = RunRows'
    BY <1>2, <2>2, <2>4 DEF Settled, RunRows, Rows
  <2>6. batches'[w].passed = Passed(results') /\ batches'[w].failed = Failed(results')
    <3>1. CASE wrapper.closed
      <4>1. CountsOf(w) /\ ~Closes(wrapper, s.status)
        BY <2>3, <3>1 DEF Flying, Closes, Listening
      <4> QED
        BY <1>2, <2>2, <4>1 DEF Settled, CountsOf
    <3>2. CASE ~wrapper.closed
      <4>1. Closes(wrapper, s.status) /\ Tallied(s)
        BY <2>3, <2>4, <3>2 DEF Closes, Listening
      <4> QED
        BY <1>2, <2>2, <4>1 DEF Settled, Tallied, CountsOf
    <3> QED
      BY <3>1, <3>2
  <2> QED
    BY <2>1, <2>4, <2>5, <2>6 DEF Landed, CountsOf
<1> QED
  BY <1>1, <1>2 DEF Leaves

\* A state event on the way to the nodes closes the batch only if the run is stopped.
LEMMA EventKept ==
  ASSUME Typed, Kept, InFlight, NEW s, StateEvent(s), s.status = state.status,
         s.tested = state.tested, s.failed = state.failed,
         OnTheWay(pass) \/ ~state.stop,
         state'.status = s.status, state'.stop = state.stop, state'.active = state.active,
         state'.tested = s.tested, state'.failed = s.failed,
         UNCHANGED results, InFlight', AtNode(pass') => ~state.stop,
         OnTheWay(pass') => OnTheWay(pass), ledger'.mixed = ledger.mixed,
         ~ledger'.early => ~ledger.early
  PROVE  Kept'
<1> DEFINE w == wrapper.batch
<1>1. Settled(batches, batches', wrapper, s.status, s.tested, s.failed)
  <2>1. batches' = AfterState(batches, wrapper, s.status, s.tested, s.failed)
    BY DEF StateEvent
  <2> QED
    BY <2>1, EventTold DEF Typed
<1>2. /\ wrapper'.batch = w
      /\ wrapper'.closed = (wrapper.closed \/ Closes(wrapper, s.status))
  BY DEF StateEvent, Typed, Fits
<1>3. SUFFICES ASSUME Flying
               PROVE  Flying'
  BY DEF Kept
<1>4. Rows' = Rows /\ RunRows' = RunRows
  BY DEF Rows, RunRows
<1>5. CASE Closes(wrapper, s.status)
  <2>1. w # 0 /\ ~wrapper.closed /\ s.status = "stopped" /\ state.stop
    BY <1>3, <1>5 DEF Closes, Listening, Flying, Final
  <2>2. OnTheWay(pass) /\ Tallied(state)
    BY <1>3, <2>1 DEF Flying
  <2>3. batches'[w].rows = RunRows'
    BY <1>1, <1>3, <1>4, <1>5, <2>1 DEF Settled, Flying
  <2>4. batches'[w].passed = Passed(results) /\ batches'[w].failed = Failed(results)
    BY <1>1, <1>5, <2>2 DEF Settled, Tallied
  <2> QED
    BY <1>2, <1>3, <1>4, <1>5, <2>1, <2>2, <2>3, <2>4 DEF Flying, CountsOf, Tallied
<1>6. CASE ~Closes(wrapper, s.status)
  <2>1. batches' = batches /\ wrapper'.closed = wrapper.closed
    BY <1>1, <1>2, <1>6 DEF Settled, Typed, Fits
  <2> QED
    BY <1>2, <1>3, <1>4, <2>1 DEF Flying, CountsOf, Tallied
<1> QED
  BY <1>5, <1>6

\* A row of the run joins the batch, which is open as long as rows come.
LEMMA RecordKept ==
  ASSUME Typed, Order, Kept, InFlight, NEW s, StateOK(s, batches), s.active = state.active,
         s.status = state.status, s.stop = state.stop, NEW n \in Nodes, ~ledger.mixed => n \notin Rows,
         NEW said \in Verdicts \ {"none"}, Record(s, n, said),
         AtNode(pass) \/ ~state.stop, pass'.at = "next",
         ledger'.mixed = ledger.mixed, ledger'.early = ledger.early
  PROVE  Kept'
<1>1. SUFFICES ASSUME Flying, n \notin Rows
               PROVE  Flying'
  BY DEF Kept, InFlight
<1>2. Listening(wrapper) /\ ~wrapper.closed
  BY <1>1 DEF Flying, Listening
<1> DEFINE c == BatchFor(batches, wrapper)
<1>3. Written(batches, batches', wrapper, n, said, s.total)
  BY <1>2, RowWritten DEF Typed, Record
<1>4. wrapper'.batch = c /\ ~wrapper'.closed
  BY <1>2 DEF Record, Typed, Fits
<1>5. /\ Rows' = Rows \cup {n} /\ results'[n] = said
      /\ \A m \in Nodes \ {n} : results'[m] = results[m]
      /\ state'.status = s.status /\ state'.stop = s.stop
  BY RecordRows DEF StateOK
<1>6. state'.active = c
  <2>1. state' = [s EXCEPT !.head = Pending(s), !.active = IF wrapper.batch = 0 THEN c ELSE @]
    BY <1>2 DEF Record
  <2>2. state'.active = IF wrapper.batch = 0 THEN c ELSE s.active
    <3> HIDE DEF c
    <3> QED
      BY <2>1 DEF StateOK, StateFields
  <2> QED
    BY <1>1, <2>2 DEF Flying, BatchFor
<1>7. batches'[c].open /\ batches'[c].rows = [RunRows EXCEPT ![n] = Append(@, said)]
  <2>1. CASE wrapper.batch = 0
    <3>1. NewBatch(s.total).rows = RunRows /\ NewBatch(s.total).open
      BY <1>1, <2>1 DEF Flying, NewBatch, RunRows
    <3> QED
      BY <1>3, <2>1, <3>1 DEF Written
  <2>2. CASE wrapper.batch # 0
    <3>1. batches[c].rows = RunRows /\ batches[c].open
      BY <1>1, <1>2, <2>2 DEF Flying, BatchFor
    <3> QED
      BY <1>3, <2>2, <3>1 DEF Written
  <2> QED
    BY <2>1, <2>2
<1>8. [RunRows EXCEPT ![n] = Append(@, said)] = RunRows'
  <2>1. RunRows[n] = <<>> /\ Append(<<>>, said) = <<said>>
    BY <1>1 DEF RunRows
  <2> QED
    BY <1>5, <2>1 DEF RunRows
<1>9. c # 0
  BY <1>3 DEF Written
<1> QED
  BY <1>1, <1>4, <1>5, <1>6, <1>7, <1>8, <1>9 DEF Flying, OnTheWay

\* A pass that returns before its first node leaves the counters it started with.
LEMMA WayKept ==
  ASSUME Typed, Order, Kept, Throws \/ Setup \/ CheckSub \/ CheckPlan \/ Fetch
  PROVE  Kept'
<1>1. OnTheWay(pass) /\ InFlight /\ ~AtNode(pass)
  BY DEF Throws, Setup, CheckSub, CheckPlan, Fetch, At, OnTheWay, InFlight, AtNode
<1>2. ASSUME NEW s, StateOK(s, batches), s.active = state.active, s.status \in Final,
             s.tested = state.tested, s.failed = state.failed, Leaves(s, ledger)
      PROVE  Kept'
  <2>1. Flying /\ wrapper.batch # 0 => wrapper.closed \/ Tallied(s)
    BY <1>1, <1>2 DEF Flying, Tallied
  <2> QED
    BY <1>1, <1>2, <2>1, LeavesKept DEF Typed
<1>3. ASSUME NEW status \in {"error", "done"}, Returns(status)
      PROVE  Kept'
  <2> DEFINE s == [state EXCEPT !.status = status]
  <2>1. /\ StateOK(s, batches) /\ s.active = state.active /\ s.status \in Final
        /\ s.tested = state.tested /\ s.failed = state.failed
    BY DEF Typed, StateOK, StateFields, Final, Statuses
  <2> QED
    BY <1>2, <1>3, <2>1 DEF Returns
<1>4. CASE Throws
  <2> DEFINE s == [state EXCEPT !.status = "error", !.again = @ /\ ~pass.loop]
  <2>1. /\ StateOK(s, batches) /\ s.active = state.active /\ s.status \in Final
        /\ s.tested = state.tested /\ s.failed = state.failed
    BY DEF Typed, StateOK, StateFields, Final, Statuses
  <2> QED
    BY <1>2, <1>4, <2>1 DEF Throws
\* What the pass does on its way, a state event apart, touches no batch.
<1>5. ASSUME Go("fetch"), UNCHANGED <<results, wrapper, batches>>,
             state'.status = state.status, state'.stop = state.stop,
             state'.active = state.active, state'.tested = state.tested,
             state'.failed = state.failed,
             ledger'.mixed = ledger.mixed, ledger'.early = ledger.early
      PROVE  Kept'
  <2>1. pass'.at = "fetch"
    BY <1>5 DEF Go, Typed, PassOK, PassFields
  <2>2. Rows' = Rows /\ RunRows' = RunRows
    BY <1>5 DEF Rows, RunRows
  <2> QED
    BY <1>1, <1>5, <2>1, <2>2 DEF Kept, Flying, InFlight, OnTheWay, AtNode, CountsOf, Tallied
<1>6. CASE Setup
  <2>1. /\ state'.status = state.status /\ state'.stop = state.stop
        /\ state'.active = state.active /\ state'.tested = state.tested
        /\ state'.failed = state.failed
        /\ ledger'.mixed = ledger.mixed /\ ledger'.early = ledger.early
    BY <1>6 DEF Setup, Typed, StateOK, StateFields, LedgerFields
  <2>2. pass'.at = "check"
    BY <1>6 DEF Setup, Go, Typed, PassOK, PassFields
  <2>3. StateEvent(state') /\ UNCHANGED results
    BY <1>6 DEF Setup
  <2> QED
    BY <1>1, <2>1, <2>2, <2>3, EventKept DEF InFlight, AtNode, OnTheWay
<1>7. CASE CheckSub
  BY <1>3, <1>5, <1>7 DEF CheckSub
<1>8. CASE CheckPlan
  <2>1. CASE Charged(1) /\ Go("fetch") /\ UNCHANGED <<results, wrapper, batches>>
    <3>1. /\ state'.status = state.status /\ state'.stop = state.stop
          /\ state'.active = state.active /\ state'.tested = state.tested
          /\ state'.failed = state.failed
          /\ ledger'.mixed = ledger.mixed /\ ledger'.early = ledger.early
      BY <2>1 DEF Charged, Typed, StateOK, StateFields, LedgerFields
    <3> QED
      BY <1>5, <2>1, <3>1
  <2> QED
    BY <1>3, <1>5, <1>8, <2>1 DEF CheckPlan
<1>9. CASE Fetch
  <2>1. ASSUME NEW total, NEW todo, StateEvent(state'), UNCHANGED <<results, ledger>>,
               state' = [state EXCEPT !.total = total],
               pass' = [pass EXCEPT !.at = "next", !.todo = todo,
                          !.first = Hoisted(todo), !.known = chain.members]
        PROVE  Kept'
    <3>1. /\ state'.status = state.status /\ state'.stop = state.stop
          /\ state'.active = state.active /\ state'.tested = state.tested
          /\ state'.failed = state.failed
      BY <2>1 DEF Typed, StateOK, StateFields
    <3>2. pass'.at = "next"
      BY <2>1 DEF Typed, PassOK, PassFields
    <3> QED
      BY <1>1, <2>1, <3>1, <3>2, EventKept DEF InFlight, AtNode, OnTheWay
  <2> QED
    BY <1>3, <1>9, <2>1 DEF Fetch
<1> QED
  BY <1>4, <1>6, <1>7, <1>8, <1>9

LEMMA NodesKept ==
  ASSUME Typed, Order, Kept,
         Sweep \/ TakeUp \/ SessionOpens \/ SessionFails \/ PayFresh \/ Tested \/ Interrupted
  PROVE  Kept'
<1>1. InFlight /\ (AtNode(pass) \/ pass.at = "next")
  BY DEF Sweep, TakeUp, SessionOpens, SessionFails, PayFresh, Tested, Interrupted, UnderTest,
         At, InFlight, AtNode
<1>2. CASE Sweep \/ Interrupted
  <2>1. PICK told : /\ Finish(told) /\ DOMAIN told = LedgerFields
                    /\ told.mixed = ledger.mixed /\ told.early = ledger.early
    BY <1>2 DEF Sweep, Interrupted, Typed, LedgerFields
  <2> DEFINE s == [Reconciled(state) EXCEPT !.status = "done"]
  <2>2. /\ StateOK(s, batches) /\ s.active = state.active /\ s.status \in Final
        /\ Tallied(s)
    BY DEF Typed, StateOK, StateFields, Final, Statuses, Reconciled, Recounted, Tallied
  <2> QED
    BY <1>1, <2>1, <2>2, LeavesKept DEF Finish
\* A row for the node at hand.
<1>3. ASSUME NEW s, DOMAIN s = StateFields, s.active = state.active, s.status = state.status,
             s.stop = state.stop, NEW n \in Nodes, ~ledger.mixed => n \notin Rows,
             NEW verdict \in {"pass", "fail", "evicted"}, Record(s, n, verdict),
             AtNode(pass) \/ ~state.stop, pass'.at = "next",
             ledger'.mixed = ledger.mixed, ledger'.early = ledger.early
      PROVE  Kept'
  <2>1. StateOK(s, batches) /\ verdict \in Verdicts \ {"none"}
    BY <1>3 DEF StateOK, Typed, Verdicts
  <2> QED
    BY <1>1, <1>3, <2>1, RecordKept
\* A step that writes no row and tells no event.
<1>4. ASSUME UNCHANGED <<results, wrapper, batches>>, AtNode(pass'), AtNode(pass) \/ ~state.stop,
             state'.status = state.status, state'.stop = state.stop,
             state'.active = state.active,
             ledger'.mixed = ledger.mixed, ledger'.early = ledger.early
      PROVE  Kept'
  <2>1. Rows' = Rows /\ RunRows' = RunRows
    BY <1>4 DEF Rows, RunRows
  <2> QED
    BY <1>1, <1>4, <2>1 DEF Kept, Flying, InFlight, OnTheWay, AtNode
<1>5. CASE TakeUp
  <2>1. /\ ledger'.mixed = ledger.mixed /\ ledger'.early = ledger.early
        /\ pass.at = "next" /\ ~state.stop
    BY <1>5 DEF TakeUp, At, Typed, LedgerFields
  <2>2. PICK n, known :
          /\ n \in NextUp
          /\ \/ /\ state' = Noted(n)
                /\ pass' = [pass EXCEPT !.at = "session", !.todo = @ \ {n},
                               !.first = Nobody, !.known = known, !.node = n]
                /\ UNCHANGED <<results, wrapper, batches>>
             \/ /\ Record(Noted(n), n, "evicted")
                /\ pass' = [pass EXCEPT !.todo = @ \ {n}, !.first = Nobody, !.known = known]
    BY <1>5 DEF TakeUp
  <2>3. n \in pass.todo /\ n \in Nodes
    BY <2>2 DEF NextUp, Typed, PassOK
  <2>4. /\ DOMAIN Noted(n) = StateFields /\ Noted(n).active = state.active
        /\ Noted(n).status = state.status /\ Noted(n).stop = state.stop
    BY DEF Noted, Typed, StateOK, StateFields
  <2>5. CASE /\ state' = Noted(n)
             /\ pass' = [pass EXCEPT !.at = "session", !.todo = @ \ {n},
                            !.first = Nobody, !.known = known, !.node = n]
             /\ UNCHANGED <<results, wrapper, batches>>
    <3>1. AtNode(pass')
      BY <2>5 DEF Typed, PassOK, PassFields, AtNode
    <3> QED
      BY <1>4, <2>1, <2>4, <2>5, <3>1
  <2>6. CASE /\ Record(Noted(n), n, "evicted")
             /\ pass' = [pass EXCEPT !.todo = @ \ {n}, !.first = Nobody, !.known = known]
    <3>1. pass'.at = "next"
      BY <2>1, <2>6 DEF Typed, PassOK, PassFields
    <3>2. ~ledger.mixed => n \notin Rows
      BY <2>3 DEF Order, Sorted
    <3> QED
      BY <1>3, <2>1, <2>3, <2>4, <2>6, <3>1, <3>2
  <2> QED
    BY <2>2, <2>5, <2>6
\* A row for the node in hand.
<1>6. ASSUME NEW s, DOMAIN s = StateFields, s.active = state.active, s.status = state.status,
             s.stop = state.stop, NEW verdict \in {"pass", "fail", "evicted"},
             Record(s, Here, verdict), AtNode(pass), NEW known, NextNode(known),
             ledger'.mixed = ledger.mixed, ledger'.early = ledger.early
      PROVE  Kept'
  <2>1. Here \in Nodes /\ (~ledger.mixed => Here \notin Rows)
    BY <1>6 DEF Here, Typed, PassOK, Order, Sorted
  <2>2. pass'.at = "next"
    BY <1>6 DEF NextNode, Typed, PassOK, PassFields
  <2> QED
    BY <1>3, <1>6, <2>1, <2>2
<1>7. CASE SessionOpens
  <2>1. /\ AtNode(pass) /\ DOMAIN Payment = StateFields /\ Payment.active = state.active
        /\ Payment.status = state.status /\ Payment.stop = state.stop
        /\ ledger'.mixed = ledger.mixed /\ ledger'.early = ledger.early
    BY <1>7 DEF SessionOpens, At, AtNode, Payment, Typed, StateOK, StateFields, LedgerFields
  <2>2. CASE state' = Payment /\ Go("testing") /\ UNCHANGED <<results, wrapper, batches>>
    <3>1. AtNode(pass')
      BY <2>2 DEF Go, AtNode, Typed, PassOK, PassFields
    <3> QED
      BY <1>4, <2>1, <2>2, <3>1
  <2> QED
    BY <1>6, <1>7, <2>1, <2>2 DEF SessionOpens
<1>8. CASE SessionFails
  <2>1. AtNode(pass) /\ DOMAIN state = StateFields /\ UNCHANGED ledger
    BY <1>8 DEF SessionFails, At, AtNode, Typed, StateOK
  <2> QED
    BY <1>6, <1>8, <2>1 DEF SessionFails
<1>9. CASE PayFresh
  <2>1. /\ state'.status = state.status /\ state'.stop = state.stop
        /\ state'.active = state.active /\ state'.tested = state.tested
        /\ state'.failed = state.failed
        /\ ledger'.mixed = ledger.mixed /\ ledger'.early = (ledger.early \/ state.stop)
    BY <1>9 DEF PayFresh, Typed, StateOK, StateFields, LedgerFields
  <2>2. pass'.at = "retesting" /\ StateEvent(state') /\ UNCHANGED results
    BY <1>9 DEF PayFresh, Go, Typed, PassOK, PassFields
  <2>3. CASE ledger'.early
    BY <2>3 DEF Kept
  <2>4. CASE ~ledger'.early
    <3>1. ~state.stop /\ ~ledger.early
      BY <2>1, <2>4
    <3> QED
      BY <1>1, <2>1, <2>2, <3>1, EventKept DEF InFlight, OnTheWay
  <2> QED
    BY <2>3, <2>4
<1>10. CASE Tested
  <2>1. AtNode(pass) /\ UNCHANGED ledger /\ NextNode(pass.known)
    BY <1>10 DEF Tested, UnderTest, At, AtNode
  <2>2. PICK verdict \in {"pass", "fail"} : \E tested, failed :
          Record([state EXCEPT !.tested = tested, !.failed = failed], Here, verdict)
    BY <1>10 DEF Tested
  <2>row. PICK tested, failed :
          Record([state EXCEPT !.tested = tested, !.failed = failed], Here, verdict)
    BY <2>2
  <2> DEFINE s == [state EXCEPT !.tested = tested, !.failed = failed]
  <2>3. /\ DOMAIN s = StateFields /\ s.active = state.active
        /\ s.status = state.status /\ s.stop = state.stop
    BY DEF Typed, StateOK, StateFields
  <2> HIDE DEF s
  <2>4. Record(s, Here, verdict)
    BY <2>row DEF s
  <2> QED
    BY <1>6, <2>1, <2>3, <2>4
<1> QED
  BY <1>2, <1>5, <1>7, <1>8, <1>9, <1>10

\* Tagging the nodes of a set keeps their number.
LEMMA Tagged ==
  ASSUME NEW P \in SUBSET Nodes
  PROVE  Cardinality({<<n, 1>> : n \in P}) = Cardinality(P)
<1> DEFINE T == {<<n, 1>> : n \in P}
           f == [n \in P |-> <<n, 1>>]
<1>1. f \in [P -> T] /\ (\A a, b \in P : f[a] = f[b] => a = b)
  OBVIOUS
<1>2. \A t \in T : \E n \in P : f[n] = t
  OBVIOUS
<1>3. f \in Bijection(P, T)
  BY <1>1, <1>2, Fun_IsBij
<1>4. IsFiniteSet(P) /\ ExistsBijection(P, T)
  BY <1>3, NodesAssumption, FS_Subset DEF ExistsBijection
<1> QED
  BY <1>4, FS_Bijection

\* The counts the sweep at boot takes of a batch are those of the rows of the run.
LEMMA SweptCounts ==
  ASSUME Typed, NEW b, b.rows = RunRows
  PROVE  /\ Cardinality(PassedRows(b)) = Passed(results)
         /\ Cardinality(RowsOf(b) \ PassedRows(b)) = Failed(results)
<1> DEFINE P == {n \in Nodes : results[n] = "pass"}
           F == {n \in Nodes : results[n] \in {"fail", "evicted"}}
<1>1. \A n \in Nodes : /\ n \in Rows => b.rows[n] = <<results[n]>> /\ DOMAIN b.rows[n] = {1}
                       /\ n \notin Rows => DOMAIN b.rows[n] = {}
  BY DEF RunRows
<1>2. RowsOf(b) = {<<n, 1>> : n \in Rows}
  <2>1. \A n \in Rows : {n} \X DOMAIN b.rows[n] = {<<n, 1>>}
    BY <1>1 DEF Rows
  <2>2. \A n \in Nodes \ Rows : {n} \X DOMAIN b.rows[n] = {}
    BY <1>1
  <2> QED
    BY <2>1, <2>2 DEF RowsOf, Rows
<1>3. PassedRows(b) = {<<n, 1>> : n \in P}
  <2>1. P \subseteq Rows /\ Rows \subseteq Nodes
    BY DEF Rows
  <2>2. \A n \in Rows : b.rows[<<n, 1>>[1]][<<n, 1>>[2]] = results[n]
    BY <1>1, <2>1
  <2> QED
    BY <1>2, <2>1, <2>2 DEF PassedRows
<1>4. RowsOf(b) \ PassedRows(b) = {<<n, 1>> : n \in F}
  <2>1. F = Rows \ P
    BY DEF Rows, Typed, Verdicts
  <2> QED
    BY <1>2, <1>3, <2>1
<1> QED
  BY <1>3, <1>4, Tagged DEF Passed, Failed

LEMMA MachineKept ==
  ASSUME Typed, Watched, Kept, Evict \/ Revoke \/ Crash \/ UNCHANGED vars
  PROVE  Kept'
<1>1. CASE Evict \/ Revoke \/ UNCHANGED vars
  <2>1. UNCHANGED <<state, results, pass, wrapper, batches, ledger>>
    BY <1>1 DEF Evict, Revoke, vars
  <2> QED
    BY <2>1 DEF Kept, Flying, Landed, InFlight, OnTheWay, AtNode, Rows, RunRows, CountsOf, Tallied
<1>2. CASE Crash
  <2>1. SUFFICES ASSUME ~ledger'.mixed, ~ledger'.early, Rows' # {}
                 PROVE  Landed'
    BY <1>2 DEF Kept, Crash, InFlight, Off, Landed
  <2>2. ~ledger.mixed /\ ~ledger.early /\ disk.rows = results
    BY <1>2, <2>1 DEF Crash, Typed, LedgerFields
  <2>3. results' = results /\ Rows' = Rows /\ RunRows' = RunRows
    BY <1>2, <2>2 DEF Crash, Rows, RunRows
  <2>4. state'.active = state.active
    BY <1>2, <2>1, <2>2, <2>3 DEF Crash, Rows, NoRows, Recounted, Typed, StateOK, StateFields
  <2> DEFINE a == state.active
  <2>5. a # 0 /\ a \in DOMAIN batches /\ batches[a].rows = RunRows
    BY <2>1, <2>2, <2>3 DEF Kept, Flying, Landed, Typed, StateOK
  <2>6. ~batches[a].open => CountsOf(a)
    BY <2>1, <2>2, <2>3, <2>5 DEF Kept, Flying, Landed
  <2>7. /\ batches'[a].rows = batches[a].rows
        /\ ~batches[a].open => batches'[a] = batches[a]
        /\ batches[a].open => /\ batches'[a].passed = Cardinality(PassedRows(batches[a]))
                              /\ batches'[a].failed =
                                   Cardinality(RowsOf(batches[a]) \ PassedRows(batches[a]))
    BY <1>2, <2>5, SweptIs DEF Crash, Typed
  <2>8. batches'[a].passed = Passed(results) /\ batches'[a].failed = Failed(results)
    BY <2>5, <2>6, <2>7, SweptCounts DEF CountsOf
  <2> QED
    BY <2>3, <2>4, <2>5, <2>7, <2>8 DEF Landed, CountsOf
<1> QED
  BY <1>1, <1>2

LEMMA LaunchKept ==
  ASSUME Typed, Watched, Kept, Operator
  PROVE  Kept'
<1>1. CASE \E granter \in {"self", "owner"}, again \in BOOLEAN : TestSubPlan(granter, again)
  <2>1. PICK granter \in {"self", "owner"}, again \in BOOLEAN : TestSubPlan(granter, again)
    BY <1>1
  <2> DEFINE f == Fresh(state)
  <2>2. DOMAIN f = StateFields /\ f.stop = FALSE
    BY DEF Typed, StateOK, StateFields, Fresh
  <2>3. state' = [f EXCEPT !.status = "running", !.again = again,
                     !.granter = granter, !.active = 0, !.head = Nobody]
    BY <2>1 DEF TestSubPlan
  <2> HIDE DEF f
  <2>4. state'.status = "running" /\ ~state'.stop
    BY <2>2, <2>3 DEF StateFields
  <2>5. wrapper' = Unopened /\ Rows' = {}
    BY <2>1 DEF TestSubPlan, Rows, NoRows
  <2>6. pass'.at = "setup"
    BY <2>1 DEF TestSubPlan, Off
  <2> QED
    BY <2>4, <2>5, <2>6 DEF Kept, Flying, InFlight, Unopened
<1>2. CASE TestPlan
  <2>1. ledger'.mixed
    BY <1>2 DEF TestPlan, Typed, LedgerFields
  <2> QED
    BY <2>1 DEF Kept
<1>3. CASE Resume
  <2>1. /\ ledger'.mixed = ledger.mixed /\ ledger'.early = ledger.early
        /\ wrapper' = Attached(state.active) /\ UNCHANGED results
    BY <1>3 DEF Resume, Handed, Typed, LedgerFields
  <2>2. SUFFICES ASSUME Landed
                 PROVE  Flying'
    BY <1>3, <2>1 DEF Kept, InFlight, Resume, Quiet, Off
  <2>3. /\ state.active # 0 /\ batches[state.active].rows = RunRows
        /\ state.active \in DOMAIN batches
    BY <1>3, <2>2 DEF Landed, Resume, Resumable, Typed, StateOK
  <2>4. batches'[state.active].rows = RunRows /\ batches'[state.active].open = TRUE
    <3>1. batches' = Reopened(batches, state.active)
      BY <1>3 DEF Resume, Handed
    <3>2. Table(batches)
      BY DEF Typed
    <3>3. TakenUp(batches, batches', state.active)
      BY <2>3, <3>1, <3>2, ReopenedIs
    <3> QED
      BY <2>3, <3>3 DEF TakenUp
  <2>5. /\ state'.active = state.active /\ state'.status = "running" /\ ~state'.stop
        /\ state'.tested = Passed(results) /\ state'.failed = Failed(results)
    BY <1>3 DEF Resume, Recounted, Typed, StateOK, StateFields
  <2>6. RunRows' = RunRows
    BY <2>1 DEF RunRows, Rows
  <2>7. wrapper'.batch = state.active /\ wrapper'.closed = FALSE
    BY <2>1 DEF Attached
  <2>8. Tallied(state)'
    BY <2>1, <2>5 DEF Tallied
  <2> QED
    BY <2>3, <2>4, <2>5, <2>6, <2>7, <2>8 DEF Flying
<1>4. CASE ResumeRefused \/ Stop
  <2>1. /\ UNCHANGED <<results, pass, wrapper, batches, ledger>>
        /\ state'.active = state.active /\ state'.tested = state.tested
        /\ state'.failed = state.failed
        /\ InFlight => state'.stop = TRUE /\ state'.status = "stopped"
    BY <1>4 DEF ResumeRefused, Stop, Quiet, InFlight, Typed, StateOK, StateFields
  <2>2. Rows' = Rows /\ RunRows' = RunRows
    BY <2>1 DEF Rows, RunRows
  <2> QED
    BY <2>1, <2>2 DEF Kept, Flying, Landed, InFlight, OnTheWay, AtNode, CountsOf, Tallied
<1> QED
  BY <1>1, <1>2, <1>3, <1>4 DEF Operator

LEMMA KeptStep ==
  ASSUME Typed, Watched, Order, Kept, [Next]_vars
  PROVE  Kept'
BY LaunchKept, WayKept, NodesKept, MachineKept DEF Next, Pipeline

\* The batch a public page finds for the run.
LEMMA FoundBatch ==
  ASSUME Typed, Watched, NEW status
  PROVE  LET w == wrapper.batch IN
         /\ w \in DOMAIN batches /\ batches[w].open => CurrentRun(batches, status, state.active) = w
         /\ status = "stopped" /\ (w \in DOMAIN batches => ~batches[w].open) =>
              CurrentRun(batches, status, state.active) = state.active
<1> DEFINE open == {b \in DOMAIN batches : batches[b].open}
           w == wrapper.batch
<1>1. \A b \in open : b = w
  BY DEF Watched, Attached
<1>2. ASSUME w \in DOMAIN batches, batches[w].open
      PROVE  CurrentRun(batches, status, state.active) = w
  <2>1. open = {w} /\ w \in Int /\ w # 0
    BY <1>1, <1>2 DEF Typed, Table
  <2>2. (CHOOSE b \in open : \A c \in open : c <= b) = w
    BY <2>1
  <2> QED
    BY <2>1, <2>2 DEF CurrentRun, ActiveBatch
<1>3. ASSUME status = "stopped", w \in DOMAIN batches => ~batches[w].open
      PROVE  CurrentRun(batches, status, state.active) = state.active
  <2>1. open = {}
    BY <1>1, <1>3
  <2> QED
    BY <1>3, <2>1 DEF CurrentRun, ActiveBatch
<1> QED
  BY <1>2, <1>3

\* The invariant has what the operator's page and the table show.
LEMMA KeptInOne ==
  ASSUME Typed, Watched, Kept
  PROVE  RunInOneBatch
<1>1. TypeOK
  <2>1. \A b \in DOMAIN batches : batches[b].rows \in [Nodes -> Seq(Verdicts)]
    BY DEF Typed, Table, IsBatch, Entries
  <2> QED
    BY <2>1 DEF Typed, StateOK, PassOK, TypeOK, Statuses
<1>2. SUFFICES ASSUME ~ledger.mixed, ~ledger.early, Rows # {}
               PROVE  /\ InFlight \/ state.status = "stopped" =>
                           HoldsRun(CurrentRun(batches, state.status, state.active))
                      /\ ~InFlight => /\ HoldsRun(state.active) /\ ~batches[state.active].open
                                      /\ CountsOf(state.active)
  BY <1>1 DEF RunInOneBatch, InFlight, CountsOf
<1> DEFINE a == state.active
<1>3. a # 0 /\ a \in DOMAIN batches /\ batches[a].rows = RunRows
  BY <1>2 DEF Kept, Flying, Landed, Typed, StateOK
<1>4. HoldsRun(a)
  BY <1>3 DEF HoldsRun, RunRows
<1>5. CASE InFlight
  <2>1. Flying /\ a = wrapper.batch
    BY <1>2, <1>5 DEF Kept, Flying
  <2>2. CASE batches[a].open
    BY <1>3, <1>4, <1>5, <2>1, <2>2, FoundBatch
  <2>3. CASE ~batches[a].open
    <3>1. state.status = "stopped"
      BY <1>3, <2>1, <2>3 DEF Flying
    <3> QED
      BY <1>3, <1>4, <1>5, <2>1, <2>3, <3>1, FoundBatch
  <2> QED
    BY <2>2, <2>3
<1>6. CASE ~InFlight
  <2>1. CountsOf(a)
    BY <1>2, <1>6 DEF Kept, Landed
  <2>2. \A b \in DOMAIN batches : ~batches[b].open
    BY <1>6 DEF Watched
  <2> QED
    BY <1>3, <1>4, <1>6, <2>1, <2>2, FoundBatch
<1> QED
  BY <1>5, <1>6

\* A run is in one batch, all of its rows and no others, whatever stops, deaths and
\* resumes it went through, and the batch it leaves behind has its true counts
\* (withBatchTracking, /api/resume, the sweep at boot).
THEOREM RunIsOneBatch == Spec => []RunInOneBatch
<1>1. Typed /\ Watched /\ Order /\ Kept /\ [Next]_vars => Kept'
  BY KeptStep
<1>2. Typed /\ Watched /\ Kept => RunInOneBatch
  BY KeptInOne
<1> QED
  BY <1>1, <1>2, KeptInit, TypedAndSorted, PTL DEF Spec
=============================================================================
