---------------------------- MODULE BatchTracking ----------------------------
(***************************************************************************)
(* The batches table as the wrapper withBatchTracking of server.js keeps it *)
(* for one pipeline pass: the wrapper listens to the result and state       *)
(* events of its pass, opens a batch at the first row, adds every row, and  *)
(* closes the batch at the first state event with a final status.           *)
(*                                                                          *)
(* A batch is known by its position in the table, which is also the order   *)
(* of started_at; 0 stands for no batch.  Its rows are kept by node, each    *)
(* node's in the order they came.                                           *)
(***************************************************************************)
EXTENDS Integers, Sequences, FiniteSets

CONSTANT Nodes  \* the nodes rows are about

ASSUME NodesAssumption == IsFiniteSet(Nodes)

\* A wrapper is what its closure holds: its batch and whether it has closed it.
Unopened == [batch |-> 0, closed |-> FALSE]
Attached(b) == [batch |-> b, closed |-> FALSE]

\* startEmitted and batch:start go with the first row, so they are not kept.
NewBatch(size) ==
  [open |-> TRUE, size |-> size, passed |-> 0, failed |-> 0,
   rows |-> [n \in Nodes |-> <<>>]]

\* A resume takes the batch of the stopped pass up again (reopenBatch).
Reopened(table, b) ==
  IF b = 0 THEN table ELSE [table EXCEPT ![b].open = TRUE]

Listening(w) == ~w.closed

\* The batch a row of the pass goes to.
BatchFor(table, w) == IF w.batch = 0 THEN Len(table) + 1 ELSE w.batch

\* The table after a result event; a closed wrapper drops the row.
WithRow(table, w, n, verdict, size) ==
  IF ~Listening(w) THEN table
  ELSE LET opened == IF w.batch = 0 THEN Append(table, NewBatch(size)) ELSE table
       IN  [opened EXCEPT ![BatchFor(table, w)].rows[n] = Append(@, verdict)]

\* Mutant: only a stop or an error closes the batch.
Final_Broken == {"error", "stopped"}
Final == {"done", "error", "stopped"}

\* A state event closes the batch with the counters of the shared state.
Closes(w, status) == Listening(w) /\ w.batch # 0 /\ status \in Final

AfterState(table, w, status, passed, failed) ==
  IF ~Closes(w, status) THEN table
  ELSE [table EXCEPT ![w.batch].open = FALSE,
                     ![w.batch].passed = passed, ![w.batch].failed = failed]

\* The rows of a batch, a row known by its node and its place among the node's.
RowsOf(b) == UNION {{n} \X DOMAIN b.rows[n] : n \in Nodes}
PassedRows(b) == {r \in RowsOf(b) : b.rows[r[1]][r[2]] = "pass"}

\* At boot every batch a dead process left open is closed with counts of its rows.
Swept(table) ==
  [b \in DOMAIN table |->
     IF ~table[b].open THEN table[b]
     ELSE [table[b] EXCEPT !.open = FALSE,
             !.passed = Cardinality(PassedRows(table[b])),
             !.failed = Cardinality(RowsOf(table[b]) \ PassedRows(table[b]))]]

-----------------------------------------------------------------------------
\* getActiveBatch: the newest open batch.
ActiveBatch(table) ==
  LET open == {b \in DOMAIN table : table[b].open}
  IN  IF open = {} THEN 0 ELSE CHOOSE b \in open : \A c \in open : c <= b

\* /api/public/runs/current for the operator: the open batch, else the batch a
\* stopped run keeps for its resume, else nothing.
CurrentRun(table, status, kept) ==
  IF ActiveBatch(table) # 0 THEN ActiveBatch(table)
  ELSE IF status = "stopped" THEN kept ELSE 0
=============================================================================
