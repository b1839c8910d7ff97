------------------------------ MODULE MCPlanRuns ------------------------------
(* Instances of PlanRuns small enough for TLC. *)
EXTENDS PlanRuns, TLC

\* Nothing tells two nodes of the plan apart before they are scanned.
Symmetric == Permutations(Nodes)

\* A closed batch that no pass writes to and no resume would take up is never
\* looked at again: states that differ in its rows alone are the same.
InUse(b) == batches[b].open \/ b \in {state.active, wrapper.batch}
View == <<state, results, pass, wrapper, disk, chain, ledger,
          [b \in DOMAIN batches |-> IF InUse(b) THEN batches[b] ELSE NewBatch(0)]>>
=============================================================================
