-------------------------- MODULE MCOnchainReporter --------------------------
EXTENDS OnchainReporter

MCPasses == {1, 2}
MCReports == 1..3
MCTxs == Payments \cup MCReports
MCLimit == 256
MCBlank == -1

\* A fast node and a still one, a slow one, a failed one with odd readings.
Fast == [mbps |-> 123456, peers |-> 70000, lat |-> 0, skipped |-> FALSE, addressed |-> TRUE]
Still == [mbps |-> 0, peers |-> 0, lat |-> 99999, skipped |-> FALSE, addressed |-> TRUE]
Slow == [mbps |-> 5, peers |-> 12, lat |-> 340, skipped |-> FALSE, addressed |-> TRUE]
Failed == [mbps |-> MCBlank, peers |-> -5, lat |-> -12, skipped |-> FALSE, addressed |-> TRUE]
MCSamples == {Fast, Still, Slow, Failed}
MCOutcomes == {Still}
==============================================================================
