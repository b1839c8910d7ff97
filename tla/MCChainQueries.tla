--------------------------- MODULE MCChainQueries ---------------------------
EXTENDS ChainQueries

CONSTANTS a, b
MCCalls == {a, b}
MCAsks == (a :> {"status", "plain"}) @@ (b :> {"balance", "nodes"})
MCLcds == 1..2
=============================================================================
