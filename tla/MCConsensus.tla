---------------------------- MODULE MCConsensus -----------------------------
EXTENDS Consensus, TLC

CONSTANTS m1, m2, m3, act, ask

MCInitialPool == {m1, m2}
MCPools == {{m1, m2}, {m1, m2, m3}, {m3}}
MCPriority == (act :> 2) @@ (ask :> 1)
=============================================================================
