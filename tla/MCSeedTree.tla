----------------------------- MODULE MCSeedTree -----------------------------
EXTENDS SeedTree

MCPow2 == [k \in 0..Depth |-> 2^k]
=============================================================================
