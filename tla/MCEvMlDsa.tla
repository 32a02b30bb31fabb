----------------------------- MODULE MCEvMlDsa -----------------------------
EXTENDS EvMlDsa

MCPow2 == [k \in 0..Depth |-> 2^k]

(* Zero, two numbers that are no power of two, and one that is too large.  *)
MCBadT == {0, 3, 6, 2^(EV_MAX_DEPTH + 1)}
=============================================================================
