------------------------------- MODULE MCXmss -------------------------------
EXTENDS Xmss

(* XMSS-SHA2_10_256 with the 100 signatures of the benchmark; the test on  *)
(* a tree of eight leaves.  The index has bits to spare, as the four bytes *)
(* of the real one have (30 bits is what TLC's integers hold).             *)
MCBuilds ==
    {[driver |-> "bench", full_height |-> 10, index_bits |-> 30,
      N_SIGN |-> 100],
     [driver |-> "test", full_height |-> 3, index_bits |-> 8, N_SIGN |-> 0]}
=============================================================================
