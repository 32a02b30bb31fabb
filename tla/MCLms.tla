------------------------------- MODULE MCLms -------------------------------
EXTENDS Lms

(* The benchmark with a tree of height 20 and, built with BENCH_SMOKE, of  *)
(* height 5; and a caller with restarts and refusals on a small tree.      *)
MCBuilds == {[caller |-> "bench", max_count |-> 2^20 - 1, N_SIGN |-> 100],
             [caller |-> "bench", max_count |-> 2^5 - 1, N_SIGN |-> 30],
             [caller |-> "demo", max_count |-> 2^2 - 1, N_SIGN |-> 0]}
=============================================================================
