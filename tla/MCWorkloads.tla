---------------------------- MODULE MCWorkloads ----------------------------
EXTENDS Workloads

MCPow2 == [j \in 0..Depth |-> 2^j]

(* The labels "period p record i".                                         *)
MCMessages == Periods \X (0..T)

(* Records: one quota of one and one of two per period, as in the drivers  *)
(* multiples of T, and fewer than T for the "per < 1" case.                *)
MCSizes == {2, T, 2 * T}

(* bench_rechain.c, extended_bench.c and figdata_bench.c, as they are.     *)
MCDrivers ==
    {[MAXCHAIN |-> 64, dists |-> <<1, 8, 32, 63>>,
      rootAtZero |-> FALSE, rest |-> FALSE],
     [MAXCHAIN |-> 129,
      dists |-> <<0, 1, 2, 4, 8, 12, 16, 24, 32, 48, 64, 96, 128>>,
      rootAtZero |-> TRUE, rest |-> TRUE],
     [MAXCHAIN |-> 64, dists |-> <<1, 2, 4, 8, 16, 32, 64>>,
      rootAtZero |-> FALSE, rest |-> TRUE]}
=============================================================================
