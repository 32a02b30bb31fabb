------------------------------ MODULE MCSponge ------------------------------
EXTENDS Sponge

Fill(n, b) == [i \in 1..n |-> b]
Ramp(n) == [i \in 1..n |-> (37*i + 11) % 256]

(* The two test vectors, inputs around one and two blocks, and calls of    *)
(* every wrapper; the digest of a seed, which the self test takes, is as   *)
(* long an input as the derivation of a child.                             *)
MCCalls ==
    {<<"raw", <<>>>>, <<"raw", <<97, 98, 99>>>>}
      \cup {<<"raw", Ramp(n)>> : n \in {135, 136, 272}}
      \cup {<<"child", Ramp(32), dom>> : dom \in {1, 2}}
      \cup {<<"node", Ramp(32), Fill(32, 0)>>,
            <<"node", Fill(32, 0), Ramp(32)>>}
      \cup {<<"rho", Ramp(32), p>> : p \in {1, 256}}
      \cup {<<"digest", Ramp(32)>>}
=============================================================================
