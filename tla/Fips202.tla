------------------------------ MODULE Fips202 ------------------------------
(***************************************************************************)
(* What SHA3-256 is, bit by bit, as FIPS 202 defines it: a state array of  *)
(* 5 x 5 x 64 bits, here the set of the coordinates <<x, y, z>> that are   *)
(* one; the five step mappings; and the sponge with rate 1088 that absorbs *)
(* M || 01 || pad10*1 block after block.  A message is its length and the  *)
(* set of its positions that are one.  Neither tables nor lanes nor bytes  *)
(* of src/evmldsa/ev_sha3.c appear here.                                   *)
(***************************************************************************)
EXTENDS Integers, Sequences, FiniteSetsExt

VARIABLES msg,      \* [len, ones]
          A,        \* the state array
          blocks,   \* how many blocks have been absorbed
          ir,       \* the round of the permutation; 24 between permutations
          digest    \* {} until it has been squeezed

vars == <<msg, A, blocks, ir, digest>>

Cube == (0..4) \X (0..4) \X (0..63)

rate == 1088

-----------------------------------------------------------------------------
(* Exclusive or of three bits: p is in iff an odd number of the three are. *)
theta(a) ==
    LET odd == {c \in (0..4) \X (0..63) :
                  Cardinality({y \in 0..4 : <<c[1], y, c[2]>> \in a}) % 2 = 1}
    IN  {p \in Cube : p \in a <=> (<<(p[1]+4) % 5, p[3]>> \in odd <=>
                                     <<(p[1]+1) % 5, (p[3]+63) % 64>> \in odd)}

(* The walk that visits every lane but the first; the lane in place t is   *)
(* turned by the (t+1)st triangular number.                                *)
place[t \in 0..23] ==
    IF t = 0 THEN <<1, 0>>
    ELSE LET xy == place[t-1] IN <<xy[2], (2 * xy[1] + 3 * xy[2]) % 5>>

turns == {<<0, 0, 0>>} \cup
         {place[t] \o <<((t+1) * (t+2)) \div 2>> : t \in 0..23}

rho(a) ==
    LET by(p) == (CHOOSE n \in turns : n[1] = p[1] /\ n[2] = p[2])[3]
    IN  {<<p[1], p[2], (p[3] + by(p)) % 64>> : p \in a}

pi(a) == {p \in Cube : <<(p[1] + 3*p[2]) % 5, p[1], p[3]>> \in a}

chi(a) == {p \in Cube :
             ~(p \in a <=> (/\ <<(p[1]+1) % 5, p[2], p[3]>> \notin a
                            /\ <<(p[1]+2) % 5, p[2], p[3]>> \in a))}

(* The round constants come out of a shift register of eight bits.         *)
register[t \in 0..254] ==
    IF t = 0 THEN {0}
    ELSE LET r == {i + 1 : i \in register[t-1]}
         IN  IF 8 \in r THEN SymDiff(r \ {8}, {0, 4, 5, 6}) ELSE r

rc(t) == 0 \in register[t % 255]

iota(a, r) == SymDiff(a, {<<0, 0, 2^j - 1>> : j \in {k \in 0..6 : rc(k + 7*r)}})

Rnd(a, r) == iota(chi(pi(rho(theta(a)))), r)

-----------------------------------------------------------------------------
Total(len) == rate * ((len + 4 + rate - 1) \div rate)

Padded(m) == m.ones \cup {m.len + 1, m.len + 2, Total(m.len) - 1}

Block(m, n) == {p \in Cube :
                  rate * n + 64 * (5*p[2] + p[1]) + p[3] \in
                      {q \in Padded(m) : q < rate * (n+1)}}

Init == /\ A = {}
        /\ blocks = 0
        /\ ir = 24
        /\ digest = {}

Absorb == /\ ir = 24
          /\ rate * blocks < Total(msg.len)
          /\ A' = SymDiff(A, Block(msg, blocks))
          /\ blocks' = blocks + 1
          /\ ir' = 0
          /\ UNCHANGED <<msg, digest>>

Permute == /\ ir < 24
           /\ A' = Rnd(A, ir)
           /\ ir' = ir + 1
           /\ UNCHANGED <<msg, blocks, digest>>

Squeeze == /\ ir = 24
           /\ rate * blocks = Total(msg.len)
           /\ digest' = {i \in 0..255 :
                           <<(i \div 64) % 5, i \div 320, i % 64>> \in A}
           /\ UNCHANGED <<msg, A, blocks, ir>>

Spec == Init /\ [][Absorb \/ Permute \/ Squeeze]_vars
=============================================================================
