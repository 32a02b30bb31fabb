------------------------------- MODULE Sponge -------------------------------
(***************************************************************************)
(* SHA3-256 as src/evmldsa/ev_sha3.c computes it, and the inputs that the  *)
(* wrappers of the scheme feed to it.  A uint64_t lane is the set of its   *)
(* one bits, so ^ is SymDiff, ~a & b is b \ a and a shift moves numbers; a *)
(* byte is a number.  One round of keccakf is one action, with its loops   *)
(* as operators; absorbing a block is another.  What the other modules     *)
(* take for granted, that hashing is a function of an unambiguous input,   *)
(* rests on this one.                                                      *)
(***************************************************************************)
EXTENDS Integers, Sequences, SequencesExt

CONSTANT Calls   \* the calls to choose from: <<name of a wrapper, ...>>

VARIABLES call,
          off,     \* how far in has moved
          final,   \* the padded block has been absorbed
          st,      \* the 25 lanes
          round,   \* local of keccakf; 24 outside of it
          out      \* the digest, once it has been written

vars == <<call, off, final, st, round, out>>

RC ==
  <<{0}, {1, 7, 15}, {1, 3, 7, 15, 63}, {15, 31, 63}, {0, 1, 3, 7, 15},
    {0, 31}, {0, 7, 15, 31, 63}, {0, 3, 15, 63}, {1, 3, 7}, {3, 7},
    {0, 3, 15, 31}, {1, 3, 31}, {0, 1, 3, 7, 15, 31}, {0, 1, 3, 7, 63},
    {0, 3, 7, 15, 63}, {0, 1, 15, 63}, {1, 15, 63}, {7, 63}, {1, 3, 15},
    {1, 3, 31, 63}, {0, 7, 15, 31, 63}, {7, 15, 63}, {0, 31},
    {3, 15, 31, 63}>>
RHO == <<1, 3, 6, 10, 15, 21, 28, 36, 45, 55, 2, 14,
         27, 41, 56, 8, 25, 43, 62, 18, 39, 61, 20, 44>>
PI == <<10, 7, 11, 17, 18, 3, 5, 16, 8, 21, 24, 4,
        15, 23, 19, 13, 12, 2, 20, 14, 22, 9, 6, 1>>

ROL(x, n) == {(b + n) % 64 : b \in x}

-----------------------------------------------------------------------------
(* The loops of keccakf, one operator each.                                *)
Theta(s) ==
    LET bc == [i \in 0..4 |->
                 SymDiff(s[i], SymDiff(s[i+5],
                   SymDiff(s[i+10], SymDiff(s[i+15], s[i+20]))))]
    IN  [k \in 0..24 |->
           SymDiff(s[k], SymDiff(bc[(k+4) % 5], ROL(bc[(k+1) % 5], 1)))]

(* Mutant: the displaced lane is read after it has been overwritten.       *)
RhoPi_ReadsLate(s) ==
    LET Late(w, i) == [s |-> [w.s EXCEPT ![PI[i]] = ROL(w.t, RHO[i])],
                       t |-> ROL(w.t, RHO[i])]
        walk[i \in 0..24] ==
            IF i = 0 THEN [s |-> s, t |-> s[1]] ELSE Late(walk[i-1], i)
    IN  walk[24].s

(* In place: t carries the lane that the last move displaced.              *)
Move(w, i) == [s |-> [w.s EXCEPT ![PI[i]] = ROL(w.t, RHO[i])],
               t |-> w.s[PI[i]]]

RhoPi(s) ==
    LET walk[i \in 0..24] ==
            IF i = 0 THEN [s |-> s, t |-> s[1]] ELSE Move(walk[i-1], i)
    IN  walk[24].s

Chi(s) == [k \in 0..24 |->
             LET row == k - (k % 5)
             IN  SymDiff(s[k], s[row + ((k+2) % 5)] \ s[row + ((k+1) % 5)])]

Keccakf(s, r) == LET t == Chi(RhoPi(Theta(s)))
                 IN  [t EXCEPT ![0] = SymDiff(@, RC[r+1])]

-----------------------------------------------------------------------------
(* The wrappers: domain byte first, then the arguments.                    *)
be32(p) == <<p \div 2^24, (p \div 2^16) % 256, (p \div 2^8) % 256, p % 256>>

(* Mutant: leaf digests carry the marker of a left child.                  *)
Input_LeafAsChild(c) ==
    CASE c[1] = "raw"    -> c[2]
      [] c[1] = "child"  -> <<c[3]>> \o c[2]
      [] c[1] = "node"   -> <<4>> \o c[2] \o c[3]
      [] c[1] = "rho"    -> <<7>> \o c[2] \o be32(c[3])
      [] c[1] = "digest" -> <<1>> \o c[2]

Input(c) ==
    CASE c[1] = "raw"    -> c[2]                       \* ev_sha3_256
      [] c[1] = "child"  -> <<c[3]>> \o c[2]           \* ev_derive_child
      [] c[1] = "node"   -> <<4>> \o c[2] \o c[3]      \* ev_hash_node
      [] c[1] = "rho"    -> <<7>> \o c[2] \o be32(c[3])  \* ev_period_rho
      [] c[1] = "digest" -> <<6>> \o c[2]        \* ev_merkle_leafdigest

rate == 136

inlen == Len(Input(call)) - off

Bits(n) == {b \in 0..7 : (n \div 2^b) % 2 = 1}

(* st[i/8] ^= (uint64_t)buf[i] << (8*(i%8)), for all i below the rate      *)
Xor(s, buf) ==
    [k \in 0..24 |->
       IF k >= rate \div 8 THEN s[k]
       ELSE SymDiff(s[k], UNION {{8*j + b : b \in Bits(buf[8*k + j])} :
                                 j \in 0..7})]

(* Mutant: the last byte of the block is assigned.                         *)
PadBuf_Assigns(len) ==
    [i \in 0..rate-1 |->
       IF i = rate-1 THEN 128
       ELSE IF i < len THEN Input(call)[off + i + 1]
       ELSE IF i = len THEN 6 ELSE 0]

(* buf[inlen] = 0x06; buf[rate-1] |= 0x80                                  *)
PadBuf(len) ==
    LET marked == [i \in 0..rate-1 |->
                     IF i < len THEN Input(call)[off + i + 1]
                     ELSE IF i = len THEN 6 ELSE 0]
    IN  [marked EXCEPT ![rate-1] = IF @ >= 128 THEN @ ELSE @ + 128]

-----------------------------------------------------------------------------
Init == /\ call \in Calls
        /\ off = 0
        /\ final = FALSE
        /\ st = [k \in 0..24 |-> {}]
        /\ round = 24
        /\ out = <<>>

AbsorbBlock == /\ round = 24 /\ ~final
               /\ inlen >= rate
               /\ st' = Xor(st, [i \in 0..rate-1 |-> Input(call)[off + i + 1]])
               /\ off' = off + rate
               /\ round' = 0
               /\ UNCHANGED <<call, final, out>>

AbsorbPadded == /\ round = 24 /\ ~final
                /\ inlen < rate
                /\ st' = Xor(st, PadBuf(inlen))
                /\ final' = TRUE
                /\ round' = 0
                /\ UNCHANGED <<call, off, out>>

Round == /\ round < 24
         /\ st' = Keccakf(st, round)
         /\ round' = round + 1
         /\ UNCHANGED <<call, off, final, out>>

(* The first four lanes, on a machine with little-endian words.            *)
Squeeze == /\ round = 24 /\ final
           /\ out = <<>>
           /\ out' = [n \in 1..32 |->
                        LET lane == st[(n-1) \div 8]
                            bits == {b \in 0..7 : 8 * ((n-1) % 8) + b \in lane}
                        IN  CHOOSE byte \in 0..255 : Bits(byte) = bits]
           /\ UNCHANGED <<call, off, final, st, round>>

Next == AbsorbBlock \/ AbsorbPadded \/ Round \/ Squeeze

Spec == Init /\ [][Next]_vars

-----------------------------------------------------------------------------
(* Bytes as the positions of their one bits, lanes as coordinates.         *)
Ones(bytes) == UNION {{8 * (i-1) + b : b \in Bits(bytes[i])} :
                      i \in DOMAIN bytes}
Array(s) == UNION {{<<k % 5, k \div 5, z>> : z \in s[k]} : k \in 0..24}

(* The code implements FIPS 202 ("Written from the FIPS 202 specification",*)
(* ev_sha3.c:5), round by round and block by block: the walk in place, the *)
(* tables and the two padding bytes against their definitions on bits, for *)
(* inputs on both sides of a block boundary.                               *)
Standard == INSTANCE Fips202 WITH
    msg    <- [len |-> 8 * Len(Input(call)), ones |-> Ones(Input(call))],
    A      <- Array(st),
    blocks <- (off \div rate) + (IF final THEN 1 ELSE 0),
    ir     <- round,
    digest <- Ones(out)
ImplementsFips202 == Standard!Spec

(* The two vectors at ev_sha3.c:3-4 that ev_selftest.c checks.             *)
KnownAnswers ==
    /\ (call = <<"raw", <<>>>> /\ out # <<>>) =>
         out = <<167, 255, 198, 248, 191, 30, 215, 102, 81, 193, 71, 86, 160,
                 97, 214, 98, 245, 128, 255, 77, 228, 59, 73, 250, 130, 216,
                 10, 75, 128, 248, 67, 74>>
    /\ (call = <<"raw", <<97, 98, 99>>>> /\ out # <<>>) =>
         out = <<58, 152, 93, 167, 79, 226, 37, 178, 4, 92, 23, 45, 107, 211,
                 144, 189, 133, 95, 8, 110, 62, 157, 82, 91, 70, 191, 226, 69,
                 17, 67, 21, 50>>

(* No two calls of the wrappers hash the same bytes, whatever their        *)
(* arguments: the injective terms of the other modules stand for inputs    *)
(* that really differ ("Domain separators", ev_params.h:16).               *)
InputsDiffer ==
    call[1] # "raw" =>
        \A c \in Calls : (c[1] # "raw" /\ Input(c) = Input(call)) => c = call
=============================================================================
