----------------------------- MODULE XmssProofs -----------------------------
(***************************************************************************)
(* Proofs about the XMSS baseline, for every height and every width of the *)
(* index: no index signs twice, a used-up key holds no seeds, which spoils *)
(* its last signature and no other, and the drivers run to their verdicts. *)
(***************************************************************************)
EXTENDS Xmss, FiniteSetTheorems, SequenceTheorems, TLAPS

Signature == [m : Nat, q : 0..Last, field : Nat, seeds : Seeds]

(* The key is ahead of every signature, and deleted before its index has   *)
(* gone past the last one.                                                 *)
IInv == /\ build \in Builds
        /\ sk \in [idx : 0..(2^build.index_bits - 1), seeds : Seeds]
        /\ i \in Nat
        /\ all_sm \in Seq(Signature)
        /\ pc = "keypair" => all_sm = <<>>
        /\ \A j \in DOMAIN all_sm : all_sm[j].q < sk.idx
        /\ UsedUpKeyIsDeleted

-----------------------------------------------------------------------------
(* Powers of two as the sizes of sets of subsets.                          *)
LEMMA PowerIsCardinality ==
    ASSUME NEW n \in Nat
    PROVE  /\ IsFiniteSet(SUBSET (1..n))
           /\ Cardinality(SUBSET (1..n)) = 2^n
           /\ 2^n \in Nat
<1>1. IsFiniteSet(1..n) /\ Cardinality(1..n) = n
  BY FS_Interval
<1>2. IsFiniteSet(SUBSET (1..n)) /\ Cardinality(SUBSET (1..n)) = 2^n
  BY <1>1, FS_SUBSET
<1>. QED  BY <1>2, FS_CardinalityType

LEMMA PowersGrow ==
    ASSUME NEW a \in Nat, NEW b \in Nat, a < b
    PROVE  2^a < 2^b
<1>1. SUBSET (1..a) \subseteq SUBSET (1..b) /\ 1..b \notin SUBSET (1..a)
  OBVIOUS
<1>2. SUBSET (1..a) # SUBSET (1..b)
  BY <1>1
<1>3. Cardinality(SUBSET (1..a)) <= Cardinality(SUBSET (1..b))
      /\ Cardinality(SUBSET (1..a)) # Cardinality(SUBSET (1..b))
  BY <1>1, <1>2, PowerIsCardinality, FS_Subset
<1>4. PICK x \in Nat, y \in Nat : x = 2^a /\ y = 2^b
  BY PowerIsCardinality
<1>5. x <= y /\ x # y
  BY <1>3, <1>4, PowerIsCardinality, Zenon
<1>6. x < y
  BY <1>5
<1>. QED  BY <1>4, <1>6, Zenon

(* The index has room for every one-time key, and for ones everywhere      *)
(* behind the last of them.                                                *)
LEMMA Widths ==
    ASSUME NEW b \in Builds
    PROVE  /\ 2^b.full_height \in Nat \ {0}
           /\ 2^b.index_bits \in Nat
           /\ 2^b.full_height < 2^b.index_bits
<1>1. /\ b.full_height \in Nat /\ b.index_bits \in Nat
      /\ b.full_height < b.index_bits
  BY BuildsAssumption
<1>2. 2^b.full_height # 0
  <2>1. {} \in SUBSET (1..b.full_height)
    OBVIOUS
  <2>. QED  BY <1>1, <2>1, PowerIsCardinality, FS_EmptySet
<1>. QED  BY <1>1, <1>2, PowerIsCardinality, PowersGrow

(* The same of the build that runs, with its two bounds as numbers.        *)
LEMMA Bounds ==
    ASSUME IInv
    PROVE  \E top \in Nat : /\ Last \in Nat /\ Last < top
                            /\ top = 2^build.index_bits - 1
                            /\ 2^build.index_bits = top + 1
<1>1. PICK x \in Nat \ {0}, y \in Nat :
        x = 2^build.full_height /\ y = 2^build.index_bits /\ x < y
  BY Widths DEF IInv
<1>2. y - 1 \in Nat /\ x - 1 \in Nat /\ x - 1 < y - 1 /\ y = (y - 1) + 1
  BY <1>1
<1>3. Last = x - 1
  BY <1>1 DEF Last
<1>. QED  BY <1>1, <1>2, <1>3

-----------------------------------------------------------------------------
(* The increment does not wrap around before the last one-time key.        *)
LEMMA SmallModulo ==
    ASSUME NEW x \in Nat, NEW w \in Nat, x < w
    PROVE  x % w = x
  OBVIOUS

(* Signing, as the two drivers see it: either a signature with the present *)
(* index, which is moved on, or a refusal that leaves a deleted key        *)
(* (xmssmt_core_sign).                                                     *)
LEMMA Signing ==
    ASSUME IInv, NEW m \in Nat,
           NEW r, r = xmssmt_core_sign(m)
    PROVE  /\ r.sk \in [idx : 0..(2^build.index_bits - 1), seeds : Seeds]
           /\ r.sk.idx > Last => r.sk.seeds = "zero"
           /\ \/ /\ r.ret = 0
                 /\ sk.idx <= Last
                 /\ r.sk.idx = sk.idx + 1
                 /\ r.sm \in Signature
                 /\ r.sm.q = sk.idx
              \/ /\ r.ret = -2
                 /\ sk.idx > Last
                 /\ \A q \in 0..Last : q < r.sk.idx
<1>1. PICK top \in Nat : /\ Last \in Nat /\ Last < top
                         /\ top = 2^build.index_bits - 1
                         /\ 2^build.index_bits = top + 1
  BY Bounds
<1>2. Deleted = [idx |-> top, seeds |-> "zero"]
  BY <1>1 DEF Deleted
<1>3. sk.idx \in 0..top /\ sk.seeds \in Seeds
      /\ sk = [idx |-> sk.idx, seeds |-> sk.seeds]
      /\ (sk.idx > Last => sk.seeds = "zero")
  BY <1>1 DEF IInv, UsedUpKeyIsDeleted
<1>4. "zero" \in Seeds
  BY DEF Seeds
<1>5. CASE sk.idx > Last
  <2>1. sk.idx >= Last
    BY <1>1, <1>3, <1>5
  <2>2. r = [ret |-> -2, sk |-> Deleted]
    BY <1>5, <2>1 DEF xmssmt_core_sign
  <2>3. r.ret = -2 /\ r.sk = [idx |-> top, seeds |-> "zero"]
    BY <2>2, <1>2
  <2>. QED  BY <1>1, <1>4, <1>5, <2>3
<1>6. CASE ~(sk.idx > Last)
  <2>1. sk.idx <= Last /\ sk.idx \in Nat
    BY <1>1, <1>3, <1>6
  <2>2. (sk.idx + 1) % (top + 1) = sk.idx + 1 /\ sk.idx + 1 \in 0..top
    <3>1. sk.idx + 1 \in 0..top /\ sk.idx + 1 \in Nat
          /\ sk.idx + 1 < top + 1 /\ top + 1 \in Nat
      BY <1>1, <2>1
    <3>. QED  BY <3>1, SmallModulo
  <2> DEFINE left == IF sk.idx >= Last THEN Deleted ELSE sk
             s == [m |-> m, q |-> sk.idx, field |-> left.idx,
                   seeds |-> left.seeds]
  <2>3. /\ left = [idx |-> left.idx, seeds |-> left.seeds]
        /\ left.idx \in Nat /\ left.seeds \in Seeds
        /\ sk.idx >= Last => left.seeds = "zero"
    BY <1>1, <1>2, <1>3, <1>4, <2>1
  <2>4. r = [ret |-> 0,
             sk  |-> [left EXCEPT !.idx = (sk.idx + 1) % (top + 1)],
             sm  |-> s]
    BY <1>1, <1>6 DEF xmssmt_core_sign
  <2>. HIDE DEF left
  <2>5. [left EXCEPT !.idx = (sk.idx + 1) % (top + 1)]
           = [idx |-> sk.idx + 1, seeds |-> left.seeds]
    BY <2>2, <2>3
  <2>6. r.ret = 0 /\ r.sk = [idx |-> sk.idx + 1, seeds |-> left.seeds]
        /\ r.sm = s
    BY <2>4, <2>5
  <2>7. s \in Signature /\ s.q = sk.idx
    BY <1>1, <2>1, <2>3 DEF Signature
  <2>8. r.sk.idx > Last => r.sk.seeds = "zero"
    BY <1>1, <2>1, <2>3, <2>6
  <2>. QED  BY <1>1, <2>1, <2>2, <2>3, <2>6, <2>7, <2>8
<1>. QED  BY <1>5, <1>6

-----------------------------------------------------------------------------
(* A call of xmss_sign in either driver: what both do with its result.     *)
LEMMA SignStep ==
    ASSUME IInv, BenchSign \/ TestSign
    PROVE  /\ build' = build /\ pc # "keypair" /\ pc' # "keypair"
           /\ i' \in Nat
           /\ \E m \in Nat : \E r :
                /\ r = xmssmt_core_sign(m)
                /\ sk' = r.sk
                /\ all_sm' = IF r.ret = 0 THEN Append(all_sm, r.sm)
                             ELSE all_sm
<1>1. i \in Nat
  BY DEF IInv
<1>2. CASE BenchSign
  <2>1. PICK r : r = xmssmt_core_sign(i)
    OBVIOUS
  <2>. QED  BY <1>1, <1>2, <2>1 DEF BenchSign
<1>3. CASE TestSign
  <2>1. PICK r : r = xmssmt_core_sign(0)
    OBVIOUS
  <2>. QED  BY <1>1, <1>3, <2>1 DEF TestSign
<1>. QED  BY <1>2, <1>3

(* The same with the signature spelled out: the one-time key that makes it *)
(* is behind the new index and ahead of every earlier signature.           *)
LEMMA SignIInv ==
    ASSUME IInv, BenchSign \/ TestSign
    PROVE  /\ IInv'
           /\ \/ all_sm' = all_sm
              \/ \E s \in Signature :
                    all_sm' = Append(all_sm, s) /\ s.q = sk.idx
<1>1. /\ build' = build /\ pc # "keypair" /\ pc' # "keypair" /\ i' \in Nat
      /\ Last' = Last
  BY SignStep DEF Last
<1>a. PICK m \in Nat :
        \E r : /\ r = xmssmt_core_sign(m)
               /\ sk' = r.sk
               /\ all_sm' = IF r.ret = 0 THEN Append(all_sm, r.sm)
                            ELSE all_sm
  BY SignStep
<1>2. PICK r : /\ r = xmssmt_core_sign(m)
               /\ sk' = r.sk
               /\ all_sm' = IF r.ret = 0 THEN Append(all_sm, r.sm) ELSE all_sm
  BY <1>a
<1>3. /\ sk' \in [idx : 0..(2^build.index_bits - 1), seeds : Seeds]
      /\ sk'.idx > Last => sk'.seeds = "zero"
      /\ \/ /\ r.ret = 0
            /\ sk.idx <= Last
            /\ sk'.idx = sk.idx + 1
            /\ r.sm \in Signature
            /\ r.sm.q = sk.idx
         \/ /\ r.ret = -2
            /\ sk.idx > Last
            /\ \A q \in 0..Last : q < sk'.idx
  BY <1>2, Signing
<1>4. PICK n \in Nat : /\ n = Len(all_sm) /\ DOMAIN all_sm = 1..n
                       /\ all_sm \in Seq(Signature)
  BY DEF IInv
<1>5. Last \in Nat /\ sk.idx \in Nat
  BY Bounds DEF IInv
<1>6. \A j \in 1..n : all_sm[j].q \in 0..Last /\ all_sm[j].q < sk.idx
  <2>1. \A j \in 1..n : all_sm[j] \in Signature
    BY <1>4
  <2>2. \A j \in 1..n : all_sm[j].q \in 0..Last
    BY <2>1 DEF Signature
  <2>3. \A j \in 1..n : all_sm[j].q < sk.idx
    BY <1>4 DEF IInv
  <2>. QED  BY <2>2, <2>3
<1>7. CASE all_sm' = Append(all_sm, r.sm) /\ r.sm \in Signature
           /\ r.sm.q = sk.idx /\ sk'.idx = sk.idx + 1
  <2>1. /\ all_sm' \in Seq(Signature) /\ DOMAIN all_sm' = 1..(n+1)
        /\ \A j \in 1..n : all_sm'[j] = all_sm[j]
        /\ all_sm'[n+1] = r.sm
    BY <1>4, <1>7
  <2>2. \A j \in 1..(n+1) : all_sm'[j].q < sk'.idx
    <3>1. \A j \in 1..n : all_sm[j].q < sk.idx + 1
      BY <1>5, <1>6
    <3>2. \A j \in 1..(n+1) : j \in 1..n \/ j = n+1
      OBVIOUS
    <3>3. sk.idx < sk.idx + 1
      BY <1>5
    <3>. QED  BY <1>7, <2>1, <3>1, <3>2, <3>3
  <2>. QED  BY <1>1, <1>3, <1>7, <2>1, <2>2
            DEF IInv, UsedUpKeyIsDeleted, Signature
<1>8. CASE all_sm' = all_sm /\ (\A q \in 0..Last : q < sk'.idx)
  <2>1. \A j \in DOMAIN all_sm' : all_sm'[j].q < sk'.idx
    BY <1>4, <1>6, <1>8
  <2>. QED  BY <1>1, <1>3, <1>4, <1>8, <2>1
            DEF IInv, UsedUpKeyIsDeleted, Signature
<1>9. r.ret = 0 \/ r.ret # 0
  OBVIOUS
<1>. QED  BY <1>2, <1>3, <1>7, <1>8, <1>9

(* Key generation and the loops of the drivers sign nothing.               *)
LEMMA OthersIInv ==
    ASSUME IInv,
           \/ xmss_keypair \/ AllSigned \/ Verify \/ Return
           \/ UNCHANGED vars
    PROVE  IInv' /\ build' = build /\ all_sm' = all_sm
<1>1. PICK top \in Nat : /\ Last \in Nat /\ Last < top
                         /\ top = 2^build.index_bits - 1
  BY Bounds
<1>2. CASE xmss_keypair
  <2>1. /\ build' = build /\ all_sm' = all_sm /\ all_sm = <<>> /\ i' = i
        /\ sk' = [idx |-> 0, seeds |-> "key"] /\ pc' # "keypair"
        /\ Last' = Last
    BY <1>2 DEF IInv, xmss_keypair, Last
  <2>2. sk' \in [idx : 0..(2^build.index_bits - 1), seeds : Seeds]
        /\ ~(sk'.idx > Last)
    BY <1>1, <2>1 DEF Seeds
  <2>3. DOMAIN all_sm = {}
    BY <2>1
  <2>. QED  BY <2>1, <2>2, <2>3 DEF IInv, UsedUpKeyIsDeleted, Signature
<1>3. CASE AllSigned \/ Verify \/ Return \/ UNCHANGED vars
  <2>1. /\ build' = build /\ all_sm' = all_sm /\ sk' = sk /\ i' \in Nat
        /\ pc' = "keypair" => pc = "keypair"
        /\ Last' = Last
    BY <1>3 DEF IInv, AllSigned, Verify, Return, vars, Last
  <2>. QED  BY <2>1 DEF IInv, UsedUpKeyIsDeleted, Signature
<1>. QED  BY <1>2, <1>3

(* The invariant holds in every state that the code reaches.               *)
THEOREM Invariance == Spec => []IInv
<1>1. Init => IInv
  <2>. SUFFICES ASSUME Init PROVE IInv
    OBVIOUS
  <2>1. PICK x \in Nat \ {0}, y \in Nat :
          x = 2^build.full_height /\ y = 2^build.index_bits /\ x < y
    BY Widths DEF Init
  <2>2. 0 \in 0..(2^build.index_bits - 1) /\ ~(0 > Last)
    BY <2>1 DEF Last
  <2>. QED  BY <2>2 DEF Init, IInv, UsedUpKeyIsDeleted, Seeds
<1>2. IInv /\ [Next]_vars => IInv'
  BY SignIInv, OthersIInv DEF Next
<1>. QED  BY <1>1, <1>2, PTL DEF Spec

-----------------------------------------------------------------------------
(* A key with no index left holds no seeds either (xmss_core.c:215).       *)
THEOREM UsedUpIsDeleted == Spec => []UsedUpKeyIsDeleted
<1>1. IInv => UsedUpKeyIsDeleted
  BY DEF IInv
<1>. QED  BY <1>1, Invariance, PTL

(* A function on 1..n is a sequence.                                       *)
LEMMA IsSequence ==
    ASSUME NEW S, NEW n \in Nat, NEW g, g = [j \in 1..n |-> g[j]],
           \A j \in 1..n : g[j] \in S
    PROVE  g \in Seq(S) /\ Len(g) = n
  OBVIOUS

(* A sequence that is one longer than another is what Append makes of it.  *)
LEMMA Extended ==
    ASSUME NEW S, NEW f \in Seq(S), NEW e \in S, NEW n \in Nat, n = Len(f),
           NEW g \in Seq(S), Len(g) = n+1,
           \A j \in 1..n : g[j] = f[j],
           g[n+1] = e
    PROVE  g = Append(f, e) /\ g[Len(g)] = e /\ g # <<>>
<1>1. \A j \in 1..(n+1) : g[j] = Append(f, e)[j]
  BY AppendProperties
<1>2. Append(f, e) \in Seq(S) /\ Len(Append(f, e)) = n+1
  BY AppendProperties
<1>3. g = Append(f, e)
  BY <1>1, <1>2, SeqEqual
<1>4. n+1 # 0
  OBVIOUS
<1>. QED  BY <1>3, <1>4

(* The list of one-time keys grows by the one of the new signature.        *)
LEMMA SpentGrows ==
    ASSUME IInv, NEW s \in Signature, all_sm' = Append(all_sm, s)
    PROVE  /\ Spent' = Append(Spent, <<s.seeds, s.q>>)
           /\ Spent'[Len(Spent')] = <<s.seeds, s.q>>
           /\ Spent' # <<>>
<1>1. PICK n \in Nat : /\ n = Len(all_sm) /\ DOMAIN all_sm = 1..n
                       /\ all_sm \in Seq(Signature)
  BY DEF IInv
<1> DEFINE e == <<s.seeds, s.q>>
<1>2. PICK T : T = Seeds \X Nat
  OBVIOUS
<1>3. \A x \in Signature : <<x.seeds, x.q>> \in T
  BY <1>2, Bounds DEF Signature
<1>4. PICK a : a = all_sm'
  OBVIOUS
<1>5. /\ DOMAIN a = 1..(n+1)
      /\ \A j \in 1..n : a[j] = all_sm[j]
      /\ a[n+1] = s
  BY <1>1, <1>4
<1>6. PICK f, g : f = Spent /\ g = Spent'
  OBVIOUS
<1>7. f = [j \in 1..n |-> <<all_sm[j].seeds, all_sm[j].q>>]
  BY <1>1, <1>6 DEF Spent
<1>8. g = [j \in 1..(n+1) |-> <<a[j].seeds, a[j].q>>]
  BY <1>4, <1>5, <1>6 DEF Spent
<1>9. f \in Seq(T) /\ n = Len(f)
  <2>1. \A j \in 1..n : <<all_sm[j].seeds, all_sm[j].q>> \in T
    BY <1>1, <1>3
  <2>2. \A j \in 1..n : f[j] = <<all_sm[j].seeds, all_sm[j].q>>
    BY <1>7, Zenon
  <2>3. f = [j \in 1..n |-> f[j]]
    BY <1>7, Zenon
  <2>4. \A j \in 1..n : f[j] \in T
    BY <2>1, <2>2
  <2>. QED  BY <2>3, <2>4, IsSequence
<1>10. \A j \in 1..(n+1) : g[j] = <<a[j].seeds, a[j].q>>
  BY <1>8, Zenon
<1>11. \A j \in 1..n : g[j] = f[j]
  <2>1. \A j \in 1..n : f[j] = <<all_sm[j].seeds, all_sm[j].q>>
    BY <1>7, Zenon
  <2>2. \A j \in 1..n : j \in 1..(n+1)
    OBVIOUS
  <2>. QED  BY <1>5, <1>10, <2>1, <2>2, Zenon
<1>12. g[n+1] = e
  <2>1. n+1 \in 1..(n+1)
    OBVIOUS
  <2>. QED  BY <1>5, <1>10, <2>1, Zenon
<1>13. e \in T
  BY <1>3
<1>14. g \in Seq(T) /\ Len(g) = n+1
  <2>. HIDE DEF e
  <2>1. \A j \in 1..n : f[j] \in T
    BY <1>9
  <2>2. \A j \in 1..(n+1) : j \in 1..n \/ j = n+1
    OBVIOUS
  <2>3. \A j \in 1..(n+1) : g[j] \in T
    BY <1>11, <1>12, <1>13, <2>1, <2>2, Zenon
  <2>4. g = [j \in 1..(n+1) |-> g[j]] /\ n+1 \in Nat
    BY <1>8
  <2>. QED  BY <2>3, <2>4, IsSequence
<1>15. g = Append(f, e) /\ g[Len(g)] = e /\ g # <<>>
  <2>. HIDE DEF e
  <2>. QED  BY <1>9, <1>11, <1>12, <1>13, <1>14, Extended
<1>. QED  BY <1>6, <1>15

(* The library implements the abstract one-time keys: under the drawn      *)
(* seeds and under the zeros of a deleted key, indices grow up to 2^h - 1  *)
(* and none is used twice (xmssmt_core_sign).                              *)
THEOREM Refinement == Spec => ImplementsOneTimeKeys
<1>1. Init => Abstract!Init
  BY DEF Init, Abstract!Init, Spent
<1>2. IInv /\ [Next]_vars => [Abstract!Next]_Abstract!vars
  <2>. SUFFICES ASSUME IInv, [Next]_vars
                PROVE  [Abstract!Next]_Abstract!vars
    OBVIOUS
  <2>1. build' = build /\ Last' = Last
    BY SignStep, OthersIInv DEF Next, Last
  <2>2. CASE \E s \in Signature : all_sm' = Append(all_sm, s) /\ s.q = sk.idx
    <3>1. PICK s \in Signature : all_sm' = Append(all_sm, s) /\ s.q = sk.idx
      BY <2>2
    <3>2. /\ Spent' = Append(Spent, <<s.seeds, s.q>>)
          /\ Spent'[Len(Spent')] = <<s.seeds, s.q>>
          /\ Spent' # <<>>
      BY <3>1, SpentGrows
    <3>3. s.seeds \in Seeds /\ s.q \in 0..Last
      BY DEF Signature
    <3>4. \A j \in DOMAIN Spent : Spent[j][1] = s.seeds => Spent[j][2] < s.q
      <4>1. \A j \in DOMAIN all_sm : all_sm[j].q < s.q
        BY <3>1 DEF IInv
      <4>. QED  BY <4>1 DEF Spent
    <3>5. Abstract!Sign(s.seeds, s.q)
      BY <2>1, <3>2, <3>3, <3>4 DEF Abstract!Sign
    <3>. QED  BY <3>2, <3>3, <3>5 DEF Abstract!Next
  <2>3. CASE all_sm' = all_sm
    BY <2>1, <2>3 DEF Abstract!vars, Spent
  <2>4. \/ all_sm' = all_sm
        \/ \E s \in Signature : all_sm' = Append(all_sm, s) /\ s.q = sk.idx
    BY SignIInv, OthersIInv DEF Next
  <2>. QED  BY <2>2, <2>3, <2>4
<1>. QED  BY <1>1, <1>2, Invariance, PTL
          DEF Spec, ImplementsOneTimeKeys, Abstract!Spec

-----------------------------------------------------------------------------
(* A signature verifies unless the last one-time key made it.              *)
SpoiltIsLast == \A j \in DOMAIN all_sm :
                    xmssmt_core_sign_open(all_sm[j]) <=> all_sm[j].q < Last

(* How often the loops of main run.                                        *)
Rounds == IF build.driver = "bench" THEN build.N_SIGN ELSE Last + 3

(* The steps a driver has left at most, its return included.               *)
StepsLeft == CASE pc = "keypair" /\ build.driver = "bench" -> 2 * Rounds + 3
               [] pc = "keypair" /\ build.driver = "test"  -> Rounds + 2
               [] pc = "sign" /\ build.driver = "bench" -> 2 * Rounds + 2 - i
               [] pc = "sign" /\ build.driver = "test"  -> Rounds + 1 - i
               [] pc = "verify"                         -> Rounds + 1 - i
               [] OTHER                                 -> 0

(* A driver's verdict: the test succeeds, and so does a benchmark that     *)
(* leaves the last one-time key alone, but no other.                       *)
Verdict == /\ pc = "ok" => (build.driver = "bench" => build.N_SIGN <= Last)
           /\ pc = "failed" => build.driver = "bench" /\ build.N_SIGN > Last

(* The loops in step with the key: the key holds its seeds until its last  *)
(* index, the benchmark's counter is the index, and of the signatures that *)
(* were looked at all but the last key's were valid.                       *)
BenchInv ==
    build.driver = "bench" =>
        /\ \A j \in DOMAIN all_sm : all_sm[j].q = j - 1
        /\ pc = "sign" => i <= Rounds /\ sk.idx = i /\ Len(all_sm) = i
        /\ pc = "verify" => /\ i <= Rounds /\ Rounds <= Last + 1
                            /\ Len(all_sm) = Rounds
                            /\ n_valid = IF i <= Last THEN i ELSE Last

TestInv ==
    build.driver = "test" =>
        /\ pc # "verify"
        /\ pc = "sign" => /\ i <= Rounds
                          /\ i <= Last + 1 => sk.idx = i
                          /\ i > Last + 1 => sk.idx > Last

DriverInv ==
    /\ pc \in {"keypair", "sign", "verify", "ok", "failed"}
    /\ ret = 0
    /\ pc = "keypair" => i = 0
    /\ pc # "verify" => n_valid = 0 \/ pc \in {"ok", "failed"}
    /\ pc # "keypair" => (sk.seeds = "key" <=> sk.idx <= Last)
    /\ SpoiltIsLast /\ BenchInv /\ TestInv /\ Verdict

(* The numbers that bound the loops, and the values that the fields of the *)
(* key and the build can have.                                             *)
LEMMA Numbers ==
    ASSUME IInv
    PROVE  /\ Last \in Nat /\ i \in Nat /\ sk.idx \in Nat
           /\ build.N_SIGN \in Nat /\ Rounds \in Nat
           /\ build.driver \in {"bench", "test"}
           /\ build \in Builds
<1>1. PICK top \in Nat : /\ Last \in Nat /\ Last < top
                         /\ top = 2^build.index_bits - 1
  BY Bounds
<1>2. i \in Nat /\ sk.idx \in 0..top /\ build \in Builds
  BY <1>1 DEF IInv
<1>3. build.N_SIGN \in Nat /\ build.driver \in {"bench", "test"}
  BY <1>2, BuildsAssumption
<1>. QED  BY <1>1, <1>2, <1>3 DEF Rounds

(* Signing keeps the seeds exactly until the last index, whose signature   *)
(* is the one that they are missing from (xmssmt_core_sign).               *)
LEMMA SigningKeeps ==
    ASSUME IInv, sk.seeds = "key" <=> sk.idx <= Last,
           NEW m \in Nat, NEW r, r = xmssmt_core_sign(m)
    PROVE  /\ r.sk.seeds = "key" <=> r.sk.idx <= Last
           /\ r.ret = 0 => (xmssmt_core_sign_open(r.sm) <=> r.sm.q < Last)
<1>1. PICK top \in Nat, lim \in Nat :
          /\ lim = Last /\ lim < top
          /\ top = 2^build.index_bits - 1
          /\ 2^build.index_bits = top + 1
  BY Bounds
<1>2. PICK n \in 0..top : n = sk.idx
  BY <1>1 DEF IInv
<1>3. Deleted = [idx |-> top, seeds |-> "zero"]
  BY <1>1 DEF Deleted
<1>4. sk = [idx |-> n, seeds |-> sk.seeds]
  BY <1>2 DEF IInv
<1>5. CASE n > lim
  <2>1. r = [ret |-> -2, sk |-> Deleted]
    BY <1>1, <1>2, <1>5 DEF xmssmt_core_sign
  <2>. QED  BY <1>1, <1>3, <2>1
<1>6. CASE n = lim
  <2>1. r = [ret |-> 0,
             sk  |-> [Deleted EXCEPT !.idx = (n + 1) % (top + 1)],
             sm  |-> [m |-> m, q |-> n, field |-> Deleted.idx,
                      seeds |-> Deleted.seeds]]
    BY <1>1, <1>2, <1>6 DEF xmssmt_core_sign
  <2>2. (n + 1) % (top + 1) = n + 1
    BY <1>1, <1>6, SmallModulo
  <2>3. /\ r.sk = [idx |-> n + 1, seeds |-> "zero"]
        /\ r.sm.q = n /\ r.sm.seeds = "zero"
    BY <1>3, <2>1, <2>2
  <2>. QED  BY <1>1, <1>6, <2>3 DEF xmssmt_core_sign_open
<1>7. CASE n < lim
  <2>1. r = [ret |-> 0,
             sk  |-> [sk EXCEPT !.idx = (n + 1) % (top + 1)],
             sm  |-> [m |-> m, q |-> n, field |-> n, seeds |-> sk.seeds]]
    BY <1>1, <1>2, <1>7 DEF xmssmt_core_sign
  <2>2. (n + 1) % (top + 1) = n + 1
    BY <1>1, <1>7, SmallModulo
  <2>3. sk.seeds = "key"
    BY <1>1, <1>2, <1>7
  <2>4. /\ r.sk = [idx |-> n + 1, seeds |-> "key"]
        /\ r.sm.q = n /\ r.sm.field = n /\ r.sm.seeds = "key"
    BY <1>4, <2>1, <2>2, <2>3
  <2>. QED  BY <1>1, <1>7, <2>4 DEF xmssmt_core_sign_open
<1>. QED  BY <1>1, <1>2, <1>5, <1>6, <1>7

(* What a call of xmss_sign adds to the list, in either driver.            *)
LEMMA SpoiltGrows ==
    ASSUME IInv, SpoiltIsLast, sk.seeds = "key" <=> sk.idx <= Last,
           NEW m \in Nat, NEW r, r = xmssmt_core_sign(m), build' = build,
           all_sm' = IF r.ret = 0 THEN Append(all_sm, r.sm) ELSE all_sm
    PROVE  SpoiltIsLast'
<1>1. PICK n \in Nat : /\ n = Len(all_sm) /\ DOMAIN all_sm = 1..n
                       /\ all_sm \in Seq(Signature)
  BY DEF IInv
<1>2. Last' = Last
  BY DEF Last
<1>3. CASE r.ret = 0
  <2>1. /\ DOMAIN all_sm' = 1..(n+1)
        /\ \A j \in 1..n : all_sm'[j] = all_sm[j]
        /\ all_sm'[n+1] = r.sm
    BY <1>1, <1>3
  <2>2. ASSUME NEW j \in DOMAIN all_sm'
        PROVE  xmssmt_core_sign_open(all_sm'[j]) <=> all_sm'[j].q < Last
    <3>1. CASE j \in 1..n
      BY <1>1, <2>1, <3>1 DEF SpoiltIsLast
    <3>2. CASE j = n + 1
      BY <1>3, <2>1, <3>2, SigningKeeps
    <3>. QED  BY <1>1, <2>1, <2>2, <3>1, <3>2
  <2>. QED  BY <1>2, <2>2 DEF SpoiltIsLast
<1>4. CASE r.ret # 0
  BY <1>2, <1>4 DEF SpoiltIsLast
<1>. QED  BY <1>3, <1>4

(* The benchmark signs: its counter, the index and the length of the list  *)
(* move together, and it gives up only when no one-time key is left.       *)
LEMMA BenchDriver ==
    ASSUME IInv, DriverInv, BenchSign
    PROVE  DriverInv' /\ StepsLeft' < StepsLeft
<1>1. PICK r : r = xmssmt_core_sign(i)
  OBVIOUS
<1>2. PICK lim \in Nat, k \in Nat, n \in Nat :
        lim = Last /\ k = i /\ n = build.N_SIGN
  BY Numbers
<1>3. /\ build.driver = "bench" /\ pc = "sign" /\ k < n /\ Rounds = n
      /\ sk.idx = k /\ Len(all_sm) = k /\ n_valid = 0 /\ ret = 0
      /\ sk.seeds = "key" <=> sk.idx <= Last
      /\ \A j \in DOMAIN all_sm : all_sm[j].q = j - 1
      /\ SpoiltIsLast
  BY <1>2 DEF BenchSign, DriverInv, BenchInv, Rounds
<1>4. /\ build' = build /\ ret' = 0 /\ n_valid' = 0 /\ sk' = r.sk
      /\ Last' = Last /\ Rounds' = Rounds
      /\ all_sm' = IF r.ret = 0 THEN Append(all_sm, r.sm) ELSE all_sm
      /\ r.ret = 0 => i' = i + 1 /\ pc' = "sign"
      /\ r.ret # 0 => i' = i /\ pc' = "failed"
  BY <1>1, <1>3 DEF BenchSign, Last, Rounds
<1>5. SpoiltIsLast' /\ (sk'.seeds = "key" <=> sk'.idx <= Last)
  BY <1>1, <1>2, <1>3, <1>4, SpoiltGrows, SigningKeeps
<1>6. \/ r.ret = 0 /\ k <= lim /\ sk'.idx = k + 1 /\ r.sm.q = k
      \/ r.ret # 0 /\ k > lim
  BY <1>1, <1>2, <1>3, <1>4, Signing
<1>7. DOMAIN all_sm = 1..k /\ all_sm \in Seq(Signature)
  BY <1>2, <1>3 DEF IInv
<1>8. CASE r.ret = 0
  <2>1. /\ DOMAIN all_sm' = 1..(k+1) /\ Len(all_sm') = k + 1
        /\ \A j \in 1..k : all_sm'[j] = all_sm[j]
        /\ all_sm'[k+1] = r.sm
    BY <1>2, <1>3, <1>4, <1>7, <1>8
  <2>2. \A j \in DOMAIN all_sm' : all_sm'[j].q = j - 1
    <3>1. \A j \in 1..(k+1) : j \in 1..k \/ j = k + 1
      OBVIOUS
    <3>2. k = (k + 1) - 1
      OBVIOUS
    <3>. QED  BY <1>3, <1>6, <1>7, <1>8, <2>1, <3>1, <3>2
  <2>3. i' = k + 1 /\ k + 1 <= n /\ pc' = "sign" /\ sk'.idx = k + 1
    BY <1>2, <1>3, <1>4, <1>6, <1>8
  <2>4. BenchInv'
    BY <1>2, <1>3, <1>4, <2>1, <2>2, <2>3 DEF BenchInv
  <2>5. DriverInv'
    BY <1>3, <1>4, <1>5, <2>3, <2>4 DEF DriverInv, TestInv, Verdict
  <2>6. StepsLeft = 2 * n + 2 - k /\ StepsLeft' = 2 * n + 2 - (k + 1)
    BY <1>2, <1>3, <1>4, <2>3 DEF StepsLeft
  <2>7. 2 * n + 2 - (k + 1) < 2 * n + 2 - k
    OBVIOUS
  <2>. QED  BY <2>5, <2>6, <2>7
<1>9. CASE r.ret # 0
  <2>1. pc' = "failed" /\ all_sm' = all_sm /\ n > lim
    BY <1>3, <1>4, <1>6, <1>9
  <2>2. DriverInv'
    BY <1>2, <1>3, <1>4, <1>5, <2>1
       DEF DriverInv, BenchInv, TestInv, Verdict
  <2>3. StepsLeft = 2 * n + 2 - k /\ StepsLeft' = 0
    BY <1>2, <1>3, <1>4, <2>1 DEF StepsLeft
  <2>4. 0 < 2 * n + 2 - k
    BY <1>3
  <2>. QED  BY <2>2, <2>3, <2>4
<1>. QED  BY <1>8, <1>9

(* The test signs: the first 2^h calls succeed and the others are refused, *)
(* which is what it compares with.                                         *)
LEMMA TestDriver ==
    ASSUME IInv, DriverInv, TestSign
    PROVE  DriverInv' /\ StepsLeft' < StepsLeft
<1>1. PICK r : r = xmssmt_core_sign(0)
  OBVIOUS
<1>2. PICK lim \in Nat, k \in Nat, n \in Nat :
        lim = Last /\ k = i /\ n = sk.idx
  BY Numbers
<1>3. /\ build.driver = "test" /\ pc = "sign" /\ k < lim + 3
      /\ Rounds = lim + 3 /\ n_valid = 0 /\ ret = 0
      /\ k <= lim + 1 => n = k
      /\ k > lim + 1 => n > lim
      /\ sk.seeds = "key" <=> sk.idx <= Last
      /\ SpoiltIsLast
  BY <1>2 DEF TestSign, DriverInv, TestInv, Rounds
<1>4. /\ build' = build /\ n_valid' = 0 /\ sk' = r.sk /\ pc' = "sign"
      /\ i' = k + 1 /\ Last' = Last /\ Rounds' = Rounds
      /\ all_sm' = IF r.ret = 0 THEN Append(all_sm, r.sm) ELSE all_sm
      /\ ret' = IF (k <= lim) # (r.ret = 0) THEN -1 ELSE 0
  BY <1>1, <1>2, <1>3 DEF TestSign, Last, Rounds
<1>5. SpoiltIsLast' /\ (sk'.seeds = "key" <=> sk'.idx <= Last)
  BY <1>1, <1>2, <1>3, <1>4, SpoiltGrows, SigningKeeps
<1>6. \/ r.ret = 0 /\ n <= lim /\ sk'.idx = n + 1
      \/ r.ret = -2 /\ n > lim /\ \A q \in 0..lim : q < sk'.idx
  BY <1>1, <1>2, <1>3, <1>4, Signing
<1>7. CASE k <= lim
  <2>1. r.ret = 0 /\ sk'.idx = k + 1 /\ n = k
    BY <1>3, <1>6, <1>7
  <2>2. ret' = 0
    BY <1>4, <1>7, <2>1
  <2>3. TestInv'
    BY <1>2, <1>3, <1>4, <1>7, <2>1 DEF TestInv
  <2>. QED  BY <1>2, <1>3, <1>4, <1>5, <2>2, <2>3
            DEF DriverInv, BenchInv, Verdict, StepsLeft
<1>8. CASE k > lim
  <2>1. n > lim
    BY <1>3, <1>8
  <2>2. r.ret = -2 /\ lim < sk'.idx
    <3>1. lim \in 0..lim
      OBVIOUS
    <3>2. ~(n <= lim)
      BY <2>1
    <3>. QED  BY <1>6, <3>1, <3>2
  <2>3. ret' = 0
    <3>1. ~(k <= lim) /\ r.ret # 0
      BY <1>8, <2>2
    <3>. QED  BY <1>4, <3>1
  <2>4. TestInv'
    BY <1>2, <1>3, <1>4, <1>8, <2>2 DEF TestInv
  <2>. QED  BY <1>2, <1>3, <1>4, <1>5, <2>3, <2>4
            DEF DriverInv, BenchInv, Verdict, StepsLeft
<1>. QED  BY <1>7, <1>8

(* Key generation, which stores the drawn seeds and index 0.               *)
LEMMA KeypairDriver ==
    ASSUME IInv, DriverInv, xmss_keypair
    PROVE  DriverInv' /\ StepsLeft' < StepsLeft
<1>1. PICK lim \in Nat, n \in Nat : lim = Last /\ n = Rounds
  BY Numbers
<1>2. build.driver \in {"bench", "test"}
  BY Numbers
<1>3. /\ pc = "keypair" /\ pc' = "sign" /\ build' = build /\ i = 0 /\ i' = 0
      /\ all_sm = <<>> /\ all_sm' = <<>> /\ ret = 0 /\ ret' = 0
      /\ n_valid' = 0 /\ sk' = [idx |-> 0, seeds |-> "key"]
      /\ Last' = Last /\ Rounds' = Rounds
  BY DEF xmss_keypair, DriverInv, IInv, Last, Rounds
<1>4. Len(all_sm') = 0 /\ DOMAIN all_sm' = {}
  BY <1>3
<1>5. SpoiltIsLast'
  BY <1>4 DEF SpoiltIsLast
<1>6. BenchInv' /\ TestInv' /\ Verdict'
  BY <1>1, <1>3, <1>4 DEF BenchInv, TestInv, Verdict
<1>7. DriverInv'
  BY <1>1, <1>3, <1>5, <1>6 DEF DriverInv
<1>8. StepsLeft' < StepsLeft
  BY <1>1, <1>2, <1>3 DEF StepsLeft
<1>. QED  BY <1>7, <1>8

(* From the loop that signs to the loop that verifies.                     *)
LEMMA AllSignedDriver ==
    ASSUME IInv, DriverInv, AllSigned
    PROVE  DriverInv' /\ StepsLeft' < StepsLeft
<1>1. PICK lim \in Nat, n \in Nat : lim = Last /\ n = Rounds
  BY Numbers
<1>2. /\ build.driver = "bench" /\ pc = "sign" /\ pc' = "verify"
      /\ i = n /\ i' = 0 /\ sk.idx = n /\ Len(all_sm) = n /\ n_valid = 0
      /\ UNCHANGED <<build, sk, all_sm, ret, n_valid>>
      /\ Last' = Last /\ Rounds' = Rounds
  BY <1>1 DEF AllSigned, DriverInv, BenchInv, Last, Rounds
<1>3. n <= lim + 1
  <2>1. CASE n = 0
    BY <2>1
  <2>2. CASE n > 0
    <3>1. n \in DOMAIN all_sm /\ all_sm \in Seq(Signature)
      BY <1>2, <2>2 DEF IInv
    <3>2. all_sm[n].q \in 0..lim
      <4>1. all_sm[n] \in Signature
        BY <3>1
      <4>. QED  BY <1>1, <4>1 DEF Signature
    <3>3. all_sm[n].q = n - 1
      BY <1>2, <3>1 DEF DriverInv, BenchInv
    <3>. QED  BY <3>2, <3>3
  <2>. QED  BY <2>1, <2>2
<1>4. BenchInv'
  BY <1>1, <1>2, <1>3 DEF DriverInv, BenchInv
<1>5. DriverInv'
  BY <1>2, <1>4 DEF DriverInv, SpoiltIsLast, TestInv, Verdict
<1>6. StepsLeft' < StepsLeft
  BY <1>1, <1>2 DEF StepsLeft
<1>. QED  BY <1>5, <1>6

(* The verifying loop counts every signature but the last key's.           *)
LEMMA VerifyDriver ==
    ASSUME IInv, DriverInv, Verify
    PROVE  DriverInv' /\ StepsLeft' < StepsLeft
<1>1. PICK lim \in Nat, k \in Nat, n \in Nat :
        lim = Last /\ k = i /\ n = build.N_SIGN
  BY Numbers
<1>2. build.driver = "bench"
  BY Numbers DEF Verify, DriverInv, TestInv
<1>3. /\ pc = "verify" /\ pc' = "verify" /\ k < n /\ Rounds = n
      /\ i' = k + 1 /\ n <= lim + 1 /\ Len(all_sm) = n
      /\ n_valid = IF k <= lim THEN k ELSE lim
      /\ n_valid' = IF xmssmt_core_sign_open(all_sm[k+1])
                      THEN n_valid + 1 ELSE n_valid
      /\ UNCHANGED <<build, sk, all_sm, ret>>
      /\ Last' = Last /\ Rounds' = Rounds
  BY <1>1, <1>2 DEF Verify, DriverInv, BenchInv, Last, Rounds
<1>4. k + 1 \in DOMAIN all_sm
  BY <1>3 DEF IInv
<1>5. all_sm[k+1].q = k
  <2>1. all_sm[k+1].q = (k + 1) - 1
    BY <1>2, <1>4 DEF DriverInv, BenchInv
  <2>. QED  BY <2>1
<1>6. xmssmt_core_sign_open(all_sm[k+1]) <=> k < lim
  BY <1>1, <1>4, <1>5 DEF DriverInv, SpoiltIsLast
<1>7. n_valid' = IF k + 1 <= lim THEN k + 1 ELSE lim
  BY <1>3, <1>6
<1>8. BenchInv'
  BY <1>1, <1>3, <1>7 DEF DriverInv, BenchInv
<1>9. DriverInv'
  BY <1>2, <1>3, <1>8 DEF DriverInv, SpoiltIsLast, TestInv, Verdict
<1>10. StepsLeft' < StepsLeft
  BY <1>1, <1>3 DEF StepsLeft
<1>. QED  BY <1>9, <1>10

(* main returns: the benchmark compares what it counted with what it made. *)
LEMMA ReturnDriver ==
    ASSUME IInv, DriverInv, Return
    PROVE  DriverInv' /\ StepsLeft' < StepsLeft
<1>1. PICK lim \in Nat, n \in Nat :
        lim = Last /\ n = build.N_SIGN
  BY Numbers
<1>2. /\ pc \in {"sign", "verify"} /\ pc' \in {"ok", "failed"}
      /\ UNCHANGED <<build, sk, i, all_sm, ret, n_valid>>
      /\ Last' = Last /\ Rounds' = Rounds /\ ret = 0
      /\ build.driver \in {"bench", "test"}
  BY Numbers DEF Return, Last, Rounds, DriverInv
<1>3. Verdict'
  <2>1. CASE pc = "verify"
    <3>1. /\ build.driver = "bench" /\ i = n /\ Rounds = n
          /\ n <= lim + 1 /\ n_valid = IF n <= lim THEN n ELSE lim
          /\ pc' = IF n_valid = n THEN "ok" ELSE "failed"
      BY <1>1, <1>2, <2>1
         DEF Return, DriverInv, BenchInv, TestInv, Rounds
    <3>2. pc' = IF n <= lim THEN "ok" ELSE "failed"
      BY <3>1
    <3>. QED  BY <1>1, <1>2, <3>1, <3>2 DEF Verdict
  <2>2. CASE pc = "sign"
    <3>1. build.driver = "test" /\ pc' = "ok"
      BY <1>2, <2>2 DEF Return
    <3>. QED  BY <1>2, <3>1 DEF Verdict
  <2>. QED  BY <1>2, <2>1, <2>2
<1>4. DriverInv'
  BY <1>2, <1>3 DEF DriverInv, SpoiltIsLast, BenchInv, TestInv
<1>5. StepsLeft' < StepsLeft
  <2>1. StepsLeft' = 0
    BY <1>2 DEF StepsLeft
  <2>2. PICK k \in Nat, m \in Nat : k = i /\ m = Rounds
    BY Numbers
  <2>3. k <= m /\ (StepsLeft = 2 * m + 2 - k \/ StepsLeft = m + 1 - k)
    BY <1>2, <2>2 DEF StepsLeft, DriverInv, BenchInv, TestInv
  <2>4. 0 < 2 * m + 2 - k /\ 0 < m + 1 - k
    BY <2>3
  <2>. QED  BY <2>1, <2>3, <2>4
<1>. QED  BY <1>4, <1>5

(* What is left is a number, and no loop overruns its bound.               *)
StepsInv == /\ StepsLeft \in Nat
            /\ StepsLeft = 0 <=> pc \in {"ok", "failed"}
            /\ pc \in {"sign", "verify"} => i <= Rounds

LEMMA StepsBound == ASSUME IInv, DriverInv PROVE StepsInv
<1>1. PICK k \in Nat, n \in Nat : k = i /\ n = Rounds
  BY Numbers
<1>2. /\ build.driver \in {"bench", "test"}
      /\ pc \in {"keypair", "sign", "verify", "ok", "failed"}
  BY Numbers DEF DriverInv
<1>3. pc \in {"sign", "verify"} => k <= n
  BY <1>1, <1>2 DEF DriverInv, BenchInv, TestInv
<1>. QED  BY <1>1, <1>2, <1>3 DEF StepsInv, StepsLeft

(* The loops stay in step with the key in every reachable state.           *)
LEMMA DriverInvariance == Spec => []DriverInv
<1>1. Init => DriverInv
  <2>. SUFFICES ASSUME Init PROVE DriverInv
    OBVIOUS
  <2>1. DOMAIN all_sm = {}
    BY DEF Init
  <2>. QED  BY <2>1 DEF Init, DriverInv, SpoiltIsLast, BenchInv, TestInv,
                        Verdict
<1>2. IInv /\ DriverInv /\ [Next]_vars => DriverInv'
  <2>1. CASE UNCHANGED vars
    BY <2>1 DEF vars, DriverInv, SpoiltIsLast, BenchInv, TestInv, Verdict,
                Rounds, Last, xmssmt_core_sign_open
  <2>. QED  BY <2>1, KeypairDriver, BenchDriver, TestDriver, AllSignedDriver,
               VerifyDriver, ReturnDriver DEF Next
<1>. QED  BY <1>1, <1>2, Invariance, PTL DEF Spec

(* A used-up key spoils exactly the signature that used it up: of those    *)
(* that xmss_sign returned 0 for, the one of index 2^h - 1 cannot be       *)
(* verified and every other can (xmssmt_core_sign, xmss_core.c:215).       *)
THEOREM OnlyTheLastIsSpoilt == Spec => []SpoiltIsLast
<1>1. DriverInv => SpoiltIsLast
  BY DEF DriverInv
<1>. QED  BY <1>1, DriverInvariance, PTL

(* What the drivers return: xmss_max_signatures succeeds for every height, *)
(* and the benchmark succeeds if and only if it makes fewer than 2^h       *)
(* signatures (bench_xmss.c:33 has 1024 for h = 10 as the maximum).        *)
THEOREM VerdictIs == Spec => []Verdict
<1>1. DriverInv => Verdict
  BY DEF DriverInv
<1>. QED  BY <1>1, DriverInvariance, PTL

(* Both drivers run to a verdict: each step leaves fewer, nothing is left  *)
(* exactly after the return, and the counter of a loop cannot miss the     *)
(* value at which the loop is left.                                        *)
THEOREM DriversAreBounded ==
    Spec => []StepsInv /\ [][StepsLeft' < StepsLeft]_vars
<1>1. IInv /\ DriverInv => StepsInv
  BY StepsBound
<1>2. IInv /\ DriverInv /\ [Next]_vars => [StepsLeft' < StepsLeft]_vars
  BY KeypairDriver, BenchDriver, TestDriver, AllSignedDriver, VerifyDriver,
     ReturnDriver DEF Next
<1>. QED  BY <1>1, <1>2, Invariance, DriverInvariance, PTL DEF Spec
=============================================================================
