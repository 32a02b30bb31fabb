---------------------------- MODULE SpongeProofs ----------------------------
(***************************************************************************)
(* Proofs about SHA3-256.  First the inputs: the marker byte and the fixed *)
(* lengths of seeds, digests and period numbers keep all calls of the      *)
(* wrappers apart.  Then the hash: every loop of keccakf is a step mapping *)
(* of FIPS 202, its tables are what the standard's definitions give, a     *)
(* block absorbed is the standard's block, and so the code implements the  *)
(* standard for every input.                                               *)
(***************************************************************************)
EXTENDS Sponge, SequenceTheorems, FiniteSetTheorems, WellFoundedInduction,
        TLAPS

Bytes == 0..255

(* ev_seed_t and the digests of the commitment tree (EV_SEED_BYTES).       *)
Bytes32 == {s \in Seq(Bytes) : Len(s) = 32}

(* A uint32_t.                                                             *)
Words == 0..2^32-1

(* All that the code ever hashes with SHA3-256.                            *)
ChildCalls  == {<<"child", s, dom>> : s \in Bytes32, dom \in {1, 2}}
NodeCalls   == {<<"node", l, r>> : l \in Bytes32, r \in Bytes32}
RhoCalls    == {<<"rho", s, p>> : s \in Bytes32, p \in Words}
DigestCalls == {<<"digest", key>> : key \in Seq(Bytes)}
RawCalls    == {<<"raw", s>> : s \in Seq(Bytes)}

WrapperCalls == ChildCalls \cup NodeCalls \cup RhoCalls \cup DigestCalls

-----------------------------------------------------------------------------
LEMMA MarkedApart ==
    ASSUME NEW x \in Bytes, NEW a \in Seq(Bytes),
           NEW y \in Bytes, NEW b \in Seq(Bytes), <<x>> \o a = <<y>> \o b
    PROVE  x = y /\ a = b
<1>1. <<x>> \in Seq(Bytes) /\ <<y>> \in Seq(Bytes)
  OBVIOUS
<1>2. (<<x>> \o a)[1] = x /\ (<<y>> \o b)[1] = y
  OBVIOUS
<1>3. x = y
  BY <1>2
<1>4. <<x>> \o a = <<x>> \o b
  BY <1>3
<1>. QED  BY <1>1, <1>3, <1>4, ConcatSimplifications

(* Two parts whose first has a fixed length can be told apart.             *)
LEMMA PartsApart ==
    ASSUME NEW a \in Bytes32, NEW c \in Bytes32, NEW b \in Seq(Bytes),
           NEW d \in Seq(Bytes), a \o b = c \o d
    PROVE  a = c /\ b = d
<1>1. a \in Seq(Bytes) /\ c \in Seq(Bytes) /\ Len(a) = 32 /\ Len(c) = 32
  BY DEF Bytes32
<1>2. ASSUME NEW s \in Bytes32, NEW t \in Seq(Bytes), NEW i \in 1..32
      PROVE  (s \o t)[i] = s[i]
  <2>1. s \in Seq(Bytes) /\ Len(s) = 32 /\ Len(t) \in Nat
    BY LenProperties DEF Bytes32
  <2>2. i \in 1..Len(s) + Len(t) /\ i <= Len(s)
    BY <2>1
  <2>. QED  BY <2>1, <2>2, ConcatProperties
<1>3. a = c
  <2>1. ASSUME NEW i \in 1..32 PROVE a[i] = c[i]
    <3>1. (a \o b)[i] = a[i]
      BY <1>2
    <3>2. (c \o d)[i] = c[i]
      BY <1>2
    <3>. QED  BY <3>1, <3>2
  <2>2. \A i \in 1..Len(a) : a[i] = c[i]
    BY <1>1, <2>1
  <2>3. Len(a) = Len(c)
    BY <1>1
  <2>. QED  BY <1>1, <2>2, <2>3, SeqEqual, Zenon
<1>. QED  BY <1>1, <1>3, ConcatSimplifications

(* The four bytes of a period number.                                      *)
LEMMA PeriodBytes ==
    ASSUME NEW p \in Words
    PROVE  be32(p) \in Seq(Bytes)
<1>1. 2^32 = 4294967296 /\ 2^24 = 16777216 /\ 2^16 = 65536 /\ 2^8 = 256
  OBVIOUS
<1>2. /\ p \div 2^24 \in Bytes /\ (p \div 2^16) % 256 \in Bytes
      /\ (p \div 2^8) % 256 \in Bytes /\ p % 256 \in Bytes
  BY <1>1 DEF Bytes, Words
<1>. QED  BY <1>2 DEF be32

LEMMA PeriodsApart ==
    ASSUME NEW p \in Words, NEW q \in Words, be32(p) = be32(q)
    PROVE  p = q
<1>1. 2^24 = 16777216 /\ 2^16 = 65536 /\ 2^8 = 256 /\ p \in Nat /\ q \in Nat
  BY DEF Words
<1>. QED  BY <1>1 DEF be32

(* The marker byte, what follows it, and which calls there are of each     *)
(* wrapper.                                                                *)
Shape(c, x, rest) ==
    /\ Input(c) = <<x>> \o rest
    /\ x \in {1, 2, 4, 6, 7}
    /\ x \in {1, 2} => c = <<"child", rest, x>>
    /\ x = 4 => \E l \in Bytes32, r \in Bytes32 :
                   c = <<"node", l, r>> /\ rest = l \o r
    /\ x = 7 => \E s \in Bytes32, p \in Words :
                   c = <<"rho", s, p>> /\ rest = s \o be32(p)
    /\ x = 6 => c = <<"digest", rest>>

LEMMA Shapes ==
    ASSUME NEW c \in WrapperCalls
    PROVE  \E x \in Bytes, rest \in Seq(Bytes) : Shape(c, x, rest)
<1>1. Bytes32 \subseteq Seq(Bytes) /\ {1, 2, 4, 6, 7} \subseteq Bytes
  BY DEF Bytes32, Bytes
<1>2. \A x \in Bytes : <<x>> \in Seq(Bytes)
  OBVIOUS
<1>3. CASE c \in ChildCalls
  <2>1. PICK s \in Bytes32, dom \in {1, 2} : c = <<"child", s, dom>>
    BY <1>3 DEF ChildCalls
  <2>2. Input(c) = <<dom>> \o s
    BY <2>1 DEF Input
  <2>3. dom \in {1, 2, 4, 6, 7} /\ dom \notin {4, 6, 7}
    OBVIOUS
  <2>4. Shape(c, dom, s)
    BY <2>1, <2>2, <2>3, Zenon DEF Shape
  <2>. QED  BY <1>1, <2>3, <2>4
<1>4. CASE c \in NodeCalls
  <2>1. PICK l \in Bytes32, r \in Bytes32 : c = <<"node", l, r>>
    BY <1>4 DEF NodeCalls
  <2>2. Input(c) = (<<4>> \o l) \o r
    BY <2>1 DEF Input
  <2>3. Input(c) = <<4>> \o (l \o r) /\ l \o r \in Seq(Bytes)
    BY <1>1, <1>2, <2>2, ConcatAssociative, ConcatProperties
  <2>4. Shape(c, 4, l \o r)
    <3>1. 4 \in {1, 2, 4, 6, 7} /\ 4 \notin {1, 2, 6, 7}
      OBVIOUS
    <3>. QED  BY <2>1, <2>3, <3>1, Zenon DEF Shape
  <2>. QED  BY <1>1, <2>3, <2>4
<1>5. CASE c \in RhoCalls
  <2>1. PICK s \in Bytes32, p \in Words : c = <<"rho", s, p>>
    BY <1>5 DEF RhoCalls
  <2>2. Input(c) = (<<7>> \o s) \o be32(p)
    BY <2>1 DEF Input
  <2>3. be32(p) \in Seq(Bytes)
    BY PeriodBytes
  <2>4. Input(c) = <<7>> \o (s \o be32(p)) /\ s \o be32(p) \in Seq(Bytes)
    BY <1>1, <1>2, <2>2, <2>3, ConcatAssociative, ConcatProperties
  <2>5. Shape(c, 7, s \o be32(p))
    <3>1. 7 \in {1, 2, 4, 6, 7} /\ 7 \notin {1, 2, 4, 6}
      OBVIOUS
    <3>. QED  BY <2>1, <2>4, <3>1, Zenon DEF Shape
  <2>. QED  BY <1>1, <2>4, <2>5
<1>6. CASE c \in DigestCalls
  <2>1. PICK key \in Seq(Bytes) : c = <<"digest", key>>
    BY <1>6 DEF DigestCalls
  <2>2. Input(c) = <<6>> \o key
    BY <2>1 DEF Input
  <2>3. Shape(c, 6, key)
    <3>1. 6 \in {1, 2, 4, 6, 7} /\ 6 \notin {1, 2, 4, 7}
      OBVIOUS
    <3>. QED  BY <2>1, <2>2, <3>1, Zenon DEF Shape
  <2>. QED  BY <1>1, <2>1, <2>3
<1>. QED  BY <1>3, <1>4, <1>5, <1>6 DEF WrapperCalls

LEMMA CallsApart ==
    ASSUME NEW c \in WrapperCalls, NEW d \in WrapperCalls,
           Input(c) = Input(d)
    PROVE  c = d
<1>1. PICK x \in Bytes, a \in Seq(Bytes) : Shape(c, x, a)
  BY Shapes
<1>2. PICK y \in Bytes, b \in Seq(Bytes) : Shape(d, y, b)
  BY Shapes
<1>3. x = y /\ a = b
  <2>1. <<x>> \o a = <<y>> \o b
    BY <1>1, <1>2 DEF Shape
  <2>. QED  BY <2>1, MarkedApart
<1>4. CASE x \in {1, 2, 6}
  BY <1>1, <1>2, <1>3, <1>4 DEF Shape
<1>5. CASE x = 4
  <2>1. PICK l \in Bytes32, r \in Bytes32 : c = <<"node", l, r>> /\ a = l \o r
    BY <1>1, <1>5 DEF Shape
  <2>2. PICK u \in Bytes32, v \in Bytes32 : d = <<"node", u, v>> /\ b = u \o v
    BY <1>2, <1>3, <1>5 DEF Shape
  <2>3. r \in Seq(Bytes) /\ v \in Seq(Bytes)
    BY DEF Bytes32
  <2>4. l \o r = u \o v
    BY <1>3, <2>1, <2>2
  <2>5. l = u /\ r = v
    <3>1. \A e \in Seq(Bytes), f \in Seq(Bytes) :
             l \o e = u \o f => l = u /\ e = f
      BY <2>1, <2>2, PartsApart
    <3>. QED  BY <2>3, <2>4, <3>1
  <2>. QED  BY <2>1, <2>2, <2>5
<1>6. CASE x = 7
  <2>1. PICK s \in Bytes32, p \in Words :
           c = <<"rho", s, p>> /\ a = s \o be32(p)
    BY <1>1, <1>6 DEF Shape
  <2>2. PICK u \in Bytes32, q \in Words :
           d = <<"rho", u, q>> /\ b = u \o be32(q)
    BY <1>2, <1>3, <1>6 DEF Shape
  <2>3. s = u /\ be32(p) = be32(q)
    BY <1>3, <2>1, <2>2, PartsApart, PeriodBytes
  <2>. QED  BY <2>1, <2>2, <2>3, PeriodsApart
<1>7. x \in {1, 2, 6} \/ x = 4 \/ x = 7
  BY <1>1 DEF Shape
<1>. QED  BY <1>4, <1>5, <1>6, <1>7

-----------------------------------------------------------------------------
(* No two calls of the wrappers hash the same bytes, whatever seeds,       *)
(* nodes, keys and period numbers they are given (ev_derive_child,         *)
(* ev_hash_node, ev_period_rho, ev_merkle_leafdigest).                     *)
THEOREM InputsNeverCollide ==
    ASSUME Calls \subseteq RawCalls \cup WrapperCalls
    PROVE  Spec => []InputsDiffer
<1> DEFINE Chosen == call \in Calls
<1>1. Init => Chosen
  BY DEF Init
<1>2. Chosen /\ [Next]_vars => Chosen'
  <2>1. [Next]_vars => call' = call
    BY Zenon DEF Next, vars, AbsorbBlock, AbsorbPadded, Round, Squeeze
  <2>. QED  BY <2>1
<1>3. Chosen => InputsDiffer
  <2>1. \A c \in Calls : c[1] # "raw" => c \in WrapperCalls
    BY DEF RawCalls
  <2>. QED  BY <2>1, CallsApart DEF InputsDiffer
<1>. QED  BY <1>1, <1>2, <1>3, PTL DEF Spec

-----------------------------------------------------------------------------
(* The state array, and the first step mapping: the parity of a column.    *)

LEMMA Least ==
    ASSUME NEW S \in SUBSET Nat, S # {}
    PROVE  \E m \in S : \A n \in S : m <= n
<1>1. PICK m \in S : \A n \in S : ~(<<n, m>> \in OpToRel(<, Nat))
  BY NatLessThanWellFounded, WFMin, Zenon
<1>2. \A n \in S : ~(n < m)
  BY <1>1, Zenon DEF OpToRel
<1>. QED  BY <1>2

LEMMA SetInduction ==
    ASSUME NEW S, 0 \in S, \A n \in Nat : n \in S => n+1 \in S
    PROVE  Nat \subseteq S
<1>. SUFFICES ASSUME Nat \ S # {} PROVE FALSE
  OBVIOUS
<1>1. PICK m \in Nat \ S : \A n \in Nat \ S : m <= n
  BY Least
<1>2. m # 0 /\ m - 1 \in Nat /\ m - 1 \in S
  BY <1>1
<1>. QED  BY <1>1, <1>2

Lanes == [0..24 -> SUBSET (0..63)]

Lane(x, y) == 5*y + x

LEMMA LaneOf ==
    ASSUME NEW x \in 0..4, NEW y \in 0..4
    PROVE  /\ Lane(x, y) \in 0..24
           /\ Lane(x, y) % 5 = x
           /\ Lane(x, y) \div 5 = y
           /\ \A k \in 0..24 : k % 5 = x /\ k \div 5 = y => k = Lane(x, y)
BY DEF Lane

LEMMA LaneOnto ==
    \A k \in 0..24 : \E x \in 0..4, y \in 0..4 : k = Lane(x, y)
<1>. TAKE k \in 0..24
<1>1. k = Lane(k % 5, k \div 5) /\ k % 5 \in 0..4 /\ k \div 5 \in 0..4
  BY DEF Lane
<1>. QED  BY <1>1

LEMMA InArray ==
    ASSUME NEW s \in Lanes, NEW x \in 0..4, NEW y \in 0..4, NEW z \in 0..63
    PROVE  <<x, y, z>> \in Array(s) <=> z \in s[Lane(x, y)]
<1>1. <<x, y, z>> \in Array(s) <=>
        \E k \in 0..24 : <<x, y, z>> \in {<<k % 5, k \div 5, b>> : b \in s[k]}
  BY Zenon DEF Array
<1>2. ASSUME NEW k \in 0..24
      PROVE  <<x, y, z>> \in {<<k % 5, k \div 5, b>> : b \in s[k]} <=>
               k = Lane(x, y) /\ z \in s[k]
  BY LaneOf
<1>. QED  BY <1>1, <1>2, LaneOf

LEMMA ArrayCube ==
    ASSUME NEW s \in Lanes
    PROVE  Array(s) \subseteq Standard!Cube
<1>1. \A k \in 0..24 : k % 5 \in 0..4 /\ k \div 5 \in 0..4
  OBVIOUS
<1>2. \A k \in 0..24 : s[k] \subseteq 0..63
  BY DEF Lanes
<1>3. \A k \in 0..24 :
        {<<k % 5, k \div 5, z>> : z \in s[k]} \subseteq Standard!Cube
  BY <1>1, <1>2 DEF Standard!Cube
<1>. QED  BY <1>3, Zenon DEF Array

LEMMA Triple ==
    \A X, Y, Z : \A p \in X \X Y \X Z :
       \E x \in X, y \in Y, z \in Z : p = <<x, y, z>>
<1>1. ASSUME NEW X, NEW Y, NEW Z, NEW p \in X \X Y \X Z
      PROVE  /\ p = <<p[1], p[2], p[3]>>
             /\ p[1] \in X /\ p[2] \in Y /\ p[3] \in Z
  OBVIOUS
<1>. QED  BY <1>1

LEMMA CubePoint ==
    ASSUME NEW p \in Standard!Cube
    PROVE  \E x \in 0..4, y \in 0..4, z \in 0..63 : p = <<x, y, z>>
<1>1. PICK F, G : F = 0..4 /\ G = 0..63
  OBVIOUS
<1>2. p \in F \X F \X G
  BY <1>1 DEF Standard!Cube
<1>3. \E x \in F, y \in F, z \in G : p = <<x, y, z>>
  BY <1>2, Triple
<1>. QED  BY <1>1, <1>3

Agree(a, b) == \A x \in 0..4, y \in 0..4, z \in 0..63 :
                  <<x, y, z>> \in a <=> <<x, y, z>> \in b

LEMMA CubeEqual ==
    ASSUME NEW a \in SUBSET Standard!Cube, NEW b \in SUBSET Standard!Cube,
           Agree(a, b)
    PROVE  a = b
<1>1. ASSUME NEW p \in Standard!Cube
      PROVE  p \in a <=> p \in b
  <2>1. PICK x \in 0..4, y \in 0..4, z \in 0..63 : p = <<x, y, z>>
    BY CubePoint, Zenon
  <2>. QED  BY <2>1, Zenon DEF Agree
<1>. QED  BY <1>1, Zenon

LEMMA InSymDiff ==
    ASSUME NEW a, NEW b, NEW e
    PROVE  e \in SymDiff(a, b) <=> ~(e \in a <=> e \in b)
BY DEF SymDiff

LEMMA ROLIs ==
    ASSUME NEW a \in SUBSET (0..63), NEW n \in 0..63
    PROVE  /\ ROL(a, n) \in SUBSET (0..63)
           /\ \A z \in 0..63 : z \in ROL(a, n) <=> (z + 64 - n) % 64 \in a
<1>1. \A b \in a : (b + n) % 64 \in 0..63
  OBVIOUS
<1>2. ASSUME NEW z \in 0..63, NEW b \in a
      PROVE  z = (b + n) % 64 <=> b = (z + 64 - n) % 64
  <2>1. b \in 0..63
    OBVIOUS
  <2>2. (b + n) % 64 = IF b + n < 64 THEN b + n ELSE b + n - 64
    BY <2>1
  <2>3. (z + 64 - n) % 64 = IF z < n THEN z + 64 - n ELSE z - n
    OBVIOUS
  <2>. QED  BY <2>1, <2>2, <2>3
<1>3. \A z \in 0..63 : z \in ROL(a, n) <=> \E b \in a : z = (b + n) % 64
  BY DEF ROL
<1>4. ROL(a, n) \in SUBSET (0..63)
  BY <1>1 DEF ROL
<1>5. ASSUME NEW z \in 0..63
      PROVE  z \in ROL(a, n) <=> (z + 64 - n) % 64 \in a
  <2>1. (z + 64 - n) % 64 \in 0..63
    OBVIOUS
  <2>2. \A b \in a : z = (b + n) % 64 <=> b = (z + 64 - n) % 64
    BY <1>2
  <2>3. PICK y : y = (z + 64 - n) % 64
    OBVIOUS
  <2>4. (\E b \in a : z = (b + n) % 64) <=> y \in a
    BY <2>2, <2>3, Zenon
  <2>. QED  BY <1>3, <2>3, <2>4, Zenon
<1>. QED  BY <1>4, <1>5

LEMMA CountOne ==
    ASSUME NEW S, IsFiniteSet(S), NEW x
    PROVE  /\ IsFiniteSet(S \ {x})
           /\ Cardinality(S \ {x}) \in Nat
           /\ Cardinality(S) = IF x \in S THEN Cardinality(S \ {x}) + 1
                                          ELSE Cardinality(S \ {x})
<1>1. IsFiniteSet(S \ {x}) /\ Cardinality(S) \in Nat
  BY FS_RemoveElement, FS_CardinalityType, FS_Subset
<1>2. CASE x \in S
  BY <1>1, <1>2, FS_RemoveElement, FS_CardinalityType
<1>3. CASE x \notin S
  <2>1. S \ {x} = S
    BY <1>3
  <2>. QED  BY <1>1, <1>3, <2>1
<1>. QED  BY <1>2, <1>3

LEMMA FiveParity ==
    ASSUME NEW S \in SUBSET (0..4)
    PROVE  Cardinality(S) % 2 = 1 <=>
             ~(0 \in S <=> ~(1 \in S <=> ~(2 \in S <=> ~(3 \in S <=> 4 \in S))))
<1> DEFINE S0 == S \ {0}
           S1 == S0 \ {1}
           S2 == S1 \ {2}
           S3 == S2 \ {3}
           S4 == S3 \ {4}
<1>1. IsFiniteSet(S)
  <2>1. IsFiniteSet(0..4)
    <3>1. 0 \in Int /\ 4 \in Int
      OBVIOUS
    <3>. QED  BY <3>1, FS_Interval, Zenon
  <2>. QED  BY <2>1, FS_Subset
<1>2. /\ IsFiniteSet(S0)
      /\ Cardinality(S) = IF 0 \in S THEN Cardinality(S0) + 1
                                    ELSE Cardinality(S0)
  BY <1>1, CountOne
<1>3. /\ IsFiniteSet(S1)
      /\ Cardinality(S0) = IF 1 \in S THEN Cardinality(S1) + 1
                                     ELSE Cardinality(S1)
  <2>1. 1 \in S <=> 1 \in S0
    OBVIOUS
  <2>. HIDE DEF S0
  <2>. QED  BY <1>2, <2>1, CountOne
<1>4. /\ IsFiniteSet(S2)
      /\ Cardinality(S1) = IF 2 \in S THEN Cardinality(S2) + 1
                                     ELSE Cardinality(S2)
  <2>1. 2 \in S <=> 2 \in S1
    OBVIOUS
  <2>. HIDE DEF S1
  <2>. QED  BY <1>3, <2>1, CountOne
<1>5. /\ IsFiniteSet(S3)
      /\ Cardinality(S2) = IF 3 \in S THEN Cardinality(S3) + 1
                                     ELSE Cardinality(S3)
  <2>1. 3 \in S <=> 3 \in S2
    OBVIOUS
  <2>. HIDE DEF S2
  <2>. QED  BY <1>4, <2>1, CountOne
<1>6. Cardinality(S3) = IF 4 \in S THEN Cardinality(S4) + 1 ELSE Cardinality(S4)
  <2>1. 4 \in S <=> 4 \in S3
    OBVIOUS
  <2>. HIDE DEF S3
  <2>. QED  BY <1>5, <2>1, CountOne
<1>7. Cardinality(S4) = 0
  <2>1. S4 = {}
    OBVIOUS
  <2>. HIDE DEF S4
  <2>. QED  BY <2>1, FS_EmptySet
<1>. HIDE DEF S0, S1, S2, S3, S4
<1>. QED  BY <1>2, <1>3, <1>4, <1>5, <1>6, <1>7

Parity(s, x, z) ==
    ~(z \in s[x] <=> ~(z \in s[x+5] <=> ~(z \in s[x+10] <=>
        ~(z \in s[x+15] <=> z \in s[x+20]))))

Column(s) == [i \in 0..4 |->
                SymDiff(s[i], SymDiff(s[i+5],
                  SymDiff(s[i+10], SymDiff(s[i+15], s[i+20]))))]

LEMMA ColumnIs ==
    ASSUME NEW s \in Lanes, NEW x \in 0..4
    PROVE  /\ Column(s)[x] \in SUBSET (0..63)
           /\ \A z \in 0..63 : z \in Column(s)[x] <=> Parity(s, x, z)
<1>1. Column(s)[x] = SymDiff(s[x], SymDiff(s[x+5],
                       SymDiff(s[x+10], SymDiff(s[x+15], s[x+20]))))
  BY DEF Column
<1>2. \A z : z \in Column(s)[x] <=> Parity(s, x, z)
  BY <1>1, Zenon DEF SymDiff, Parity
<1>3. /\ s[x] \subseteq 0..63 /\ s[x+5] \subseteq 0..63
      /\ s[x+10] \subseteq 0..63
      /\ s[x+15] \subseteq 0..63 /\ s[x+20] \subseteq 0..63
  BY DEF Lanes
<1>4. \A a, b \in SUBSET (0..63) : SymDiff(a, b) \in SUBSET (0..63)
  BY DEF SymDiff
<1>. QED  BY <1>1, <1>2, <1>3, <1>4

Odd(a) == {c \in (0..4) \X (0..63) :
              Cardinality({y \in 0..4 : <<c[1], y, c[2]>> \in a}) % 2 = 1}

LEMMA OddIs ==
    ASSUME NEW s \in Lanes, NEW x \in 0..4, NEW z \in 0..63
    PROVE  <<x, z>> \in Odd(Array(s)) <=> Parity(s, x, z)
<1>1. PICK S : S = {y \in 0..4 : <<x, y, z>> \in Array(s)}
  OBVIOUS
<1>2. <<x, z>> \in Odd(Array(s)) <=> Cardinality(S) % 2 = 1
  BY <1>1 DEF Odd
<1>3. \A y \in 0..4 : y \in S <=> z \in s[Lane(x, y)]
  <2>. TAKE y \in 0..4
  <2>1. y \in S <=> <<x, y, z>> \in Array(s)
    BY <1>1
  <2>. QED  BY <2>1, InArray, Zenon
<1>4. /\ 0 \in S <=> z \in s[x]
      /\ 1 \in S <=> z \in s[x+5]
      /\ 2 \in S <=> z \in s[x+10]
      /\ 3 \in S <=> z \in s[x+15]
      /\ 4 \in S <=> z \in s[x+20]
  BY <1>3 DEF Lane
<1>5. S \in SUBSET (0..4)
  BY <1>1
<1>. QED  BY <1>2, <1>4, <1>5, FiveParity DEF Parity

LEMMA ThetaLane ==
    ASSUME NEW s \in Lanes, NEW x \in 0..4, NEW y \in 0..4
    PROVE  /\ Theta(s)[Lane(x, y)] \in SUBSET (0..63)
           /\ \A z \in 0..63 :
                z \in Theta(s)[Lane(x, y)] <=>
                  (z \in s[Lane(x, y)] <=>
                    (Parity(s, (x+4) % 5, z) <=>
                       Parity(s, (x+1) % 5, (z+63) % 64)))
<1> DEFINE k == Lane(x, y)
<1>1. k \in 0..24 /\ (k+4) % 5 = (x+4) % 5 /\ (k+1) % 5 = (x+1) % 5
  BY DEF Lane
<1>2. (x+4) % 5 \in 0..4 /\ (x+1) % 5 \in 0..4 /\ 1 \in 0..63
  OBVIOUS
<1>3. Theta(s)[k] = SymDiff(s[k], SymDiff(Column(s)[(x+4) % 5],
                                          ROL(Column(s)[(x+1) % 5], 1)))
  BY <1>1 DEF Theta, Column
<1>4. /\ Column(s)[(x+4) % 5] \in SUBSET (0..63)
      /\ Column(s)[(x+1) % 5] \in SUBSET (0..63)
      /\ s[k] \in SUBSET (0..63)
  BY <1>1, <1>2, ColumnIs DEF Lanes
<1>5. ROL(Column(s)[(x+1) % 5], 1) \in SUBSET (0..63)
  BY <1>2, <1>4, ROLIs
<1>6. \A a, b \in SUBSET (0..63) : SymDiff(a, b) \in SUBSET (0..63)
  BY DEF SymDiff
<1>7. ASSUME NEW z \in 0..63
      PROVE  z \in Theta(s)[k] <=>
                  (z \in s[k] <=>
                    (Parity(s, (x+4) % 5, z) <=>
                       Parity(s, (x+1) % 5, (z+63) % 64)))
  <2>1. (z + 64 - 1) % 64 = (z+63) % 64 /\ (z+63) % 64 \in 0..63
    OBVIOUS
  <2>2. z \in ROL(Column(s)[(x+1) % 5], 1) <=>
          Parity(s, (x+1) % 5, (z+63) % 64)
    BY <1>2, <1>4, <2>1, ROLIs, ColumnIs
  <2>3. z \in Column(s)[(x+4) % 5] <=> Parity(s, (x+4) % 5, z)
    BY <1>2, ColumnIs
  <2>4. \A a, b : z \in SymDiff(a, b) <=> ~(z \in a <=> z \in b)
    BY InSymDiff, Zenon
  <2>5. \A a, b, c : z \in SymDiff(a, SymDiff(b, c)) <=>
                        (z \in a <=> (z \in b <=> z \in c))
    BY <2>4
  <2>6. z \in Theta(s)[k] <=>
          (z \in s[k] <=> (z \in Column(s)[(x+4) % 5] <=>
                           z \in ROL(Column(s)[(x+1) % 5], 1)))
    BY <1>3, <2>5
  <2>. QED  BY <2>2, <2>3, <2>6
<1>. QED  BY <1>3, <1>4, <1>5, <1>6, <1>7

LEMMA ThetaIs ==
    ASSUME NEW s \in Lanes
    PROVE  /\ Theta(s) \in Lanes
           /\ Array(Theta(s)) = Standard!theta(Array(s))
<1>2. Theta(s) \in Lanes
  <2>1. \A k \in 0..24 : Theta(s)[k] \in SUBSET (0..63)
    BY LaneOnto, ThetaLane, Zenon
  <2>2. \E f : Theta(s) = [k \in 0..24 |-> f[k]]
    <3>1. Theta(s) = [k \in 0..24 |->
                        SymDiff(s[k], SymDiff(Column(s)[(k+4) % 5],
                                          ROL(Column(s)[(k+1) % 5], 1)))]
      BY DEF Theta, Column
    <3>. QED  BY <3>1
  <2>. QED  BY <2>1, <2>2, Zenon DEF Lanes
<1>3. ASSUME NEW x \in 0..4, NEW y \in 0..4, NEW z \in 0..63
      PROVE  <<x, y, z>> \in Standard!theta(Array(s)) <=>
               (<<x, y, z>> \in Array(s) <=>
                  (<<(x+4) % 5, z>> \in Odd(Array(s)) <=>
                     <<(x+1) % 5, (z+63) % 64>> \in Odd(Array(s))))
  <2>1. <<x, y, z>> \in Standard!Cube
    BY DEF Standard!Cube
  <2>2. PICK O : O = Odd(Array(s))
    OBVIOUS
  <2>3. Standard!theta(Array(s)) =
          {p \in Standard!Cube :
             p \in Array(s) <=> (<<(p[1]+4) % 5, p[3]>> \in O <=>
                                 <<(p[1]+1) % 5, (p[3]+63) % 64>> \in O)}
    BY <2>2, Zenon DEF Standard!theta, Odd, Standard!Cardinality, Cardinality
  <2>. QED  BY <2>1, <2>2, <2>3
<1>4. ASSUME NEW x \in 0..4, NEW y \in 0..4, NEW z \in 0..63
      PROVE  <<x, y, z>> \in Array(Theta(s)) <=>
               <<x, y, z>> \in Standard!theta(Array(s))
  <2>1. (x+4) % 5 \in 0..4 /\ (x+1) % 5 \in 0..4 /\ (z+63) % 64 \in 0..63
    OBVIOUS
  <2>2. <<x, y, z>> \in Array(Theta(s)) <=> z \in Theta(s)[Lane(x, y)]
    BY <1>2, InArray, Zenon
  <2>3. <<x, y, z>> \in Array(s) <=> z \in s[Lane(x, y)]
    BY InArray, Zenon
  <2>4. <<(x+4) % 5, z>> \in Odd(Array(s)) <=> Parity(s, (x+4) % 5, z)
    BY <2>1, OddIs, Zenon
  <2>5. <<(x+1) % 5, (z+63) % 64>> \in Odd(Array(s)) <=>
          Parity(s, (x+1) % 5, (z+63) % 64)
    BY <2>1, OddIs, Zenon
  <2>6. z \in Theta(s)[Lane(x, y)] <=>
           (z \in s[Lane(x, y)] <=> (Parity(s, (x+4) % 5, z) <=>
                                      Parity(s, (x+1) % 5, (z+63) % 64)))
    BY ThetaLane, Zenon
  <2>. QED  BY <1>3, <2>2, <2>3, <2>4, <2>5, <2>6, Zenon
<1>5. Standard!theta(Array(s)) \in SUBSET Standard!Cube
  BY Zenon DEF Standard!theta
<1>6. Array(Theta(s)) \in SUBSET Standard!Cube
  BY <1>2, ArrayCube
<1>7. Array(Theta(s)) = Standard!theta(Array(s))
  <2>1. Agree(Array(Theta(s)), Standard!theta(Array(s)))
    BY <1>4, Zenon DEF Agree
  <2>. QED  BY <1>5, <1>6, <2>1, CubeEqual, Zenon
<1>. QED  BY <1>2, <1>7

-----------------------------------------------------------------------------
(* The last step mapping on lanes, and the tables of the walk.             *)

LEMMA ChiLane ==
    ASSUME NEW s \in Lanes, NEW x \in 0..4, NEW y \in 0..4
    PROVE  /\ Chi(s)[Lane(x, y)] \in SUBSET (0..63)
           /\ \A z \in 0..63 :
                z \in Chi(s)[Lane(x, y)] <=>
                  ~(z \in s[Lane(x, y)] <=>
                    (/\ z \notin s[Lane((x+1) % 5, y)]
                     /\ z \in s[Lane((x+2) % 5, y)]))
<1> DEFINE k == Lane(x, y)
<1>1. /\ k \in 0..24
      /\ k - (k % 5) + ((k+1) % 5) = Lane((x+1) % 5, y)
      /\ k - (k % 5) + ((k+2) % 5) = Lane((x+2) % 5, y)
      /\ Lane((x+1) % 5, y) \in 0..24 /\ Lane((x+2) % 5, y) \in 0..24
  BY DEF Lane
<1>2. Chi(s)[k] = SymDiff(s[k], s[Lane((x+2) % 5, y)] \ s[Lane((x+1) % 5, y)])
  BY <1>1, Zenon DEF Chi
<1>3. s[k] \in SUBSET (0..63) /\ s[Lane((x+2) % 5, y)] \in SUBSET (0..63)
  BY <1>1 DEF Lanes
<1>4. PICK a, b, c : /\ a = s[k] /\ b = s[Lane((x+2) % 5, y)]
                     /\ c = s[Lane((x+1) % 5, y)]
  OBVIOUS
<1>5. Chi(s)[k] = SymDiff(a, b \ c)
  BY <1>2, <1>4, Zenon
<1>6. a \in SUBSET (0..63) /\ b \in SUBSET (0..63)
  BY <1>3, <1>4, Zenon
<1>7. Chi(s)[k] \in SUBSET (0..63)
  BY <1>5, <1>6 DEF SymDiff
<1>8. \A z : z \in Chi(s)[k] <=> ~(z \in a <=> (z \notin c /\ z \in b))
  BY <1>5 DEF SymDiff
<1>. QED  BY <1>4, <1>7, <1>8, Zenon

LEMMA ChiIs ==
    ASSUME NEW s \in Lanes
    PROVE  /\ Chi(s) \in Lanes
           /\ Array(Chi(s)) = Standard!chi(Array(s))
<1>1. Chi(s) \in Lanes
  <2>1. \A k \in 0..24 : Chi(s)[k] \in SUBSET (0..63)
    BY LaneOnto, ChiLane, Zenon
  <2>2. \E f : Chi(s) = [k \in 0..24 |-> f[k]]
    <3> DEFINE e(k) == SymDiff(s[k], s[k - (k % 5) + ((k+2) % 5)] \
                                       s[k - (k % 5) + ((k+1) % 5)])
    <3>1. Chi(s) = [k \in 0..24 |-> e(k)]
      BY Zenon DEF Chi
    <3>. HIDE DEF e
    <3>. QED  BY <3>1
  <2>. QED  BY <2>1, <2>2, Zenon DEF Lanes
<1>2. Standard!chi(Array(s)) \in SUBSET Standard!Cube
  BY Zenon DEF Standard!chi
<1>3. Array(Chi(s)) \in SUBSET Standard!Cube
  BY <1>1, ArrayCube
<1>4. ASSUME NEW x \in 0..4, NEW y \in 0..4, NEW z \in 0..63
      PROVE  <<x, y, z>> \in Array(Chi(s)) <=>
               <<x, y, z>> \in Standard!chi(Array(s))
  <2>1. /\ <<x, y, z>> \in Standard!Cube
        /\ (x+1) % 5 \in 0..4 /\ (x+2) % 5 \in 0..4
    BY DEF Standard!Cube
  <2>2. <<x, y, z>> \in Standard!chi(Array(s)) <=>
          ~(<<x, y, z>> \in Array(s) <=>
             (/\ <<(x+1) % 5, y, z>> \notin Array(s)
              /\ <<(x+2) % 5, y, z>> \in Array(s)))
    BY <2>1 DEF Standard!chi
  <2>3. /\ <<x, y, z>> \in Array(Chi(s)) <=> z \in Chi(s)[Lane(x, y)]
        /\ <<x, y, z>> \in Array(s) <=> z \in s[Lane(x, y)]
    BY <1>1, InArray, Zenon
  <2>4. /\ <<(x+1) % 5, y, z>> \in Array(s) <=> z \in s[Lane((x+1) % 5, y)]
        /\ <<(x+2) % 5, y, z>> \in Array(s) <=> z \in s[Lane((x+2) % 5, y)]
    BY <2>1, InArray, Zenon
  <2>5. z \in Chi(s)[Lane(x, y)] <=>
                  ~(z \in s[Lane(x, y)] <=>
                    (/\ z \notin s[Lane((x+1) % 5, y)]
                     /\ z \in s[Lane((x+2) % 5, y)]))
    BY ChiLane, Zenon
  <2>. QED  BY <2>2, <2>3, <2>4, <2>5, Zenon
<1>5. Agree(Array(Chi(s)), Standard!chi(Array(s)))
  BY <1>4, Zenon DEF Agree
<1>. QED  BY <1>1, <1>2, <1>3, <1>5, CubeEqual, Zenon

From(i) == IF i = 1 THEN 1 ELSE PI[i-1]

LEMMA PIRange == \A i \in 1..24 : PI[i] \in 1..24 /\ From(i) \in 1..24
BY DEF PI, From

LEMMA PIStep ==
    ASSUME NEW i \in 1..24
    PROVE  PI[i] = Lane(From(i) \div 5,
                        (2 * (From(i) % 5) + 3 * (From(i) \div 5)) % 5)
BY DEF PI, From, Lane

LEMMA RHOIs ==
    ASSUME NEW i \in 1..24
    PROVE  RHO[i] = ((i * (i+1)) \div 2) % 64
BY DEF RHO

LEMMA PIOnto ==
    ASSUME NEW k \in 1..24
    PROVE  \E i \in 1..24 : From(i) = k
BY DEF From, PI

-----------------------------------------------------------------------------
(* The walk in place: after i moves the lanes at PI[1], ..., PI[i] hold     *)
(* what they should, all others what they held, and t the lane to come.    *)

LEMMA PIInjective ==
    ASSUME NEW i \in 1..24, NEW j \in 1..24, PI[i] = PI[j]
    PROVE  i = j
BY DEF PI

LEMMA FromNext == \A i \in 1..24 : From(i+1) = PI[i]
BY DEF From

LEMMA FromInjective ==
    ASSUME NEW i \in 1..24, NEW j \in 1..24, From(i) = From(j)
    PROVE  i = j
<1>1. PI[24] = 1
  BY DEF PI
<1>2. CASE i # 1 /\ j # 1
  <2>1. i-1 \in 1..24 /\ j-1 \in 1..24
    BY <1>2
  <2>2. PI[i-1] = PI[j-1]
    BY <1>2 DEF From
  <2>. QED  BY <2>1, <2>2, PIInjective
<1>3. ASSUME NEW h \in 2..24
      PROVE  From(h) # 1
  <2>1. h-1 \in 1..24 /\ h-1 # 24 /\ h # 1
    OBVIOUS
  <2>2. PI[h-1] # PI[24]
    BY <2>1, PIInjective
  <2>. QED  BY <1>1, <2>1, <2>2 DEF From
<1>4. From(1) = 1
  BY DEF From
<1>. QED  BY <1>2, <1>3, <1>4

At(k) == CHOOSE j \in 1..24 : PI[j] = k

LEMMA AtPI == \A i \in 1..24 : At(PI[i]) = i
<1>. TAKE i \in 1..24
<1>1. At(PI[i]) \in 1..24 /\ PI[At(PI[i])] = PI[i]
  BY DEF At
<1>. QED  BY <1>1, PIInjective

(* The lanes after the first i moves, and the lane that the walk carries.  *)
Moved(s, i) == [k \in 0..24 |->
                  IF \E j \in 1..i : PI[j] = k
                  THEN ROL(s[From(At(k))], RHO[At(k)]) ELSE s[k]]

Walk(s) == [i \in 0..24 |-> [s |-> Moved(s, i), t |-> s[From(i+1)]]]

LEMMA WalkStart ==
    ASSUME NEW s \in Lanes
    PROVE  Walk(s)[0] = [s |-> s, t |-> s[1]]
<1>1. s = [k \in 0..24 |-> s[k]]
  BY DEF Lanes
<1>2. Moved(s, 0) = [k \in 0..24 |-> s[k]]
  BY DEF Moved
<1>3. From(0+1) = 1
  BY DEF From
<1>. QED  BY <1>1, <1>2, <1>3 DEF Walk

LEMMA WalkStep ==
    ASSUME NEW s \in Lanes, NEW i \in 1..24
    PROVE  Walk(s)[i] = Move(Walk(s)[i-1], i)
<1> DEFINE w == Walk(s)[i-1]
<1>1. i-1 \in 0..24 /\ (i-1)+1 = i /\ i \in 0..24
  OBVIOUS
<1>2. w = [s |-> Moved(s, i-1), t |-> s[From(i)]]
  BY <1>1 DEF Walk
<1>3. PI[i] \in 0..24
  BY PIRange
<1>4. \A j \in 1..i-1 : PI[j] # PI[i]
  <2>. TAKE j \in 1..i-1
  <2>1. j \in 1..24 /\ j # i
    OBVIOUS
  <2>. QED  BY <2>1, PIInjective
<1>5. Moved(s, i-1)[PI[i]] = s[From(i+1)]
  BY <1>3, <1>4, FromNext DEF Moved
<1>6. [Moved(s, i-1) EXCEPT ![PI[i]] = ROL(s[From(i)], RHO[i])] = Moved(s, i)
  <2>1. \A k \in 0..24 : (\E j \in 1..i : PI[j] = k) <=>
                           (k = PI[i] \/ \E j \in 1..i-1 : PI[j] = k)
    <3>. TAKE k \in 0..24
    <3>1. \A j : j \in 1..i <=> (j = i \/ j \in 1..i-1)
      OBVIOUS
    <3>. QED  BY <3>1, Zenon
  <2>2. PICK f : f = Moved(s, i-1)
    OBVIOUS
  <2>3. f = [k \in 0..24 |-> f[k]]
    BY <2>2, Zenon DEF Moved
  <2>4. [f EXCEPT ![PI[i]] = ROL(s[From(i)], RHO[i])]
          = [k \in 0..24 |-> IF k = PI[i] THEN ROL(s[From(i)], RHO[i])
                             ELSE f[k]]
    BY <1>3, <2>3
  <2>5. ASSUME NEW k \in 0..24
        PROVE  (IF k = PI[i] THEN ROL(s[From(i)], RHO[i]) ELSE f[k])
                 = IF \E j \in 1..i : PI[j] = k
                   THEN ROL(s[From(At(k))], RHO[At(k)]) ELSE s[k]
    <3>1. CASE k = PI[i]
      BY <2>1, <3>1, AtPI
    <3>2. CASE k # PI[i]
      <4>1. f[k] = IF \E j \in 1..i-1 : PI[j] = k
                   THEN ROL(s[From(At(k))], RHO[At(k)]) ELSE s[k]
        BY <2>2 DEF Moved
      <4>. QED  BY <2>1, <3>2, <4>1, Zenon
    <3>. QED  BY <3>1, <3>2
  <2>. QED  BY <2>2, <2>4, <2>5 DEF Moved
<1>7. Move(w, i) = [s |-> Moved(s, i), t |-> s[From(i+1)]]
  BY <1>2, <1>5, <1>6 DEF Move
<1>. QED  BY <1>1, <1>7 DEF Walk

LEMMA RhoPiMoves ==
    ASSUME NEW s \in Lanes
    PROVE  RhoPi(s) = Moved(s, 24)
<1>1. PICK M : M = Walk(s)
  OBVIOUS
<1>2. \A i \in 0..24 :
         M[i] = IF i = 0 THEN [s |-> s, t |-> s[1]] ELSE Move(M[i-1], i)
  <2>. TAKE i \in 0..24
  <2>1. CASE i = 0
    BY <1>1, <2>1, WalkStart
  <2>2. CASE i # 0
    <3>1. i \in 1..24
      BY <2>2
    <3>. QED  BY <1>1, <2>2, <3>1, WalkStep
  <2>. QED  BY <2>1, <2>2
<1>3. M = [i \in 0..24 |-> M[i]]
  BY <1>1, Zenon DEF Walk
<1>4. \E g : g = [i \in 0..24 |->
                    IF i = 0 THEN [s |-> s, t |-> s[1]] ELSE Move(g[i-1], i)]
  BY <1>2, <1>3, Zenon
<1>5. PICK g : /\ g = [i \in 0..24 |->
                         IF i = 0 THEN [s |-> s, t |-> s[1]]
                                  ELSE Move(g[i-1], i)]
               /\ RhoPi(s) = g[24].s
  BY <1>4, Zenon DEF RhoPi
<1>6. \A i \in 0..24 :
         g[i] = IF i = 0 THEN [s |-> s, t |-> s[1]] ELSE Move(g[i-1], i)
  BY <1>5
<1>7. PICK S : S = {i \in Nat : i <= 24 => g[i] = M[i]}
  OBVIOUS
<1>8. 0 \in S
  BY <1>2, <1>6, <1>7
<1>9. ASSUME NEW i \in Nat, i \in S
      PROVE  i+1 \in S
  <2>. SUFFICES ASSUME i+1 <= 24 PROVE g[i+1] = M[i+1]
    BY <1>7
  <2>1. i+1 \in 0..24 /\ (i+1)-1 = i /\ i+1 # 0
    OBVIOUS
  <2>2. g[i+1] = Move(g[i], i+1) /\ M[i+1] = Move(M[i], i+1)
    BY <1>2, <1>6, <2>1
  <2>3. g[i] = M[i]
    BY <1>7, <1>9
  <2>. QED  BY <2>2, <2>3
<1>10. 24 \in S
  BY <1>8, <1>9, SetInduction
<1>11. g[24] = M[24]
  BY <1>7, <1>10
<1>12. M[24].s = Moved(s, 24)
  BY <1>1 DEF Walk
<1>. QED  BY <1>5, <1>11, <1>12

-----------------------------------------------------------------------------
(* The walk of the standard: its places are PI, its turns RHO modulo 64.    *)

(* Where a lane is in the state array.                                     *)
Spot(k) == <<k % 5, k \div 5>>

NextSpot(xy) == <<xy[2], (2 * xy[1] + 3 * xy[2]) % 5>>

LEMMA PlaceIs ==
    ASSUME NEW t \in 0..23
    PROVE  Standard!place[t] = Spot(From(t+1))
<1>1. PICK M : M = [u \in 0..23 |-> Spot(From(u+1))]
  OBVIOUS
<1>2. \A u \in 0..23 :
         M[u] = IF u = 0 THEN <<1, 0>>
                ELSE NextSpot(M[u-1])
  <2>. TAKE u \in 0..23
  <2>1. CASE u = 0
    BY <1>1, <2>1 DEF Spot, From
  <2>2. CASE u # 0
    <3>1. u \in 1..24 /\ u-1 \in 0..23 /\ (u-1)+1 = u
      BY <2>2
    <3>2. M[u-1] = <<From(u) % 5, From(u) \div 5>>
      BY <1>1, <3>1 DEF Spot
    <3>3. M[u] = <<PI[u] % 5, PI[u] \div 5>>
      BY <1>1, <3>1, FromNext DEF Spot
    <3>4. PI[u] = Lane(From(u) \div 5,
                        (2 * (From(u) % 5) + 3 * (From(u) \div 5)) % 5)
      BY <3>1, PIStep
    <3>5. /\ From(u) \div 5 \in 0..4
          /\ (2 * (From(u) % 5) + 3 * (From(u) \div 5)) % 5 \in 0..4
      BY <3>1, PIRange
    <3>6. /\ PI[u] % 5 = From(u) \div 5
          /\ PI[u] \div 5 = (2 * (From(u) % 5) + 3 * (From(u) \div 5)) % 5
      BY <3>4, <3>5, LaneOf
    <3>. QED  BY <2>2, <3>2, <3>3, <3>6 DEF NextSpot
  <2>. QED  BY <2>1, <2>2
<1>3. M = [u \in 0..23 |-> M[u]]
  BY <1>1, Zenon
<1>4. \E g : g = [u \in 0..23 |->
         IF u = 0 THEN <<1, 0>> ELSE NextSpot(g[u-1])]
  BY <1>2, <1>3, Zenon
<1>5. Standard!place = [u \in 0..23 |->
         IF u = 0 THEN <<1, 0>> ELSE NextSpot(Standard!place[u-1])]
  BY <1>4, Zenon DEF Standard!place, NextSpot
<1>6. PICK g : g = Standard!place
  OBVIOUS
<1>7. \A u \in 0..23 :
         g[u] = IF u = 0 THEN <<1, 0>>
                ELSE NextSpot(g[u-1])
  BY <1>5, <1>6
<1>8. PICK S : S = {u \in Nat : u <= 23 => g[u] = M[u]}
  OBVIOUS
<1>9. 0 \in S
  BY <1>2, <1>7, <1>8
<1>10. ASSUME NEW u \in Nat, u \in S
       PROVE  u+1 \in S
  <2>. SUFFICES ASSUME u+1 <= 23 PROVE g[u+1] = M[u+1]
    BY <1>8
  <2>1. u+1 \in 0..23 /\ (u+1)-1 = u /\ u+1 # 0
    OBVIOUS
  <2>2. g[u+1] = NextSpot(g[u]) /\ M[u+1] = NextSpot(M[u])
    BY <1>2, <1>7, <2>1
  <2>3. g[u] = M[u]
    BY <1>8, <1>10
  <2>. QED  BY <2>2, <2>3
<1>11. t \in S
  BY <1>9, <1>10, SetInduction
<1>. QED  BY <1>1, <1>6, <1>8, <1>11

Turn(i) == (i * (i+1)) \div 2

LEMMA AddThird ==
    ASSUME NEW a \in Nat, NEW b \in Nat, NEW c \in Nat
    PROVE  <<a, b>> \o <<c>> = <<a, b, c>>
<1>1. <<a, b>> \in Seq(Nat) /\ <<c>> \in Seq(Nat) /\ <<a, b, c>> \in Seq(Nat)
  OBVIOUS
<1>2. PICK s : s = <<a, b>> \o <<c>>
  OBVIOUS
<1>3. s \in Seq(Nat) /\ Len(s) = 3 /\ s[1] = a /\ s[2] = b /\ s[3] = c
  BY <1>2
<1>4. s = <<a, b, c>>
  <2>1. Len(s) = Len(<<a, b, c>>)
    BY <1>3
  <2>2. \A i \in 1..Len(s) : s[i] = <<a, b, c>>[i]
    BY <1>3
  <2>. QED  BY <1>1, <1>3, <2>1, <2>2, SeqEqual, Zenon
<1>. QED  BY <1>2, <1>4

LEMMA TurnsAre ==
    Standard!turns = {<<0, 0, 0>>} \cup
      {<<From(i) % 5, From(i) \div 5, Turn(i)>> : i \in 1..24}
<1>1. ASSUME NEW t \in 0..23
      PROVE  Standard!place[t] \o <<((t+1) * (t+2)) \div 2>>
               = <<From(t+1) % 5, From(t+1) \div 5, Turn(t+1)>>
  <2>1. \A a, b, c \in Nat : <<a, b>> \o <<c>> = <<a, b, c>>
    BY AddThird, Zenon
  <2>2. (t+1) + 1 = t+2
    OBVIOUS
  <2>3. ((t+1) * (t+2)) \div 2 = Turn(t+1)
    BY <2>2, Zenon DEF Turn
  <2>4. From(t+1) % 5 \in Nat /\ From(t+1) \div 5 \in Nat
    <3>1. t+1 \in 1..24
      OBVIOUS
    <3>. QED  BY <3>1, PIRange
  <2>5. Turn(t+1) \in Nat
    BY <2>3
  <2>. QED  BY <2>1, <2>3, <2>4, <2>5, PlaceIs, Zenon DEF Spot
<1>2. \A i \in 1..24 : i-1 \in 0..23 /\ (i-1)+1 = i
  OBVIOUS
<1>3. \A t \in 0..23 : t+1 \in 1..24
  OBVIOUS
<1>4. {Standard!place[t] \o <<((t+1) * (t+2)) \div 2>> : t \in 0..23}
        = {<<From(i) % 5, From(i) \div 5, Turn(i)>> : i \in 1..24}
  <2> DEFINE e(t) == Standard!place[t] \o <<((t+1) * (t+2)) \div 2>>
             f(i) == <<From(i) % 5, From(i) \div 5, Turn(i)>>
  <2>1. \A t \in 0..23 : e(t) = f(t+1)
    BY <1>1
  <2>. HIDE DEF e, f
  <2>2. {e(t) : t \in 0..23} = {f(i) : i \in 1..24}
    BY <1>2, <1>3, <2>1
  <2>. QED  BY <2>2 DEF e, f
<1>. QED  BY <1>4, Zenon DEF Standard!turns

(* by in the definition of rho.                                            *)
By(p) == (CHOOSE n \in Standard!turns : n[1] = p[1] /\ n[2] = p[2])[3]

LEMMA ByOrigin == ASSUME NEW z PROVE By(<<0, 0, z>>) = 0
<1>1. \A i \in 1..24 : ~(From(i) % 5 = 0 /\ From(i) \div 5 = 0)
  BY PIRange
<1>2. \A n \in Standard!turns : n[1] = 0 /\ n[2] = 0 => n[3] = 0
  BY <1>1, TurnsAre
<1>3. <<0, 0, 0>> \in Standard!turns
  BY TurnsAre
<1>4. \E n \in Standard!turns : n[1] = <<0, 0, z>>[1] /\ n[2] = <<0, 0, z>>[2]
  BY <1>3
<1>. QED  BY <1>2, <1>4 DEF By

LEMMA ByFrom ==
    ASSUME NEW i \in 1..24, NEW z
    PROVE  By(<<From(i) % 5, From(i) \div 5, z>>) = Turn(i)
<1>1. ~(From(i) % 5 = 0 /\ From(i) \div 5 = 0)
  BY PIRange
<1>2. ASSUME NEW j \in 1..24,
             From(j) % 5 = From(i) % 5, From(j) \div 5 = From(i) \div 5
      PROVE  j = i
  <2>1. From(j) = From(i)
    BY <1>2, PIRange
  <2>. QED  BY <2>1, FromInjective
<1>3. \A n \in Standard!turns :
         n[1] = From(i) % 5 /\ n[2] = From(i) \div 5 => n[3] = Turn(i)
  BY <1>1, <1>2, TurnsAre
<1>4. <<From(i) % 5, From(i) \div 5, Turn(i)>> \in Standard!turns
  BY TurnsAre
<1>5. PICK p : p = <<From(i) % 5, From(i) \div 5, z>>
  OBVIOUS
<1>6. p[1] = From(i) % 5 /\ p[2] = From(i) \div 5
  BY <1>5
<1>7. \E n \in Standard!turns : n[1] = p[1] /\ n[2] = p[2]
  BY <1>4, <1>6
<1>8. By(p) = Turn(i)
  BY <1>3, <1>6, <1>7 DEF By
<1>. QED  BY <1>5, <1>8

LEMMA RhoPiLanes ==
    ASSUME NEW s \in Lanes
    PROVE  /\ RhoPi(s) \in Lanes
           /\ RhoPi(s)[0] = s[0]
           /\ \A i \in 1..24 : RhoPi(s)[PI[i]] = ROL(s[From(i)], RHO[i])
<1>1. RhoPi(s) = Moved(s, 24)
  BY RhoPiMoves
<1>2. Moved(s, 24)[0] = s[0]
  BY PIRange DEF Moved
<1>3. ASSUME NEW i \in 1..24
      PROVE  Moved(s, 24)[PI[i]] = ROL(s[From(i)], RHO[i])
  <2>1. PI[i] \in 0..24 /\ At(PI[i]) = i
    BY PIRange, AtPI
  <2>. QED  BY <2>1 DEF Moved
<1>4. ASSUME NEW k \in 0..24
      PROVE  Moved(s, 24)[k] \in SUBSET (0..63)
  <2>1. CASE \E j \in 1..24 : PI[j] = k
    <3>1. PICK j \in 1..24 : PI[j] = k
      BY <2>1
    <3>2. s[From(j)] \in SUBSET (0..63) /\ RHO[j] \in 0..63
      BY PIRange, RHOIs DEF Lanes
    <3>3. ROL(s[From(j)], RHO[j]) \in SUBSET (0..63)
      BY <3>2, ROLIs, Zenon
    <3>4. Moved(s, 24)[PI[j]] = ROL(s[From(j)], RHO[j])
      BY <1>3, Zenon
    <3>. QED  BY <3>1, <3>3, <3>4, Zenon
  <2>2. CASE ~ \E j \in 1..24 : PI[j] = k
    BY <2>2 DEF Moved, Lanes
  <2>. QED  BY <2>1, <2>2
<1>5. \E f : Moved(s, 24) = [k \in 0..24 |-> f[k]]
  <2> DEFINE e(k) == IF \E j \in 1..24 : PI[j] = k
                     THEN ROL(s[From(At(k))], RHO[At(k)]) ELSE s[k]
  <2>1. Moved(s, 24) = [k \in 0..24 |-> e(k)]
    BY Zenon DEF Moved
  <2>. HIDE DEF e
  <2>. QED  BY <2>1
<1>6. Moved(s, 24) \in Lanes
  BY <1>4, <1>5, Zenon DEF Lanes
<1>. QED  BY <1>1, <1>2, <1>3, <1>6, Zenon

ByIs(u, v, n) == \A b \in 0..63 : By(<<u, v, b>>) = n

Reaches(lane, n, z) == \E b \in lane : z = (b + n) % 64

LEMMA TurnedIs ==
    ASSUME NEW s \in Lanes, NEW u \in 0..4, NEW v \in 0..4, NEW z \in 0..63,
           NEW n \in Nat, ByIs(u, v, n)
    PROVE  <<u, v, z>> \in Standard!rho(Array(s)) <=>
             Reaches(s[Lane(u, v)], n, z)
<1>1. Standard!rho(Array(s)) =
        {<<p[1], p[2], (p[3] + By(p)) % 64>> : p \in Array(s)}
  BY Zenon DEF Standard!rho, By
<1>2. <<u, v, z>> \in Standard!rho(Array(s)) <=>
        \E p \in Array(s) : <<u, v, z>> = <<p[1], p[2], (p[3] + By(p)) % 64>>
  BY <1>1
<1>3. ASSUME NEW p \in Array(s),
             <<u, v, z>> = <<p[1], p[2], (p[3] + By(p)) % 64>>
      PROVE  \E b \in s[Lane(u, v)] : z = (b + n) % 64
  <2>1. PICK x \in 0..4, y \in 0..4, b \in 0..63 : p = <<x, y, b>>
    BY ArrayCube, CubePoint, Zenon
  <2>2. p[1] = x /\ p[2] = y /\ p[3] = b
    BY <2>1
  <2>3. x = u /\ y = v /\ z = (b + By(p)) % 64
    BY <1>3, <2>2
  <2>4. By(p) = n
    BY <2>1, <2>3 DEF ByIs
  <2>5. b \in s[Lane(u, v)]
    BY <1>3, <2>1, <2>3, InArray, Zenon
  <2>. QED  BY <2>3, <2>4, <2>5
<1>4. ASSUME NEW b \in s[Lane(u, v)], z = (b + n) % 64
      PROVE  \E p \in Array(s) :
                <<u, v, z>> = <<p[1], p[2], (p[3] + By(p)) % 64>>
  <2>1. b \in 0..63
    BY LaneOf DEF Lanes
  <2>2. PICK p : p = <<u, v, b>>
    OBVIOUS
  <2>3. p \in Array(s)
    BY <2>1, <2>2, InArray, Zenon
  <2>4. p[1] = u /\ p[2] = v /\ p[3] = b
    BY <2>2
  <2>5. By(p) = n
    BY <2>1, <2>2 DEF ByIs
  <2>. QED  BY <1>4, <2>3, <2>4, <2>5
<1>. QED  BY <1>2, <1>3, <1>4, Zenon DEF Reaches

LEMMA RhoPiIs ==
    ASSUME NEW s \in Lanes
    PROVE  Array(RhoPi(s)) = Standard!pi(Standard!rho(Array(s)))
<1>1. Array(RhoPi(s)) \in SUBSET Standard!Cube
  BY RhoPiLanes, ArrayCube
<1>2. Standard!pi(Standard!rho(Array(s))) \in SUBSET Standard!Cube
  BY Zenon DEF Standard!pi
<1>3. ASSUME NEW x \in 0..4, NEW y \in 0..4, NEW z \in 0..63
      PROVE  <<x, y, z>> \in Array(RhoPi(s)) <=>
               <<x, y, z>> \in Standard!pi(Standard!rho(Array(s)))
  <2> DEFINE u == (x + 3*y) % 5
             R == Standard!rho(Array(s))
  <2>1. u \in 0..4 /\ <<x, y, z>> \in Standard!Cube
    BY DEF Standard!Cube
  <2>2. <<x, y, z>> \in Standard!pi(R) <=> <<u, x, z>> \in R
    <3>. HIDE DEF R
    <3>. QED  BY <2>1 DEF Standard!pi
  <2>3. <<x, y, z>> \in Array(RhoPi(s)) <=> z \in RhoPi(s)[Lane(x, y)]
    BY RhoPiLanes, InArray, Zenon
  <2>4. CASE x = 0 /\ y = 0
    <3>1. u = 0 /\ Lane(x, y) = 0 /\ Lane(u, x) = 0
      BY <2>4 DEF Lane
    <3>2. <<u, x, z>> \in R <=> \E b \in s[0] : z = (b + 0) % 64
      <4>1. ByIs(0, 0, 0)
        BY ByOrigin, Zenon DEF ByIs
      <4>2. 0 \in 0..4 /\ 0 \in Nat
        OBVIOUS
      <4>3. <<0, 0, z>> \in R <=> Reaches(s[Lane(0, 0)], 0, z)
        BY <4>1, <4>2, TurnedIs, Zenon
      <4>. QED  BY <2>4, <3>1, <4>3 DEF Reaches
    <3>3. (\E b \in s[0] : z = (b + 0) % 64) <=> z \in s[0]
      <4>1. s[0] \subseteq 0..63
        BY DEF Lanes
      <4>2. \A b \in 0..63 : (b + 0) % 64 = b
        OBVIOUS
      <4>. QED  BY <4>1, <4>2
    <3>4. RhoPi(s)[Lane(x, y)] = s[0]
      BY <3>1, RhoPiLanes
    <3>. QED  BY <2>2, <2>3, <3>2, <3>3, <3>4, Zenon
  <2>5. CASE ~(x = 0 /\ y = 0)
    <3>1. Lane(u, x) \in 1..24
      BY <2>5 DEF Lane
    <3>2. PICK i \in 1..24 : From(i) = Lane(u, x)
      BY <3>1, PIOnto
    <3>3. From(i) % 5 = u /\ From(i) \div 5 = x
      BY <2>1, <3>2, LaneOf
    <3>4. PI[i] = Lane(x, y)
      <4>1. (2*u + 3*x) % 5 = y
        OBVIOUS
      <4>. QED  BY <3>3, <4>1, PIStep
    <3>5. RhoPi(s)[Lane(x, y)] = ROL(s[Lane(u, x)], RHO[i])
      BY <3>2, <3>4, RhoPiLanes
    <3>6. ByIs(u, x, Turn(i))
      BY <3>3, ByFrom, Zenon DEF ByIs
    <3>7. Turn(i) \in Nat /\ RHO[i] = Turn(i) % 64 /\ RHO[i] \in 0..63
      BY RHOIs DEF Turn
    <3>8. <<u, x, z>> \in R <=> Reaches(s[Lane(u, x)], Turn(i), z)
      BY <2>1, <3>6, <3>7, TurnedIs, Zenon
    <3>9. \A b \in 0..63 : (b + Turn(i)) % 64 = (b + RHO[i]) % 64
      BY <3>7
    <3>10. s[Lane(u, x)] \subseteq 0..63
      BY <2>1, LaneOf DEF Lanes
    <3>11. z \in ROL(s[Lane(u, x)], RHO[i]) <=>
             \E b \in s[Lane(u, x)] : z = (b + RHO[i]) % 64
      BY DEF ROL
    <3>12. z \in ROL(s[Lane(u, x)], RHO[i]) <=> <<u, x, z>> \in R
      <4>. HIDE DEF u, R
      <4>. QED  BY <3>8, <3>9, <3>10, <3>11 DEF Reaches
    <3>. QED  BY <2>2, <2>3, <3>5, <3>12, Zenon
  <2>. QED  BY <2>4, <2>5
<1>4. Agree(Array(RhoPi(s)), Standard!pi(Standard!rho(Array(s))))
  BY <1>3, Zenon DEF Agree
<1>. QED  BY <1>1, <1>2, <1>4, CubeEqual, Zenon

-----------------------------------------------------------------------------
(* The round constants: the shift register seven steps at a time.          *)

NextRegister(r0) ==
    LET r == {i + 1 : i \in r0}
    IN  IF 8 \in r THEN Standard!SymDiff(r \ {8}, {0, 4, 5, 6}) ELSE r

LEMMA RegisterExists ==
    \A n \in Nat : \E g : g = [t \in 0..n |->
                                 IF t = 0 THEN {0} ELSE NextRegister(g[t-1])]
<1> DEFINE G(g, n) == g = [t \in 0..n |->
                             IF t = 0 THEN {0} ELSE NextRegister(g[t-1])]
           S == {n \in Nat : \E g : G(g, n)}
<1>1. 0 \in S
  <2>1. PICK g : g = [t \in 0..0 |-> {0}]
    OBVIOUS
  <2>2. G(g, 0)
    BY <2>1
  <2>. QED  BY <2>2
<1>2. ASSUME NEW n \in Nat, n \in S
      PROVE  n+1 \in S
  <2>1. PICK g : G(g, n)
    BY <1>2
  <2>2. \A t \in 0..n : g[t] = IF t = 0 THEN {0} ELSE NextRegister(g[t-1])
    BY <2>1
  <2>3. PICK h : h = [t \in 0..n+1 |->
                        IF t = n+1 THEN NextRegister(g[n]) ELSE g[t]]
    OBVIOUS
  <2>4. \A t \in 0..n : h[t] = g[t]
    BY <2>3
  <2>5. ASSUME NEW t \in 0..n+1
        PROVE  h[t] = IF t = 0 THEN {0} ELSE NextRegister(h[t-1])
    <3>1. CASE t = n+1
      BY <2>3, <2>4, <3>1
    <3>2. CASE t # n+1
      <4>1. t \in 0..n /\ (t # 0 => t-1 \in 0..n)
        BY <3>2
      <4>. QED  BY <2>2, <2>4, <4>1
    <3>. QED  BY <3>1, <3>2
  <2>6. h = [t \in 0..n+1 |-> h[t]]
    BY <2>3, Zenon
  <2>7. G(h, n+1)
    BY <2>5, <2>6, Zenon
  <2>. QED  BY <2>7
<1>3. Nat \subseteq S
  <2>. HIDE DEF S
  <2>. QED  BY <1>1, <1>2, SetInduction
<1>. QED  BY <1>3

LEMMA RegisterIs ==
    \A t \in 0..254 :
       Standard!register[t] =
         IF t = 0 THEN {0} ELSE NextRegister(Standard!register[t-1])
<1>1. 254 \in Nat
  OBVIOUS
<1>2. \E g : g = [t \in 0..254 |->
                    IF t = 0 THEN {0} ELSE NextRegister(g[t-1])]
  BY <1>1, RegisterExists, Zenon
<1>3. Standard!register = [t \in 0..254 |->
           IF t = 0 THEN {0} ELSE NextRegister(Standard!register[t-1])]
  BY <1>2, Zenon DEF Standard!register, NextRegister
<1>4. PICK g : g = Standard!register
  OBVIOUS
<1>5. g = [t \in 0..254 |-> IF t = 0 THEN {0} ELSE NextRegister(g[t-1])]
  BY <1>3, <1>4, Zenon
<1>6. \A t \in 0..254 : g[t] = IF t = 0 THEN {0} ELSE NextRegister(g[t-1])
  BY <1>5, Zenon
<1>. QED  BY <1>4, <1>6, Zenon

Xr(p, q) == ~(p <=> q)

LEMMA NextBits ==
    ASSUME NEW R \in SUBSET (0..7), NEW N, N = NextRegister(R)
    PROVE  /\ N \in SUBSET (0..7)
           /\ 0 \in N <=> 7 \in R
           /\ 1 \in N <=> 0 \in R
           /\ 2 \in N <=> 1 \in R
           /\ 3 \in N <=> 2 \in R
           /\ 4 \in N <=> Xr(3 \in R, 7 \in R)
           /\ 5 \in N <=> Xr(4 \in R, 7 \in R)
           /\ 6 \in N <=> Xr(5 \in R, 7 \in R)
           /\ 7 \in N <=> 6 \in R
<1>1. PICK r : r = {i + 1 : i \in R}
  OBVIOUS
<1>2. \A j \in 0..7 : j+1 \in r <=> j \in R
  BY <1>1
<1>3. /\ 0 \notin r
      /\ 1 \in r <=> 0 \in R
      /\ 2 \in r <=> 1 \in R
      /\ 3 \in r <=> 2 \in R
      /\ 4 \in r <=> 3 \in R
      /\ 5 \in r <=> 4 \in R
      /\ 6 \in r <=> 5 \in R
      /\ 7 \in r <=> 6 \in R
      /\ 8 \in r <=> 7 \in R
  BY <1>1
<1>4. r \subseteq 1..8
  BY <1>1
<1>5. N = IF 8 \in r THEN SymDiff(r \ {8}, {0, 4, 5, 6}) ELSE r
  BY <1>1 DEF NextRegister, Standard!SymDiff, SymDiff
<1>6. CASE 8 \in r
  <2>1. N = ((r \ {8}) \ {0, 4, 5, 6}) \cup ({0, 4, 5, 6} \ (r \ {8}))
    BY <1>5, <1>6 DEF SymDiff
  <2>2. N \in SUBSET (0..7)
    BY <1>4, <2>1
  <2>3. /\ 0 \in N <=> ~(0 \in r)
        /\ 1 \in N <=> 1 \in r
        /\ 2 \in N <=> 2 \in r
        /\ 3 \in N <=> 3 \in r
        /\ 4 \in N <=> ~(4 \in r)
        /\ 5 \in N <=> ~(5 \in r)
        /\ 6 \in N <=> ~(6 \in r)
        /\ 7 \in N <=> 7 \in r
    BY <2>1
  <2>. QED  BY <1>3, <1>6, <2>2, <2>3 DEF Xr
<1>7. CASE 8 \notin r
  <2>1. N = r
    BY <1>5, <1>7
  <2>2. N \in SUBSET (0..7)
    BY <1>4, <1>7, <2>1
  <2>. QED  BY <1>3, <1>7, <2>1, <2>2 DEF Xr
<1>. QED  BY <1>6, <1>7

(* The register after seven steps, and the bits it has given until then.   *)
Later(N, R) ==
    /\ 0 \in N <=> Xr(1 \in R, Xr(3 \in R, 4 \in R))
    /\ 1 \in N <=> Xr(2 \in R, Xr(4 \in R, 5 \in R))
    /\ 2 \in N <=> Xr(3 \in R, Xr(5 \in R, 6 \in R))
    /\ 3 \in N <=> Xr(4 \in R, Xr(6 \in R, 7 \in R))
    /\ 4 \in N <=> Xr(1 \in R, Xr(3 \in R, Xr(4 \in R, Xr(5 \in R, 7 \in R))))
    /\ 5 \in N <=> Xr(1 \in R, Xr(2 \in R, Xr(3 \in R, Xr(5 \in R, 6 \in R))))
    /\ 6 \in N <=> Xr(1 \in R, Xr(2 \in R, Xr(6 \in R, 7 \in R)))
    /\ 7 \in N <=> Xr(0 \in R, Xr(2 \in R, Xr(3 \in R, 7 \in R)))

Given(R, k) ==
    \/ k = 0 /\ 0 \in R
    \/ k = 1 /\ 7 \in R
    \/ k = 2 /\ 6 \in R
    \/ k = 3 /\ Xr(5 \in R, 7 \in R)
    \/ k = 4 /\ Xr(4 \in R, Xr(6 \in R, 7 \in R))
    \/ k = 5 /\ Xr(3 \in R, Xr(5 \in R, 6 \in R))
    \/ k = 6 /\ Xr(2 \in R, Xr(4 \in R, 5 \in R))

LEMMA StepsAhead ==
    \A t \in 0..247, k \in 0..6 :
       t+k+1 \in 0..254 /\ t+k+1 # 0 /\ (t+k+1)-1 = t+k
OBVIOUS

LEMMA SevenSteps ==
    ASSUME NEW t \in 0..247, NEW R \in SUBSET (0..7),
           R = Standard!register[t]
    PROVE  /\ Standard!register[t+7] \in SUBSET (0..7)
           /\ Later(Standard!register[t+7], R)
           /\ \A k \in 0..6 : 0 \in Standard!register[t+k] <=> Given(R, k)
<1>1. ASSUME NEW k \in 0..6
      PROVE  Standard!register[t+k+1] = NextRegister(Standard!register[t+k])
  <2>1. t+k+1 \in 0..254 /\ t+k+1 # 0 /\ (t+k+1)-1 = t+k
    BY StepsAhead, Zenon
  <2>. QED  BY <2>1, RegisterIs
<1>2. PICK g : g = [k \in 0..7 |-> Standard!register[t+k]]
  OBVIOUS
<1>3. /\ g[0] = R /\ g[1] = NextRegister(g[0])
      /\ g[2] = NextRegister(g[1]) /\ g[3] = NextRegister(g[2])
      /\ g[4] = NextRegister(g[3]) /\ g[5] = NextRegister(g[4])
      /\ g[6] = NextRegister(g[5]) /\ g[7] = NextRegister(g[6])
  BY <1>1, <1>2
<1>4. /\ g[1] \in SUBSET (0..7)
      /\ 0 \in g[1] <=> 7 \in g[0]
      /\ 1 \in g[1] <=> 0 \in g[0]
      /\ 2 \in g[1] <=> 1 \in g[0]
      /\ 3 \in g[1] <=> 2 \in g[0]
      /\ 4 \in g[1] <=> Xr(3 \in g[0], 7 \in g[0])
      /\ 5 \in g[1] <=> Xr(4 \in g[0], 7 \in g[0])
      /\ 6 \in g[1] <=> Xr(5 \in g[0], 7 \in g[0])
      /\ 7 \in g[1] <=> 6 \in g[0]
  BY <1>3, NextBits
<1>5. /\ g[2] \in SUBSET (0..7)
      /\ 0 \in g[2] <=> 7 \in g[1]
      /\ 1 \in g[2] <=> 0 \in g[1]
      /\ 2 \in g[2] <=> 1 \in g[1]
      /\ 3 \in g[2] <=> 2 \in g[1]
      /\ 4 \in g[2] <=> Xr(3 \in g[1], 7 \in g[1])
      /\ 5 \in g[2] <=> Xr(4 \in g[1], 7 \in g[1])
      /\ 6 \in g[2] <=> Xr(5 \in g[1], 7 \in g[1])
      /\ 7 \in g[2] <=> 6 \in g[1]
  BY <1>3, <1>4, NextBits
<1>6. /\ g[3] \in SUBSET (0..7)
      /\ 0 \in g[3] <=> 7 \in g[2]
      /\ 1 \in g[3] <=> 0 \in g[2]
      /\ 2 \in g[3] <=> 1 \in g[2]
      /\ 3 \in g[3] <=> 2 \in g[2]
      /\ 4 \in g[3] <=> Xr(3 \in g[2], 7 \in g[2])
      /\ 5 \in g[3] <=> Xr(4 \in g[2], 7 \in g[2])
      /\ 6 \in g[3] <=> Xr(5 \in g[2], 7 \in g[2])
      /\ 7 \in g[3] <=> 6 \in g[2]
  BY <1>3, <1>5, NextBits
<1>7. /\ g[4] \in SUBSET (0..7)
      /\ 0 \in g[4] <=> 7 \in g[3]
      /\ 1 \in g[4] <=> 0 \in g[3]
      /\ 2 \in g[4] <=> 1 \in g[3]
      /\ 3 \in g[4] <=> 2 \in g[3]
      /\ 4 \in g[4] <=> Xr(3 \in g[3], 7 \in g[3])
      /\ 5 \in g[4] <=> Xr(4 \in g[3], 7 \in g[3])
      /\ 6 \in g[4] <=> Xr(5 \in g[3], 7 \in g[3])
      /\ 7 \in g[4] <=> 6 \in g[3]
  BY <1>3, <1>6, NextBits
<1>8. /\ g[5] \in SUBSET (0..7)
      /\ 0 \in g[5] <=> 7 \in g[4]
      /\ 1 \in g[5] <=> 0 \in g[4]
      /\ 2 \in g[5] <=> 1 \in g[4]
      /\ 3 \in g[5] <=> 2 \in g[4]
      /\ 4 \in g[5] <=> Xr(3 \in g[4], 7 \in g[4])
      /\ 5 \in g[5] <=> Xr(4 \in g[4], 7 \in g[4])
      /\ 6 \in g[5] <=> Xr(5 \in g[4], 7 \in g[4])
      /\ 7 \in g[5] <=> 6 \in g[4]
  BY <1>3, <1>7, NextBits
<1>9. /\ g[6] \in SUBSET (0..7)
      /\ 0 \in g[6] <=> 7 \in g[5]
      /\ 1 \in g[6] <=> 0 \in g[5]
      /\ 2 \in g[6] <=> 1 \in g[5]
      /\ 3 \in g[6] <=> 2 \in g[5]
      /\ 4 \in g[6] <=> Xr(3 \in g[5], 7 \in g[5])
      /\ 5 \in g[6] <=> Xr(4 \in g[5], 7 \in g[5])
      /\ 6 \in g[6] <=> Xr(5 \in g[5], 7 \in g[5])
      /\ 7 \in g[6] <=> 6 \in g[5]
  BY <1>3, <1>8, NextBits
<1>10. /\ g[7] \in SUBSET (0..7)
       /\ 0 \in g[7] <=> 7 \in g[6]
       /\ 1 \in g[7] <=> 0 \in g[6]
       /\ 2 \in g[7] <=> 1 \in g[6]
       /\ 3 \in g[7] <=> 2 \in g[6]
       /\ 4 \in g[7] <=> Xr(3 \in g[6], 7 \in g[6])
       /\ 5 \in g[7] <=> Xr(4 \in g[6], 7 \in g[6])
       /\ 6 \in g[7] <=> Xr(5 \in g[6], 7 \in g[6])
       /\ 7 \in g[7] <=> 6 \in g[6]
  BY <1>3, <1>9, NextBits
<1>11. Later(g[7], R)
  BY <1>3, <1>4, <1>5, <1>6, <1>7, <1>8, <1>9, <1>10 DEF Later, Xr
<1>12. \A k \in 0..6 : 0 \in g[k] <=> Given(R, k)
  <2>1. /\ 0 \in g[0] <=> Given(R, 0)
        /\ 0 \in g[1] <=> Given(R, 1)
        /\ 0 \in g[2] <=> Given(R, 2)
        /\ 0 \in g[3] <=> Given(R, 3)
        /\ 0 \in g[4] <=> Given(R, 4)
        /\ 0 \in g[5] <=> Given(R, 5)
        /\ 0 \in g[6] <=> Given(R, 6)
    BY <1>3, <1>4, <1>5, <1>6, <1>7, <1>8, <1>9, <1>10 DEF Given, Xr
  <2>. HIDE DEF Given
  <2>. QED  BY <2>1
<1>. QED  BY <1>2, <1>10, <1>11, <1>12

LEMMA LaterUnique ==
    ASSUME NEW R, NEW N \in SUBSET (0..7), NEW M \in SUBSET (0..7),
           Later(N, R), Later(M, R)
    PROVE  N = M
<1>1. \A v \in 0..7 : v \in {0, 1, 2, 3, 4, 5, 6, 7}
  OBVIOUS
<1>2. /\ 0 \in N <=> 0 \in M
      /\ 1 \in N <=> 1 \in M
      /\ 2 \in N <=> 2 \in M
      /\ 3 \in N <=> 3 \in M
      /\ 4 \in N <=> 4 \in M
      /\ 5 \in N <=> 5 \in M
      /\ 6 \in N <=> 6 \in M
      /\ 7 \in N <=> 7 \in M
  BY DEF Later
<1>3. \A v \in 0..7 : v \in N <=> v \in M
  BY <1>1, <1>2
<1>. QED  BY <1>3

(* The bits of a round constant lie at these places of its lane.           *)
Spread(R) == {2^j - 1 : j \in {k \in 0..6 : Given(R, k)}}

SameSpread(S, R) ==
    /\ 0 \in S <=> Given(R, 0)
    /\ 1 \in S <=> Given(R, 1)
    /\ 3 \in S <=> Given(R, 2)
    /\ 7 \in S <=> Given(R, 3)
    /\ 15 \in S <=> Given(R, 4)
    /\ 31 \in S <=> Given(R, 5)
    /\ 63 \in S <=> Given(R, 6)

LEMMA SpreadIs ==
    ASSUME NEW R, NEW S \in SUBSET {0, 1, 3, 7, 15, 31, 63}, SameSpread(S, R)
    PROVE  S = Spread(R)
<1>1. /\ 2^0 = 1 /\ 2^1 = 2 /\ 2^2 = 4 /\ 2^3 = 8 /\ 2^4 = 16 /\ 2^5 = 32
      /\ 2^6 = 64
  OBVIOUS
<1>2. PICK K : K = {k \in 0..6 : Given(R, k)}
  OBVIOUS
<1>3. \A k \in 0..6 : k \in K <=> Given(R, k)
  BY <1>2, Zenon
<1>4. K \subseteq 0..6
  BY <1>2
<1>5. Spread(R) = {2^j - 1 : j \in K}
  BY <1>2, Zenon DEF Spread
<1>6. \A v : v \in Spread(R) <=> \E j \in K : v = 2^j - 1
  BY <1>5
<1>7. \A j \in K : j \in {0, 1, 2, 3, 4, 5, 6}
  BY <1>4
<1>8. \A v : v \in Spread(R) => \/ v = 0 /\ 0 \in K
                                \/ v = 1 /\ 1 \in K
                                \/ v = 3 /\ 2 \in K
                                \/ v = 7 /\ 3 \in K
                                \/ v = 15 /\ 4 \in K
                                \/ v = 31 /\ 5 \in K
                                \/ v = 63 /\ 6 \in K
  <2>. TAKE v
  <2>. HAVE v \in Spread(R)
  <2>1. PICK j \in K : v = 2^j - 1
    BY <1>6
  <2>2. \/ j = 0 \/ j = 1 \/ j = 2 \/ j = 3 \/ j = 4 \/ j = 5 \/ j = 6
    BY <1>7
  <2>3. CASE j = 0
    BY <1>1, <2>1, <2>3
  <2>4. CASE j = 1
    BY <1>1, <2>1, <2>4
  <2>5. CASE j = 2
    BY <1>1, <2>1, <2>5
  <2>6. CASE j = 3
    BY <1>1, <2>1, <2>6
  <2>7. CASE j = 4
    BY <1>1, <2>1, <2>7
  <2>8. CASE j = 5
    BY <1>1, <2>1, <2>8
  <2>9. CASE j = 6
    BY <1>1, <2>1, <2>9
  <2>. QED  BY <2>2, <2>3, <2>4, <2>5, <2>6, <2>7, <2>8, <2>9, Zenon
<1>9. /\ 0 \in K => 0 \in Spread(R)
      /\ 1 \in K => 1 \in Spread(R)
      /\ 2 \in K => 3 \in Spread(R)
      /\ 3 \in K => 7 \in Spread(R)
      /\ 4 \in K => 15 \in Spread(R)
      /\ 5 \in K => 31 \in Spread(R)
      /\ 6 \in K => 63 \in Spread(R)
  <2>1. /\ 0 = 2^0 - 1 /\ 1 = 2^1 - 1 /\ 3 = 2^2 - 1 /\ 7 = 2^3 - 1
        /\ 15 = 2^4 - 1 /\ 31 = 2^5 - 1 /\ 63 = 2^6 - 1
    BY <1>1
  <2>. QED  BY <1>6, <2>1, Zenon
<1>10. /\ 0 \in K <=> 0 \in S
       /\ 1 \in K <=> 1 \in S
       /\ 2 \in K <=> 3 \in S
       /\ 3 \in K <=> 7 \in S
       /\ 4 \in K <=> 15 \in S
       /\ 5 \in K <=> 31 \in S
       /\ 6 \in K <=> 63 \in S
  <2>1. /\ 0 \in 0..6 /\ 1 \in 0..6 /\ 2 \in 0..6 /\ 3 \in 0..6
        /\ 4 \in 0..6 /\ 5 \in 0..6 /\ 6 \in 0..6
    OBVIOUS
  <2>2. /\ 0 \in K <=> Given(R, 0)
        /\ 1 \in K <=> Given(R, 1)
        /\ 2 \in K <=> Given(R, 2)
        /\ 3 \in K <=> Given(R, 3)
        /\ 4 \in K <=> Given(R, 4)
        /\ 5 \in K <=> Given(R, 5)
        /\ 6 \in K <=> Given(R, 6)
    BY <1>3, <2>1, Zenon
  <2>. QED  BY <2>2, Zenon DEF SameSpread
<1>11. ASSUME NEW v \in Spread(R)
       PROVE  v \in S
  <2>1. PICK s : s = Spread(R)
    OBVIOUS
  <2>. QED  BY <1>8, <1>10
<1>12. \A v \in S : v \in Spread(R)
  <2>. TAKE v \in S
  <2>1. \/ v = 0 \/ v = 1 \/ v = 3 \/ v = 7 \/ v = 15 \/ v = 31 \/ v = 63
    BY Zenon
  <2>. QED  BY <1>9, <1>10, <2>1
<1>. QED  BY <1>11, <1>12

(* N is the register seven steps after R; S holds the bits that R gives.    *)
Leads(R, N) == N \in SUBSET (0..7) /\ Later(N, R)

Fits(S, R) == S \in SUBSET {0, 1, 3, 7, 15, 31, 63} /\ SameSpread(S, R)

LEMMA SevenLater ==
    ASSUME NEW r \in 0..22, NEW R, R = Standard!register[7*r],
           R \in SUBSET (0..7), NEW N, Leads(R, N)
    PROVE  Standard!register[7*(r+1)] = N
<1>1. 7*r \in 0..247 /\ 7*(r+1) = 7*r + 7
  OBVIOUS
<1>2. /\ Standard!register[7*r + 7] \in SUBSET (0..7)
      /\ Later(Standard!register[7*r + 7], R)
  BY <1>1, SevenSteps, Zenon
<1>3. N \in SUBSET (0..7) /\ Later(N, R)
  BY Zenon DEF Leads
<1>4. Standard!register[7*r + 7] = N
  <2>1. PICK M : M = Standard!register[7*r + 7]
    OBVIOUS
  <2>. QED  BY <1>2, <1>3, <2>1, LaterUnique
<1>. QED  BY <1>1, <1>4, Zenon

(* The register before each round.                                         *)
Rows(g) ==
    /\ \A r \in 0..23 : g[r] = Standard!register[7*r]
    /\ g[0] = {0}
    /\ g[1] = {7}
    /\ g[2] = {3, 4, 6, 7}
    /\ g[3] = {1, 3, 4}
    /\ g[4] = {0, 1, 2, 3, 4, 6, 7}
    /\ g[5] = {0, 3}
    /\ g[6] = {0, 2, 4, 5}
    /\ g[7] = {0, 1, 2, 3, 6}
    /\ g[8] = {1, 3, 6, 7}
    /\ g[9] = {4, 5, 6}
    /\ g[10] = {0, 6}
    /\ g[11] = {2, 3, 5, 6, 7}
    /\ g[12] = {0, 2, 4, 6, 7}
    /\ g[13] = {0, 2, 3, 6, 7}
    /\ g[14] = {0, 1, 5, 6}
    /\ g[15] = {0, 1, 3, 5, 7}
    /\ g[16] = {1, 3, 5, 7}
    /\ g[17] = {1, 3, 5}
    /\ g[18] = {1, 4, 5, 6, 7}
    /\ g[19] = {3, 5, 6, 7}
    /\ g[20] = {0, 1, 2, 4, 5}
    /\ g[21] = {1, 2, 3, 4, 5}
    /\ g[22] = {0, 1, 3}
    /\ g[23] = {2, 6}

LEMMA RegisterRows == \E g : Rows(g)
<1>1. PICK g : g = [r \in 0..23 |-> Standard!register[7*r]]
  OBVIOUS
<1>2. \A r \in 0..23 : g[r] = Standard!register[7*r]
  BY <1>1
<1>3. ASSUME NEW r \in 0..22, g[r] \in SUBSET (0..7), NEW N, Leads(g[r], N)
      PROVE  g[r+1] = N
  <2>1. r \in 0..23 /\ r+1 \in 0..23
    OBVIOUS
  <2>2. g[r] = Standard!register[7*r] /\ g[r+1] = Standard!register[7*(r+1)]
    BY <1>2, <2>1, Zenon
  <2>3. Standard!register[7*(r+1)] = N
    BY <1>3, <2>2, SevenLater, Zenon
  <2>. QED  BY <2>2, <2>3, Zenon
<1>4. \A r \in 0..22 : \A N : g[r] \in SUBSET (0..7) /\ Leads(g[r], N)
                                => g[r+1] = N
  BY <1>3, Zenon
<1>5. g[0] = {0}
  BY <1>1, RegisterIs
<1>6. g[1] = {7}
  <2>1. /\ {0} \in SUBSET (0..7)
        /\ Leads({0}, {7})
    BY DEF Leads, Later, Xr
  <2>2. \A N : g[0] \in SUBSET (0..7) /\ Leads(g[0], N) => g[1] = N
    BY <1>4
  <2>. QED  BY <1>5, <2>1, <2>2, Zenon
<1>7. g[2] = {3, 4, 6, 7}
  <2>1. /\ {7} \in SUBSET (0..7)
        /\ Leads({7}, {3, 4, 6, 7})
    BY DEF Leads, Later, Xr
  <2>2. \A N : g[1] \in SUBSET (0..7) /\ Leads(g[1], N) => g[2] = N
    BY <1>4
  <2>. QED  BY <1>6, <2>1, <2>2, Zenon
<1>8. g[3] = {1, 3, 4}
  <2>1. /\ {3, 4, 6, 7} \in SUBSET (0..7)
        /\ Leads({3, 4, 6, 7}, {1, 3, 4})
    BY DEF Leads, Later, Xr
  <2>2. \A N : g[2] \in SUBSET (0..7) /\ Leads(g[2], N) => g[3] = N
    BY <1>4
  <2>. QED  BY <1>7, <2>1, <2>2, Zenon
<1>9. g[4] = {0, 1, 2, 3, 4, 6, 7}
  <2>1. /\ {1, 3, 4} \in SUBSET (0..7)
        /\ Leads({1, 3, 4}, {0, 1, 2, 3, 4, 6, 7})
    BY DEF Leads, Later, Xr
  <2>2. \A N : g[3] \in SUBSET (0..7) /\ Leads(g[3], N) => g[4] = N
    BY <1>4
  <2>. QED  BY <1>8, <2>1, <2>2, Zenon
<1>10. g[5] = {0, 3}
  <2>1. /\ {0, 1, 2, 3, 4, 6, 7} \in SUBSET (0..7)
        /\ Leads({0, 1, 2, 3, 4, 6, 7}, {0, 3})
    BY DEF Leads, Later, Xr
  <2>2. \A N : g[4] \in SUBSET (0..7) /\ Leads(g[4], N) => g[5] = N
    BY <1>4
  <2>. QED  BY <1>9, <2>1, <2>2, Zenon
<1>11. g[6] = {0, 2, 4, 5}
  <2>1. /\ {0, 3} \in SUBSET (0..7)
        /\ Leads({0, 3}, {0, 2, 4, 5})
    BY DEF Leads, Later, Xr
  <2>2. \A N : g[5] \in SUBSET (0..7) /\ Leads(g[5], N) => g[6] = N
    BY <1>4
  <2>. QED  BY <1>10, <2>1, <2>2, Zenon
<1>12. g[7] = {0, 1, 2, 3, 6}
  <2>1. /\ {0, 2, 4, 5} \in SUBSET (0..7)
        /\ Leads({0, 2, 4, 5}, {0, 1, 2, 3, 6})
    BY DEF Leads, Later, Xr
  <2>2. \A N : g[6] \in SUBSET (0..7) /\ Leads(g[6], N) => g[7] = N
    BY <1>4
  <2>. QED  BY <1>11, <2>1, <2>2, Zenon
<1>13. g[8] = {1, 3, 6, 7}
  <2>1. /\ {0, 1, 2, 3, 6} \in SUBSET (0..7)
        /\ Leads({0, 1, 2, 3, 6}, {1, 3, 6, 7})
    BY DEF Leads, Later, Xr
  <2>2. \A N : g[7] \in SUBSET (0..7) /\ Leads(g[7], N) => g[8] = N
    BY <1>4
  <2>. QED  BY <1>12, <2>1, <2>2, Zenon
<1>14. g[9] = {4, 5, 6}
  <2>1. /\ {1, 3, 6, 7} \in SUBSET (0..7)
        /\ Leads({1, 3, 6, 7}, {4, 5, 6})
    BY DEF Leads, Later, Xr
  <2>2. \A N : g[8] \in SUBSET (0..7) /\ Leads(g[8], N) => g[9] = N
    BY <1>4
  <2>. QED  BY <1>13, <2>1, <2>2, Zenon
<1>15. g[10] = {0, 6}
  <2>1. /\ {4, 5, 6} \in SUBSET (0..7)
        /\ Leads({4, 5, 6}, {0, 6})
    BY DEF Leads, Later, Xr
  <2>2. \A N : g[9] \in SUBSET (0..7) /\ Leads(g[9], N) => g[10] = N
    BY <1>4
  <2>. QED  BY <1>14, <2>1, <2>2, Zenon
<1>16. g[11] = {2, 3, 5, 6, 7}
  <2>1. /\ {0, 6} \in SUBSET (0..7)
        /\ Leads({0, 6}, {2, 3, 5, 6, 7})
    BY DEF Leads, Later, Xr
  <2>2. \A N : g[10] \in SUBSET (0..7) /\ Leads(g[10], N) => g[11] = N
    BY <1>4
  <2>. QED  BY <1>15, <2>1, <2>2, Zenon
<1>17. g[12] = {0, 2, 4, 6, 7}
  <2>1. /\ {2, 3, 5, 6, 7} \in SUBSET (0..7)
        /\ Leads({2, 3, 5, 6, 7}, {0, 2, 4, 6, 7})
    BY DEF Leads, Later, Xr
  <2>2. \A N : g[11] \in SUBSET (0..7) /\ Leads(g[11], N) => g[12] = N
    BY <1>4
  <2>. QED  BY <1>16, <2>1, <2>2, Zenon
<1>18. g[13] = {0, 2, 3, 6, 7}
  <2>1. /\ {0, 2, 4, 6, 7} \in SUBSET (0..7)
        /\ Leads({0, 2, 4, 6, 7}, {0, 2, 3, 6, 7})
    BY DEF Leads, Later, Xr
  <2>2. \A N : g[12] \in SUBSET (0..7) /\ Leads(g[12], N) => g[13] = N
    BY <1>4
  <2>. QED  BY <1>17, <2>1, <2>2, Zenon
<1>19. g[14] = {0, 1, 5, 6}
  <2>1. /\ {0, 2, 3, 6, 7} \in SUBSET (0..7)
        /\ Leads({0, 2, 3, 6, 7}, {0, 1, 5, 6})
    BY DEF Leads, Later, Xr
  <2>2. \A N : g[13] \in SUBSET (0..7) /\ Leads(g[13], N) => g[14] = N
    BY <1>4
  <2>. QED  BY <1>18, <2>1, <2>2, Zenon
<1>20. g[15] = {0, 1, 3, 5, 7}
  <2>1. /\ {0, 1, 5, 6} \in SUBSET (0..7)
        /\ Leads({0, 1, 5, 6}, {0, 1, 3, 5, 7})
    BY DEF Leads, Later, Xr
  <2>2. \A N : g[14] \in SUBSET (0..7) /\ Leads(g[14], N) => g[15] = N
    BY <1>4
  <2>. QED  BY <1>19, <2>1, <2>2, Zenon
<1>21. g[16] = {1, 3, 5, 7}
  <2>1. /\ {0, 1, 3, 5, 7} \in SUBSET (0..7)
        /\ Leads({0, 1, 3, 5, 7}, {1, 3, 5, 7})
    BY DEF Leads, Later, Xr
  <2>2. \A N : g[15] \in SUBSET (0..7) /\ Leads(g[15], N) => g[16] = N
    BY <1>4
  <2>. QED  BY <1>20, <2>1, <2>2, Zenon
<1>22. g[17] = {1, 3, 5}
  <2>1. /\ {1, 3, 5, 7} \in SUBSET (0..7)
        /\ Leads({1, 3, 5, 7}, {1, 3, 5})
    BY DEF Leads, Later, Xr
  <2>2. \A N : g[16] \in SUBSET (0..7) /\ Leads(g[16], N) => g[17] = N
    BY <1>4
  <2>. QED  BY <1>21, <2>1, <2>2, Zenon
<1>23. g[18] = {1, 4, 5, 6, 7}
  <2>1. /\ {1, 3, 5} \in SUBSET (0..7)
        /\ Leads({1, 3, 5}, {1, 4, 5, 6, 7})
    BY DEF Leads, Later, Xr
  <2>2. \A N : g[17] \in SUBSET (0..7) /\ Leads(g[17], N) => g[18] = N
    BY <1>4
  <2>. QED  BY <1>22, <2>1, <2>2, Zenon
<1>24. g[19] = {3, 5, 6, 7}
  <2>1. /\ {1, 4, 5, 6, 7} \in SUBSET (0..7)
        /\ Leads({1, 4, 5, 6, 7}, {3, 5, 6, 7})
    BY DEF Leads, Later, Xr
  <2>2. \A N : g[18] \in SUBSET (0..7) /\ Leads(g[18], N) => g[19] = N
    BY <1>4
  <2>. QED  BY <1>23, <2>1, <2>2, Zenon
<1>25. g[20] = {0, 1, 2, 4, 5}
  <2>1. /\ {3, 5, 6, 7} \in SUBSET (0..7)
        /\ Leads({3, 5, 6, 7}, {0, 1, 2, 4, 5})
    BY DEF Leads, Later, Xr
  <2>2. \A N : g[19] \in SUBSET (0..7) /\ Leads(g[19], N) => g[20] = N
    BY <1>4
  <2>. QED  BY <1>24, <2>1, <2>2, Zenon
<1>26. g[21] = {1, 2, 3, 4, 5}
  <2>1. /\ {0, 1, 2, 4, 5} \in SUBSET (0..7)
        /\ Leads({0, 1, 2, 4, 5}, {1, 2, 3, 4, 5})
    BY DEF Leads, Later, Xr
  <2>2. \A N : g[20] \in SUBSET (0..7) /\ Leads(g[20], N) => g[21] = N
    BY <1>4
  <2>. QED  BY <1>25, <2>1, <2>2, Zenon
<1>27. g[22] = {0, 1, 3}
  <2>1. /\ {1, 2, 3, 4, 5} \in SUBSET (0..7)
        /\ Leads({1, 2, 3, 4, 5}, {0, 1, 3})
    BY DEF Leads, Later, Xr
  <2>2. \A N : g[21] \in SUBSET (0..7) /\ Leads(g[21], N) => g[22] = N
    BY <1>4
  <2>. QED  BY <1>26, <2>1, <2>2, Zenon
<1>28. g[23] = {2, 6}
  <2>1. /\ {0, 1, 3} \in SUBSET (0..7)
        /\ Leads({0, 1, 3}, {2, 6})
    BY DEF Leads, Later, Xr
  <2>2. \A N : g[22] \in SUBSET (0..7) /\ Leads(g[22], N) => g[23] = N
    BY <1>4
  <2>. QED  BY <1>27, <2>1, <2>2, Zenon
<1>. QED  BY <1>2, <1>5, <1>6, <1>7, <1>8, <1>9, <1>10, <1>11, <1>12, <1>13,
             <1>14, <1>15, <1>16, <1>17, <1>18, <1>19, <1>20, <1>21, <1>22,
             <1>23, <1>24, <1>25, <1>26, <1>27, <1>28,
             Zenon DEF Rows

LEMMA RoundConstants ==
    \A n \in 0..23 : RC[n+1] = Spread(Standard!register[7*n])
<1>1. PICK g : Rows(g)
  BY RegisterRows, Zenon
<1>2. \A S, R : Fits(S, R) => S = Spread(R)
  BY SpreadIs, Zenon DEF Fits
<1>3. PICK c : c = RC
  OBVIOUS
<1>4. c[1] = Spread(g[0])
  <2>1. Fits({0}, {0})
    BY DEF Fits, SameSpread, Given, Xr
  <2>2. c[1] = {0}
    BY <1>3 DEF RC
  <2>3. g[0] = {0}
    BY <1>1, Zenon DEF Rows
  <2>4. {0} = Spread({0})
    BY <1>2, <2>1, Zenon
  <2>. QED  BY <2>2, <2>3, <2>4, Zenon
<1>5. c[2] = Spread(g[1])
  <2>1. Fits({1, 7, 15}, {7})
    BY DEF Fits, SameSpread, Given, Xr
  <2>2. c[2] = {1, 7, 15}
    BY <1>3 DEF RC
  <2>3. g[1] = {7}
    BY <1>1, Zenon DEF Rows
  <2>4. {1, 7, 15} = Spread({7})
    BY <1>2, <2>1, Zenon
  <2>. QED  BY <2>2, <2>3, <2>4, Zenon
<1>6. c[3] = Spread(g[2])
  <2>1. Fits({1, 3, 7, 15, 63}, {3, 4, 6, 7})
    BY DEF Fits, SameSpread, Given, Xr
  <2>2. c[3] = {1, 3, 7, 15, 63}
    BY <1>3 DEF RC
  <2>3. g[2] = {3, 4, 6, 7}
    BY <1>1, Zenon DEF Rows
  <2>4. {1, 3, 7, 15, 63} = Spread({3, 4, 6, 7})
    BY <1>2, <2>1, Zenon
  <2>. QED  BY <2>2, <2>3, <2>4, Zenon
<1>7. c[4] = Spread(g[3])
  <2>1. Fits({15, 31, 63}, {1, 3, 4})
    BY DEF Fits, SameSpread, Given, Xr
  <2>2. c[4] = {15, 31, 63}
    BY <1>3 DEF RC
  <2>3. g[3] = {1, 3, 4}
    BY <1>1, Zenon DEF Rows
  <2>4. {15, 31, 63} = Spread({1, 3, 4})
    BY <1>2, <2>1, Zenon
  <2>. QED  BY <2>2, <2>3, <2>4, Zenon
<1>8. c[5] = Spread(g[4])
  <2>1. Fits({0, 1, 3, 7, 15}, {0, 1, 2, 3, 4, 6, 7})
    BY DEF Fits, SameSpread, Given, Xr
  <2>2. c[5] = {0, 1, 3, 7, 15}
    BY <1>3 DEF RC
  <2>3. g[4] = {0, 1, 2, 3, 4, 6, 7}
    BY <1>1, Zenon DEF Rows
  <2>4. {0, 1, 3, 7, 15} = Spread({0, 1, 2, 3, 4, 6, 7})
    BY <1>2, <2>1, Zenon
  <2>. QED  BY <2>2, <2>3, <2>4, Zenon
<1>9. c[6] = Spread(g[5])
  <2>1. Fits({0, 31}, {0, 3})
    BY DEF Fits, SameSpread, Given, Xr
  <2>2. c[6] = {0, 31}
    BY <1>3 DEF RC
  <2>3. g[5] = {0, 3}
    BY <1>1, Zenon DEF Rows
  <2>4. {0, 31} = Spread({0, 3})
    BY <1>2, <2>1, Zenon
  <2>. QED  BY <2>2, <2>3, <2>4, Zenon
<1>10. c[7] = Spread(g[6])
  <2>1. Fits({0, 7, 15, 31, 63}, {0, 2, 4, 5})
    BY DEF Fits, SameSpread, Given, Xr
  <2>2. c[7] = {0, 7, 15, 31, 63}
    BY <1>3 DEF RC
  <2>3. g[6] = {0, 2, 4, 5}
    BY <1>1, Zenon DEF Rows
  <2>4. {0, 7, 15, 31, 63} = Spread({0, 2, 4, 5})
    BY <1>2, <2>1, Zenon
  <2>. QED  BY <2>2, <2>3, <2>4, Zenon
<1>11. c[8] = Spread(g[7])
  <2>1. Fits({0, 3, 15, 63}, {0, 1, 2, 3, 6})
    BY DEF Fits, SameSpread, Given, Xr
  <2>2. c[8] = {0, 3, 15, 63}
    BY <1>3 DEF RC
  <2>3. g[7] = {0, 1, 2, 3, 6}
    BY <1>1, Zenon DEF Rows
  <2>4. {0, 3, 15, 63} = Spread({0, 1, 2, 3, 6})
    BY <1>2, <2>1, Zenon
  <2>. QED  BY <2>2, <2>3, <2>4, Zenon
<1>12. c[9] = Spread(g[8])
  <2>1. Fits({1, 3, 7}, {1, 3, 6, 7})
    BY DEF Fits, SameSpread, Given, Xr
  <2>2. c[9] = {1, 3, 7}
    BY <1>3 DEF RC
  <2>3. g[8] = {1, 3, 6, 7}
    BY <1>1, Zenon DEF Rows
  <2>4. {1, 3, 7} = Spread({1, 3, 6, 7})
    BY <1>2, <2>1, Zenon
  <2>. QED  BY <2>2, <2>3, <2>4, Zenon
<1>13. c[10] = Spread(g[9])
  <2>1. Fits({3, 7}, {4, 5, 6})
    BY DEF Fits, SameSpread, Given, Xr
  <2>2. c[10] = {3, 7}
    BY <1>3 DEF RC
  <2>3. g[9] = {4, 5, 6}
    BY <1>1, Zenon DEF Rows
  <2>4. {3, 7} = Spread({4, 5, 6})
    BY <1>2, <2>1, Zenon
  <2>. QED  BY <2>2, <2>3, <2>4, Zenon
<1>14. c[11] = Spread(g[10])
  <2>1. Fits({0, 3, 15, 31}, {0, 6})
    BY DEF Fits, SameSpread, Given, Xr
  <2>2. c[11] = {0, 3, 15, 31}
    BY <1>3 DEF RC
  <2>3. g[10] = {0, 6}
    BY <1>1, Zenon DEF Rows
  <2>4. {0, 3, 15, 31} = Spread({0, 6})
    BY <1>2, <2>1, Zenon
  <2>. QED  BY <2>2, <2>3, <2>4, Zenon
<1>15. c[12] = Spread(g[11])
  <2>1. Fits({1, 3, 31}, {2, 3, 5, 6, 7})
    BY DEF Fits, SameSpread, Given, Xr
  <2>2. c[12] = {1, 3, 31}
    BY <1>3 DEF RC
  <2>3. g[11] = {2, 3, 5, 6, 7}
    BY <1>1, Zenon DEF Rows
  <2>4. {1, 3, 31} = Spread({2, 3, 5, 6, 7})
    BY <1>2, <2>1, Zenon
  <2>. QED  BY <2>2, <2>3, <2>4, Zenon
<1>16. c[13] = Spread(g[12])
  <2>1. Fits({0, 1, 3, 7, 15, 31}, {0, 2, 4, 6, 7})
    BY DEF Fits, SameSpread, Given, Xr
  <2>2. c[13] = {0, 1, 3, 7, 15, 31}
    BY <1>3 DEF RC
  <2>3. g[12] = {0, 2, 4, 6, 7}
    BY <1>1, Zenon DEF Rows
  <2>4. {0, 1, 3, 7, 15, 31} = Spread({0, 2, 4, 6, 7})
    BY <1>2, <2>1, Zenon
  <2>. QED  BY <2>2, <2>3, <2>4, Zenon
<1>17. c[14] = Spread(g[13])
  <2>1. Fits({0, 1, 3, 7, 63}, {0, 2, 3, 6, 7})
    BY DEF Fits, SameSpread, Given, Xr
  <2>2. c[14] = {0, 1, 3, 7, 63}
    BY <1>3 DEF RC
  <2>3. g[13] = {0, 2, 3, 6, 7}
    BY <1>1, Zenon DEF Rows
  <2>4. {0, 1, 3, 7, 63} = Spread({0, 2, 3, 6, 7})
    BY <1>2, <2>1, Zenon
  <2>. QED  BY <2>2, <2>3, <2>4, Zenon
<1>18. c[15] = Spread(g[14])
  <2>1. Fits({0, 3, 7, 15, 63}, {0, 1, 5, 6})
    BY DEF Fits, SameSpread, Given, Xr
  <2>2. c[15] = {0, 3, 7, 15, 63}
    BY <1>3 DEF RC
  <2>3. g[14] = {0, 1, 5, 6}
    BY <1>1, Zenon DEF Rows
  <2>4. {0, 3, 7, 15, 63} = Spread({0, 1, 5, 6})
    BY <1>2, <2>1, Zenon
  <2>. QED  BY <2>2, <2>3, <2>4, Zenon
<1>19. c[16] = Spread(g[15])
  <2>1. Fits({0, 1, 15, 63}, {0, 1, 3, 5, 7})
    BY DEF Fits, SameSpread, Given, Xr
  <2>2. c[16] = {0, 1, 15, 63}
    BY <1>3 DEF RC
  <2>3. g[15] = {0, 1, 3, 5, 7}
    BY <1>1, Zenon DEF Rows
  <2>4. {0, 1, 15, 63} = Spread({0, 1, 3, 5, 7})
    BY <1>2, <2>1, Zenon
  <2>. QED  BY <2>2, <2>3, <2>4, Zenon
<1>20. c[17] = Spread(g[16])
  <2>1. Fits({1, 15, 63}, {1, 3, 5, 7})
    BY DEF Fits, SameSpread, Given, Xr
  <2>2. c[17] = {1, 15, 63}
    BY <1>3 DEF RC
  <2>3. g[16] = {1, 3, 5, 7}
    BY <1>1, Zenon DEF Rows
  <2>4. {1, 15, 63} = Spread({1, 3, 5, 7})
    BY <1>2, <2>1, Zenon
  <2>. QED  BY <2>2, <2>3, <2>4, Zenon
<1>21. c[18] = Spread(g[17])
  <2>1. Fits({7, 63}, {1, 3, 5})
    BY DEF Fits, SameSpread, Given, Xr
  <2>2. c[18] = {7, 63}
    BY <1>3 DEF RC
  <2>3. g[17] = {1, 3, 5}
    BY <1>1, Zenon DEF Rows
  <2>4. {7, 63} = Spread({1, 3, 5})
    BY <1>2, <2>1, Zenon
  <2>. QED  BY <2>2, <2>3, <2>4, Zenon
<1>22. c[19] = Spread(g[18])
  <2>1. Fits({1, 3, 15}, {1, 4, 5, 6, 7})
    BY DEF Fits, SameSpread, Given, Xr
  <2>2. c[19] = {1, 3, 15}
    BY <1>3 DEF RC
  <2>3. g[18] = {1, 4, 5, 6, 7}
    BY <1>1, Zenon DEF Rows
  <2>4. {1, 3, 15} = Spread({1, 4, 5, 6, 7})
    BY <1>2, <2>1, Zenon
  <2>. QED  BY <2>2, <2>3, <2>4, Zenon
<1>23. c[20] = Spread(g[19])
  <2>1. Fits({1, 3, 31, 63}, {3, 5, 6, 7})
    BY DEF Fits, SameSpread, Given, Xr
  <2>2. c[20] = {1, 3, 31, 63}
    BY <1>3 DEF RC
  <2>3. g[19] = {3, 5, 6, 7}
    BY <1>1, Zenon DEF Rows
  <2>4. {1, 3, 31, 63} = Spread({3, 5, 6, 7})
    BY <1>2, <2>1, Zenon
  <2>. QED  BY <2>2, <2>3, <2>4, Zenon
<1>24. c[21] = Spread(g[20])
  <2>1. Fits({0, 7, 15, 31, 63}, {0, 1, 2, 4, 5})
    BY DEF Fits, SameSpread, Given, Xr
  <2>2. c[21] = {0, 7, 15, 31, 63}
    BY <1>3 DEF RC
  <2>3. g[20] = {0, 1, 2, 4, 5}
    BY <1>1, Zenon DEF Rows
  <2>4. {0, 7, 15, 31, 63} = Spread({0, 1, 2, 4, 5})
    BY <1>2, <2>1, Zenon
  <2>. QED  BY <2>2, <2>3, <2>4, Zenon
<1>25. c[22] = Spread(g[21])
  <2>1. Fits({7, 15, 63}, {1, 2, 3, 4, 5})
    BY DEF Fits, SameSpread, Given, Xr
  <2>2. c[22] = {7, 15, 63}
    BY <1>3 DEF RC
  <2>3. g[21] = {1, 2, 3, 4, 5}
    BY <1>1, Zenon DEF Rows
  <2>4. {7, 15, 63} = Spread({1, 2, 3, 4, 5})
    BY <1>2, <2>1, Zenon
  <2>. QED  BY <2>2, <2>3, <2>4, Zenon
<1>26. c[23] = Spread(g[22])
  <2>1. Fits({0, 31}, {0, 1, 3})
    BY DEF Fits, SameSpread, Given, Xr
  <2>2. c[23] = {0, 31}
    BY <1>3 DEF RC
  <2>3. g[22] = {0, 1, 3}
    BY <1>1, Zenon DEF Rows
  <2>4. {0, 31} = Spread({0, 1, 3})
    BY <1>2, <2>1, Zenon
  <2>. QED  BY <2>2, <2>3, <2>4, Zenon
<1>27. c[24] = Spread(g[23])
  <2>1. Fits({3, 15, 31, 63}, {2, 6})
    BY DEF Fits, SameSpread, Given, Xr
  <2>2. c[24] = {3, 15, 31, 63}
    BY <1>3 DEF RC
  <2>3. g[23] = {2, 6}
    BY <1>1, Zenon DEF Rows
  <2>4. {3, 15, 31, 63} = Spread({2, 6})
    BY <1>2, <2>1, Zenon
  <2>. QED  BY <2>2, <2>3, <2>4, Zenon
<1>28. ASSUME NEW n \in 0..23
       PROVE  c[n+1] = Spread(g[n])
  BY <1>4, <1>5, <1>6, <1>7, <1>8, <1>9, <1>10, <1>11, <1>12, <1>13, <1>14,
     <1>15, <1>16, <1>17, <1>18, <1>19, <1>20, <1>21, <1>22, <1>23, <1>24,
     <1>25, <1>26, <1>27
<1>. TAKE n \in 0..23
<1>29. g[n] = Standard!register[7*n]
  BY <1>1, Zenon DEF Rows
<1>. QED  BY <1>3, <1>28, <1>29

-----------------------------------------------------------------------------
(* One round.                                                              *)

LEMMA SymDiffIs == \A a, b : Standard!SymDiff(a, b) = SymDiff(a, b)
BY Zenon DEF Standard!SymDiff, SymDiff

(* To add lanes one by one is to add the state arrays.                     *)
LEMMA XorArray ==
    ASSUME NEW s \in Lanes, NEW t \in Lanes, NEW u \in Lanes,
           \A k \in 0..24 : u[k] = SymDiff(s[k], t[k])
    PROVE  Array(u) = SymDiff(Array(s), Array(t))
<1>1. Array(u) \in SUBSET Standard!Cube
  BY ArrayCube
<1>2. SymDiff(Array(s), Array(t)) \in SUBSET Standard!Cube
  <2>1. Array(s) \in SUBSET Standard!Cube /\ Array(t) \in SUBSET Standard!Cube
    BY ArrayCube
  <2>. QED  BY <2>1 DEF SymDiff
<1>3. ASSUME NEW x \in 0..4, NEW y \in 0..4, NEW z \in 0..63
      PROVE  <<x, y, z>> \in Array(u) <=>
               <<x, y, z>> \in SymDiff(Array(s), Array(t))
  <2>1. /\ <<x, y, z>> \in Array(s) <=> z \in s[Lane(x, y)]
        /\ <<x, y, z>> \in Array(t) <=> z \in t[Lane(x, y)]
        /\ <<x, y, z>> \in Array(u) <=> z \in u[Lane(x, y)]
    BY InArray, Zenon
  <2>2. u[Lane(x, y)] = SymDiff(s[Lane(x, y)], t[Lane(x, y)])
    BY LaneOf, Zenon
  <2>3. z \in SymDiff(s[Lane(x, y)], t[Lane(x, y)]) <=>
          ~(z \in s[Lane(x, y)] <=> z \in t[Lane(x, y)])
    BY DEF SymDiff
  <2>4. <<x, y, z>> \in SymDiff(Array(s), Array(t)) <=>
          ~(<<x, y, z>> \in Array(s) <=> <<x, y, z>> \in Array(t))
    BY DEF SymDiff
  <2>. QED  BY <2>1, <2>2, <2>3, <2>4
<1>4. Agree(Array(u), SymDiff(Array(s), Array(t)))
  BY <1>3, Zenon DEF Agree
<1>. QED  BY <1>1, <1>2, <1>4, CubeEqual, Zenon

LEMMA RCLanes == \A n \in 1..24 : RC[n] \in SUBSET (0..63)
<1>1. \A n \in 1..24 : RC[n] \subseteq {0, 1, 3, 7, 15, 31, 63}
  BY DEF RC
<1>. QED  BY <1>1

Iota(t, r) == [t EXCEPT ![0] = SymDiff(t[0], RC[r+1])]

(* The bits rc of the standard are those that the register gives.          *)
LEMMA RCIs ==
    ASSUME NEW r \in 0..23
    PROVE  {k \in 0..6 : Standard!rc(k + 7*r)} =
             {k \in 0..6 : Given(Standard!register[7*r], k)}
<1>1. PICK R : R = Standard!register[7*r]
  OBVIOUS
<1>2. R \in SUBSET (0..7)
  <2>1. PICK g : Rows(g)
    BY RegisterRows, Zenon
  <2>2. \A n \in 0..23 : g[n] \in SUBSET (0..7)
    BY <2>1 DEF Rows
  <2>3. g[r] = Standard!register[7*r]
    BY <2>1, Zenon DEF Rows
  <2>. QED  BY <1>1, <2>2, <2>3
<1>3. ASSUME NEW k \in 0..6
      PROVE  Standard!rc(k + 7*r) <=> Given(R, k)
  <2>1. (k + 7*r) % 255 = 7*r + k /\ 7*r \in 0..247
    OBVIOUS
  <2>2. 0 \in Standard!register[7*r + k] <=> Given(R, k)
    BY <1>1, <1>2, <2>1, SevenSteps, Zenon
  <2>. QED  BY <2>1, <2>2, Zenon DEF Standard!rc
<1>4. {k \in 0..6 : Standard!rc(k + 7*r)} = {k \in 0..6 : Given(R, k)}
  BY <1>3, Zenon
<1>. QED  BY <1>1, <1>4, Zenon

LEMMA IotaIs ==
    ASSUME NEW t \in Lanes, NEW r \in 0..23
    PROVE  /\ Iota(t, r) \in Lanes
           /\ Array(Iota(t, r)) = Standard!iota(Array(t), r)
<1> DEFINE c == [k \in 0..24 |-> IF k = 0 THEN RC[r+1] ELSE {}]
<1>1. r+1 \in 1..24 /\ RC[r+1] \in SUBSET (0..63)
  BY RCLanes
<1>2. c \in Lanes
  BY <1>1 DEF Lanes
<1>3. /\ Iota(t, r) \in Lanes
      /\ \A k \in 0..24 : Iota(t, r)[k] = SymDiff(t[k], c[k])
  <2>1. SymDiff(t[0], RC[r+1]) \in SUBSET (0..63)
    BY <1>1 DEF Lanes, SymDiff
  <2>2. Iota(t, r) \in Lanes
    BY <2>1 DEF Iota, Lanes
  <2>3. \A k \in 0..24 : SymDiff(t[k], {}) = t[k]
    BY DEF SymDiff
  <2>4. ASSUME NEW k \in 0..24
        PROVE  Iota(t, r)[k] = SymDiff(t[k], c[k])
    <3>1. CASE k = 0
      BY <3>1 DEF Iota, Lanes
    <3>2. CASE k # 0
      BY <2>3, <3>2 DEF Iota, Lanes
    <3>. QED  BY <3>1, <3>2
  <2>. QED  BY <2>2, <2>4
<1>4. Array(Iota(t, r)) = SymDiff(Array(t), Array(c))
  <2>. HIDE DEF c
  <2>. QED  BY <1>2, <1>3, XorArray, Zenon
<1>5. PICK K : K = {k \in 0..6 : Standard!rc(k + 7*r)}
  OBVIOUS
<1>6. RC[r+1] = {2^j - 1 : j \in K}
  <2>1. RC[r+1] = Spread(Standard!register[7*r])
    BY RoundConstants, Zenon
  <2>2. K = {k \in 0..6 : Given(Standard!register[7*r], k)}
    BY <1>5, RCIs, Zenon
  <2>. QED  BY <2>1, <2>2, Zenon DEF Spread
<1>7. \A k \in 0..24 : {<<k % 5, k \div 5, z>> : z \in c[k]} =
                         IF k = 0 THEN {<<0, 0, z>> : z \in RC[r+1]} ELSE {}
  <2>. TAKE k \in 0..24
  <2>1. CASE k = 0
    <3>1. c[k] = RC[r+1] /\ k % 5 = 0 /\ k \div 5 = 0
      BY <2>1
    <3>. QED  BY <2>1, <3>1, Zenon
  <2>2. CASE k # 0
    <3>1. c[k] = {}
      BY <2>2
    <3>. QED  BY <2>2, <3>1
  <2>. QED  BY <2>1, <2>2, Zenon
<1>8. Array(c) = {<<0, 0, z>> : z \in RC[r+1]}
  <2>1. PICK f : f = [k \in 0..24 |-> {<<k % 5, k \div 5, z>> : z \in c[k]}]
    OBVIOUS
  <2>2. Array(c) = UNION {f[k] : k \in 0..24}
    <3>. HIDE DEF c
    <3>. QED  BY <2>1, Zenon DEF Array
  <2>3. \A k \in 0..24 : f[k] = IF k = 0 THEN {<<0, 0, z>> : z \in RC[r+1]}
                                ELSE {}
    BY <1>7, <2>1, Zenon
  <2>4. 0 \in 0..24
    OBVIOUS
  <2>. QED  BY <2>2, <2>3, <2>4
<1>9. Array(c) = {<<0, 0, 2^j - 1>> : j \in K}
  <2>1. PICK S : S = RC[r+1]
    OBVIOUS
  <2>2. S = {2^j - 1 : j \in K}
    BY <1>6, <2>1
  <2>. QED  BY <1>8, <2>1, <2>2
<1>. QED  BY <1>3, <1>4, <1>5, <1>9, SymDiffIs, Zenon DEF Standard!iota

LEMMA KeccakfIs ==
    ASSUME NEW s \in Lanes, NEW r \in 0..23
    PROVE  /\ Keccakf(s, r) \in Lanes
           /\ Array(Keccakf(s, r)) = Standard!Rnd(Array(s), r)
<1>1. Keccakf(s, r) = Iota(Chi(RhoPi(Theta(s))), r)
  BY Zenon DEF Keccakf, Iota
<1>2. PICK a : a = Theta(s)
  OBVIOUS
<1>3. PICK b : b = RhoPi(a)
  OBVIOUS
<1>4. PICK d : d = Chi(b)
  OBVIOUS
<1>5. a \in Lanes /\ Array(a) = Standard!theta(Array(s))
  BY <1>2, ThetaIs
<1>6. b \in Lanes /\ Array(b) = Standard!pi(Standard!rho(Array(a)))
  BY <1>3, <1>5, RhoPiLanes, RhoPiIs
<1>7. d \in Lanes /\ Array(d) = Standard!chi(Array(b))
  BY <1>4, <1>6, ChiIs
<1>8. Iota(d, r) \in Lanes /\ Array(Iota(d, r)) = Standard!iota(Array(d), r)
  BY <1>7, IotaIs
<1>9. Keccakf(s, r) = Iota(d, r)
  BY <1>1, <1>2, <1>3, <1>4
<1>. QED  BY <1>5, <1>6, <1>7, <1>8, <1>9 DEF Standard!Rnd

-----------------------------------------------------------------------------
(* Bytes and their bits.                                                   *)

LEMMA BitIs ==
    ASSUME NEW n \in Int
    PROVE  /\ Bits(n) \in SUBSET (0..7)
           /\ 0 \in Bits(n) <=> n % 2 = 1
           /\ 1 \in Bits(n) <=> (n \div 2) % 2 = 1
           /\ 2 \in Bits(n) <=> (n \div 4) % 2 = 1
           /\ 3 \in Bits(n) <=> (n \div 8) % 2 = 1
           /\ 4 \in Bits(n) <=> (n \div 16) % 2 = 1
           /\ 5 \in Bits(n) <=> (n \div 32) % 2 = 1
           /\ 6 \in Bits(n) <=> (n \div 64) % 2 = 1
           /\ 7 \in Bits(n) <=> (n \div 128) % 2 = 1
<1>1. /\ 2^0 = 1 /\ 2^1 = 2 /\ 2^2 = 4 /\ 2^3 = 8 /\ 2^4 = 16 /\ 2^5 = 32
      /\ 2^6 = 64 /\ 2^7 = 128
  OBVIOUS
<1>2. \A b \in 0..7 : b \in Bits(n) <=> (n \div 2^b) % 2 = 1
  BY DEF Bits
<1>3. Bits(n) \in SUBSET (0..7)
  BY DEF Bits
<1>4. n \div 1 = n
  OBVIOUS
<1>. QED  BY <1>1, <1>2, <1>3, <1>4

EightEqual(S, T) ==
    /\ 0 \in S <=> 0 \in T
    /\ 1 \in S <=> 1 \in T
    /\ 2 \in S <=> 2 \in T
    /\ 3 \in S <=> 3 \in T
    /\ 4 \in S <=> 4 \in T
    /\ 5 \in S <=> 5 \in T
    /\ 6 \in S <=> 6 \in T
    /\ 7 \in S <=> 7 \in T

LEMMA ByteEqual ==
    ASSUME NEW S \in SUBSET (0..7), NEW T \in SUBSET (0..7), EightEqual(S, T)
    PROVE  S = T
<1>1. \A v \in 0..7 : v \in {0, 1, 2, 3, 4, 5, 6, 7}
  OBVIOUS
<1>2. \A v \in 0..7 : v \in S <=> v \in T
  BY <1>1 DEF EightEqual
<1>. QED  BY <1>2

(* The bytes that the padding writes.                                      *)
LEMMA PaddingBits ==
    /\ Bits(0) = {}
    /\ Bits(6) = {1, 2}
<1>1. Bits(0) = {}
  <2>1. EightEqual(Bits(0), {})
    BY BitIs DEF EightEqual
  <2>2. Bits(0) \in SUBSET (0..7) /\ {} \in SUBSET (0..7)
    BY BitIs
  <2>. QED  BY <2>1, <2>2, ByteEqual, Zenon
<1>2. Bits(6) = {1, 2}
  <2>1. EightEqual(Bits(6), {1, 2})
    BY BitIs DEF EightEqual
  <2>2. Bits(6) \in SUBSET (0..7) /\ {1, 2} \in SUBSET (0..7)
    BY BitIs
  <2>. QED  BY <2>1, <2>2, ByteEqual, Zenon
<1>. QED  BY <1>1, <1>2

(* What buf[rate-1] |= 0x80 does.                                          *)
LEMMA TopBit ==
    ASSUME NEW n \in Bytes
    PROVE  Bits(IF n >= 128 THEN n ELSE n + 128) = Bits(n) \cup {7}
<1>1. n \in 0..255
  BY DEF Bytes
<1>2. CASE n >= 128
  <2>1. 7 \in Bits(n)
    BY <1>1, <1>2, BitIs
  <2>. QED  BY <1>2, <2>1
<1>3. CASE n < 128
  <2>1. /\ (n + 128) % 2 = n % 2
        /\ ((n + 128) \div 2) % 2 = (n \div 2) % 2
        /\ ((n + 128) \div 4) % 2 = (n \div 4) % 2
        /\ ((n + 128) \div 8) % 2 = (n \div 8) % 2
        /\ ((n + 128) \div 16) % 2 = (n \div 16) % 2
        /\ ((n + 128) \div 32) % 2 = (n \div 32) % 2
        /\ ((n + 128) \div 64) % 2 = (n \div 64) % 2
        /\ ((n + 128) \div 128) % 2 = 1
    BY <1>1, <1>3
  <2>2. n + 128 \in Int /\ n \in Int
    BY <1>1
  <2>3. EightEqual(Bits(n + 128), Bits(n) \cup {7})
    BY <2>1, <2>2, BitIs DEF EightEqual
  <2>4. /\ Bits(n + 128) \in SUBSET (0..7)
        /\ Bits(n) \cup {7} \in SUBSET (0..7)
    BY <2>2, BitIs
  <2>5. Bits(n + 128) = Bits(n) \cup {7}
    BY <2>3, <2>4, ByteEqual, Zenon
  <2>6. (IF n >= 128 THEN n ELSE n + 128) = n + 128
    BY <1>1, <1>3
  <2>. QED  BY <2>5, <2>6
<1>. QED  BY <1>1, <1>2, <1>3

(* There is a byte with any given bits.                                    *)
LEMMA SomeByte ==
    ASSUME NEW S \in SUBSET (0..7)
    PROVE  \E n \in 0..255 : Bits(n) = S
<1> DEFINE d(b) == IF b \in S THEN 1 ELSE 0
<1>1. PICK a, b, c, e, f, g, h, i :
        /\ a = d(0) /\ b = d(1) /\ c = d(2) /\ e = d(3)
        /\ f = d(4) /\ g = d(5) /\ h = d(6) /\ i = d(7)
  OBVIOUS
<1>2. /\ a \in 0..1 /\ b \in 0..1 /\ c \in 0..1 /\ e \in 0..1
      /\ f \in 0..1 /\ g \in 0..1 /\ h \in 0..1 /\ i \in 0..1
  BY <1>1
<1>3. PICK n : n = a + 2*b + 4*c + 8*e + 16*f + 32*g + 64*h + 128*i
  OBVIOUS
<1>4. n \in 0..255 /\ n \in Int
  BY <1>2, <1>3
<1>5. /\ n % 2 = a
      /\ (n \div 2) % 2 = b
      /\ (n \div 4) % 2 = c
      /\ (n \div 8) % 2 = e
  BY <1>2, <1>3
<1>6. /\ (n \div 16) % 2 = f
      /\ (n \div 32) % 2 = g
      /\ (n \div 64) % 2 = h
      /\ (n \div 128) % 2 = i
  BY <1>2, <1>3
<1>7. EightEqual(Bits(n), S)
  BY <1>1, <1>4, <1>5, <1>6, BitIs DEF EightEqual
<1>8. Bits(n) = S
  BY <1>4, <1>7, BitIs, ByteEqual, Zenon
<1>. QED  BY <1>4, <1>8

(* Where the bits of a sequence of bytes lie.                              *)
LEMMA OnesIs ==
    ASSUME NEW s, NEW len \in Nat, DOMAIN s = 1..len,
           NEW p \in Nat, NEW b \in 0..7
    PROVE  8*p + b \in Ones(s) <=> p < len /\ b \in Bits(s[p+1])
<1>1. 8*p + b \in Ones(s) <=>
        \E i \in 1..len : \E a \in Bits(s[i]) : 8*p + b = 8 * (i-1) + a
  BY DEF Ones
<1>2. \A i \in 1..len : Bits(s[i]) \subseteq 0..7
  BY DEF Bits
<1>3. \A i \in 1..len, a \in 0..7 :
        8*p + b = 8 * (i-1) + a <=> i = p+1 /\ a = b
  OBVIOUS
<1>4. p+1 \in 1..len <=> p < len
  OBVIOUS
<1>. QED  BY <1>1, <1>2, <1>3, <1>4

LEMMA OnesNat ==
    ASSUME NEW s, NEW len \in Nat, DOMAIN s = 1..len
    PROVE  \A q \in Ones(s) : q \in Nat /\ q < 8*len
<1>1. \A q \in Ones(s) :
        \E i \in 1..len : \E a \in Bits(s[i]) : q = 8 * (i-1) + a
  BY DEF Ones
<1>2. \A i \in 1..len : Bits(s[i]) \subseteq 0..7
  BY DEF Bits
<1>. TAKE q \in Ones(s)
<1>3. PICK i \in 1..len : \E a \in Bits(s[i]) : q = 8 * (i-1) + a
  BY <1>1
<1>4. PICK a \in Bits(s[i]) : q = 8 * (i-1) + a
  BY <1>3
<1>5. a \in 0..7 /\ i \in 1..len
  BY <1>2
<1>. QED  BY <1>4, <1>5

-----------------------------------------------------------------------------
(* A block.                                                                *)

(* What Xor adds to the lanes.                                             *)
BufLanes(buf) ==
    [k \in 0..24 |->
       IF k >= rate \div 8 THEN {}
       ELSE UNION {{8*j + b : b \in Bits(buf[8*k + j])} : j \in 0..7}]

LEMMA EightBytes ==
    ASSUME NEW buf, NEW k \in 0..24
    PROVE  LET u == UNION {{8*j + b : b \in Bits(buf[8*k + j])} : j \in 0..7}
           IN  /\ u \in SUBSET (0..63)
               /\ \A z \in 0..63 :
                     z \in u <=> z % 8 \in Bits(buf[8*k + z \div 8])
<1> DEFINE u == UNION {{8*j + b : b \in Bits(buf[8*k + j])} : j \in 0..7}
<1>1. \A j \in 0..7 : Bits(buf[8*k + j]) \subseteq 0..7
  BY DEF Bits
<1>2. PICK f : f = [j \in 0..7 |-> Bits(buf[8*k + j])]
  OBVIOUS
<1>3. u = UNION {{8*j + b : b \in f[j]} : j \in 0..7}
  BY <1>2
<1>4. \A j \in 0..7 : f[j] \subseteq 0..7
  BY <1>1, <1>2
<1>5. \A z : z \in u <=> \E j \in 0..7 : \E b \in f[j] : z = 8*j + b
  <2>. HIDE DEF u
  <2>. QED  BY <1>3
<1>6. ASSUME NEW z \in 0..63
      PROVE  z \in u <=> z % 8 \in f[z \div 8]
  <2>1. z \div 8 \in 0..7 /\ z % 8 \in 0..7 /\ z = 8 * (z \div 8) + (z % 8)
    OBVIOUS
  <2>2. \A j \in 0..7, b \in 0..7 :
           z = 8*j + b => j = z \div 8 /\ b = z % 8
    OBVIOUS
  <2>3. PICK j, b : j = z \div 8 /\ b = z % 8
    OBVIOUS
  <2>. HIDE DEF u
  <2>4. b \in f[j] => z \in u
    BY <1>5, <2>1, <2>3
  <2>5. z \in u => b \in f[j]
    BY <1>4, <1>5, <2>2, <2>3
  <2>. QED  BY <2>3, <2>4, <2>5
<1>7. u \in SUBSET (0..63)
  <2>. SUFFICES ASSUME NEW z \in u PROVE z \in 0..63
    OBVIOUS
  <2>. HIDE DEF u
  <2>1. PICK j \in 0..7 : \E b \in f[j] : z = 8*j + b
    BY <1>5
  <2>2. PICK b \in f[j] : z = 8*j + b
    BY <2>1
  <2>3. b \in 0..7
    BY <1>4
  <2>. QED  BY <2>2, <2>3
<1>8. ASSUME NEW z \in 0..63
      PROVE  z \in u <=> z % 8 \in Bits(buf[8*k + z \div 8])
  <2>1. z \div 8 \in 0..7
    OBVIOUS
  <2>. HIDE DEF u
  <2>. QED  BY <1>2, <1>6, <2>1
<1>. QED  BY <1>7, <1>8

LEMMA BufLane ==
    ASSUME NEW buf
    PROVE  /\ BufLanes(buf) \in Lanes
           /\ \A k \in 0..24, z \in 0..63 :
                z \in BufLanes(buf)[k] <=>
                  k < 17 /\ z % 8 \in Bits(buf[8*k + z \div 8])
<1> DEFINE e(k) == UNION {{8*j + b : b \in Bits(buf[8*k + j])} : j \in 0..7}
<1>1. rate \div 8 = 17
  BY DEF rate
<1>2. ASSUME NEW k \in 0..24
      PROVE  /\ e(k) \in SUBSET (0..63)
             /\ \A z \in 0..63 :
                   z \in e(k) <=> z % 8 \in Bits(buf[8*k + z \div 8])
  BY EightBytes, Zenon
<1>3. BufLanes(buf) = [k \in 0..24 |-> IF k >= 17 THEN {} ELSE e(k)]
  BY <1>1 DEF BufLanes
<1>. HIDE DEF e
<1>4. \A k \in 0..24 : BufLanes(buf)[k] = IF k >= 17 THEN {} ELSE e(k)
  BY <1>3
<1>5. BufLanes(buf) \in Lanes
  BY <1>2, <1>3 DEF Lanes
<1>6. ASSUME NEW k \in 0..24, NEW z \in 0..63
      PROVE  z \in BufLanes(buf)[k] <=>
               k < 17 /\ z % 8 \in Bits(buf[8*k + z \div 8])
  <2>1. z \in e(k) <=> z % 8 \in Bits(buf[8*k + z \div 8])
    BY <1>2, Zenon
  <2>2. k < 17 <=> ~(k >= 17)
    OBVIOUS
  <2>. QED  BY <1>4, <2>1, <2>2, Zenon
<1>. QED  BY <1>5, <1>6

LEMMA XorIs ==
    ASSUME NEW s \in Lanes, NEW buf
    PROVE  /\ Xor(s, buf) \in Lanes
           /\ Array(Xor(s, buf)) = SymDiff(Array(s), Array(BufLanes(buf)))
<1> DEFINE e(k) == UNION {{8*j + b : b \in Bits(buf[8*k + j])} : j \in 0..7}
<1>1. Xor(s, buf) = [k \in 0..24 |-> IF k >= rate \div 8 THEN s[k]
                                     ELSE SymDiff(s[k], e(k))]
  BY Zenon DEF Xor
<1>2. BufLanes(buf) = [k \in 0..24 |-> IF k >= rate \div 8 THEN {} ELSE e(k)]
  BY Zenon DEF BufLanes
<1>3. BufLanes(buf) \in Lanes
  BY BufLane
<1>. HIDE DEF e
<1>4. \A k \in 0..24 : Xor(s, buf)[k] = SymDiff(s[k], BufLanes(buf)[k])
  <2>1. \A k \in 0..24 : SymDiff(s[k], {}) = s[k]
    BY DEF SymDiff
  <2>. QED  BY <1>1, <1>2, <2>1
<1>5. Xor(s, buf) \in Lanes
  <2>1. \A k \in 0..24 : SymDiff(s[k], BufLanes(buf)[k]) \in SUBSET (0..63)
    BY <1>3 DEF Lanes, SymDiff
  <2>2. \A k \in 0..24 : Xor(s, buf)[k] \in SUBSET (0..63)
    BY <1>4, <2>1, Zenon
  <2>3. Xor(s, buf) = [k \in 0..24 |-> Xor(s, buf)[k]]
    BY <1>1
  <2>. QED  BY <2>2, <2>3, Zenon DEF Lanes
<1>. QED  BY <1>3, <1>4, <1>5, XorArray, Zenon

(* A buffer whose bytes are those of the padded message is its block.      *)
LEMMA BlockIs ==
    ASSUME NEW m, NEW n \in Nat, NEW buf,
           \A i \in 0..135, b \in 0..7 :
              b \in Bits(buf[i]) <=> 8 * (136*n + i) + b \in Standard!Padded(m)
    PROVE  Array(BufLanes(buf)) = Standard!Block(m, n)
<1>1. Array(BufLanes(buf)) \in SUBSET Standard!Cube
  BY BufLane, ArrayCube
<1>2. Standard!Block(m, n) \in SUBSET Standard!Cube
  BY Zenon DEF Standard!Block
<1>3. PICK P : P = Standard!Padded(m)
  OBVIOUS
<1>4. ASSUME NEW x \in 0..4, NEW y \in 0..4, NEW z \in 0..63
      PROVE  <<x, y, z>> \in Array(BufLanes(buf)) <=>
               <<x, y, z>> \in Standard!Block(m, n)
  <2>1. PICK k \in 0..24 : k = Lane(x, y)
    BY LaneOf
  <2>2. <<x, y, z>> \in Array(BufLanes(buf)) <=>
          k < 17 /\ z % 8 \in Bits(buf[8*k + z \div 8])
    BY <2>1, BufLane, InArray, Zenon
  <2>3. <<x, y, z>> \in Standard!Block(m, n) <=>
          1088*n + 64*k + z \in {q \in P : q < 1088 * (n+1)}
    <3>1. <<x, y, z>> \in Standard!Cube
      BY DEF Standard!Cube
    <3>2. k = 5*y + x
      BY <2>1 DEF Lane
    <3>. QED  BY <1>3, <3>1, <3>2 DEF Standard!Block, Standard!rate
  <2>4. 1088*n + 64*k + z < 1088 * (n+1) <=> k < 17
    OBVIOUS
  <2>5. CASE k < 17
    <3>1. PICK i, b : i = 8*k + z \div 8 /\ b = z % 8
      OBVIOUS
    <3>2. i \in 0..135 /\ b \in 0..7
      BY <2>5, <3>1
    <3>3. 1088*n + 64*k + z = 8 * (136*n + i) + b
      BY <3>1
    <3>4. b \in Bits(buf[i]) <=> 8 * (136*n + i) + b \in P
      BY <1>3, <3>2
    <3>. QED  BY <2>2, <2>3, <2>4, <2>5, <3>1, <3>3, <3>4
  <2>6. CASE ~(k < 17)
    BY <2>2, <2>3, <2>4, <2>6
  <2>. QED  BY <2>5, <2>6
<1>5. Agree(Array(BufLanes(buf)), Standard!Block(m, n))
  BY <1>4, Zenon DEF Agree
<1>. QED  BY <1>1, <1>2, <1>5, CubeEqual, Zenon

-----------------------------------------------------------------------------
(* The padding.                                                            *)

Message(s) == [len |-> 8 * Len(s), ones |-> Ones(s)]

(* The padded message has room for at least four more bits, and ends with  *)
(* the block in which the message ends.                                    *)
LEMMA TotalRoom ==
    ASSUME NEW l \in Nat
    PROVE  Standard!Total(8*l) \in Nat /\ Standard!Total(8*l) >= 8*l + 4
<1>1. Standard!Total(8*l) = 1088 * ((8*l + 4 + 1088 - 1) \div 1088)
  BY DEF Standard!Total, Standard!rate
<1>2. PICK t : t = (8*l + 4 + 1088 - 1) \div 1088
  OBVIOUS
<1>. QED  BY <1>1, <1>2

LEMMA TotalIs ==
    ASSUME NEW l \in Nat, NEW n \in Nat, 136*n <= l
    PROVE  /\ 1088*n < Standard!Total(8*l)
           /\ l < 136*(n+1) => Standard!Total(8*l) = 1088 * (n+1)
<1>1. Standard!Total(8*l) = 1088 * ((8*l + 4 + 1088 - 1) \div 1088)
  BY DEF Standard!Total, Standard!rate
<1>2. PICK t : t = (8*l + 4 + 1088 - 1) \div 1088
  OBVIOUS
<1>3. t \in Nat /\ 1088*t >= 8*l + 4
  BY <1>2
<1>4. t >= n+1
  BY <1>3
<1>5. l < 136*(n+1) => t = n+1
  <2>1. 1088*t <= 8*l + 4 + 1088 - 1
    BY <1>2
  <2>. QED  BY <1>4, <1>3, <2>1
<1>. QED  BY <1>1, <1>2, <1>3, <1>4, <1>5

LEMMA PaddedIs ==
    ASSUME NEW s \in Seq(Bytes), NEW p \in Nat, NEW b \in 0..7
    PROVE  8*p + b \in Standard!Padded(Message(s)) <=>
             \/ p < Len(s) /\ b \in Bits(s[p+1])
             \/ p = Len(s) /\ b \in {1, 2}
             \/ 8*p + b = Standard!Total(8 * Len(s)) - 1
<1>1. PICK l \in Nat : l = Len(s) /\ DOMAIN s = 1..l
  OBVIOUS
<1>2. 8*p + b \in Ones(s) <=> p < l /\ b \in Bits(s[p+1])
  BY <1>1, OnesIs, Zenon
<1>3. Standard!Padded(Message(s)) =
        Ones(s) \cup {8*l + 1, 8*l + 2, Standard!Total(8*l) - 1}
  BY <1>1 DEF Standard!Padded, Message
<1>4. 8*p + b \in {8*l + 1, 8*l + 2} <=> p = l /\ b \in {1, 2}
  OBVIOUS
<1>. QED  BY <1>1, <1>2, <1>3, <1>4

(* The buffers of both kinds of blocks hold the bits of the padded message. *)
Holds(buf, m, n) ==
    \A i \in 0..135, b \in 0..7 :
       b \in Bits(buf[i]) <=> 8 * (136*n + i) + b \in Standard!Padded(m)

LEMMA FullBuffer ==
    ASSUME NEW s \in Seq(Bytes), NEW n \in Nat, 136*(n+1) <= Len(s)
    PROVE  Holds([i \in 0..135 |-> s[136*n + i + 1]], Message(s), n)
<1>1. SUFFICES ASSUME NEW i \in 0..135, NEW b \in 0..7
               PROVE  b \in Bits(s[136*n + i + 1]) <=>
                        8 * (136*n + i) + b \in Standard!Padded(Message(s))
  BY DEF Holds
<1>2. PICK l \in Nat : l = Len(s)
  OBVIOUS
<1>3. PICK p \in Nat : p = 136*n + i
  OBVIOUS
<1>4. p < l
  BY <1>2, <1>3
<1>5. 8*p + b # Standard!Total(8*l) - 1
  <2>1. Standard!Total(8*l) \in Nat /\ Standard!Total(8*l) >= 8*l + 4
    BY TotalRoom
  <2>. QED  BY <1>4, <2>1
<1>6. 8*p + b \in Standard!Padded(Message(s)) <=>
        \/ p < Len(s) /\ b \in Bits(s[p+1])
        \/ p = Len(s) /\ b \in {1, 2}
        \/ 8*p + b = Standard!Total(8 * Len(s)) - 1
  BY PaddedIs
<1>. QED  BY <1>2, <1>3, <1>4, <1>5, <1>6

LEMMA LastBuffer ==
    ASSUME NEW n \in Nat, off = 136*n, Input(call) \in Seq(Bytes),
           inlen \in 0..135
    PROVE  Holds(PadBuf(inlen), Message(Input(call)), n)
<1>1. PICK s \in Seq(Bytes) : s = Input(call)
  OBVIOUS
<1>2. PICK l \in Nat : l = Len(s)
  OBVIOUS
<1>3. SUFFICES ASSUME NEW i \in 0..135, NEW b \in 0..7
               PROVE  b \in Bits(PadBuf(inlen)[i]) <=>
                        8 * (136*n + i) + b \in Standard!Padded(Message(s))
  BY <1>1 DEF Holds
<1>4. PICK p \in Nat : p = 136*n + i
  OBVIOUS
<1>5. PICK marked : marked = [j \in 0..135 |->
                                IF j < inlen THEN s[off + j + 1]
                                ELSE IF j = inlen THEN 6 ELSE 0]
  OBVIOUS
<1>6. inlen = l - 136*n
  BY <1>1, <1>2 DEF inlen
<1>7. marked[i] \in Bytes
  <2>1. CASE i < inlen
    <3>1. off + i + 1 \in 1..Len(s)
      BY <1>2, <1>6, <2>1
    <3>. QED  BY <1>5, <2>1, <3>1
  <2>2. CASE ~(i < inlen)
    BY <1>5, <2>2 DEF Bytes
  <2>. QED  BY <2>1, <2>2
<1>8. PadBuf(inlen) = [marked EXCEPT ![135] = IF @ >= 128 THEN @ ELSE @ + 128]
  BY <1>1, <1>5 DEF PadBuf, rate
<1>9. Bits(PadBuf(inlen)[i]) =
        IF i = 135 THEN Bits(marked[i]) \cup {7} ELSE Bits(marked[i])
  <2>1. i \in DOMAIN marked
    BY <1>5
  <2>2. CASE i = 135
    <3>1. PadBuf(inlen)[i] = IF marked[i] >= 128 THEN marked[i]
                             ELSE marked[i] + 128
      BY <1>8, <2>1, <2>2
    <3>2. Bits(PadBuf(inlen)[i]) = Bits(marked[i]) \cup {7}
      BY <1>7, <3>1, TopBit, Zenon
    <3>. QED  BY <2>2, <3>2
  <2>3. CASE i # 135
    BY <1>8, <2>1, <2>3
  <2>. QED  BY <2>2, <2>3
<1>10. b \in Bits(marked[i]) <=> \/ p < l /\ b \in Bits(s[p+1])
                                 \/ p = l /\ b \in {1, 2}
  <2>1. CASE i < inlen
    <3>1. p < l /\ marked[i] = s[p+1]
      BY <1>4, <1>5, <1>6, <2>1
    <3>. QED  BY <3>1
  <2>2. CASE i = inlen
    <3>1. p = l /\ marked[i] = 6
      BY <1>4, <1>5, <1>6, <2>2
    <3>. QED  BY <3>1, PaddingBits
  <2>3. CASE i > inlen
    <3>1. p > l /\ marked[i] = 0
      BY <1>4, <1>5, <1>6, <2>3
    <3>. QED  BY <3>1, PaddingBits
  <2>. QED  BY <1>6, <2>1, <2>2, <2>3
<1>11. 8*p + b = Standard!Total(8*l) - 1 <=> i = 135 /\ b = 7
  <2>1. 136*n <= l /\ l < 136*(n+1)
    BY <1>6
  <2>2. Standard!Total(8*l) = 1088 * (n+1)
    BY <2>1, TotalIs
  <2>. QED  BY <1>4, <2>2
<1>12. 8*p + b \in Standard!Padded(Message(s)) <=>
         \/ p < l /\ b \in Bits(s[p+1])
         \/ p = l /\ b \in {1, 2}
         \/ 8*p + b = Standard!Total(8*l) - 1
  BY <1>2, PaddedIs
<1>. QED  BY <1>4, <1>9, <1>10, <1>11, <1>12

-----------------------------------------------------------------------------
(* The digest.                                                             *)

ByteOf(s, n) == {b \in 0..7 : 8 * ((n-1) % 8) + b \in s[(n-1) \div 8]}

Squeezed(s) == [n \in 1..32 |-> CHOOSE byte \in 0..255 :
                                  Bits(byte) = ByteOf(s, n)]

LEMMA DigestIs ==
    ASSUME NEW s \in Lanes
    PROVE  Ones(Squeezed(s)) =
             {i \in 0..255 :
                <<(i \div 64) % 5, i \div 320, i % 64>> \in Array(s)}
<1>1. PICK o : o = Squeezed(s)
  OBVIOUS
<1>2. ASSUME NEW n \in 1..32
      PROVE  Bits(o[n]) = ByteOf(s, n)
  <2>1. ByteOf(s, n) \in SUBSET (0..7)
    BY DEF ByteOf
  <2> DEFINE e(i) == CHOOSE byte \in 0..255 : Bits(byte) = ByteOf(s, i)
  <2>2. o[n] = e(n)
    <3>1. o = [i \in 1..32 |-> e(i)]
      BY <1>1, Zenon DEF Squeezed
    <3>. HIDE DEF e
    <3>. QED  BY <3>1
  <2>. QED  BY <2>1, <2>2, SomeByte, Zenon
<1>3. DOMAIN o = 1..32 /\ 32 \in Nat
  BY <1>1 DEF Squeezed
<1>4. ASSUME NEW i \in 0..255
      PROVE  i \in Ones(o) <=>
               <<(i \div 64) % 5, i \div 320, i % 64>> \in Array(s)
  <2>1. PICK p \in Nat, b \in 0..7 : p = i \div 8 /\ b = i % 8
    OBVIOUS
  <2>2. i = 8*p + b /\ p < 32 /\ p+1 \in 1..32
    BY <2>1
  <2>3. 8*p + b \in Ones(o) <=> p < 32 /\ b \in Bits(o[p+1])
    BY <1>3, OnesIs, Zenon
  <2>4. b \in ByteOf(s, p+1) <=> 8 * (p % 8) + b \in s[p \div 8]
    BY DEF ByteOf
  <2>5. 8 * (p % 8) + b = i % 64 /\ p \div 8 = i \div 64
    BY <2>1
  <2>6. PICK x \in 0..4, y \in 0..4, z \in 0..63 :
           x = (i \div 64) % 5 /\ y = i \div 320 /\ z = i % 64
    OBVIOUS
  <2>7. Lane(x, y) = i \div 64
    BY <2>6 DEF Lane
  <2>8. <<x, y, z>> \in Array(s) <=> z \in s[Lane(x, y)]
    BY InArray, Zenon
  <2>9. i \in Ones(o) <=> b \in Bits(o[p+1])
    BY <2>2, <2>3
  <2>10. Bits(o[p+1]) = ByteOf(s, p+1)
    BY <1>2, <2>2
  <2>. QED  BY <2>4, <2>5, <2>6, <2>7, <2>8, <2>9, <2>10
<1>5. \A i \in Ones(o) : i \in 0..255
  <2>1. \A i \in Ones(o) : i \in Nat /\ i < 8*32
    BY <1>3, OnesNat, Zenon
  <2>. QED  BY <2>1
<1>6. PICK S : S = {i \in 0..255 :
                      <<(i \div 64) % 5, i \div 320, i % 64>> \in Array(s)}
  OBVIOUS
<1>7. \A i \in 0..255 : i \in S <=> i \in Ones(o)
  BY <1>4, <1>6, Zenon
<1>8. S \subseteq 0..255
  BY <1>6
<1>9. S = Ones(o)
  BY <1>5, <1>7, <1>8
<1>. QED  BY <1>1, <1>6, <1>9

-----------------------------------------------------------------------------
(* Whole blocks have been absorbed, and no more than there is of the input; *)
(* the padded block only when less than a block was left.                  *)
IInv ==
    /\ call \in Calls
    /\ final \in BOOLEAN
    /\ round \in 0..24
    /\ st \in Lanes
    /\ off \in Nat /\ off % rate = 0
    /\ inlen \in Nat
    /\ final => inlen < rate

LEMMA InputBytes ==
    ASSUME NEW c \in RawCalls \cup WrapperCalls
    PROVE  Input(c) \in Seq(Bytes)
<1>1. CASE c \in RawCalls
  BY <1>1 DEF RawCalls, Input
<1>2. CASE c \in WrapperCalls
  <2>1. PICK x \in Bytes, rest \in Seq(Bytes) : Shape(c, x, rest)
    BY <1>2, Shapes
  <2>2. Input(c) = <<x>> \o rest /\ <<x>> \in Seq(Bytes)
    BY <2>1 DEF Shape
  <2>. QED  BY <2>2
<1>. QED  BY <1>1, <1>2

LEMMA InvInit ==
    ASSUME Calls \subseteq RawCalls \cup WrapperCalls
    PROVE  Init => IInv
<1>. SUFFICES ASSUME Init PROVE IInv
  OBVIOUS
<1>1. Input(call) \in Seq(Bytes)
  BY InputBytes DEF Init
<1>2. inlen \in Nat
  BY <1>1 DEF Init, inlen
<1>3. st \in Lanes
  BY DEF Init, Lanes
<1>4. off \in Nat /\ off % rate = 0
  BY DEF Init, rate
<1>5. call \in Calls /\ final = FALSE /\ round \in 0..24
  BY DEF Init
<1>. QED  BY <1>2, <1>3, <1>4, <1>5, Zenon DEF IInv

LEMMA InvStep ==
    ASSUME Calls \subseteq RawCalls \cup WrapperCalls
    PROVE  IInv /\ [Next]_vars => IInv'
<1>. SUFFICES ASSUME IInv, [Next]_vars PROVE IInv'
  OBVIOUS
<1>1. Input(call) \in Seq(Bytes) /\ Len(Input(call)) \in Nat
  BY InputBytes DEF IInv
<1>2. rate = 136 /\ off \in Nat /\ off % 136 = 0
  BY DEF IInv, rate
<1>3. CASE AbsorbBlock
  <2>1. st' \in Lanes
    BY <1>3, XorIs DEF AbsorbBlock, IInv
  <2>2. off' = off + 136 /\ off' \in Nat /\ off' % 136 = 0
    BY <1>2, <1>3 DEF AbsorbBlock
  <2>3. inlen' = inlen - 136 /\ inlen >= 136 /\ inlen' \in Nat
    BY <1>1, <1>2, <1>3, <2>2 DEF AbsorbBlock, IInv, inlen
  <2>4. /\ call' = call /\ final' = final /\ final = FALSE /\ round' = 0
        /\ rate' = 136
    BY <1>3 DEF AbsorbBlock, IInv, rate
  <2>. QED  BY <1>2, <2>1, <2>2, <2>3, <2>4 DEF IInv
<1>4. CASE AbsorbPadded
  <2>1. st' \in Lanes
    BY <1>4, XorIs DEF AbsorbPadded, IInv
  <2>2. inlen' = inlen /\ rate' = rate
    BY <1>4 DEF AbsorbPadded, inlen, rate
  <2>. QED  BY <1>4, <2>1, <2>2 DEF AbsorbPadded, IInv
<1>5. CASE Round
  <2>1. st' \in Lanes
    <3>1. round \in 0..23
      BY <1>5 DEF Round, IInv
    <3>. QED  BY <1>5, <3>1, KeccakfIs DEF Round, IInv
  <2>2. inlen' = inlen /\ rate' = rate
    BY <1>5 DEF Round, inlen, rate
  <2>. QED  BY <1>5, <2>1, <2>2 DEF Round, IInv
<1>6. CASE Squeeze \/ UNCHANGED vars
  <2>1. /\ call' = call /\ off' = off /\ final' = final /\ st' = st
        /\ round' = round
    BY <1>6, Zenon DEF Squeeze, vars
  <2>2. inlen' = inlen /\ rate' = rate
    BY <2>1 DEF inlen, rate
  <2>. QED  BY <2>1, <2>2 DEF IInv
<1>. QED  BY <1>3, <1>4, <1>5, <1>6 DEF Next

-----------------------------------------------------------------------------
(* Every step of the code is a step of the standard.                       *)

LEMMA StandardInit == Init => Standard!Init
<1>. SUFFICES ASSUME Init PROVE Standard!Init
  OBVIOUS
<1>1. Array(st) = {}
  <2>1. \A k \in 0..24 : st[k] = {}
    BY DEF Init
  <2>. QED  BY <2>1 DEF Array
<1>2. Ones(out) = {}
  BY DEF Init, Ones
<1>3. (off \div rate) + (IF final THEN 1 ELSE 0) = 0
  BY DEF Init, rate
<1>4. round = 24
  BY DEF Init
<1>. QED  BY <1>1, <1>2, <1>3, <1>4, Zenon DEF Standard!Init

(* A block of either kind is the standard's next one.                      *)
LEMMA StandardAbsorb ==
    ASSUME Calls \subseteq RawCalls \cup WrapperCalls, IInv,
           AbsorbBlock \/ AbsorbPadded
    PROVE  Standard!Absorb
<1>1. PICK s \in Seq(Bytes) : s = Input(call)
  BY InputBytes DEF IInv
<1>2. PICK l \in Nat : l = Len(s)
  OBVIOUS
<1>3. PICK n \in Nat : n = off \div rate /\ off = 136*n
  BY DEF IInv, rate
<1>4. rate = 136 /\ inlen = l - 136*n /\ inlen \in Nat
  BY <1>1, <1>2, <1>3 DEF inlen, rate, IInv
<1>5. round = 24 /\ final = FALSE /\ round' = 0 /\ call' = call /\ out' = out
  BY Zenon DEF AbsorbBlock, AbsorbPadded, IInv
<1>6. /\ (off \div rate) + (IF final THEN 1 ELSE 0) = n
      /\ (off' \div rate') + (IF final' THEN 1 ELSE 0) = n+1
  <2>1. CASE AbsorbBlock
    <3>1. off' = 136 * (n+1) /\ final' = FALSE /\ rate' = 136
      BY <1>3, <1>5, <2>1 DEF AbsorbBlock, rate
    <3>. QED  BY <1>3, <1>5, <3>1
  <2>2. CASE AbsorbPadded
    <3>1. off' = 136 * n /\ final' = TRUE /\ rate' = 136
      BY <1>3, <1>5, <2>2 DEF AbsorbPadded, rate
    <3>. QED  BY <1>3, <1>5, <3>1
  <2>. QED  BY <2>1, <2>2
<1>7. \E buf : Holds(buf, Message(s), n) /\ st' = Xor(st, buf)
  <2>1. CASE AbsorbBlock
    <3>1. 136*(n+1) <= Len(s)
      BY <1>2, <1>4, <2>1 DEF AbsorbBlock
    <3>2. Holds([i \in 0..135 |-> s[136*n + i + 1]], Message(s), n)
      BY <3>1, FullBuffer
    <3>3. st' = Xor(st, [i \in 0..135 |-> s[136*n + i + 1]])
      <4>1. [i \in 0..rate-1 |-> Input(call)[off + i + 1]] =
              [i \in 0..135 |-> s[136*n + i + 1]]
        BY <1>1, <1>3 DEF rate
      <4>. QED  BY <2>1, <4>1, Zenon DEF AbsorbBlock
    <3>. QED  BY <3>2, <3>3, Zenon
  <2>2. CASE AbsorbPadded
    <3>1. inlen \in 0..135
      BY <1>4, <2>2 DEF AbsorbPadded
    <3>2. Holds(PadBuf(inlen), Message(Input(call)), n)
      BY <1>1, <1>3, <3>1, LastBuffer
    <3>. QED  BY <1>1, <2>2, <3>2 DEF AbsorbPadded
  <2>. QED  BY <2>1, <2>2
<1>8. Array(st)' = Standard!SymDiff(Array(st), Standard!Block(Message(s), n))
  <2>1. PICK buf : Holds(buf, Message(s), n) /\ st' = Xor(st, buf)
    BY <1>7
  <2>2. Array(BufLanes(buf)) = Standard!Block(Message(s), n)
    BY <2>1, BlockIs, Zenon DEF Holds
  <2>3. Array(st') = SymDiff(Array(st), Array(BufLanes(buf)))
    BY <2>1, XorIs DEF IInv
  <2>. QED  BY <2>2, <2>3, SymDiffIs DEF Array
<1>9. Standard!rate * n < Standard!Total(8*l)
  <2>1. 136*n <= l
    BY <1>4
  <2>. QED  BY <2>1, TotalIs DEF Standard!rate
<1>10. /\ [len |-> 8 * Len(Input(call)), ones |-> Ones(Input(call))] =
            Message(s)
       /\ Message(s).len = 8*l
       /\ [len |-> 8 * Len(Input(call')), ones |-> Ones(Input(call'))] =
            Message(s)
       /\ Ones(out)' = Ones(out)
  BY <1>1, <1>2, <1>5 DEF Message, Ones
<1>. QED  BY <1>5, <1>6, <1>8, <1>9, <1>10 DEF Standard!Absorb

LEMMA StandardPermute ==
    ASSUME IInv, Round
    PROVE  Standard!Permute
<1>1. /\ round \in 0..23 /\ round' = round + 1 /\ st' = Keccakf(st, round)
      /\ st \in Lanes /\ call' = call /\ off' = off /\ final' = final
      /\ out' = out
  BY DEF IInv, Round
<1>2. Array(st)' = Standard!Rnd(Array(st), round)
  <2>1. Array(Keccakf(st, round)) = Standard!Rnd(Array(st), round)
    BY <1>1, KeccakfIs, Zenon
  <2>. QED  BY <1>1, <2>1 DEF Array
<1>3. Ones(out)' = Ones(out)
  BY <1>1 DEF Ones
<1>4. ((off \div rate) + (IF final THEN 1 ELSE 0))' =
        (off \div rate) + (IF final THEN 1 ELSE 0)
  BY <1>1 DEF rate
<1>5. [len |-> 8 * Len(Input(call)), ones |-> Ones(Input(call))]' =
        [len |-> 8 * Len(Input(call)), ones |-> Ones(Input(call))]
  BY <1>1 DEF Ones
<1>6. round < 24
  BY <1>1
<1>. QED  BY <1>1, <1>2, <1>3, <1>4, <1>5, <1>6, Zenon DEF Standard!Permute

LEMMA StandardSqueeze ==
    ASSUME Calls \subseteq RawCalls \cup WrapperCalls, IInv, Squeeze
    PROVE  Standard!Squeeze
<1>1. PICK s \in Seq(Bytes) : s = Input(call)
  BY InputBytes DEF IInv
<1>2. PICK l \in Nat : l = Len(s)
  OBVIOUS
<1>3. PICK n \in Nat : n = off \div rate /\ off = 136*n
  BY DEF IInv, rate
<1>4. /\ st \in Lanes /\ round = 24 /\ final = TRUE
      /\ call' = call /\ off' = off /\ final' = final /\ st' = st
      /\ round' = round
  BY DEF IInv, Squeeze
<1>5. Standard!rate * ((off \div rate) + (IF final THEN 1 ELSE 0)) =
        Standard!Total(8 * Len(Input(call)))
  <2>1. 136*n <= l /\ l < 136*(n+1)
    BY <1>1, <1>2, <1>3, <1>4 DEF IInv, inlen, rate
  <2>2. Standard!Total(8*l) = 1088 * (n+1)
    BY <2>1, TotalIs
  <2>. QED  BY <1>1, <1>2, <1>3, <1>4, <2>2 DEF Standard!rate
<1>6. Ones(out)' = {i \in 0..255 :
                      <<(i \div 64) % 5, i \div 320, i % 64>> \in Array(st)}
  <2>1. out' = Squeezed(st)
    BY Zenon DEF Squeeze, Squeezed, ByteOf
  <2>2. Ones(out') = Ones(Squeezed(st))
    BY <2>1, Zenon
  <2>3. Ones(out)' = Ones(out')
    BY DEF Ones
  <2>. QED  BY <1>4, <2>2, <2>3, DigestIs, Zenon
<1>7. Array(st)' = Array(st)
  BY <1>4 DEF Array
<1>8. ((off \div rate) + (IF final THEN 1 ELSE 0))' =
        (off \div rate) + (IF final THEN 1 ELSE 0)
  BY <1>4 DEF rate
<1>9. [len |-> 8 * Len(Input(call)), ones |-> Ones(Input(call))]' =
        [len |-> 8 * Len(Input(call)), ones |-> Ones(Input(call))]
  BY <1>4 DEF Ones
<1>10. [len |-> 8 * Len(Input(call)), ones |-> Ones(Input(call))].len =
         8 * Len(Input(call))
  OBVIOUS
<1>. QED  BY <1>4, <1>5, <1>6, <1>7, <1>8, <1>9, <1>10, Zenon
             DEF Standard!Squeeze

LEMMA StandardStutter ==
    ASSUME UNCHANGED vars
    PROVE  UNCHANGED Standard!vars
<1>1. /\ call' = call /\ off' = off /\ final' = final /\ st' = st
      /\ round' = round /\ out' = out
  BY DEF vars
<1>. QED  BY <1>1 DEF Standard!vars, Ones, Array, rate

(* The offset into the input stays a multiple of the rate within it, and   *)
(* the state is 25 lanes of 64 bits (ev_sha3_256).                         *)
THEOREM Invariance ==
    ASSUME Calls \subseteq RawCalls \cup WrapperCalls
    PROVE  Spec => []IInv
<1>1. Init => IInv
  BY InvInit
<1>2. IInv /\ [Next]_vars => IInv'
  BY InvStep
<1>. QED  BY <1>1, <1>2, PTL DEF Spec

(* SHA3-256 as ev_sha3.c computes it, lane by lane, in place and with its  *)
(* tables, is SHA3-256 as FIPS 202 defines it, bit by bit, for every input *)
(* of every length.                                                        *)
THEOREM HashIsFips202 ==
    ASSUME Calls \subseteq RawCalls \cup WrapperCalls
    PROVE  Spec => ImplementsFips202
<1>1. Init => IInv
  BY InvInit
<1>2. IInv /\ [Next]_vars => IInv'
  BY InvStep
<1>3. Init => Standard!Init
  BY StandardInit
<1>4. IInv /\ [Next]_vars =>
        [\/ Standard!Absorb \/ Standard!Permute
         \/ Standard!Squeeze]_(Standard!vars)
  <2>. SUFFICES ASSUME IInv, [Next]_vars
                PROVE  \/ Standard!Absorb \/ Standard!Permute
                       \/ Standard!Squeeze \/ UNCHANGED Standard!vars
    BY Zenon
  <2>. QED  BY StandardAbsorb, StandardPermute, StandardSqueeze,
               StandardStutter, Zenon DEF Next
<1>. QED  BY <1>1, <1>2, <1>3, <1>4, PTL
          DEF Spec, ImplementsFips202, Standard!Spec
=============================================================================
