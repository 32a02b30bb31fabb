----------------------------- MODULE TreeProofs -----------------------------
(***************************************************************************)
(* Lemmas about the operators of the two trees, in three parts.            *)
(*                                                                         *)
(* The index arithmetic: division of natural numbers as far as shifts need *)
(* it (quotients are unique, halving composes, the quotient grows by at    *)
(* most one when the dividend does), then what follows for level_index.    *)
(* Induction is stated over sets: what holds at one end of the tree and    *)
(* passes from level to level holds on all of them.                        *)
(*                                                                         *)
(* The seed tree: what ev_tree_init and ev_tree_advance compute.           *)
(*                                                                         *)
(* The commitment tree: what the recursive definitions of MerkleState      *)
(* compute, and how the flat array stores a level.                         *)
(***************************************************************************)
EXTENDS SeedTreeOps, MerkleState, WellFoundedInduction, FiniteSetTheorems,
        TLAPS

(* Quotient and remainder of a natural number: the facts that every shift  *)
(* of a period index (level_index) rests on.                               *)
LEMMA DivMod ==
    ASSUME NEW x \in Nat, NEW d \in Nat \ {0}
    PROVE  /\ x \div d \in Nat
           /\ x = d * (x \div d) + (x % d)
           /\ x % d \in Nat
           /\ x % d < d
  OBVIOUS

(* Multiplication by a positive number keeps a strict order and leaves a   *)
(* gap of at least that number; used for the uniqueness of quotients.      *)
LEMMA MulGap ==
    ASSUME NEW d \in Nat \ {0}, NEW a \in Nat, NEW b \in Nat, a < b
    PROVE  d * a + d <= d * b
  OBVIOUS

(* A quotient is determined by its division equation.                      *)
LEMMA DivUnique ==
    ASSUME NEW x \in Nat, NEW d \in Nat \ {0}, NEW q \in Nat, NEW r \in Nat,
           r < d, x = d * q + r
    PROVE  x \div d = q
<1>1. /\ x \div d \in Nat
      /\ x = d * (x \div d) + (x % d)
      /\ x % d \in Nat
      /\ x % d < d
  BY DivMod
<1>2. CASE x \div d < q
  <2>1. d * (x \div d) + d <= d * q
    BY <1>1, <1>2, MulGap
  <2>. QED  BY <2>1, <1>1
<1>3. CASE x \div d > q
  <2>1. d * q + d <= d * (x \div d)
    BY <1>1, <1>3, MulGap
  <2>. QED  BY <2>1, <1>1
<1>. QED  BY <1>1, <1>2, <1>3

(* The division equation of a halved quotient, regrouped.                  *)
LEMMA Regroup ==
    ASSUME NEW d \in Nat, NEW h \in Nat, NEW b \in {0, 1}, NEW r \in Nat
    PROVE  d * (2 * h + b) + r = (2 * d) * h + (d * b + r)
  OBVIOUS

(* Shifting one place further halves: (x >> k+1) = (x >> k) >> 1.          *)
LEMMA DivTwice ==
    ASSUME NEW x \in Nat, NEW d \in Nat \ {0}
    PROVE  x \div (2 * d) = (x \div d) \div 2
<1> DEFINE q == x \div d
           r == x % d
           h == q \div 2
           b == q % 2
<1>1. q \in Nat /\ r \in Nat /\ r < d /\ x = d * q + r
  BY DivMod
<1>2. h \in Nat /\ b \in {0, 1} /\ q = 2 * h + b
  BY <1>1
<1> HIDE DEF h, b, q, r
<1>3. x = (2 * d) * h + (d * b + r)
  BY <1>1, <1>2, Regroup
<1>4. d * b + r \in Nat /\ d * b + r < 2 * d
  BY <1>1, <1>2
<1>5. x \div (2 * d) = h
  BY <1>2, <1>3, <1>4, DivUnique
<1>. QED  BY <1>5 DEF h, q

(* Consecutive numbers have equal or consecutive quotients: the path to    *)
(* period p+1 is, on each level, the path to p or its right neighbour.     *)
LEMMA DivSucc ==
    ASSUME NEW x \in Nat, NEW d \in Nat \ {0}
    PROVE  \/ (x + 1) \div d = x \div d
           \/ (x + 1) \div d = x \div d + 1
  OBVIOUS

(* Shifts keep the order of periods.                                       *)
LEMMA DivMono ==
    ASSUME NEW x \in Nat, NEW y \in Nat, NEW d \in Nat \ {0}, x <= y
    PROVE  x \div d <= y \div d
  OBVIOUS

-----------------------------------------------------------------------------
(* Induction on the natural numbers, without an operator parameter: every  *)
(* set of them has a least element.                                        *)
LEMMA Least ==
    ASSUME NEW S \in SUBSET Nat, S # {}
    PROVE  \E m \in S : \A n \in S : m <= n
<1>1. PICK m \in S : \A n \in S : ~(<<n, m>> \in OpToRel(<, Nat))
  BY NatLessThanWellFounded, WFMin, Zenon
<1>2. \A n \in S : ~(n < m)
  BY <1>1, Zenon DEF OpToRel
<1>. QED  BY <1>2

LEMMA SetInduction ==
    ASSUME NEW S, 0 \in S, \A n \in Nat : n \in S => n+1 \in S
    PROVE  Nat \subseteq S
<1>. SUFFICES ASSUME Nat \ S # {} PROVE FALSE
  OBVIOUS
<1>1. PICK m \in Nat \ S : \A n \in Nat \ S : m <= n
  BY Least
<1>2. m # 0 /\ m - 1 \in Nat /\ m - 1 \in S
  BY <1>1
<1>. QED  BY <1>1, <1>2

-----------------------------------------------------------------------------
USE DepthAssumption

(* From the root down to the leaves, and from the leaves up to the root:   *)
(* the two ways in which the loops over the levels run.                    *)
LEMMA LevelsDown ==
    ASSUME NEW S, 0 \in S, \A l \in Edges : l \in S => l+1 \in S
    PROVE  Levels \subseteq S
<1> DEFINE R == {n \in Nat : n <= Depth => n \in S}
<1>1. 0 \in R
  OBVIOUS
<1>2. \A n \in Nat : n \in R => n+1 \in R
  BY DEF Edges
<1>3. Nat \subseteq R
  <2>. HIDE DEF R
  <2>. QED  BY <1>1, <1>2, SetInduction
<1>. QED  BY <1>3 DEF Levels

LEMMA LevelsUp ==
    ASSUME NEW S, Depth \in S, \A l \in Edges : l+1 \in S => l \in S
    PROVE  Levels \subseteq S
<1> DEFINE R == {n \in Nat : n <= Depth => Depth - n \in S}
<1>1. 0 \in R
  OBVIOUS
<1>2. ASSUME NEW n \in Nat, n \in R
      PROVE  n+1 \in R
  <2>. SUFFICES ASSUME n+1 <= Depth PROVE Depth - (n+1) \in S
    OBVIOUS
  <2>1. Depth - (n+1) \in Edges /\ (Depth - (n+1)) + 1 = Depth - n
    BY DEF Edges
  <2>2. Depth - n \in S
    BY <1>2
  <2>. QED  BY <2>1, <2>2
<1>3. Nat \subseteq R
  <2>. HIDE DEF R
  <2>. QED  BY <1>1, <1>2, SetInduction
<1>4. ASSUME NEW l \in Levels
      PROVE  l \in S
  <2>1. Depth - l \in Nat /\ Depth - l <= Depth /\ Depth - (Depth - l) = l
    BY DEF Levels
  <2>2. Depth - l \in R
    BY <1>3, <2>1
  <2>. QED  BY <2>1, <2>2
<1>. QED  BY <1>4

(* T is 1 << depth, a positive number.                                     *)
LEMMA TPositive == T \in Nat \ {0}
  BY Pow2Assumption DEF T

(* The node of a path on level 0 is the root, on the deepest level it is   *)
(* the leaf, and in between it is a natural number (level_index).          *)
LEMMA IndexEnds ==
    ASSUME NEW q \in Periods
    PROVE  /\ \A l \in Levels : level_index(q, l) \in Nat
           /\ level_index(q, 0) = 0
           /\ level_index(q, Depth) = q
<1>1. q \in Nat /\ q < T /\ T \in Nat \ {0}
  BY TPositive DEF Periods
<1>2. ASSUME NEW l \in Levels
      PROVE  level_index(q, l) \in Nat
  <2>1. Pow2[Depth - l] \in Nat \ {0}
    BY Pow2Assumption DEF Levels
  <2>. QED  BY <1>1, <2>1, DivMod DEF level_index
<1>3. level_index(q, 0) = 0
  BY <1>1, DivUnique, Pow2Assumption DEF level_index, T
<1>4. level_index(q, Depth) = q
  BY <1>1, Pow2Assumption DEF level_index
<1>. QED  BY <1>2, <1>3, <1>4

(* One level up, the index on a path is halved: path nodes are parents of  *)
(* the path nodes below them (level_index).                                *)
LEMMA IndexHalves ==
    ASSUME NEW q \in Nat, NEW l \in Edges
    PROVE  level_index(q, l) = level_index(q, l+1) \div 2
<1>1. /\ Pow2[Depth - (l+1)] \in Nat \ {0}
      /\ Pow2[Depth - l] = 2 * Pow2[Depth - (l+1)]
  BY Pow2Assumption DEF Edges
<1>. QED  BY <1>1, DivTwice DEF level_index

(* On each level the path to p+1 is that of p or its right neighbour.      *)
LEMMA IndexSucc ==
    ASSUME NEW q \in Nat, NEW l \in Levels
    PROVE  \/ level_index(q + 1, l) = level_index(q, l)
           \/ level_index(q + 1, l) = level_index(q, l) + 1
<1>1. Pow2[Depth - l] \in Nat \ {0}
  BY Pow2Assumption DEF Levels
<1>. QED  BY <1>1, DivSucc DEF level_index

(* Earlier periods lie to the left on every level.                         *)
LEMMA IndexMono ==
    ASSUME NEW p \in Nat, NEW q \in Nat, p <= q, NEW l \in Levels
    PROVE  level_index(p, l) <= level_index(q, l)
<1>1. Pow2[Depth - l] \in Nat \ {0}
  BY Pow2Assumption DEF Levels
<1>. QED  BY <1>1, DivMono DEF level_index

(* A level has twice as many nodes as the one above it, and more than all  *)
(* the levels above it together (node_off).                                *)
LEMMA Pow2Type ==
    \A l \in Levels : Pow2[l] \in Nat \ {0}
  BY Pow2Assumption DEF Levels

LEMMA Pow2Doubles ==
    \A l \in Edges : /\ l \in Levels /\ l+1 \in Levels
                     /\ Pow2[l+1] = 2 * Pow2[l]
  BY Pow2Assumption DEF Edges, Levels

LEMMA Pow2Mono ==
    ASSUME NEW k \in Levels, NEW l \in Levels, k < l
    PROVE  2 * Pow2[k] <= Pow2[l]
<1> DEFINE S == {m \in Levels : k < m => 2 * Pow2[k] <= Pow2[m]}
<1>1. 0 \in S
  BY DEF Levels
<1>2. ASSUME NEW m \in Edges, m \in S
      PROVE  m+1 \in S
  <2>1. /\ m \in Levels /\ m+1 \in Levels /\ Pow2[m+1] = 2 * Pow2[m]
        /\ Pow2[m] \in Nat \ {0} /\ Pow2[k] \in Nat \ {0}
    BY Pow2Type, Pow2Doubles
  <2>. SUFFICES ASSUME k < m+1 PROVE 2 * Pow2[k] <= Pow2[m+1]
    BY <2>1
  <2>2. CASE k = m
    BY <2>1, <2>2
  <2>3. CASE k < m
    BY <1>2, <2>1, <2>3
  <2>. QED  BY <2>2, <2>3 DEF Levels, Edges
<1>3. Levels \subseteq S
  <2>. HIDE DEF S
  <2>. QED  BY <1>1, <1>2, LevelsDown
<1>. QED  BY <1>3

(* The index of a path node is within its level.                           *)
LEMMA IndexBound ==
    ASSUME NEW q \in Periods, NEW l \in Levels
    PROVE  level_index(q, l) \in 0..Pow2[l]-1
<1> DEFINE S == {m \in Levels : level_index(q, m) \in 0..Pow2[m]-1}
<1>1. Depth \in S
  BY IndexEnds DEF Periods, T, Levels
<1>2. \A m \in Edges : m+1 \in S => m \in S
  <2>. SUFFICES ASSUME NEW m \in Edges, m+1 \in S PROVE m \in S
    OBVIOUS
  <2>1. /\ m \in Levels /\ Pow2[m+1] = 2 * Pow2[m]
        /\ Pow2[m] \in Nat \ {0}
    BY Pow2Type, Pow2Doubles
  <2>2. level_index(q, m) = level_index(q, m+1) \div 2
    BY IndexHalves, TPositive DEF Periods
  <2>3. level_index(q, m+1) \in 0..2 * Pow2[m] - 1
    BY <2>1
  <2>. QED  BY <2>1, <2>2, <2>3
<1>3. Levels \subseteq S
  <2>. HIDE DEF S
  <2>. QED  BY <1>1, <1>2, LevelsUp, Zenon
<1>. QED  BY <1>3

-----------------------------------------------------------------------------
(* Where two consecutive paths part, p turns left and p+1 turns right;     *)
(* below that, p keeps right and p+1 keeps left (the branch point of       *)
(* ev_tree_advance).                                                       *)
LEMMA BranchPoint ==
    ASSUME NEW q \in Periods, q + 1 < T, NEW l \in Edges,
           level_index(q, l+1) # level_index(q+1, l+1)
    PROVE  /\ level_index(q+1, l+1) = level_index(q, l+1) + 1
           /\ level_index(q, l) = level_index(q+1, l)
                => level_index(q, l+1) % 2 = 0
           /\ level_index(q, l) # level_index(q+1, l)
                => level_index(q, l+1) % 2 = 1
<1>1. q \in Nat /\ q + 1 \in Periods /\ l \in Levels /\ l+1 \in Levels
  BY TPositive DEF Periods, Edges, Levels
<1>2. level_index(q, l+1) \in Nat /\ level_index(q+1, l+1) \in Nat
  BY <1>1, IndexEnds
<1>3. level_index(q+1, l+1) = level_index(q, l+1) + 1
  BY <1>1, <1>2, IndexSucc
<1>4. /\ level_index(q, l) = level_index(q, l+1) \div 2
      /\ level_index(q+1, l) = level_index(q+1, l+1) \div 2
  BY <1>1, IndexHalves
<1>. QED  BY <1>2, <1>3, <1>4

(* Paths that are together on a level are together on every level above.   *)
LEMMA SamePathAbove ==
    ASSUME NEW p \in Periods, NEW q \in Periods, NEW a \in Levels,
           level_index(p, a) = level_index(q, a)
    PROVE  \A b \in Levels : b <= a => level_index(p, b) = level_index(q, b)
<1> DEFINE S == {b \in Levels :
                   b <= a => level_index(p, b) = level_index(q, b)}
<1>1. Depth \in S
  <2>1. Depth <= a => Depth = a
    BY DEF Levels
  <2>. QED  BY <2>1 DEF Levels
<1>2. ASSUME NEW b \in Edges, b+1 \in S
      PROVE  b \in S
  <2>1. /\ b \in Levels /\ p \in Nat /\ q \in Nat
        /\ b <= a => b = a \/ b+1 <= a
    BY TPositive DEF Edges, Levels, Periods
  <2>2. /\ level_index(p, b) = level_index(p, b+1) \div 2
        /\ level_index(q, b) = level_index(q, b+1) \div 2
    BY <2>1, IndexHalves
  <2>. QED  BY <1>2, <2>1, <2>2
<1>3. Levels \subseteq S
  <2>. HIDE DEF S
  <2>. QED  BY <1>1, <1>2, LevelsUp, Zenon
<1>. QED  BY <1>3

(* The path to a later period leaves the path to t to the right, once.     *)
Leaves(t, q, k) == /\ level_index(t, k+1) % 2 = 0
                   /\ level_index(q, k+1) = level_index(t, k+1) + 1

LEMMA LeavesOnce ==
    ASSUME NEW t \in Periods, NEW q \in Periods, NEW j \in Edges,
           Leaves(t, q, j)
    PROVE  /\ \A l \in Levels : j < l => level_index(t, l) # level_index(q, l)
           /\ \A k \in Edges : Leaves(t, q, k) => k = j
<1>1. t \in Nat /\ q \in Nat
  BY TPositive DEF Periods
<1>2. ASSUME NEW k \in Edges, Leaves(t, q, k)
      PROVE  /\ level_index(t, k) = level_index(q, k)
             /\ level_index(t, k+1) # level_index(q, k+1)
  <2>1. /\ level_index(t, k) = level_index(t, k+1) \div 2
        /\ level_index(q, k) = level_index(q, k+1) \div 2
    BY <1>1, IndexHalves
  <2>2. level_index(t, k+1) \in Nat
    BY IndexEnds DEF Levels, Edges
  <2>. QED  BY <1>2, <2>1, <2>2 DEF Leaves
<1>3. ASSUME NEW k \in Edges, Leaves(t, q, k), NEW l \in Levels, k < l
      PROVE  level_index(t, l) # level_index(q, l)
  <2>1. k+1 \in Levels /\ k+1 <= l
    BY <1>3 DEF Edges, Levels
  <2>. QED  BY <1>2, <1>3, <2>1, SamePathAbove
<1>4. ASSUME NEW k \in Edges, Leaves(t, q, k)
      PROVE  k = j
  <2>1. k \in Levels /\ j \in Levels /\ (k < j \/ j < k \/ k = j)
    BY DEF Edges, Levels
  <2>. QED  BY <1>2, <1>3, <1>4, <2>1
<1>. QED  BY <1>3, <1>4

LEMMA PathsPart ==
    ASSUME NEW t \in Periods, NEW q \in Periods, t <= q, NEW m \in Levels,
           level_index(t, m) # level_index(q, m)
    PROVE  \E k \in Edges : k < m /\ Leaves(t, q, k)
<1>1. PICK S : S = {l \in Levels : level_index(t, l) # level_index(q, l)}
  OBVIOUS
<1>2. PICK d \in S : \A l \in S : d <= l
  <2>1. S \in SUBSET Nat /\ S # {}
    BY <1>1 DEF Levels
  <2>. QED  BY <2>1, Least
<1>3. /\ t \in Nat /\ q \in Nat /\ d \in Levels /\ d <= m
      /\ level_index(t, d) # level_index(q, d)
  BY <1>1, <1>2, TPositive DEF Periods
<1>4. PICK k \in Edges : k + 1 = d /\ k < m /\ k \in Levels
  <2>1. d # 0
    BY <1>3, IndexEnds
  <2>2. d - 1 \in Edges /\ (d-1) + 1 = d /\ d - 1 < m /\ d - 1 \in Levels
    BY <1>3, <2>1 DEF Edges, Levels
  <2>. QED  BY <2>2
<1>5. level_index(t, k) = level_index(q, k)
  <2>1. k \notin S
    BY <1>2, <1>4 DEF Edges
  <2>. QED  BY <1>1, <1>4, <2>1
<1>6. /\ level_index(t, k) = level_index(t, d) \div 2
      /\ level_index(q, k) = level_index(q, d) \div 2
  BY <1>3, <1>4, IndexHalves
<1>7. /\ level_index(t, d) \in Nat /\ level_index(q, d) \in Nat
      /\ level_index(t, d) <= level_index(q, d)
  BY <1>3, IndexEnds, IndexMono
<1>8. Leaves(t, q, k)
  <2>1. ASSUME NEW x \in Nat, NEW y \in Nat, x <= y, x # y,
               x \div 2 = y \div 2
        PROVE  x % 2 = 0 /\ y = x + 1
    BY <2>1
  <2>2. /\ level_index(t, d) % 2 = 0
        /\ level_index(q, d) = level_index(t, d) + 1
    BY <1>3, <1>5, <1>6, <1>7, <2>1
  <2>. QED  BY <1>4, <2>2 DEF Leaves
<1>. QED  BY <1>4, <1>8

-----------------------------------------------------------------------------
(***************************************************************************)
(* What ev_tree_init and ev_tree_advance compute, for every depth: in      *)
(* period t the struct is the one that t and the root seed determine, and  *)
(* in the middle of a descent it is part that of one period and part that  *)
(* of the next.  From the shape of the struct follows which periods can be *)
(* derived from it, each from one slot.                                    *)
(***************************************************************************)

(* Node i on level l of the tree of root seed r.                           *)
NodeOf(r, l, i) == [origin |-> r, lvl |-> l, idx |-> i]

(* In period t the frontier slot l is live exactly when the path turns     *)
(* left below level l, and then it holds the right sibling.                *)
TurnsLeft(t, l) == level_index(t, l+1) % 2 = 0

FutureSeed(r, t, l) == IF TurnsLeft(t, l)
                         THEN NodeOf(r, l+1, level_index(t, l+1) + 1)
                         ELSE Zero

FutureFlag(t, l) == IF TurnsLeft(t, l) THEN 1 ELSE 0

(* A descent to period t that has reached level m: the seed that moves     *)
(* down is on level m, the frontier above it is that of t, and below it    *)
(* there is nothing but what the deepest slot has been left with.          *)
DescentPath(r, t, m, rest) ==
    [l \in Levels |-> IF l = m THEN NodeOf(r, l, level_index(t, l))
                      ELSE IF l = Depth THEN rest ELSE Zero]

DescentFuture(r, t, m) ==
    [l \in Edges |-> IF l < m THEN FutureSeed(r, t, l) ELSE Zero]

DescentFlags(t, m) == [l \in Edges |-> IF l < m THEN FutureFlag(t, l) ELSE 0]

Descent(r, t, cur, m, rest) ==
    [path         |-> DescentPath(r, t, m, rest),
     future       |-> DescentFuture(r, t, m),
     future_valid |-> DescentFlags(t, m),
     current      |-> cur]

(* The struct between two calls.                                           *)
TreeIn(r, t) == Descent(r, t, t, Depth, Zero)

(* The fields of these structs have their types.                           *)
LEMMA DescentType ==
    ASSUME NEW r \in Nat, NEW t \in Periods, NEW cur \in Periods,
           NEW m \in Levels, NEW rest \in Seed
    PROVE  Descent(r, t, cur, m, rest) \in TreeState
<1>1. Zero \in Seed
  BY DEF Zero, Seed
<1>2. \A l \in Levels : NodeOf(r, l, level_index(t, l)) \in Seed
  BY IndexEnds DEF NodeOf, Seed, Levels
<1>3. \A l \in Edges : FutureSeed(r, t, l) \in Seed
  <2>. TAKE l \in Edges
  <2>1. l + 1 \in Levels /\ l + 1 \in Nat
    BY DepthAssumption DEF Edges, Levels
  <2>2. level_index(t, l+1) + 1 \in Nat
    BY <2>1, IndexEnds
  <2>3. NodeOf(r, l+1, level_index(t, l+1) + 1) \in Seed
    BY <2>1, <2>2 DEF NodeOf, Seed
  <2>. QED  BY <1>1, <2>3 DEF FutureSeed
<1>4. DescentPath(r, t, m, rest) \in [Levels -> Seed]
  BY <1>1, <1>2 DEF DescentPath
<1>5. DescentFuture(r, t, m) \in [Edges -> Seed]
  BY <1>1, <1>3 DEF DescentFuture
<1>6. DescentFlags(t, m) \in [Edges -> {0, 1}]
  BY DEF FutureFlag, DescentFlags
<1>. QED  BY <1>4, <1>5, <1>6 DEF Descent, TreeState

(* Assignments to one or two slots of an array, slot by slot.              *)
LEMMA OneSlot ==
    ASSUME NEW S, NEW f, f = [x \in S |-> f[x]], NEW a \in S, NEW v
    PROVE  [f EXCEPT ![a] = v] = [x \in S |-> IF x = a THEN v ELSE f[x]]
  OBVIOUS

LEMMA TwoSlots ==
    ASSUME NEW S, NEW f, f = [x \in S |-> f[x]], NEW a \in S, NEW b \in S,
           NEW v, NEW w
    PROVE  [f EXCEPT ![a] = v, ![b] = w]
             = [x \in S |-> IF x = b THEN w ELSE IF x = a THEN v ELSE f[x]]
  OBVIOUS

(* One iteration of a descent loop takes the seed one level down, when the *)
(* path to t turns left there.                                             *)
LEMMA DescentStep ==
    ASSUME NEW r \in Nat, NEW t \in Periods, NEW cur, NEW m \in Edges,
           NEW rest, level_index(t, m+1) = 2 * level_index(t, m)
    PROVE  DeriveAndDiscard(Descent(r, t, cur, m, rest), m)
             = Descent(r, t, cur, m+1, rest)
<1>1. PICK i \in Nat : i = level_index(t, m)
  BY IndexEnds, DepthAssumption DEF Edges, Levels
<1>2. /\ m \in Nat /\ m \in Levels /\ m+1 \in Levels /\ m # m+1
      /\ m # Depth
      /\ level_index(t, m+1) = 2 * i
  BY <1>1, DepthAssumption DEF Edges, Levels
<1>3. PICK tree : tree = Descent(r, t, cur, m, rest)
  OBVIOUS
<1>4. /\ tree.path = DescentPath(r, t, m, rest)
      /\ tree.future = DescentFuture(r, t, m)
      /\ tree.future_valid = DescentFlags(t, m)
      /\ tree.current = cur
  BY <1>3 DEF Descent
<1>5. tree.path[m] = NodeOf(r, m, i)
  BY <1>1, <1>2, <1>4 DEF DescentPath
<1>6. /\ ev_derive_child(NodeOf(r, m, i), EV_DOM_LEFT) = NodeOf(r, m+1, 2*i)
      /\ ev_derive_child(NodeOf(r, m, i), EV_DOM_RIGHT)
           = NodeOf(r, m+1, 2*i + 1)
  BY DEF ev_derive_child, EV_DOM_LEFT, EV_DOM_RIGHT, NodeOf
<1>7. /\ FutureFlag(t, m) = 1
      /\ FutureSeed(r, t, m) = NodeOf(r, m+1, 2*i + 1)
  BY <1>1, <1>2 DEF TurnsLeft, FutureFlag, FutureSeed
<1>8. [DescentPath(r, t, m, rest) EXCEPT ![m+1] = NodeOf(r, m+1, 2*i),
                                         ![m]   = Zero]
        = DescentPath(r, t, m+1, rest)
  <2>1. PICK f : f = DescentPath(r, t, m, rest)
    OBVIOUS
  <2>2. f = [l \in Levels |-> f[l]]
    BY <2>1, Zenon DEF DescentPath
  <2>3. \A l \in Levels : f[l] = IF l = m THEN NodeOf(r, l, level_index(t, l))
                                 ELSE IF l = Depth THEN rest ELSE Zero
    BY <2>1 DEF DescentPath
  <2>4. [f EXCEPT ![m+1] = NodeOf(r, m+1, 2*i), ![m] = Zero]
          = [l \in Levels |-> IF l = m THEN Zero
                              ELSE IF l = m+1 THEN NodeOf(r, m+1, 2*i)
                              ELSE f[l]]
    BY <1>2, <2>2, TwoSlots
  <2>5. \A l \in Levels :
          (IF l = m THEN Zero
           ELSE IF l = m+1 THEN NodeOf(r, m+1, 2*i) ELSE f[l])
            = IF l = m+1 THEN NodeOf(r, l, level_index(t, l))
              ELSE IF l = Depth THEN rest ELSE Zero
    BY <1>2, <2>3
  <2>6. [l \in Levels |-> IF l = m THEN Zero
                           ELSE IF l = m+1 THEN NodeOf(r, m+1, 2*i) ELSE f[l]]
          = DescentPath(r, t, m+1, rest)
    BY <2>5 DEF DescentPath
  <2>. QED  BY <2>1, <2>4, <2>6
<1>9. [DescentFuture(r, t, m) EXCEPT ![m] = NodeOf(r, m+1, 2*i + 1)]
        = DescentFuture(r, t, m+1)
  <2>1. PICK f : f = DescentFuture(r, t, m)
    OBVIOUS
  <2>2. f = [l \in Edges |-> f[l]]
    BY <2>1, Zenon DEF DescentFuture
  <2>3. [f EXCEPT ![m] = NodeOf(r, m+1, 2*i + 1)]
          = [l \in Edges |-> IF l = m THEN NodeOf(r, m+1, 2*i + 1) ELSE f[l]]
    BY <2>2, OneSlot
  <2>4. \A l \in Edges :
          (IF l = m THEN NodeOf(r, m+1, 2*i + 1) ELSE f[l])
            = IF l < m+1 THEN FutureSeed(r, t, l) ELSE Zero
    BY <1>2, <1>7, <2>1, DepthAssumption DEF DescentFuture, Edges
  <2>. QED  BY <2>1, <2>3, <2>4 DEF DescentFuture
<1>10. [DescentFlags(t, m) EXCEPT ![m] = 1] = DescentFlags(t, m+1)
  <2>1. PICK f : f = DescentFlags(t, m)
    OBVIOUS
  <2>2. f = [l \in Edges |-> f[l]]
    BY <2>1, Zenon DEF DescentFlags
  <2>3. [f EXCEPT ![m] = 1] = [l \in Edges |-> IF l = m THEN 1 ELSE f[l]]
    BY <2>2, OneSlot
  <2>4. \A l \in Edges : (IF l = m THEN 1 ELSE f[l])
                           = IF l < m+1 THEN FutureFlag(t, l) ELSE 0
    BY <1>2, <1>7, <2>1, DepthAssumption DEF DescentFlags, Edges
  <2>. QED  BY <2>1, <2>3, <2>4 DEF DescentFlags
<1>11. DeriveAndDiscard(tree, m)
         = [path         |-> DescentPath(r, t, m+1, rest),
            future       |-> DescentFuture(r, t, m+1),
            future_valid |-> DescentFlags(t, m+1),
            current      |-> cur]
  BY <1>4, <1>5, <1>6, <1>8, <1>9, <1>10, Zenon DEF DeriveAndDiscard
<1>. QED  BY <1>3, <1>11, Zenon DEF Descent

-----------------------------------------------------------------------------
(* The descent loop, whatever it computes: a function that starts with the *)
(* struct before it and takes each level to the next by one iteration ends *)
(* with the struct after it.                                               *)
IsArray(M, a) == M = [k \in a..Depth |-> M[k]]

LEMMA DescendIs ==
    ASSUME NEW a \in Levels, NEW M, IsArray(M, a),
           \A k \in Edges : a <= k => M[k+1] = DeriveAndDiscard(M[k], k)
    PROVE  DescendFrom(M[a], a) = M[Depth]
<1>1. \A k \in a..Depth :
         M[k] = IF k = a THEN M[a] ELSE DeriveAndDiscard(M[k-1], k-1)
  <2>. SUFFICES ASSUME NEW k \in a..Depth, k # a
                PROVE  M[k] = DeriveAndDiscard(M[k-1], k-1)
    OBVIOUS
  <2>1. k-1 \in Edges /\ a <= k-1 /\ (k-1)+1 = k
    BY DepthAssumption DEF Edges, Levels
  <2>. QED  BY <2>1
<1>2. \E g : g = [k \in a..Depth |->
                    IF k = a THEN M[a] ELSE DeriveAndDiscard(g[k-1], k-1)]
  BY <1>1, Zenon DEF IsArray
<1>3. PICK g : /\ g = [k \in a..Depth |->
                         IF k = a THEN M[a] ELSE DeriveAndDiscard(g[k-1], k-1)]
               /\ DescendFrom(M[a], a) = g[Depth]
  BY <1>2, Zenon DEF DescendFrom
<1>4. \A k \in a..Depth :
         g[k] = IF k = a THEN M[a] ELSE DeriveAndDiscard(g[k-1], k-1)
  BY <1>3
<1>5. PICK S : S = {k \in Levels : a <= k => g[k] = M[k]}
  OBVIOUS
<1>6. 0 \in S
  BY <1>4, <1>5, DepthAssumption DEF Levels
<1>7. ASSUME NEW k \in Edges, k \in S
      PROVE  k+1 \in S
  <2>1. /\ k \in Nat /\ k+1 \in Levels /\ (k+1)-1 = k
        /\ a <= k+1 => k+1 = a \/ a <= k
    BY DepthAssumption DEF Edges, Levels
  <2>. SUFFICES ASSUME a <= k+1 PROVE g[k+1] = M[k+1]
    BY <1>5, <2>1
  <2>2. k+1 \in a..Depth
    BY <2>1 DEF Levels
  <2>3. CASE k+1 = a
    BY <1>4, <2>2, <2>3
  <2>4. CASE k+1 # a /\ a <= k
    <3>1. g[k+1] = DeriveAndDiscard(g[k], k)
      BY <1>4, <2>1, <2>2, <2>4
    <3>2. g[k] = M[k]
      BY <1>5, <1>7, <2>4
    <3>. QED  BY <2>4, <3>1, <3>2
  <2>. QED  BY <2>1, <2>3, <2>4
<1>8. Levels \subseteq S
  BY <1>6, <1>7, LevelsDown, Zenon
<1>9. Depth \in Levels /\ a <= Depth
  BY DepthAssumption DEF Levels
<1>10. DescendFrom(M[a], a) = g[Depth]
  BY <1>3, Zenon
<1>. QED  BY <1>5, <1>8, <1>9, <1>10

(* A descent along a path that only turns left ends at its leaf.           *)
LEMMA DescendToLeaf ==
    ASSUME NEW r \in Nat, NEW t \in Periods, NEW cur, NEW a \in Levels,
           NEW rest,
           \A k \in Edges :
              a <= k => level_index(t, k+1) = 2 * level_index(t, k)
    PROVE  DescendFrom(Descent(r, t, cur, a, rest), a)
             = Descent(r, t, cur, Depth, rest)
<1>1. PICK M : M = [k \in a..Depth |-> Descent(r, t, cur, k, rest)]
  OBVIOUS
<1>2. IsArray(M, a)
  BY <1>1, Zenon DEF IsArray
<1>3. ASSUME NEW k \in Edges, a <= k
      PROVE  M[k+1] = DeriveAndDiscard(M[k], k)
  <2>1. k \in a..Depth /\ k+1 \in a..Depth
    BY <1>3, DepthAssumption DEF Edges, Levels
  <2>2. /\ M[k] = Descent(r, t, cur, k, rest)
        /\ M[k+1] = Descent(r, t, cur, k+1, rest)
    BY <1>1, <2>1
  <2>3. DeriveAndDiscard(Descent(r, t, cur, k, rest), k)
          = Descent(r, t, cur, k+1, rest)
    BY <1>3, DescentStep
  <2>. QED  BY <2>2, <2>3
<1>4. DescendFrom(M[a], a) = M[Depth]
  BY <1>2, <1>3, DescendIs
<1>5. a \in a..Depth /\ Depth \in a..Depth
  BY DepthAssumption DEF Levels
<1>. QED  BY <1>1, <1>4, <1>5

-----------------------------------------------------------------------------
(* ev_tree_init: the struct of period 0.                                   *)
LEMMA InitTree ==
    ASSUME NEW r \in Nat
    PROVE  ev_tree_init(NodeOf(r, 0, 0)) = TreeIn(r, 0)
<1>1. 0 \in Periods /\ 0 \in Levels
  BY TPositive, DepthAssumption DEF Periods, Levels
<1>2. \A l \in Levels : level_index(0, l) = 0
  <2>. TAKE l \in Levels
  <2>1. Pow2[Depth - l] \in Nat \ {0}
    BY Pow2Assumption, DepthAssumption DEF Levels
  <2>. QED  BY <2>1 DEF level_index
<1>3. RootOnly(NodeOf(r, 0, 0)) = Descent(r, 0, 0, 0, Zero)
  <2>1. DescentPath(r, 0, 0, Zero)
          = [l \in Levels |-> IF l = 0 THEN NodeOf(r, 0, 0) ELSE Zero]
    BY <1>1, <1>2 DEF DescentPath
  <2>2. /\ DescentFuture(r, 0, 0) = [l \in Edges |-> Zero]
        /\ DescentFlags(0, 0) = [l \in Edges |-> 0]
    BY DepthAssumption DEF DescentFuture, DescentFlags, Edges
  <2>. QED  BY <2>1, <2>2, Zenon DEF RootOnly, Descent
<1>4. \A k \in Edges :
         0 <= k => level_index(0, k+1) = 2 * level_index(0, k)
  BY <1>2, DepthAssumption DEF Edges, Levels
<1>5. DescendFrom(Descent(r, 0, 0, 0, Zero), 0) = Descent(r, 0, 0, Depth, Zero)
  BY <1>1, <1>4, DescendToLeaf
<1>. QED  BY <1>3, <1>5 DEF ev_tree_init, TreeIn

(* The scan of ev_tree_advance finds the branch point of p and p+1.        *)
LEMMA BranchLevelIs ==
    ASSUME NEW p \in Periods, p + 1 < T
    PROVE  /\ BranchLevel(p) \in 1..Depth
           /\ level_index(p, BranchLevel(p)) # level_index(p+1, BranchLevel(p))
           /\ \A l \in Levels : l < BranchLevel(p) =>
                 level_index(p, l) = level_index(p+1, l)
<1>1. p \in Nat /\ p + 1 \in Periods
  BY TPositive DEF Periods
<1>2. level_index(p, Depth) = p /\ level_index(p+1, Depth) = p+1
      /\ level_index(p, 0) = 0 /\ level_index(p+1, 0) = 0
  BY <1>1, IndexEnds
<1>3. Depth \in 1..Depth
  BY <1>1, <1>2, DepthAssumption
<1>4. PICK S : S = {l \in 1..Depth : level_index(p, l) # level_index(p+1, l)}
                     \cup {Depth}
  OBVIOUS
<1>5. \A l \in S : l \in 1..Depth /\ level_index(p, l) # level_index(p+1, l)
  BY <1>1, <1>2, <1>3, <1>4
<1>6. \E d \in S : \A l \in S : d <= l
  <2>1. S \in SUBSET Nat /\ S # {}
    <3>1. \A l \in S : l \in Nat
      BY <1>5, DepthAssumption
    <3>2. Depth \in S
      BY <1>4
    <3>. QED  BY <3>1, <3>2
  <2>. QED  BY <2>1, Least
<1>7. BranchLevel(p) \in S /\ \A l \in S : BranchLevel(p) <= l
  BY <1>4, <1>6, Zenon DEF BranchLevel, Min
<1>8. ASSUME NEW l \in Levels, l < BranchLevel(p)
      PROVE  level_index(p, l) = level_index(p+1, l)
  <2>1. l \notin S
    BY <1>5, <1>7, <1>8 DEF Levels
  <2>2. CASE l = 0
    BY <1>2, <2>2
  <2>3. CASE l # 0
    <3>1. l \in 1..Depth
      BY <2>3, DepthAssumption DEF Levels
    <3>. QED  BY <1>4, <2>1, <3>1
  <2>. QED  BY <2>2, <2>3
<1>. QED  BY <1>5, <1>7, <1>8

(* Below the branch point p keeps right and p+1 keeps left.                *)
LEMMA BelowBranch ==
    ASSUME NEW p \in Periods, p + 1 < T, NEW d \in Levels, NEW k \in Edges,
           d <= k, level_index(p, d) # level_index(p+1, d)
    PROVE  /\ ~TurnsLeft(p, k)
           /\ level_index(p+1, k+1) = 2 * level_index(p+1, k)
<1>1. /\ p \in Nat /\ p + 1 \in Periods /\ k \in Levels /\ k+1 \in Levels
      /\ d <= k+1
  BY TPositive, DepthAssumption DEF Periods, Edges, Levels
<1>2. /\ level_index(p, k) # level_index(p+1, k)
      /\ level_index(p, k+1) # level_index(p+1, k+1)
  BY <1>1, SamePathAbove
<1>3. /\ level_index(p+1, k+1) = level_index(p, k+1) + 1
      /\ level_index(p, k+1) % 2 = 1
  BY <1>1, <1>2, BranchPoint
<1>4. level_index(p+1, k) = level_index(p+1, k+1) \div 2
  BY <1>1, IndexHalves
<1>5. level_index(p, k+1) \in Nat
  BY <1>1, IndexEnds
<1>. QED  BY <1>3, <1>4, <1>5 DEF TurnsLeft

(* At the branch point p turns left, and above it the two are together.    *)
LEMMA AtBranch ==
    ASSUME NEW p \in Periods, p + 1 < T, NEW d \in 1..Depth,
           level_index(p, d) # level_index(p+1, d),
           \A l \in Levels : l < d => level_index(p, l) = level_index(p+1, l)
    PROVE  /\ TurnsLeft(p, d-1) /\ ~TurnsLeft(p+1, d-1)
           /\ level_index(p+1, d) = level_index(p, d) + 1
           /\ \A k \in Edges : k < d-1 =>
                 level_index(p, k+1) = level_index(p+1, k+1)
<1>1. /\ p \in Nat /\ p + 1 \in Periods /\ d - 1 \in Edges /\ (d-1) + 1 = d
      /\ d - 1 \in Levels /\ d - 1 < d /\ d \in Levels
  BY TPositive, DepthAssumption DEF Periods, Edges, Levels
<1>2. /\ level_index(p+1, d) = level_index(p, d) + 1
      /\ level_index(p, d) % 2 = 0
  <2>1. level_index(p, (d-1) + 1) # level_index(p+1, (d-1) + 1)
    BY <1>1
  <2>2. level_index(p, d-1) = level_index(p+1, d-1)
    BY <1>1
  <2>3. /\ level_index(p+1, (d-1) + 1) = level_index(p, (d-1) + 1) + 1
        /\ level_index(p, (d-1) + 1) % 2 = 0
    BY <1>1, <2>1, <2>2, BranchPoint
  <2>. QED  BY <1>1, <2>3
<1>3. level_index(p, d) \in Nat
  BY <1>1, IndexEnds
<1>4. ASSUME NEW k \in Edges, k < d-1
      PROVE  level_index(p, k+1) = level_index(p+1, k+1)
  <2>1. k+1 \in Levels /\ k+1 < d
    BY <1>1, <1>4, DepthAssumption DEF Edges, Levels
  <2>. QED  BY <2>1
<1>. QED  BY <1>1, <1>2, <1>3, <1>4 DEF TurnsLeft

(* What taking the stored sibling and zeroing the ancestors leaves: the    *)
(* beginning of the descent to p+1, with the leaf of p still in its slot.  *)
LEMMA TakeIs ==
    ASSUME NEW r \in Nat, NEW p \in Periods, p + 1 < T, NEW d \in 1..Depth,
           level_index(p, d) # level_index(p+1, d),
           \A l \in Levels : l < d => level_index(p, l) = level_index(p+1, l)
    PROVE  /\ TreeIn(r, p).future_valid[d-1] = 1
           /\ DiscardAncestors(TakeFuture(TreeIn(r, p), d), d)
                = Descent(r, p+1, p, d, NodeOf(r, Depth, p))
<1>1. /\ p \in Nat /\ p + 1 \in Periods /\ d - 1 \in Edges /\ (d-1) + 1 = d
      /\ d \in Levels /\ d \in Nat /\ d <= Depth
  BY TPositive, DepthAssumption DEF Periods, Edges, Levels
<1>2. /\ TurnsLeft(p, d-1) /\ ~TurnsLeft(p+1, d-1)
      /\ level_index(p+1, d) = level_index(p, d) + 1
      /\ \A k \in Edges : k < d-1 =>
            level_index(p, k+1) = level_index(p+1, k+1)
  BY AtBranch
<1>3. \A k \in Edges : d <= k => ~TurnsLeft(p, k)
  BY <1>1, BelowBranch
<1>4. \A k \in Edges : k < Depth /\ k \in Nat
  BY DepthAssumption DEF Edges
<1>5. PICK f : f = DescentPath(r, p, Depth, Zero)
  OBVIOUS
<1>6. PICK g : g = DescentFuture(r, p, Depth)
  OBVIOUS
<1>7. PICK v : v = DescentFlags(p, Depth)
  OBVIOUS
<1>8. /\ TreeIn(r, p).path = f /\ TreeIn(r, p).future = g
      /\ TreeIn(r, p).future_valid = v /\ TreeIn(r, p).current = p
  BY <1>5, <1>6, <1>7 DEF TreeIn, Descent
<1>9. /\ \A l \in Levels :
            f[l] = IF l = Depth THEN NodeOf(r, Depth, p) ELSE Zero
      /\ \A k \in Edges : g[k] = FutureSeed(r, p, k)
      /\ \A k \in Edges : v[k] = FutureFlag(p, k)
  <2>1. level_index(p, Depth) = p
    BY <1>1, IndexEnds
  <2>2. \A l \in Levels :
          f[l] = IF l = Depth THEN NodeOf(r, Depth, p) ELSE Zero
    BY <1>5, <2>1 DEF DescentPath
  <2>3. \A k \in Edges : g[k] = FutureSeed(r, p, k)
    BY <1>4, <1>6 DEF DescentFuture
  <2>4. \A k \in Edges : v[k] = FutureFlag(p, k)
    BY <1>4, <1>7 DEF DescentFlags
  <2>. QED  BY <2>2, <2>3, <2>4
<1>10. /\ f = [l \in Levels |-> f[l]]
       /\ g = [k \in Edges |-> g[k]]
       /\ v = [k \in Edges |-> v[k]]
  BY <1>5, <1>6, <1>7, Zenon DEF DescentPath, DescentFuture, DescentFlags
<1>11. g[d-1] = NodeOf(r, d, level_index(p+1, d))
  BY <1>1, <1>2, <1>9 DEF FutureSeed
<1>12. [l \in Levels |-> IF l < d THEN Zero ELSE [f EXCEPT ![d] = g[d-1]][l]]
         = DescentPath(r, p+1, d, NodeOf(r, Depth, p))
  <2>1. [f EXCEPT ![d] = g[d-1]]
          = [l \in Levels |-> IF l = d THEN g[d-1] ELSE f[l]]
    BY <1>1, <1>10, OneSlot
  <2>2. \A l \in Levels :
          (IF l < d THEN Zero ELSE IF l = d THEN g[d-1] ELSE f[l])
            = IF l = d THEN NodeOf(r, l, level_index(p+1, l))
              ELSE IF l = Depth THEN NodeOf(r, Depth, p) ELSE Zero
    BY <1>1, <1>9, <1>11 DEF Levels
  <2>3. \A l \in Levels :
          [f EXCEPT ![d] = g[d-1]][l] = IF l = d THEN g[d-1] ELSE f[l]
    BY <2>1
  <2>. QED  BY <2>2, <2>3 DEF DescentPath
<1>13. [g EXCEPT ![d-1] = Zero] = DescentFuture(r, p+1, d)
  <2>1. [g EXCEPT ![d-1] = Zero]
          = [k \in Edges |-> IF k = d-1 THEN Zero ELSE g[k]]
    BY <1>1, <1>10, OneSlot
  <2>2. ASSUME NEW k \in Edges
        PROVE  (IF k = d-1 THEN Zero ELSE g[k])
                 = IF k < d THEN FutureSeed(r, p+1, k) ELSE Zero
    <3>1. CASE k < d-1
      BY <1>1, <1>2, <1>4, <1>9, <3>1 DEF FutureSeed, TurnsLeft
    <3>2. CASE k = d-1
      BY <1>1, <1>2, <3>2 DEF FutureSeed
    <3>3. CASE d <= k
      BY <1>1, <1>3, <1>4, <1>9, <3>3 DEF FutureSeed
    <3>. QED  BY <1>1, <1>4, <3>1, <3>2, <3>3
  <2>. QED  BY <2>1, <2>2 DEF DescentFuture
<1>14. [v EXCEPT ![d-1] = 0] = DescentFlags(p+1, d)
  <2>1. [v EXCEPT ![d-1] = 0] = [k \in Edges |-> IF k = d-1 THEN 0 ELSE v[k]]
    BY <1>1, <1>10, OneSlot
  <2>2. ASSUME NEW k \in Edges
        PROVE  (IF k = d-1 THEN 0 ELSE v[k])
                 = IF k < d THEN FutureFlag(p+1, k) ELSE 0
    <3>1. CASE k < d-1
      BY <1>1, <1>2, <1>4, <1>9, <3>1 DEF FutureFlag, TurnsLeft
    <3>2. CASE k = d-1
      BY <1>1, <1>2, <3>2 DEF FutureFlag
    <3>3. CASE d <= k
      BY <1>1, <1>3, <1>4, <1>9, <3>3 DEF FutureFlag
    <3>. QED  BY <1>1, <1>4, <3>1, <3>2, <3>3
  <2>. QED  BY <2>1, <2>2 DEF DescentFlags
<1>15. PICK t : t = TakeFuture(TreeIn(r, p), d)
  OBVIOUS
<1>16. /\ t = [path         |-> [f EXCEPT ![d] = g[d-1]],
               future       |-> [g EXCEPT ![d-1] = Zero],
               future_valid |-> [v EXCEPT ![d-1] = 0],
               current      |-> p]
  BY <1>8, <1>15, Zenon DEF TakeFuture
<1>17. DiscardAncestors(t, d)
         = [path         |-> [l \in Levels |->
                                IF l < d THEN Zero
                                ELSE [f EXCEPT ![d] = g[d-1]][l]],
            future       |-> [g EXCEPT ![d-1] = Zero],
            future_valid |-> [v EXCEPT ![d-1] = 0],
            current      |-> p]
  BY <1>16 DEF DiscardAncestors
<1>18. v[d-1] = 1
  BY <1>1, <1>2, <1>9 DEF FutureFlag
<1>. QED  BY <1>8, <1>12, <1>13, <1>14, <1>15, <1>17, <1>18, Zenon DEF Descent

(* ev_tree_advance: the struct of the next period, or a refusal in the     *)
(* last one.                                                               *)
LEMMA AdvanceTree ==
    ASSUME NEW r \in Nat, NEW p \in Periods
    PROVE  /\ p + 1 < T => /\ p + 1 \in Periods
                           /\ ev_tree_advance(TreeIn(r, p))
                                = [rc |-> 0, tree |-> TreeIn(r, p+1)]
           /\ p + 1 >= T => ev_tree_advance(TreeIn(r, p))
                              = [rc |-> -1, tree |-> TreeIn(r, p)]
<1>1. TreeIn(r, p).current = p
  BY DEF TreeIn, Descent
<1>2. p \in Nat /\ T \in Nat
  BY TPositive DEF Periods
<1>3. CASE p + 1 >= T
  <2>1. ev_tree_advance(TreeIn(r, p)) = [rc |-> -1, tree |-> TreeIn(r, p)]
    BY <1>1, <1>3 DEF ev_tree_advance
  <2>. QED  BY <1>2, <1>3, <2>1
<1>4. CASE p + 1 < T
  <2>1. p + 1 \in Periods
    BY <1>2, <1>4 DEF Periods
  <2>2. PICK d \in 1..Depth : d = BranchLevel(p)
    BY <1>4, BranchLevelIs
  <2>3. /\ level_index(p, d) # level_index(p+1, d)
        /\ \A l \in Levels : l < d => level_index(p, l) = level_index(p+1, l)
    BY <1>4, <2>2, BranchLevelIs
  <2>4. /\ TreeIn(r, p).future_valid[d-1] = 1
        /\ DiscardAncestors(TakeFuture(TreeIn(r, p), d), d)
             = Descent(r, p+1, p, d, NodeOf(r, Depth, p))
    BY <1>4, <2>3, TakeIs
  <2>5. d \in Levels
    BY DepthAssumption DEF Levels
  <2>6. \A k \in Edges :
           d <= k => level_index(p+1, k+1) = 2 * level_index(p+1, k)
    BY <1>4, <2>3, <2>5, BelowBranch
  <2>7. DescendFrom(Descent(r, p+1, p, d, NodeOf(r, Depth, p)), d)
          = Descent(r, p+1, p, Depth, NodeOf(r, Depth, p))
    BY <2>1, <2>5, <2>6, DescendToLeaf
  <2>8. [Descent(r, p+1, p, Depth, NodeOf(r, Depth, p)) EXCEPT !.current = p+1]
          = TreeIn(r, p+1)
    <3>1. DescentPath(r, p+1, Depth, NodeOf(r, Depth, p))
            = DescentPath(r, p+1, Depth, Zero)
      BY DEF DescentPath
    <3>. QED  BY <3>1 DEF Descent, TreeIn
  <2>9. ev_tree_advance(TreeIn(r, p))
          = [rc |-> 0,
             tree |-> [DescendFrom(DiscardAncestors(
                                      TakeFuture(TreeIn(r, p), d), d), d)
                         EXCEPT !.current = p + 1]]
    <3>1. ~(p + 1 >= T) /\ TreeIn(r, p).future_valid[d-1] # 0
      BY <1>2, <1>4, <2>4
    <3>. QED  BY <1>1, <2>2, <3>1, Zenon DEF ev_tree_advance
  <2>. QED  BY <1>2, <1>4, <2>1, <2>4, <2>7, <2>8, <2>9
<1>. QED  BY <1>2, <1>3, <1>4

(* The walker of ev_keygen is in the struct of period p when its loop gets *)
(* there.                                                                  *)
LEMMA WalkTree ==
    ASSUME NEW r \in Nat
    PROVE  \A p \in Periods : Walk(TreeIn(r, 0))[p] = TreeIn(r, p)
<1>1. \A p \in Periods : p \in Nat /\ p < T /\ T \in Nat
  BY TPositive DEF Periods
<1>2. PICK W : W = [p \in Periods |-> TreeIn(r, p)]
  OBVIOUS
<1>3. ASSUME NEW p \in Periods, p # 0
      PROVE  /\ p-1 \in Periods
             /\ TreeIn(r, p) = ev_tree_advance(TreeIn(r, p-1)).tree
  <2>1. p-1 \in Periods /\ (p-1) + 1 < T /\ (p-1) + 1 = p
    BY <1>1, <1>3 DEF Periods
  <2>2. ev_tree_advance(TreeIn(r, p-1))
          = [rc |-> 0, tree |-> TreeIn(r, (p-1) + 1)]
    BY <2>1, AdvanceTree
  <2>. QED  BY <2>1, <2>2
<1>4. \A p \in Periods :
         W[p] = IF p = 0 THEN TreeIn(r, 0) ELSE ev_tree_advance(W[p-1]).tree
  BY <1>2, <1>3
<1>5. W = [p \in Periods |-> W[p]]
  BY <1>2, Zenon
<1>6. \E g : g = [p \in Periods |->
                    IF p = 0 THEN TreeIn(r, 0)
                    ELSE ev_tree_advance(g[p-1]).tree]
  BY <1>4, <1>5, Zenon
<1>7. PICK g : /\ g = [p \in Periods |->
                         IF p = 0 THEN TreeIn(r, 0)
                         ELSE ev_tree_advance(g[p-1]).tree]
               /\ Walk(TreeIn(r, 0)) = g
  BY <1>6, Zenon DEF Walk
<1>8. \A p \in Periods :
         g[p] = IF p = 0 THEN TreeIn(r, 0) ELSE ev_tree_advance(g[p-1]).tree
  BY <1>7
<1>9. PICK S : S = {n \in Nat : n \in Periods => g[n] = TreeIn(r, n)}
  OBVIOUS
<1>10. 0 \in S
  BY <1>8, <1>9
<1>11. ASSUME NEW n \in Nat, n \in S
       PROVE  n+1 \in S
  <2>. SUFFICES ASSUME n+1 \in Periods PROVE g[n+1] = TreeIn(r, n+1)
    BY <1>9
  <2>1. n \in Periods /\ (n+1) - 1 = n /\ n+1 # 0
    BY <1>1 DEF Periods
  <2>2. g[n] = TreeIn(r, n)
    BY <1>9, <1>11, <2>1
  <2>3. g[n+1] = ev_tree_advance(g[n]).tree
    BY <1>8, <2>1
  <2>4. TreeIn(r, n+1) = ev_tree_advance(TreeIn(r, n)).tree
    BY <1>3, <2>1
  <2>. QED  BY <2>2, <2>3, <2>4
<1>12. Nat \subseteq S
  BY <1>10, <1>11, SetInduction, Zenon
<1>13. \A p \in Periods : g[p] = TreeIn(r, p)
  BY <1>1, <1>9, <1>12
<1>. QED  BY <1>7, <1>13

-----------------------------------------------------------------------------
(* Which slots of a struct cover a period: the seed on the path those      *)
(* below it, a frontier slot those that leave the path there.              *)
CoveredBy(tree, t, m, q) ==
    /\ \A l \in Levels : Covers(tree.path[l], q)
         <=> l = m /\ level_index(q, m) = level_index(t, m)
    /\ \A k \in Edges : Covers(tree.future[k], q)
         <=> k < m /\ Leaves(t, q, k)

LEMMA SlotCovers ==
    ASSUME NEW r \in Nat \ {0}, NEW t \in Periods, NEW cur, NEW m \in Levels,
           NEW rest, NEW q \in Periods, m = Depth \/ ~Covers(rest, q)
    PROVE  CoveredBy(Descent(r, t, cur, m, rest), t, m, q)
<1>0. PICK tree : tree = Descent(r, t, cur, m, rest)
  OBVIOUS
<1>1. /\ ~Covers(Zero, q)
      /\ \A l, i : Covers(NodeOf(r, l, i), q) <=> level_index(q, l) = i
  BY DEF Covers, Zero, NodeOf
<1>2. tree.path = DescentPath(r, t, m, rest)
      /\ tree.future = DescentFuture(r, t, m)
  BY <1>0 DEF Descent
<1>3. ASSUME NEW l \in Levels
      PROVE  Covers(tree.path[l], q)
               <=> l = m /\ level_index(q, m) = level_index(t, m)
  <2>1. tree.path[l] = IF l = m THEN NodeOf(r, l, level_index(t, l))
                       ELSE IF l = Depth THEN rest ELSE Zero
    BY <1>2 DEF DescentPath
  <2>2. CASE l = m
    BY <1>1, <2>1, <2>2
  <2>3. CASE l # m /\ l = Depth
    BY <1>1, <2>1, <2>3
  <2>4. CASE l # m /\ l # Depth
    BY <1>1, <2>1, <2>4
  <2>. QED  BY <2>2, <2>3, <2>4
<1>4. ASSUME NEW k \in Edges
      PROVE  Covers(tree.future[k], q) <=> k < m /\ Leaves(t, q, k)
  <2>1. tree.future[k] = IF k < m THEN FutureSeed(r, t, k) ELSE Zero
    BY <1>2 DEF DescentFuture
  <2>2. Covers(FutureSeed(r, t, k), q) <=> Leaves(t, q, k)
    BY <1>1 DEF FutureSeed, TurnsLeft, Leaves
  <2>3. CASE k < m
    BY <2>1, <2>2, <2>3
  <2>4. CASE ~(k < m)
    BY <1>1, <2>1, <2>4
  <2>. QED  BY <2>3, <2>4
<1>. QED  BY <1>0, <1>3, <1>4 DEF CoveredBy

(* An earlier period than that of the descent is covered by no slot.       *)
LEMMA NoHolder ==
    ASSUME NEW r \in Nat \ {0}, NEW t \in Periods, NEW cur, NEW m \in Levels,
           NEW rest, NEW q \in Periods, m = Depth \/ ~Covers(rest, q),
           q < t, level_index(q, m) # level_index(t, m)
    PROVE  Holders(Descent(r, t, cur, m, rest), q) = {}
<1>1. PICK tree : tree = Descent(r, t, cur, m, rest)
  OBVIOUS
<1>2. /\ \A l \in Levels : ~Covers(tree.path[l], q)
      /\ \A k \in Edges : Covers(tree.future[k], q) => Leaves(t, q, k)
  <2>1. CoveredBy(tree, t, m, q)
    BY <1>1, SlotCovers
  <2>. QED  BY <2>1 DEF CoveredBy
<1>3. ASSUME NEW k \in Edges
      PROVE  ~Leaves(t, q, k)
  <2>1. q \in Nat /\ t \in Nat /\ q <= t /\ k+1 \in Levels
    BY TPositive, DepthAssumption DEF Periods, Edges, Levels
  <2>2. /\ level_index(q, k+1) <= level_index(t, k+1)
        /\ level_index(q, k+1) \in Nat /\ level_index(t, k+1) \in Nat
    BY <2>1, IndexMono, IndexEnds
  <2>. QED  BY <2>2 DEF Leaves
<1>4. \A k \in Edges : ~Covers(tree.future[k], q)
  BY <1>2, <1>3
<1>5. Holders(tree, q) = {}
  BY <1>2, <1>4, Zenon DEF Holders
<1>. QED  BY <1>1, <1>5

(* A period from that of the descent on is covered by exactly one slot.    *)
Single(S) == \E h : S = {h}

LEMMA OneHolder ==
    ASSUME NEW r \in Nat \ {0}, NEW t \in Periods, NEW cur, NEW m \in Levels,
           NEW rest, NEW q \in Periods, m = Depth \/ ~Covers(rest, q), t <= q
    PROVE  Single(Holders(Descent(r, t, cur, m, rest), q))
<1>1. PICK tree : tree = Descent(r, t, cur, m, rest)
  OBVIOUS
<1>2. /\ \A l \in Levels : Covers(tree.path[l], q)
           <=> l = m /\ level_index(q, m) = level_index(t, m)
      /\ \A k \in Edges : Covers(tree.future[k], q)
           <=> k < m /\ Leaves(t, q, k)
  <2>1. CoveredBy(tree, t, m, q)
    BY <1>1, SlotCovers
  <2>. QED  BY <2>1 DEF CoveredBy
<1>3. CASE level_index(q, m) = level_index(t, m)
  <2>1. \A l \in Levels : Covers(tree.path[l], q) <=> l = m
    BY <1>2, <1>3
  <2>2. \A k \in Edges : ~(k < m /\ Leaves(t, q, k))
    BY <1>3, LeavesOnce
  <2>3. \A k \in Edges : ~Covers(tree.future[k], q)
    BY <1>2, <2>2
  <2>4. Holders(tree, q) = {<<"path", m>>}
    <3>1. {k \in Levels : Covers(tree.path[k], q)} = {m}
      BY <2>1
    <3>2. {k \in Edges : Covers(tree.future[k], q)} = {}
      BY <2>3
    <3>. QED  BY <3>1, <3>2, Zenon DEF Holders
  <2>. QED  BY <1>1, <2>4 DEF Single
<1>4. CASE level_index(q, m) # level_index(t, m)
  <2>1. PICK j \in Edges : j < m /\ Leaves(t, q, j)
    BY <1>4, PathsPart
  <2>2. \A k \in Edges : Leaves(t, q, k) => k = j
    BY <2>1, LeavesOnce
  <2>3. \A k \in Edges : Covers(tree.future[k], q) <=> k = j
    BY <1>2, <2>1, <2>2
  <2>4. \A l \in Levels : ~Covers(tree.path[l], q)
    BY <1>2, <1>4
  <2>5. Holders(tree, q) = {<<"future", j>>}
    <3>1. {k \in Levels : Covers(tree.path[k], q)} = {}
      BY <2>4
    <3>2. {k \in Edges : Covers(tree.future[k], q)} = {j}
      BY <2>3
    <3>. QED  BY <3>1, <3>2, Zenon DEF Holders
  <2>. QED  BY <1>1, <2>5 DEF Single
<1>. QED  BY <1>3, <1>4

LEMMA OneIsOne ==
    ASSUME NEW S, Single(S)
    PROVE  Cardinality(S) = 1 /\ S # {}
<1>1. PICK h : S = {h}
  BY DEF Single
<1>. QED  BY <1>1, FS_Singleton

-----------------------------------------------------------------------------
(***************************************************************************)
(* The commitment tree: what the recursive definitions of MerkleState      *)
(* compute, level by level, how the flat array of ev_merkle.c stores a     *)
(* level, and what one hash on the way up tells.                           *)
(***************************************************************************)

(* One level of the tree from the one below it, and a tree that is right   *)
(* from the leaves up to level a.                                          *)
Row(digs, g, l) == [i \in 0..Pow2[l]-1 |->
                      IF l = Depth THEN digs[i]
                      ELSE ev_hash_node(g[l+1][2*i], g[l+1][2*i + 1])]

TreeFrom(digs, g, a) == g = [l \in a..Depth |-> Row(digs, g, l)]

(* The tree can be built level by level.                                   *)
LEMMA TreeLeaves == ASSUME NEW digs
                    PROVE  \E g : TreeFrom(digs, g, Depth)
<1> DEFINE g == [l \in Depth..Depth |-> [i \in 0..Pow2[l]-1 |-> digs[i]]]
<1>1. \A l \in Depth..Depth : Row(digs, g, l) = [i \in 0..Pow2[l]-1 |-> digs[i]]
  BY DepthAssumption DEF Row
<1>2. TreeFrom(digs, g, Depth)
  BY <1>1 DEF TreeFrom
<1>. HIDE DEF g
<1>. QED  BY <1>2

LEMMA TreeGrows ==
    ASSUME NEW digs, NEW a \in Edges, NEW g, TreeFrom(digs, g, a+1)
    PROVE  \E h : TreeFrom(digs, h, a)
<1>0. PICK h : h = [l \in a..Depth |-> IF l = a THEN Row(digs, g, a) ELSE g[l]]
  OBVIOUS
<1>1. a \in Nat /\ a < Depth
  BY DepthAssumption DEF Edges
<1>2. \A l \in (a+1)..Depth : g[l] = Row(digs, g, l)
  BY DEF TreeFrom
<1>3. \A l \in a..Depth : h[l] = Row(digs, g, l)
  BY <1>0, <1>1, <1>2, DepthAssumption
<1>4. \A l \in (a+1)..Depth : h[l] = g[l]
  BY <1>0, <1>1, DepthAssumption
<1>5. h = [l \in a..Depth |-> h[l]]
  BY <1>0, Zenon
<1>6. \A l \in a..Depth : Row(digs, h, l) = Row(digs, g, l)
  <2>. TAKE l \in a..Depth
  <2>1. CASE l = Depth
    BY <2>1 DEF Row
  <2>2. CASE l # Depth
    <3>1. h[l+1] = g[l+1]
      BY <1>1, <1>4, <2>2, DepthAssumption
    <3>. QED  BY <3>1 DEF Row
  <2>. QED  BY <2>1, <2>2
<1>7. TreeFrom(digs, h, a)
  BY <1>3, <1>5, <1>6, Zenon DEF TreeFrom
<1>. QED  BY <1>7

(* TreeOf is that tree: the leaves, and on every level above them the hash *)
(* of the two children (ev_merkle_build).                                  *)
LEMMA TreeOfRows ==
    ASSUME NEW digs
    PROVE  TreeOf(digs) = [l \in Levels |-> Row(digs, TreeOf(digs), l)]
<1> DEFINE S == {a \in Levels : \E g : TreeFrom(digs, g, a)}
<1>1. Depth \in S
  BY TreeLeaves, DepthAssumption DEF Levels
<1>2. \A a \in Edges : a+1 \in S => a \in S
  <2>1. \A a \in Edges : a \in Levels
    BY DepthAssumption DEF Edges, Levels
  <2>. QED  BY <2>1, TreeGrows
<1>3. Levels \subseteq S
  <2>. HIDE DEF S
  <2>. QED  BY <1>1, <1>2, LevelsUp, Zenon
<1>4. \E g : TreeFrom(digs, g, 0)
  BY <1>3, DepthAssumption DEF Levels
<1>5. \E g : g = [l \in Levels |-> Row(digs, g, l)]
  BY <1>4, Zenon DEF Levels, TreeFrom
<1>. QED  BY <1>5, Zenon DEF TreeOf, Row

LEMMA TreeNode ==
    ASSUME NEW digs
    PROVE  /\ \A i \in 0..Pow2[Depth]-1 : TreeOf(digs)[Depth][i] = digs[i]
           /\ \A l \in Edges : \A i \in 0..Pow2[l]-1 :
                 TreeOf(digs)[l][i] = ev_hash_node(TreeOf(digs)[l+1][2*i],
                                                   TreeOf(digs)[l+1][2*i + 1])
<1>1. PICK t : t = TreeOf(digs)
  OBVIOUS
<1>2. \A l \in Levels : t[l] = Row(digs, t, l)
  BY <1>1, TreeOfRows, Zenon
<1>3. t[Depth] = Row(digs, t, Depth)
  BY <1>2, DepthAssumption DEF Levels
<1>4. \A i \in 0..Pow2[Depth]-1 : t[Depth][i] = digs[i]
  BY <1>3 DEF Row
<1>5. ASSUME NEW l \in Edges, NEW i \in 0..Pow2[l]-1
      PROVE  t[l][i] = ev_hash_node(t[l+1][2*i], t[l+1][2*i + 1])
  <2>1. l \in Levels /\ l # Depth
    BY DepthAssumption DEF Levels, Edges
  <2>2. t[l] = Row(digs, t, l)
    BY <1>2, <2>1
  <2>. QED  BY <2>1, <2>2 DEF Row
<1>. QED  BY <1>1, <1>4, <1>5

-----------------------------------------------------------------------------
(* The digests on the way from a leaf to the root, of which PathRoot is    *)
(* the last one (ev_merkle_verify).                                        *)
PathUp(p, leaf, path) ==
    CHOOSE up : up = [l \in Levels |->
        IF l = Depth THEN leaf
        ELSE HashUp(up[l+1], path[l], level_index(p, l+1))]

PathFrom(p, leaf, path, up, a) ==
    up = [l \in a..Depth |->
            IF l = Depth THEN leaf
            ELSE HashUp(up[l+1], path[l], level_index(p, l+1))]

LEMMA PathGrows ==
    ASSUME NEW p, NEW leaf, NEW path, NEW a \in Edges, NEW g,
           PathFrom(p, leaf, path, g, a+1)
    PROVE  \E h : PathFrom(p, leaf, path, h, a)
<1>0. PICK h : h = [l \in a..Depth |->
                      IF l = a THEN HashUp(g[a+1], path[a], level_index(p, a+1))
                      ELSE g[l]]
  OBVIOUS
<1>1. a \in Nat /\ a < Depth
  BY DepthAssumption DEF Edges
<1>2. \A l \in (a+1)..Depth : h[l] = g[l]
  BY <1>0, <1>1, DepthAssumption
<1>3. h[a] = HashUp(h[a+1], path[a], level_index(p, a+1))
  <2>1. a \in a..Depth /\ a+1 \in (a+1)..Depth
    BY <1>1, DepthAssumption
  <2>. QED  BY <1>0, <1>2, <2>1, Zenon
<1>4. \A l \in (a+1)..Depth :
         g[l] = IF l = Depth THEN leaf
                ELSE HashUp(g[l+1], path[l], level_index(p, l+1))
  BY DEF PathFrom
<1>5. \A l \in a..Depth :
         h[l] = IF l = Depth THEN leaf
                ELSE HashUp(h[l+1], path[l], level_index(p, l+1))
  <2>. TAKE l \in a..Depth
  <2>1. CASE l = a
    BY <1>1, <1>3, <2>1
  <2>2. CASE l = Depth
    BY <1>1, <1>2, <1>4, <2>2, DepthAssumption
  <2>3. CASE l # a /\ l # Depth
    <3>1. l \in (a+1)..Depth /\ l+1 \in (a+1)..Depth
      BY <1>1, <2>3, DepthAssumption
    <3>. QED  BY <1>2, <1>4, <2>3, <3>1
  <2>. QED  BY <2>1, <2>2, <2>3
<1>6. h = [l \in a..Depth |-> h[l]]
  BY <1>0, Zenon
<1>7. PathFrom(p, leaf, path, h, a)
  BY <1>5, <1>6, Zenon DEF PathFrom
<1>. QED  BY <1>7

LEMMA PathUpLevels ==
    ASSUME NEW p, NEW leaf, NEW path
    PROVE  /\ PathUp(p, leaf, path)[Depth] = leaf
           /\ \A l \in Edges :
                 PathUp(p, leaf, path)[l] =
                    HashUp(PathUp(p, leaf, path)[l+1], path[l],
                           level_index(p, l+1))
           /\ PathUp(p, leaf, path)[0] = PathRoot(p, leaf, path)
<1> DEFINE S == {a \in Levels : \E g : PathFrom(p, leaf, path, g, a)}
<1>1. Depth \in S
  <2>1. PICK g : g = [l \in Depth..Depth |-> leaf]
    OBVIOUS
  <2>2. PathFrom(p, leaf, path, g, Depth)
    BY <2>1, DepthAssumption DEF PathFrom
  <2>. QED  BY <2>2, DepthAssumption DEF Levels
<1>2. \A a \in Edges : a+1 \in S => a \in S
  <2>1. \A a \in Edges : a \in Levels
    BY DepthAssumption DEF Edges, Levels
  <2>. QED  BY <2>1, PathGrows
<1>3. Levels \subseteq S
  <2>. HIDE DEF S
  <2>. QED  BY <1>1, <1>2, LevelsUp, Zenon
<1>4. \E g : PathFrom(p, leaf, path, g, 0)
  BY <1>3, DepthAssumption DEF Levels
<1>5. \E g : g = [l \in Levels |->
                    IF l = Depth THEN leaf
                    ELSE HashUp(g[l+1], path[l], level_index(p, l+1))]
  BY <1>4, Zenon DEF Levels, PathFrom
<1>6. PICK u : u = PathUp(p, leaf, path)
  OBVIOUS
<1>7. u = [l \in Levels |->
             IF l = Depth THEN leaf
             ELSE HashUp(u[l+1], path[l], level_index(p, l+1))]
  BY <1>5, <1>6, Zenon DEF PathUp
<1>8. u[0] = PathRoot(p, leaf, path)
  BY <1>6, Zenon DEF PathRoot, PathUp
<1>9. \A l \in Levels : u[l] = IF l = Depth THEN leaf
                         ELSE HashUp(u[l+1], path[l], level_index(p, l+1))
  BY <1>7, Zenon
<1>10. Depth \in Levels /\ \A l \in Edges : l \in Levels /\ l # Depth
  BY DepthAssumption DEF Edges, Levels
<1>. QED  BY <1>6, <1>8, <1>9, <1>10

-----------------------------------------------------------------------------
(* A node and its sibling are the two children of the node of half their   *)
(* index.                                                                  *)
LEMMA SiblingBound ==
    ASSUME NEW l \in Edges, NEW idx \in 0..Pow2[l+1]-1
    PROVE  /\ sibling(idx) \in 0..Pow2[l+1]-1
           /\ idx \div 2 \in 0..Pow2[l]-1
           /\ idx % 2 = 0 => /\ idx = 2 * (idx \div 2)
                             /\ sibling(idx) = 2 * (idx \div 2) + 1
           /\ idx % 2 # 0 => /\ idx = 2 * (idx \div 2) + 1
                             /\ sibling(idx) = 2 * (idx \div 2)
                             /\ idx % 2 = 1
  BY Pow2Type, Pow2Doubles DEF sibling

(* One hash on the way up gives a node of the tree exactly if what is      *)
(* hashed is the node below and its sibling, in the order that the low bit *)
(* of the index tells (ev_merkle_verify).                                  *)
LEMMA HashUpIsNode ==
    ASSUME NEW digs, NEW l \in Edges, NEW idx \in 0..Pow2[l+1]-1,
           NEW cur, NEW sib
    PROVE  HashUp(cur, sib, idx) = TreeOf(digs)[l][idx \div 2] <=>
             /\ cur = TreeOf(digs)[l+1][idx]
             /\ sib = TreeOf(digs)[l+1][sibling(idx)]
<1>1. PICK t : t = TreeOf(digs)
  OBVIOUS
<1>2. PICK h \in 0..Pow2[l]-1 : h = idx \div 2
  BY SiblingBound
<1>3. t[l][h] = <<"node", t[l+1][2*h], t[l+1][2*h + 1]>>
  BY <1>1, TreeNode DEF ev_hash_node
<1>4. CASE idx % 2 = 0
  <2>1. idx = 2*h /\ sibling(idx) = 2*h + 1 /\ idx % 2 # 1
    BY <1>2, <1>4, SiblingBound
  <2>2. HashUp(cur, sib, idx) = <<"node", cur, sib>>
    BY <2>1 DEF HashUp, ev_hash_node
  <2>. QED  BY <1>1, <1>2, <1>3, <2>1, <2>2
<1>5. CASE idx % 2 # 0
  <2>1. idx = 2*h + 1 /\ sibling(idx) = 2*h /\ idx % 2 = 1
    BY <1>2, <1>5, SiblingBound
  <2>2. HashUp(cur, sib, idx) = <<"node", sib, cur>>
    BY <2>1 DEF HashUp, ev_hash_node
  <2>. QED  BY <1>1, <1>2, <1>3, <2>1, <2>2
<1>. QED  BY <1>4, <1>5

-----------------------------------------------------------------------------
(* An index within its level is one of the T that the arrays have room for.*)
LEMMA LevelFits == \A k \in Levels : Pow2[k] <= T
<1>. TAKE k \in Levels
<1>1. Pow2[k] \in Nat \ {0} /\ T \in Nat \ {0} /\ Depth \in Levels
  BY Pow2Type, TPositive, DepthAssumption DEF Levels
<1>2. CASE k = Depth
  BY <1>1, <1>2 DEF T
<1>3. CASE k < Depth
  BY <1>1, <1>3, Pow2Mono DEF T
<1>. QED  BY <1>2, <1>3, DepthAssumption DEF Levels

(* The flat array has room for every node, and no two nodes share a place  *)
(* (node_off).                                                             *)
LEMMA NodeOffType ==
    ASSUME NEW k \in Levels, NEW j \in 0..Pow2[k]-1
    PROVE  node_off(k, j) \in Offsets
<1>1. Pow2[k] \in Nat \ {0} /\ T \in Nat \ {0} /\ Pow2[k] <= T
  BY Pow2Type, TPositive, LevelFits
<1>. QED  BY <1>1 DEF node_off, Offsets

LEMMA NodeOffInjective ==
    ASSUME NEW k \in Levels, NEW j \in 0..Pow2[k]-1,
           NEW m \in Levels, NEW n \in 0..Pow2[m]-1,
           node_off(k, j) = node_off(m, n)
    PROVE  k = m /\ j = n
<1>1. Pow2[k] \in Nat \ {0} /\ Pow2[m] \in Nat \ {0}
  BY Pow2Type
<1>2. CASE k < m
  BY <1>1, <1>2, Pow2Mono DEF node_off
<1>3. CASE m < k
  BY <1>1, <1>3, Pow2Mono DEF node_off
<1>4. CASE k = m
  BY <1>1, <1>4 DEF node_off
<1>. QED  BY <1>2, <1>3, <1>4 DEF Levels

-----------------------------------------------------------------------------
(* A leaf and a path lead to the root of a tree exactly if the leaf is the *)
(* one of its period and the path its authentication path: what            *)
(* ev_merkle_verify and ev_merkle_path are for.                            *)
OwnPath(digs, p, path, a) ==
    \A k \in Edges : a <= k => path[k] = AuthEntry(TreeOf(digs), p, k+1)

LEMMA PathToRoot ==
    ASSUME NEW digs, NEW p \in Periods, NEW leaf, NEW path
    PROVE  PathRoot(p, leaf, path) = TreeOf(digs)[0][0] <=>
             leaf = digs[p] /\ OwnPath(digs, p, path, 0)
<1>0. PICK t : t = TreeOf(digs)
  OBVIOUS
<1>1. PICK up : up = PathUp(p, leaf, path)
  OBVIOUS
<1> DEFINE S == {a \in Levels : up[a] = t[a][level_index(p, a)] <=>
                                 leaf = digs[p] /\ OwnPath(digs, p, path, a)}
<1>2. Depth \in S
  <2>1. up[Depth] = leaf
    BY <1>1, PathUpLevels
  <2>2. t[Depth][level_index(p, Depth)] = digs[p]
    BY <1>0, TreeNode, IndexEnds DEF Periods, T
  <2>3. OwnPath(digs, p, path, Depth)
    BY DepthAssumption DEF OwnPath, Edges
  <2>4. Depth \in Levels
    BY DepthAssumption DEF Levels
  <2>. QED  BY <2>1, <2>2, <2>3, <2>4
<1>3. \A a \in Edges : a+1 \in S => a \in S
  <2> SUFFICES ASSUME NEW a \in Edges, a+1 \in S
               PROVE  a \in S
    OBVIOUS
  <2>1. a \in Levels /\ a+1 \in Levels /\ a \in Nat /\ p \in Nat
    BY Pow2Doubles, DepthAssumption DEF Edges, Periods
  <2>2. PICK i \in 0..Pow2[a+1]-1 : i = level_index(p, a+1)
    BY <2>1, IndexBound
  <2>3. level_index(p, a) = i \div 2
    BY <2>1, <2>2, IndexHalves
  <2>4. up[a] = HashUp(up[a+1], path[a], i)
    BY <1>1, <2>2, PathUpLevels
  <2>5. up[a] = t[a][i \div 2] <=>
          up[a+1] = t[a+1][i] /\ path[a] = t[a+1][sibling(i)]
    BY <1>0, <2>4, HashUpIsNode
  <2>6. AuthEntry(TreeOf(digs), p, a+1) = t[a+1][sibling(i)]
    BY <1>0, <2>2 DEF AuthEntry
  <2>7. OwnPath(digs, p, path, a) <=>
          OwnPath(digs, p, path, a+1) /\ path[a] = t[a+1][sibling(i)]
    <3>1. \A k \in Edges : a <= k <=> (a+1 <= k \/ k = a)
      BY <2>1 DEF Edges
    <3>. QED  BY <2>6, <3>1 DEF OwnPath
  <2>8. up[a+1] = t[a+1][i] <=> leaf = digs[p] /\ OwnPath(digs, p, path, a+1)
    BY <2>2
  <2>. QED  BY <2>1, <2>3, <2>5, <2>7, <2>8
<1>4. Levels \subseteq S
  <2>. HIDE DEF S
  <2>. QED  BY <1>2, <1>3, LevelsUp, Zenon
<1>5. 0 \in S
  BY <1>4, DepthAssumption DEF Levels
<1>6. up[0] = PathRoot(p, leaf, path)
  BY <1>1, PathUpLevels
<1>7. t[0][level_index(p, 0)] = t[0][0]
  BY IndexEnds
<1>. QED  BY <1>0, <1>5, <1>6, <1>7
=============================================================================
