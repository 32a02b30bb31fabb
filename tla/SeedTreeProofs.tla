--------------------------- MODULE SeedTreeProofs ---------------------------
(***************************************************************************)
(* Proofs about the seed tree for every depth: type correctness, the       *)
(* inductive invariant, and from it that past periods are erased and no    *)
(* other is lost, that the calls compute what the operators of SeedTreeOps *)
(* say, that every step implements the abstract forward-secure key, and    *)
(* that calls and walks through the periods are bounded.                   *)
(***************************************************************************)
EXTENDS SeedTree, TreeProofs

USE DepthAssumption

-----------------------------------------------------------------------------
(* What one iteration of a descent loop does to each slot of the struct.   *)
LEMMA DeriveEffect ==
    ASSUME NEW tree \in TreeState, NEW l \in Edges,
           NEW new, new = DeriveAndDiscard(tree, l)
    PROVE  /\ new \in TreeState
           /\ new.current = tree.current
           /\ \A k \in Levels :
                 new.path[k] = IF k = l + 1
                                 THEN ev_derive_child(tree.path[l], EV_DOM_LEFT)
                                 ELSE IF k = l THEN Zero ELSE tree.path[k]
           /\ \A k \in Edges :
                 /\ new.future[k] =
                      IF k = l THEN ev_derive_child(tree.path[l], EV_DOM_RIGHT)
                               ELSE tree.future[k]
                 /\ new.future_valid[k] =
                      IF k = l THEN 1 ELSE tree.future_valid[k]
<1>1. l \in Levels /\ l + 1 \in Levels
  BY DEF Levels, Edges
<1>2. tree.path[l] \in Seed
  BY <1>1 DEF TreeState
<1>3. /\ ev_derive_child(tree.path[l], EV_DOM_LEFT) \in Seed
      /\ ev_derive_child(tree.path[l], EV_DOM_RIGHT) \in Seed
  BY <1>2 DEF Seed, ev_derive_child, EV_DOM_LEFT, EV_DOM_RIGHT
<1>4. Zero \in Seed
  BY DEF Zero, Seed
<1> HIDE DEF Seed
<1>. QED  BY <1>1, <1>3, <1>4 DEF DeriveAndDiscard, TreeState

(* The children of a node of the tree are the nodes 2i and 2i+1 one level  *)
(* down (ev_derive_child).                                                 *)
LEMMA Children ==
    ASSUME NEW l \in Nat, NEW i \in Nat
    PROVE  /\ ev_derive_child(Node(l, i), EV_DOM_LEFT) = Node(l + 1, 2 * i)
           /\ ev_derive_child(Node(l, i), EV_DOM_RIGHT)
                = Node(l + 1, 2 * i + 1)
  BY DEF ev_derive_child, Node, EV_DOM_LEFT, EV_DOM_RIGHT

(* What taking the stored sibling and zeroing the ancestors does to each   *)
(* slot of the struct.                                                     *)
LEMMA TakeEffect ==
    ASSUME NEW tree \in TreeState, NEW d \in 1..Depth,
           NEW new, new = DiscardAncestors(TakeFuture(tree, d), d)
    PROVE  /\ new \in TreeState
           /\ new.current = tree.current
           /\ \A k \in Levels :
                 new.path[k] = IF k < d THEN Zero
                               ELSE IF k = d THEN tree.future[d-1]
                               ELSE tree.path[k]
           /\ \A k \in Edges :
                 /\ new.future[k] =
                      IF k = d - 1 THEN Zero ELSE tree.future[k]
                 /\ new.future_valid[k] =
                      IF k = d - 1 THEN 0 ELSE tree.future_valid[k]
<1>1. d - 1 \in Edges /\ d \in Levels
  BY DEF Levels, Edges
<1>2. Zero \in Seed
  BY DEF Zero, Seed
<1>. QED  BY <1>1, <1>2 DEF DiscardAncestors, TakeFuture, TreeState

-----------------------------------------------------------------------------
(* The struct after ev_tree_init's memset and its copy of the root seed    *)
(* satisfies the inductive invariant.                                      *)
LEMMA InitIInv == Init => IInv
<1> SUFFICES ASSUME Init PROVE IInv
  OBVIOUS
<1>1. Zero \in Seed /\ root \in Seed /\ 0 \in Periods
  BY TPositive DEF Zero, Seed, root, Node, Periods
<1>2. st \in TreeState
  BY <1>1 DEF Init, RootOnly, TreeState, Levels
<1>3. TypeOK
  BY <1>2 DEF Init, TypeOK, Levels
<1>4. InitInv
  BY DEF Init, InitInv, RootOnly, Levels, Edges, root
<1>. QED  BY <1>3, <1>4 DEF Init, IInv, SettledInv, ScanInv, DescendInv,
                            GuardNeverFires

-----------------------------------------------------------------------------
(* ev_tree_init's loop moves the seed one level down and leaves the right  *)
(* sibling on the frontier.                                                *)
LEMMA InitLoopIInv == IInv /\ InitLoop => IInv'
<1> SUFFICES ASSUME IInv, InitLoop PROVE IInv'
  OBVIOUS
<1>1. /\ st \in TreeState /\ lvl \in Edges /\ pc = "init" /\ pc' = "init"
      /\ lvl' = lvl + 1 /\ st' = DeriveAndDiscard(st, lvl)
      /\ lvl \in Nat
  BY DEF IInv, TypeOK, InitLoop, Edges
<1>2. /\ st' \in TreeState
      /\ st'.current = st.current
      /\ \A k \in Levels :
            st'.path[k] = IF k = lvl + 1
                            THEN ev_derive_child(st.path[lvl], EV_DOM_LEFT)
                            ELSE IF k = lvl THEN Zero ELSE st.path[k]
      /\ \A k \in Edges :
            /\ st'.future[k] =
                 IF k = lvl THEN ev_derive_child(st.path[lvl], EV_DOM_RIGHT)
                            ELSE st.future[k]
            /\ st'.future_valid[k] =
                 IF k = lvl THEN 1 ELSE st.future_valid[k]
  BY <1>1, DeriveEffect
<1>3. st.path[lvl] = Node(lvl, 0)
  BY <1>1 DEF IInv, InitInv, Levels, Edges
<1>4. /\ ev_derive_child(st.path[lvl], EV_DOM_LEFT) = Node(lvl + 1, 0)
      /\ ev_derive_child(st.path[lvl], EV_DOM_RIGHT) = Node(lvl + 1, 1)
  <2>1. 0 \in Nat /\ 2 * 0 = 0 /\ 2 * 0 + 1 = 1
    OBVIOUS
  <2>2. /\ ev_derive_child(Node(lvl, 0), EV_DOM_LEFT)
             = Node(lvl + 1, 2 * 0)
        /\ ev_derive_child(Node(lvl, 0), EV_DOM_RIGHT)
             = Node(lvl + 1, 2 * 0 + 1)
    BY ONLY <1>1, <2>1, Children
  <2>. QED  BY <1>3, <2>1, <2>2
<1>5. \A l \in Levels : level_index(0, l) = 0
  <2> TAKE l \in Levels
  <2>1. Pow2[Depth - l] \in Nat \ {0}
    BY Pow2Assumption DEF Levels
  <2>. QED  BY <2>1 DEF level_index
<1>6. TypeOK'
  BY <1>1, <1>2 DEF IInv, TypeOK, InitLoop, Edges
<1>7. InitInv'
  <2>1. st'.current = 0 /\ lvl' \in Levels
    BY <1>1, <1>2 DEF IInv, InitInv, Levels, Edges
  <2>2. \A k \in Levels :
           st'.path[k] = IF k = lvl + 1 THEN Node(k, 0) ELSE Zero
    BY <1>1, <1>2, <1>4 DEF IInv, InitInv
  <2>3. ASSUME NEW k \in Edges, k < lvl + 1
        PROVE  Frontier(0, k)'
    <3>1. level_index(0, k + 1) = 0
      BY <1>5 DEF Levels, Edges
    <3>2. CASE k = lvl
      BY <3>1, <3>2, <1>2, <1>4 DEF Frontier
    <3>3. CASE k # lvl
      <4>1. k < lvl
        BY <2>3, <3>3, <1>1 DEF Edges
      <4>2. Frontier(0, k)
        BY <4>1, <1>1 DEF IInv, InitInv
      <4>. QED  BY <4>2, <3>1, <3>3, <1>2 DEF Frontier
    <3>. QED  BY <3>2, <3>3
  <2>4. ASSUME NEW k \in Edges, ~(k < lvl + 1)
        PROVE  st'.future_valid[k] = 0 /\ st'.future[k] = Zero
    BY <2>4, <1>1, <1>2 DEF IInv, InitInv, Edges
  <2>. QED  BY <1>1, <2>1, <2>2, <2>3, <2>4 DEF InitInv
<1>. QED  BY <1>1, <1>6, <1>7 DEF IInv, SettledInv, ScanInv, DescendInv,
                                  GuardNeverFires, InitLoop

(* When ev_tree_init returns, the struct is that of period 0.              *)
LEMMA InitReturnIInv == IInv /\ InitReturn => IInv'
<1> SUFFICES ASSUME IInv, InitReturn PROVE IInv'
  OBVIOUS
<1>1. pc = "init" /\ pc' = "idle" /\ lvl = Depth /\ st' = st /\ lvl' = lvl
  BY DEF IInv, InitInv, InitReturn, Levels
<1>2. TypeOK'
  BY DEF IInv, TypeOK, InitReturn
<1>3. SettledInv'
  <2>1. \A l \in Levels :
          st.path[l] = IF l = Depth THEN Node(l, st.current) ELSE Zero
    BY <1>1 DEF IInv, InitInv
  <2>2. \A l \in Edges : Frontier(st.current, l)
    BY <1>1 DEF IInv, InitInv, Edges
  <2>. QED  BY <1>1, <2>1, <2>2 DEF SettledInv, Frontier
<1>. QED  BY <1>1, <1>2, <1>3 DEF IInv, InitInv, ScanInv, DescendInv,
                                  GuardNeverFires, InitReturn

(* The scan of ev_tree_advance keeps its invariant and ends at the branch  *)
(* point: it cannot run past the deepest level, where p and p+1 differ.    *)
LEMMA ScanIInv ==
    IInv /\ (AdvanceRefused \/ AdvanceCall \/ ScanNext \/ ScanStop) => IInv'
<1> SUFFICES ASSUME IInv, AdvanceRefused \/ AdvanceCall \/ ScanNext \/ ScanStop
             PROVE  IInv'
  OBVIOUS
<1>0. st' = st /\ pc # "init" /\ pc # "descend" /\ pc' # "init"
                /\ pc' # "descend"
  BY DEF AdvanceRefused, AdvanceCall, ScanNext, ScanStop
<1>1. InitInv' /\ DescendInv'
  BY <1>0 DEF InitInv, DescendInv
<1>2. SettledInv'
  <2>1. pc \in {"idle", "scan", "take"} /\ pc' \in {"idle", "scan", "take"}
    BY DEF AdvanceRefused, AdvanceCall, ScanNext, ScanStop
  <2>. QED  BY <1>0, <2>1 DEF IInv, SettledInv, Frontier
<1>3. CASE AdvanceRefused
  BY <1>1, <1>2, <1>3 DEF IInv, TypeOK, ScanInv, GuardNeverFires,
                          AdvanceRefused
<1>4. CASE AdvanceCall
  <2>1. Depth # 0
    BY <1>4, Pow2Assumption DEF AdvanceCall, T, IInv, TypeOK, TreeState,
                                Periods
  <2>. QED  BY <2>1, <1>1, <1>2, <1>4
            DEF IInv, TypeOK, ScanInv, GuardNeverFires, AdvanceCall, Levels
<1>5. CASE ScanNext
  BY <1>1, <1>2, <1>5 DEF IInv, TypeOK, ScanInv, GuardNeverFires, ScanNext,
                          SamePathAt
<1>6. CASE ScanStop
  <2>1. /\ st.current \in Periods /\ st.current + 1 \in Periods
        /\ st.current + 1 < T
        /\ lvl \in 1..Depth+1
        /\ \A l \in 1..lvl-1 : SamePathAt(l)
    <3>1. pc = "scan" /\ st.current \in Periods
      BY <1>6 DEF IInv, TypeOK, ScanStop, TreeState
    <3>2. /\ st.current + 1 < T
          /\ lvl \in 1..Depth+1
          /\ \A l \in 1..lvl-1 : SamePathAt(l)
      BY <3>1 DEF IInv, ScanInv
    <3>. QED  BY <3>1, <3>2, TPositive DEF Periods
  <2>2. lvl # Depth + 1
    <3>1. ~SamePathAt(Depth)
      BY <2>1, IndexEnds DEF SamePathAt, Periods
    <3>2. lvl = Depth + 1 => SamePathAt(Depth)
      <4>1. CASE Depth = 0
        BY <4>1, <2>1, <1>6, Pow2Assumption DEF T, Periods
      <4>2. CASE Depth # 0
        BY <4>2, <2>1
      <4>. QED  BY <4>1, <4>2
    <3>. QED  BY <3>1, <3>2
  <2>3. lvl \in 1..Depth /\ ~SamePathAt(lvl) /\ diff_level' = lvl
        /\ pc' = "take" /\ lvl' = lvl /\ rc' = rc
    BY <2>1, <2>2, <1>6 DEF ScanStop
  <2>4. TypeOK'
    BY <2>3, <1>6 DEF IInv, TypeOK, ScanStop, Levels
  <2>5. ScanInv'
    BY <2>1, <2>3, <1>0 DEF ScanInv, SamePathAt
  <2>. QED  BY <2>3, <2>4, <2>5, <1>1, <1>2 DEF IInv, GuardNeverFires
<1>. QED  BY <1>3, <1>4, <1>5, <1>6

(* At the branch point the guard passes, the stored sibling is the node of *)
(* the path to p+1, and nothing above it remains on the path.              *)
LEMMA TakeIInv == IInv /\ Take => IInv'
<1> SUFFICES ASSUME IInv, Take PROVE IInv'
  OBVIOUS
<1> DEFINE p == st.current
           d == diff_level
<1>1. /\ pc = "take" /\ st \in TreeState /\ p \in Periods /\ p + 1 < T
      /\ p \in Nat /\ d \in 1..Depth /\ d - 1 \in Edges /\ d - 1 \in Levels
      /\ d \in Levels /\ d \in Nat /\ p + 1 \in Periods
      /\ ~SamePathAt(d)
      /\ \A l \in 1..d-1 : SamePathAt(l)
  <2>1. pc = "take" /\ st \in TreeState /\ p \in Periods
    BY DEF Take, IInv, TypeOK, TreeState
  <2>2. p + 1 < T /\ d \in 1..Depth /\ ~SamePathAt(d)
          /\ \A l \in 1..d-1 : SamePathAt(l)
    BY <2>1 DEF IInv, ScanInv
  <2>. QED  BY <2>1, <2>2, TPositive DEF Periods, Edges, Levels
<1>2. \A l \in 0..d-1 : level_index(p, l) = level_index(p + 1, l)
  BY <1>1, IndexEnds DEF SamePathAt
<1>3. /\ level_index(p + 1, d) = level_index(p, d) + 1
      /\ level_index(p, d) % 2 = 0
      /\ level_index(p, d) \in Nat
  <2>1. (d - 1) + 1 = d
    BY <1>1
  <2>2. /\ level_index(p, (d-1) + 1) # level_index(p + 1, (d-1) + 1)
        /\ level_index(p, d - 1) = level_index(p + 1, d - 1)
    BY <1>1, <1>2, <2>1 DEF SamePathAt
  <2>3. /\ level_index(p + 1, (d-1) + 1) = level_index(p, (d-1) + 1) + 1
        /\ level_index(p, (d-1) + 1) % 2 = 0
    BY <1>1, <2>2, BranchPoint
  <2>. QED  BY <1>1, <2>1, <2>3, IndexEnds
<1>4. /\ st.future_valid[d-1] = 1
      /\ st.future[d-1] = Node(d, level_index(p + 1, d))
  <2>1. Frontier(p, d - 1)
    BY <1>1 DEF IInv, SettledInv
  <2>2. (d - 1) + 1 = d
    BY <1>1
  <2>. QED  BY <2>1, <2>2, <1>3 DEF Frontier
<1>5. /\ st' = DiscardAncestors(TakeFuture(st, d), d)
      /\ lvl' = d /\ pc' = "descend" /\ diff_level' = d /\ rc' = rc
  BY <1>1, <1>4 DEF Take
<1>6. /\ st' \in TreeState
      /\ st'.current = p
      /\ \A k \in Levels :
            st'.path[k] = IF k < d THEN Zero
                          ELSE IF k = d THEN st.future[d-1] ELSE st.path[k]
      /\ \A k \in Edges :
            /\ st'.future[k] = IF k = d - 1 THEN Zero ELSE st.future[k]
            /\ st'.future_valid[k] =
                 IF k = d - 1 THEN 0 ELSE st.future_valid[k]
  BY <1>1, <1>5, TakeEffect
<1>7. TypeOK'
  BY <1>1, <1>5, <1>6 DEF IInv, TypeOK, Levels
<1>8. DescendInv'
  <2>1. ~(SamePathAt(d)')
    BY <1>1, <1>5, <1>6 DEF SamePathAt
  <2>2. ASSUME NEW l \in Levels
        PROVE  st'.path[l] = IF l = d THEN Node(l, level_index(p + 1, l))
                             ELSE IF l = Depth THEN Node(l, p) ELSE Zero
    <3>1. st.path[l] = IF l = Depth THEN Node(l, p) ELSE Zero
      BY <1>1 DEF IInv, SettledInv
    <3>2. l < d => l # Depth
      BY <1>1 DEF Levels
    <3>. QED  BY <3>1, <3>2, <1>1, <1>4, <1>6 DEF Levels
  <2>3. ASSUME NEW l \in Edges, l < d
        PROVE  Frontier(p + 1, l)'
    <3>1. Frontier(p, l)
      BY <1>1 DEF IInv, SettledInv
    <3>2. CASE l = d - 1
      <4>1. l + 1 = d
        BY <3>2, <1>1
      <4>2. level_index(p + 1, l + 1) % 2 = 1
        BY <4>1, <1>3
      <4>. QED  BY <4>2, <3>2, <1>6 DEF Frontier
    <3>3. CASE l # d - 1
      <4>1. l + 1 \in 0..d-1
        BY <2>3, <3>3, <1>1 DEF Edges
      <4>2. level_index(p, l + 1) = level_index(p + 1, l + 1)
        BY <4>1, <1>2
      <4>. QED  BY <3>1, <3>3, <4>2, <1>6 DEF Frontier
    <3>. QED  BY <3>2, <3>3
  <2>4. ASSUME NEW l \in Edges, ~(l < d)
        PROVE  Frontier(p, l)'
    <3>1. Frontier(p, l) /\ l # d - 1
      BY <2>4, <1>1 DEF IInv, SettledInv, Edges
    <3>. QED  BY <3>1, <1>6 DEF Frontier
  <2>. QED  BY <1>1, <1>5, <1>6, <2>1, <2>2, <2>3, <2>4 DEF DescendInv
<1>. QED  BY <1>5, <1>7, <1>8 DEF IInv, InitInv, SettledInv, ScanInv,
                                  GuardNeverFires

(* One iteration of the descent to period p+1: below the branch point its  *)
(* path turns left, and the right sibling that is stored is the one its    *)
(* frontier needs.                                                         *)
LEMMA DescendIInv == IInv /\ Descend => IInv'
<1> SUFFICES ASSUME IInv, Descend PROVE IInv'
  OBVIOUS
<1> DEFINE p == st.current
           i == level_index(p + 1, lvl)
<1>1. /\ pc = "descend" /\ pc' = "descend" /\ lvl' = lvl + 1
      /\ st' = DeriveAndDiscard(st, lvl) /\ st \in TreeState
      /\ p \in Periods /\ p \in Nat /\ p + 1 < T /\ p + 1 \in Periods
      /\ lvl \in Edges /\ lvl \in Levels /\ lvl + 1 \in Levels /\ lvl \in Nat
      /\ lvl \in 1..Depth /\ lvl < Depth
      /\ diff_level' = diff_level /\ rc' = rc
      /\ level_index(p, lvl) # level_index(p + 1, lvl)
      /\ st.path[lvl] = Node(lvl, i)
  <2>1. pc = "descend" /\ st \in TreeState /\ p \in Periods /\ lvl < Depth
    BY DEF Descend, IInv, TypeOK, TreeState
  <2>2. p + 1 < T /\ lvl \in 1..Depth /\ ~SamePathAt(lvl)
    BY <2>1 DEF IInv, DescendInv
  <2>3. lvl \in Edges /\ lvl \in Levels /\ lvl + 1 \in Levels
    BY <2>1, <2>2 DEF Edges, Levels
  <2>4. st.path[lvl] = Node(lvl, i)
    BY <2>1, <2>3 DEF IInv, DescendInv
  <2>. QED  BY <2>1, <2>2, <2>3, <2>4, TPositive
            DEF Descend, Periods, SamePathAt
<1>2. /\ level_index(p, lvl + 1) # level_index(p + 1, lvl + 1)
      /\ level_index(p + 1, lvl + 1) = 2 * i
      /\ i \in Nat
  <2>1. /\ level_index(p, lvl) = level_index(p, lvl + 1) \div 2
        /\ i = level_index(p + 1, lvl + 1) \div 2
    BY <1>1, IndexHalves
  <2>2. level_index(p, lvl + 1) # level_index(p + 1, lvl + 1)
    BY <1>1, <2>1
  <2>3. /\ level_index(p + 1, lvl + 1) = level_index(p, lvl + 1) + 1
        /\ level_index(p, lvl + 1) % 2 = 1
    BY <1>1, <2>2, BranchPoint
  <2>4. level_index(p, lvl + 1) \in Nat /\ i \in Nat
    BY <1>1, IndexEnds
  <2>. QED  BY <2>1, <2>2, <2>3, <2>4
<1>3. /\ ev_derive_child(st.path[lvl], EV_DOM_LEFT) = Node(lvl + 1, 2 * i)
      /\ ev_derive_child(st.path[lvl], EV_DOM_RIGHT)
           = Node(lvl + 1, 2 * i + 1)
  BY <1>1, <1>2, Children
<1>4. /\ st' \in TreeState
      /\ st'.current = p
      /\ \A k \in Levels :
            st'.path[k] = IF k = lvl + 1 THEN Node(lvl + 1, 2 * i)
                          ELSE IF k = lvl THEN Zero ELSE st.path[k]
      /\ \A k \in Edges :
            /\ st'.future[k] = IF k = lvl THEN Node(lvl + 1, 2 * i + 1)
                               ELSE st.future[k]
            /\ st'.future_valid[k] = IF k = lvl THEN 1 ELSE st.future_valid[k]
  BY <1>1, <1>3, DeriveEffect
<1>5. TypeOK'
  BY <1>1, <1>4 DEF IInv, TypeOK, Edges
<1>6. DescendInv'
  <2>1. ~(SamePathAt(lvl)') /\ lvl' \in 1..Depth
    BY <1>1, <1>2, <1>4 DEF SamePathAt
  <2>2. ASSUME NEW l \in Levels
        PROVE  st'.path[l] = IF l = lvl + 1 THEN Node(l, level_index(p + 1, l))
                             ELSE IF l = Depth THEN Node(l, p) ELSE Zero
    <3>1. st.path[l] = IF l = lvl THEN Node(l, i)
                       ELSE IF l = Depth THEN Node(l, p) ELSE Zero
      BY <1>1 DEF IInv, DescendInv
    <3>. QED  BY <3>1, <1>1, <1>2, <1>4
  <2>3. ASSUME NEW l \in Edges, l < lvl + 1
        PROVE  Frontier(p + 1, l)'
    <3>1. CASE l = lvl
      <4>1. (2 * i) % 2 = 0
        BY <1>2
      <4>2. level_index(p + 1, l + 1) = 2 * i
        BY <3>1, <1>2
      <4>3. st'.future_valid[l] = 1 /\ st'.future[l] = Node(l + 1, 2 * i + 1)
        BY <3>1, <1>4
      <4> HIDE DEF i
      <4>. QED  BY <4>1, <4>2, <4>3, <1>4 DEF Frontier
    <3>2. CASE l # lvl
      <4>1. l < lvl
        BY <2>3, <3>2, <1>1 DEF Edges
      <4>2. Frontier(p + 1, l)
        BY <4>1, <1>1 DEF IInv, DescendInv
      <4>. QED  BY <4>2, <3>2, <1>4 DEF Frontier
    <3>. QED  BY <3>1, <3>2
  <2>4. ASSUME NEW l \in Edges, ~(l < lvl + 1)
        PROVE  Frontier(p, l)'
    <3>1. ~(l < lvl) /\ l # lvl
      BY <2>4, <1>1 DEF Edges
    <3>2. Frontier(p, l)
      BY <3>1, <1>1 DEF IInv, DescendInv
    <3>. QED  BY <3>1, <3>2, <1>4 DEF Frontier
  <2>. QED  BY <1>1, <1>4, <2>1, <2>2, <2>3, <2>4 DEF DescendInv
<1>. QED  BY <1>1, <1>5, <1>6 DEF IInv, InitInv, SettledInv, ScanInv,
                                  GuardNeverFires

(* When ev_tree_advance returns 0, the struct is that of period p+1.       *)
LEMMA AdvanceReturnIInv == IInv /\ AdvanceReturn => IInv'
<1> SUFFICES ASSUME IInv, AdvanceReturn PROVE IInv'
  OBVIOUS
<1> DEFINE p == st.current
<1>1. /\ pc = "descend" /\ pc' = "idle" /\ rc' = 0 /\ lvl = Depth
      /\ lvl' = lvl /\ diff_level' = diff_level
      /\ st' = [st EXCEPT !.current = p + 1] /\ st \in TreeState
      /\ p + 1 \in Periods
  <2>1. pc = "descend" /\ st \in TreeState /\ p \in Periods
    BY DEF AdvanceReturn, IInv, TypeOK, TreeState
  <2>2. p + 1 < T /\ lvl \in 1..Depth
    BY <2>1 DEF IInv, DescendInv
  <2>. QED  BY <2>1, <2>2, TPositive DEF AdvanceReturn, Periods
<1>2. /\ st'.path = st.path /\ st'.future = st.future
      /\ st'.future_valid = st.future_valid /\ st'.current = p + 1
      /\ st' \in TreeState
  BY <1>1 DEF TreeState
<1>3. TypeOK'
  BY <1>1, <1>2 DEF IInv, TypeOK
<1>4. SettledInv'
  <2>1. \A l \in Levels :
          st.path[l] = IF l = Depth THEN Node(l, p + 1) ELSE Zero
    BY <1>1, IndexEnds DEF IInv, DescendInv
  <2>2. \A l \in Edges : Frontier(p + 1, l)
    BY <1>1 DEF IInv, DescendInv, Edges
  <2>3. ASSUME NEW l \in Edges
        PROVE  Frontier(st.current, l)'
    BY <2>2, <1>2 DEF Frontier
  <2>. QED  BY <2>1, <2>3, <1>2 DEF SettledInv
<1>. QED  BY <1>1, <1>3, <1>4 DEF IInv, InitInv, ScanInv, DescendInv,
                                  GuardNeverFires

-----------------------------------------------------------------------------
(* The inductive invariant holds in every reachable state: between calls   *)
(* the struct is the one the current period determines, and inside a call  *)
(* it is part one, part the other.                                         *)
THEOREM Invariance == Spec => []IInv
<1>1. IInv /\ [Next]_vars => IInv'
  <2> SUFFICES ASSUME IInv, [Next]_vars PROVE IInv'
    OBVIOUS
  <2>1. CASE UNCHANGED vars
    BY <2>1 DEF vars, IInv, TypeOK, InitInv, SettledInv, ScanInv, DescendInv,
                GuardNeverFires, Frontier, SamePathAt
  <2>. QED  BY <2>1, InitLoopIInv, InitReturnIInv, ScanIInv, TakeIInv,
               DescendIInv, AdvanceReturnIInv DEF Next, Step
<1>. QED  BY <1>1, InitIInv, PTL DEF Spec

(* Every variable keeps its type: the loops never index outside the arrays *)
(* of ev_tree_state.                                                       *)
THEOREM TypeCorrect == Spec => []TypeOK
<1>1. IInv => TypeOK
  BY DEF IInv
<1>. QED  BY <1>1, Invariance, PTL

(* The corruption guard of ev_tree_advance never fires.                    *)
THEOREM GuardIsDead == Spec => []GuardNeverFires
<1>1. IInv => GuardNeverFires
  BY DEF IInv
<1>. QED  BY <1>1, Invariance, PTL

(* Between calls the path holds the leaf of the current period and         *)
(* nothing else.                                                           *)
THEOREM LeafOnly == Spec => []OnlyLeafOnPath
<1>1. IInv => OnlyLeafOnPath
  BY DEF IInv, SettledInv, OnlyLeafOnPath
<1>. QED  BY <1>1, Invariance, PTL

-----------------------------------------------------------------------------
(* A node covers exactly the periods whose path goes through it, and the   *)
(* zeroed slot covers none.                                                *)
LEMMA CoverFacts ==
    /\ \A l, i, q : Covers(Node(l, i), q) <=> level_index(q, l) = i
    /\ \A q : ~Covers(Zero, q)
    /\ \A l, i : Node(l, i) # Zero
  BY DEF Covers, Node, Zero

(* A frontier slot of period t covers no period up to t: the sibling it    *)
(* holds lies to the right of the path.                                    *)
LEMMA FrontierIsFuture ==
    ASSUME NEW t \in Periods, NEW l \in Edges, Frontier(t, l),
           NEW q \in Periods, q <= t
    PROVE  ~Covers(st.future[l], q)
<1>1. t \in Nat /\ q \in Nat /\ l + 1 \in Levels
  BY TPositive DEF Periods, Edges, Levels
<1>2. /\ level_index(q, l + 1) \in Nat /\ level_index(t, l + 1) \in Nat
      /\ level_index(q, l + 1) <= level_index(t, l + 1)
  BY <1>1, IndexEnds, IndexMono
<1>3. level_index(q, l + 1) # level_index(t, l + 1) + 1
  BY <1>2
<1>. QED  BY <1>3, CoverFacts DEF Frontier

(* In the middle of a descent the seed that moves down is to the right of  *)
(* every period up to the current one.                                     *)
LEMMA DescendSeedIsFuture ==
    ASSUME IInv, pc = "descend", NEW q \in Periods, q <= st.current
    PROVE  ~Covers(st.path[lvl], q)
<1> DEFINE p == st.current
<1>1. /\ p \in Periods /\ p + 1 < T /\ lvl \in Levels /\ ~SamePathAt(lvl)
      /\ st.path[lvl] = Node(lvl, level_index(p + 1, lvl))
  BY DEF IInv, TypeOK, TreeState, DescendInv, Levels
<1>2. p \in Nat /\ q \in Nat
  BY <1>1, TPositive DEF Periods
<1>3. /\ level_index(p + 1, lvl) = level_index(p, lvl) + 1
      /\ level_index(q, lvl) <= level_index(p, lvl)
      /\ level_index(p, lvl) \in Nat /\ level_index(q, lvl) \in Nat
  BY <1>1, <1>2, IndexSucc, IndexMono, IndexEnds DEF SamePathAt
<1>4. level_index(q, lvl) # level_index(p + 1, lvl)
  BY <1>3
<1>. QED  BY <1>1, <1>4, CoverFacts

(* The inductive invariant rules out every holder of a past period.        *)
LEMMA ErasureFromIInv == IInv => Erasure
<1> SUFFICES ASSUME IInv, NEW q \in Periods, q < st.current
             PROVE  Holders(st, q) = {}
  BY DEF Erasure
<1> DEFINE p == st.current
<1>1. /\ p \in Periods /\ p \in Nat /\ q \in Nat /\ T \in Nat
      /\ pc \in {"init", "idle", "scan", "take", "descend"}
  BY TPositive DEF IInv, TypeOK, TreeState, Periods
<1>2. pc # "init"
  BY <1>1 DEF IInv, InitInv
<1>3. ~Covers(Node(Depth, p), q)
  BY <1>1, IndexEnds, CoverFacts
<1>4. ASSUME NEW k \in Levels
      PROVE  ~Covers(st.path[k], q)
  <2>1. CASE pc = "descend"
    <3>1. CASE k = lvl
      BY <2>1, <3>1, <1>1, DescendSeedIsFuture
    <3>2. CASE k # lvl
      BY <2>1, <3>2, <1>3, CoverFacts DEF IInv, DescendInv
    <3>. QED  BY <3>1, <3>2
  <2>2. CASE pc # "descend"
    BY <2>2, <1>1, <1>2, <1>3, CoverFacts DEF IInv, SettledInv
  <2>. QED  BY <2>1, <2>2
<1>5. ASSUME NEW k \in Edges
      PROVE  ~Covers(st.future[k], q)
  <2>1. CASE pc = "descend" /\ k < lvl
    <3>1. Frontier(p + 1, k) /\ p + 1 \in Periods
      BY <2>1, <1>1 DEF IInv, DescendInv, Periods
    <3>. QED  BY <3>1, <1>1, FrontierIsFuture
  <2>2. CASE ~(pc = "descend" /\ k < lvl)
    <3>1. Frontier(p, k)
      BY <2>2, <1>1, <1>2 DEF IInv, SettledInv, DescendInv
    <3>. QED  BY <3>1, <1>1, FrontierIsFuture
  <2>. QED  BY <2>1, <2>2
<1>. QED  BY <1>4, <1>5 DEF Holders

(* Forward security of the state: after no iteration of any call does a    *)
(* slot of the struct hold a seed from which a past period can be derived  *)
(* again (ERASURE CRITICAL in ev_seedtree.c).                              *)
THEOREM PastIsErased == Spec => []Erasure
  BY Invariance, ErasureFromIInv, PTL

(* A live flag and a held seed go together in every state.                 *)
THEOREM FlagsAgree == Spec => []FlagsMatchSeeds
<1>1. ASSUME IInv, NEW l \in Edges
      PROVE  st.future_valid[l] = 1 <=> st.future[l] # Zero
  <2>1. /\ pc \in {"init", "idle", "scan", "take", "descend"}
    BY <1>1 DEF IInv, TypeOK
  <2>2. \/ st.future_valid[l] = 0 /\ st.future[l] = Zero
        \/ \E t : Frontier(t, l)
    BY <2>1, <1>1 DEF IInv, InitInv, SettledInv, DescendInv
  <2>. QED  BY <2>2, CoverFacts DEF Frontier
<1>2. IInv => FlagsMatchSeeds
  BY <1>1 DEF FlagsMatchSeeds
<1>. QED  BY <1>2, Invariance, PTL

-----------------------------------------------------------------------------
(* A period is derivable exactly when a slot of the struct covers it.      *)
LEMMA DerivableMeans ==
    ASSUME NEW tree, NEW q \in Periods
    PROVE  q \in Derivable(tree) <=>
               \/ \E k \in Levels : Covers(tree.path[k], q)
               \/ \E k \in Edges : Covers(tree.future[k], q)
  BY DEF Derivable, Holders

(* A child covers only periods that its parent covers.                     *)
LEMMA ChildCovers ==
    ASSUME NEW l \in Edges, NEW i \in Nat, NEW q \in Periods,
           NEW dom \in {EV_DOM_LEFT, EV_DOM_RIGHT},
           Covers(ev_derive_child(Node(l, i), dom), q)
    PROVE  Covers(Node(l, i), q)
<1>1. q \in Nat /\ l \in Nat /\ l + 1 \in Levels
  BY TPositive DEF Periods, Edges, Levels
<1>2. level_index(q, l + 1) = 2 * i \/ level_index(q, l + 1) = 2 * i + 1
  <2>1. \/ ev_derive_child(Node(l, i), dom) = Node(l + 1, 2 * i)
        \/ ev_derive_child(Node(l, i), dom) = Node(l + 1, 2 * i + 1)
    BY <1>1, Children
  <2>. QED  BY <2>1, CoverFacts
<1>3. level_index(q, l) = level_index(q, l + 1) \div 2
  BY <1>1, IndexHalves
<1>4. level_index(q, l) = i
  BY <1>2, <1>3
<1>. QED  BY <1>4, CoverFacts

(* An iteration of a descent loop makes no new period derivable.           *)
LEMMA DeriveShrinks ==
    ASSUME NEW tree \in TreeState, NEW l \in Edges, NEW i \in Nat,
           tree.path[l] = Node(l, i)
    PROVE  Derivable(DeriveAndDiscard(tree, l)) \subseteq Derivable(tree)
<1> DEFINE new == DeriveAndDiscard(tree, l)
<1>1. /\ \A k \in Levels :
            new.path[k] = IF k = l + 1
                            THEN ev_derive_child(tree.path[l], EV_DOM_LEFT)
                            ELSE IF k = l THEN Zero ELSE tree.path[k]
      /\ \A k \in Edges :
            new.future[k] = IF k = l
                              THEN ev_derive_child(tree.path[l], EV_DOM_RIGHT)
                              ELSE tree.future[k]
  BY DeriveEffect
<1>2. l \in Levels
  BY DEF Levels, Edges
<1> SUFFICES ASSUME NEW q \in Periods, q \in Derivable(new)
             PROVE  q \in Derivable(tree)
  BY DEF Derivable
<1>3. \/ \E k \in Levels : Covers(new.path[k], q)
      \/ \E k \in Edges : Covers(new.future[k], q)
  BY DerivableMeans
<1> HIDE DEF new
<1>4. \/ \E k \in Levels : Covers(tree.path[k], q)
      \/ \E k \in Edges : Covers(tree.future[k], q)
  BY <1>1, <1>2, <1>3, ChildCovers, CoverFacts
<1>. QED  BY <1>4, DerivableMeans

(* No step makes a period derivable that was not: what has been forgotten  *)
(* stays forgotten.                                                        *)
THEOREM ForgottenForever == Spec => NeverRegained
<1>1. IInv /\ [Next]_vars => [Derivable(st') \subseteq Derivable(st)]_vars
  <2> SUFFICES ASSUME IInv, Next
               PROVE  Derivable(st') \subseteq Derivable(st)
    OBVIOUS
  <2>1. st \in TreeState
    BY DEF IInv, TypeOK
  <2>2. CASE st' = st
    BY <2>2
  <2>3. CASE InitLoop
    <3>1. lvl \in Edges /\ st.path[lvl] = Node(lvl, 0)
      BY <2>3 DEF InitLoop, IInv, InitInv, Levels, Edges
    <3>. QED  BY <2>1, <2>3, <3>1, DeriveShrinks DEF InitLoop
  <2>4. CASE Descend
    <3>1. lvl \in Edges /\ lvl \in Levels
      BY <2>4 DEF Descend, IInv, DescendInv, Edges, Levels
    <3>2. /\ st.path[lvl] = Node(lvl, level_index(st.current + 1, lvl))
          /\ st.current + 1 \in Periods
      BY <2>1, <2>4, <3>1, TPositive
      DEF Descend, IInv, DescendInv, TreeState, Periods
    <3>3. level_index(st.current + 1, lvl) \in Nat
      BY <3>1, <3>2, IndexEnds
    <3>. QED  BY <2>1, <2>4, <3>1, <3>2, <3>3, DeriveShrinks DEF Descend
  <2>5. CASE Take
    <3>1. CASE st.future_valid[diff_level-1] = 0
      BY <2>5, <3>1, <2>2 DEF Take
    <3>2. CASE st.future_valid[diff_level-1] # 0
      <4>1. diff_level \in 1..Depth /\ diff_level - 1 \in Edges
        BY <2>5 DEF Take, IInv, ScanInv, Edges
      <4>2. /\ \A k \in Levels :
                  st'.path[k] = IF k < diff_level THEN Zero
                                ELSE IF k = diff_level
                                  THEN st.future[diff_level-1]
                                ELSE st.path[k]
            /\ \A k \in Edges :
                  st'.future[k] = IF k = diff_level - 1 THEN Zero
                                                        ELSE st.future[k]
        BY <2>1, <2>5, <3>2, <4>1, TakeEffect DEF Take
      <4>3. ASSUME NEW q \in Periods, q \in Derivable(st')
            PROVE  q \in Derivable(st)
        <5>1. \/ \E k \in Levels : Covers(st'.path[k], q)
              \/ \E k \in Edges : Covers(st'.future[k], q)
          BY <4>3, DerivableMeans
        <5>2. \/ \E k \in Levels : Covers(st.path[k], q)
              \/ \E k \in Edges : Covers(st.future[k], q)
          BY <4>1, <4>2, <5>1, CoverFacts
        <5>. QED  BY <5>2, DerivableMeans
      <4>. QED  BY <4>3 DEF Derivable
    <3>. QED  BY <3>1, <3>2
  <2>6. CASE AdvanceReturn
    <3>1. st'.path = st.path /\ st'.future = st.future
      BY <2>1, <2>6 DEF AdvanceReturn, TreeState
    <3>. QED  BY <3>1 DEF Derivable, Holders
  <2>. QED  BY <2>2, <2>3, <2>4, <2>5, <2>6
            DEF Next, Step, InitReturn, ScanNext, ScanStop, AdvanceRefused,
                AdvanceCall
<1>. QED  BY <1>1, Invariance, PTL DEF NeverRegained, Spec

-----------------------------------------------------------------------------
(* Array by array, a struct that agrees with a descent is that descent.    *)
LEMMA IsDescent ==
    ASSUME NEW tree \in TreeState, NEW t, NEW m, NEW rest,
           \A l \in Levels :
              tree.path[l] = IF l = m THEN Node(l, level_index(t, l))
                             ELSE IF l = Depth THEN rest ELSE Zero,
           \A l \in Edges :
              /\ tree.future[l] = IF l < m THEN FutureSeed(1, t, l) ELSE Zero
              /\ tree.future_valid[l] = IF l < m THEN FutureFlag(t, l) ELSE 0
    PROVE  tree = Descent(1, t, tree.current, m, rest)
<1>1. \A l, i : Node(l, i) = NodeOf(1, l, i)
  BY DEF Node, NodeOf
<1>2. tree.path = DescentPath(1, t, m, rest)
  BY <1>1 DEF DescentPath, TreeState
<1>3. tree.future = DescentFuture(1, t, m)
  BY DEF DescentFuture, TreeState
<1>4. tree.future_valid = DescentFlags(t, m)
  BY DEF DescentFlags, TreeState
<1>5. tree = [path |-> tree.path, future |-> tree.future,
              future_valid |-> tree.future_valid, current |-> tree.current]
  BY DEF TreeState
<1>. QED  BY <1>2, <1>3, <1>4, <1>5, Zenon DEF Descent

(* The inductive invariant says, for each place in the code, which struct  *)
(* of the operators ev_tree_init and ev_tree_advance st is.                *)
Settled == pc \in {"idle", "scan", "take"}

LEMMA Shapes ==
    ASSUME IInv
    PROVE  /\ Settled => st = TreeIn(1, st.current)
           /\ pc = "init" => st = Descent(1, 0, st.current, lvl, Zero)
           /\ pc = "descend" => st = Descent(1, st.current + 1, st.current,
                                             lvl, Node(Depth, st.current))
<1> DEFINE p == st.current
<1>1. st \in TreeState /\ p \in Periods /\ p \in Nat
  BY TPositive DEF IInv, TypeOK, TreeState, Periods
<1>2. ASSUME NEW t, NEW l \in Edges, Frontier(t, l)
      PROVE  /\ st.future[l] = FutureSeed(1, t, l)
             /\ st.future_valid[l] = FutureFlag(t, l)
  BY <1>2 DEF Frontier, FutureSeed, FutureFlag, TurnsLeft, Node, NodeOf
<1>3. \A l \in Edges : l < Depth /\ l \in Nat
  BY DEF Edges
<1>4. CASE Settled
  <2>1. /\ \A l \in Levels :
               st.path[l] = IF l = Depth THEN Node(l, level_index(p, l))
                            ELSE IF l = Depth THEN Zero ELSE Zero
    BY <1>1, <1>4, IndexEnds DEF IInv, SettledInv, Settled
  <2>2. \A l \in Edges :
           /\ st.future[l] = IF l < Depth THEN FutureSeed(1, p, l) ELSE Zero
           /\ st.future_valid[l] = IF l < Depth THEN FutureFlag(p, l) ELSE 0
    BY <1>2, <1>3, <1>4 DEF IInv, SettledInv, Settled
  <2>3. st = Descent(1, p, st.current, Depth, Zero)
    BY <1>1, <2>1, <2>2, IsDescent
  <2>. QED  BY <1>4, <2>3 DEF TreeIn, Settled
<1>5. CASE pc = "init"
  <2>1. \A l \in Levels : level_index(0, l) = 0
    <3>. TAKE l \in Levels
    <3>1. Pow2[Depth - l] \in Nat \ {0}
      BY Pow2Assumption DEF Levels
    <3>. QED  BY <3>1 DEF level_index
  <2>2. /\ \A l \in Levels :
               st.path[l] = IF l = lvl THEN Node(l, level_index(0, l))
                            ELSE IF l = Depth THEN Zero ELSE Zero
    BY <1>5, <2>1 DEF IInv, InitInv
  <2>3. \A l \in Edges :
           /\ st.future[l] = IF l < lvl THEN FutureSeed(1, 0, l) ELSE Zero
           /\ st.future_valid[l] = IF l < lvl THEN FutureFlag(0, l) ELSE 0
    BY <1>2, <1>5 DEF IInv, InitInv
  <2>4. st = Descent(1, 0, st.current, lvl, Zero)
    BY <1>1, <2>2, <2>3, IsDescent
  <2>. QED  BY <1>5, <2>4 DEF Settled
<1>6. CASE pc = "descend"
  <2>1. /\ p + 1 < T /\ lvl \in Levels /\ p + 1 \in Periods
        /\ level_index(p, lvl) # level_index(p+1, lvl)
    BY <1>1, <1>6, TPositive
    DEF IInv, DescendInv, SamePathAt, Levels, Periods
  <2>2. /\ \A l \in Levels :
               st.path[l] = IF l = lvl THEN Node(l, level_index(p + 1, l))
                            ELSE IF l = Depth THEN Node(Depth, p) ELSE Zero
    BY <1>6 DEF IInv, DescendInv
  <2>3. ASSUME NEW l \in Edges
        PROVE  /\ st.future[l] = IF l < lvl THEN FutureSeed(1, p+1, l)
                                            ELSE Zero
               /\ st.future_valid[l] = IF l < lvl THEN FutureFlag(p+1, l)
                                                  ELSE 0
    <3>1. CASE l < lvl
      <4>1. Frontier(p + 1, l)
        BY <1>6, <3>1 DEF IInv, DescendInv
      <4>. QED  BY <1>2, <3>1, <4>1
    <3>2. CASE ~(l < lvl)
      <4>1. Frontier(p, l)
        BY <1>6, <3>2 DEF IInv, DescendInv
      <4>2. lvl <= l
        BY <2>1, <3>2 DEF Levels, Edges
      <4>3. ~TurnsLeft(p, l)
        BY <1>1, <2>1, <4>2, BelowBranch
      <4>. QED  BY <1>2, <3>2, <4>1, <4>3 DEF FutureSeed, FutureFlag
    <3>. QED  BY <3>1, <3>2
  <2>4. st = Descent(1, p+1, st.current, lvl, Node(Depth, p))
    BY <1>1, <2>2, <2>3, IsDescent
  <2>. QED  BY <1>6, <2>4 DEF Settled
<1>. QED  BY <1>4, <1>5, <1>6

(* From the current period on, each period is covered by one slot; while a *)
(* descent is under way this begins with the next one.                     *)
LEMMA HeldOnce ==
    ASSUME IInv, NEW q \in Periods,
           \/ q > st.current
           \/ q = st.current /\ pc # "descend"
    PROVE  Single(Holders(st, q))
<1> DEFINE p == st.current
<1>1. /\ p \in Periods /\ p \in Nat /\ q \in Nat
      /\ pc \in {"init", "idle", "scan", "take", "descend"}
  BY TPositive DEF IInv, TypeOK, TreeState, Periods
<1>2. 1 \in Nat \ {0} /\ Depth \in Levels /\ 0 \in Periods
  BY TPositive DEF Levels, Periods
<1>3. CASE Settled
  <2>1. st = Descent(1, p, p, Depth, Zero) /\ p <= q
    BY <1>1, <1>3, Shapes DEF TreeIn
  <2>2. Single(Holders(Descent(1, p, p, Depth, Zero), q))
    BY <1>1, <1>2, <2>1, OneHolder
  <2>. QED  BY <2>1, <2>2
<1>4. CASE pc = "init"
  <2>1. st = Descent(1, 0, p, lvl, Zero) /\ 0 <= q /\ lvl \in Levels
    BY <1>1, <1>4, Shapes DEF IInv, InitInv
  <2>2. ~Covers(Zero, q)
    BY CoverFacts
  <2>3. Single(Holders(Descent(1, 0, p, lvl, Zero), q))
    BY <1>2, <2>1, <2>2, OneHolder
  <2>. QED  BY <2>1, <2>3
<1>5. CASE pc = "descend"
  <2>1. /\ st = Descent(1, p+1, p, lvl, Node(Depth, p))
        /\ lvl \in Levels /\ p+1 \in Periods /\ p+1 <= q
    BY <1>1, <1>5, TPositive, Shapes DEF IInv, DescendInv, Levels, Periods
  <2>2. ~Covers(Node(Depth, p), q)
    BY <1>1, <1>5, IndexEnds, CoverFacts
  <2>3. Single(Holders(Descent(1, p+1, p, lvl, Node(Depth, p)), q))
    BY <1>2, <2>1, <2>2, OneHolder
  <2>. QED  BY <2>1, <2>3
<1>. QED  BY <1>1, <1>3, <1>4, <1>5 DEF Settled

(* No advance erases a period that is still to come, and none is held      *)
(* twice: the frontier of the struct is minimal.                           *)
THEOREM NothingLost == Spec => []NoPeriodLost
<1>1. ASSUME IInv, NEW q \in Periods,
             q > st.current \/ (q = st.current /\ pc = "idle")
      PROVE  Cardinality(Holders(st, q)) = 1
  <2>1. Single(Holders(st, q))
    BY <1>1, HeldOnce
  <2>. QED  BY <2>1, OneIsOne
<1>2. IInv => NoPeriodLost
  BY <1>1 DEF NoPeriodLost
<1>. QED  BY <1>2, Invariance, PTL

(* Between calls the struct is what the operators of SeedTreeOps compute,  *)
(* which the modules of the callers are built on.                          *)
THEOREM OperatorsAgree == Spec => []StepsMatchOps
<1>1. ASSUME IInv, pc = "idle"
      PROVE  st = Walk(ev_tree_init(root))[st.current]
  <2>1. root = NodeOf(1, 0, 0) /\ 1 \in Nat
    BY DEF root, Node, NodeOf
  <2>2. ev_tree_init(root) = TreeIn(1, 0)
    BY <2>1, InitTree
  <2>3. st.current \in Periods
    BY <1>1 DEF IInv, TypeOK, TreeState
  <2>4. Walk(TreeIn(1, 0))[st.current] = TreeIn(1, st.current)
    BY <2>1, <2>3, WalkTree
  <2>5. st = TreeIn(1, st.current)
    BY <1>1, Shapes DEF Settled
  <2>. QED  BY <2>2, <2>4, <2>5
<1>2. IInv => StepsMatchOps
  BY <1>1 DEF StepsMatchOps
<1>. QED  BY <1>2, Invariance, PTL

-----------------------------------------------------------------------------
(* What can be derived in each state: everything from the current period   *)
(* on, and between the last erasure of an advance and its end everything   *)
(* after it.                                                               *)
Forgotten == pc = "descend" /\ lvl = Depth

Remaining == {q \in Periods : q > st.current \/ (q = st.current /\ ~Forgotten)}

LEMMA RemainingIsDerivable == IInv => Derivable(st) = Remaining
<1> SUFFICES ASSUME IInv PROVE Derivable(st) = Remaining
  OBVIOUS
<1> DEFINE p == st.current
<1>1. /\ p \in Periods /\ p \in Nat
      /\ \A q \in Periods : q \in Nat
  BY TPositive DEF IInv, TypeOK, TreeState, Periods
<1>2. ASSUME NEW q \in Periods, q < p
      PROVE  Holders(st, q) = {}
  BY <1>2, ErasureFromIInv DEF Erasure
<1>3. ASSUME NEW q \in Periods, q > p \/ (q = p /\ pc # "descend")
      PROVE  Holders(st, q) # {}
  <2>1. Single(Holders(st, q))
    BY <1>3, HeldOnce
  <2>. QED  BY <2>1, OneIsOne
<1>4. ASSUME pc = "descend"
      PROVE  Holders(st, p) = {} <=> lvl = Depth
  <2>1. /\ st = Descent(1, p+1, p, lvl, Node(Depth, p))
        /\ lvl \in Levels /\ Depth \in Levels /\ p+1 \in Periods
    BY <1>1, <1>4, TPositive, Shapes DEF IInv, DescendInv, Levels, Periods
  <2>2. level_index(p, Depth) = p /\ level_index(p+1, Depth) = p+1
    BY <1>1, <2>1, IndexEnds
  <2>3. CASE lvl = Depth
    <3>1. level_index(p, lvl) # level_index(p+1, lvl) /\ p < p+1
      BY <1>1, <2>2, <2>3
    <3>2. 1 \in Nat \ {0}
      OBVIOUS
    <3>3. Holders(Descent(1, p+1, p, lvl, Node(Depth, p)), p) = {}
      BY <1>1, <2>1, <2>3, <3>1, <3>2, NoHolder
    <3>. QED  BY <2>1, <2>3, <3>3
  <2>4. CASE lvl # Depth
    <3>1. st.path[Depth] = Node(Depth, p)
      BY <1>4, <2>1, <2>4 DEF IInv, DescendInv
    <3>2. Covers(st.path[Depth], p)
      BY <2>2, <3>1, CoverFacts
    <3>3. <<"path", Depth>> \in Holders(st, p)
      <4>1. Depth \in {k \in Levels : Covers(st.path[k], p)}
        BY <2>1, <3>2
      <4>. QED  BY <4>1, Zenon DEF Holders
    <3>. QED  BY <2>4, <3>3
  <2>. QED  BY <2>3, <2>4
<1>5. ASSUME NEW q \in Periods
      PROVE  Holders(st, q) # {} <=> q \in Remaining
  <2>1. q < p \/ q > p \/ q = p
    BY <1>1
  <2>2. CASE q < p
    BY <1>1, <1>2, <2>2 DEF Remaining
  <2>3. CASE q > p
    BY <1>3, <2>3 DEF Remaining
  <2>4. CASE q = p /\ pc # "descend"
    BY <1>3, <2>4 DEF Remaining, Forgotten
  <2>5. CASE q = p /\ pc = "descend"
    BY <1>1, <1>4, <2>5 DEF Remaining, Forgotten
  <2>. QED  BY <2>1, <2>2, <2>3, <2>4, <2>5
<1>. QED  BY <1>5 DEF Derivable, Remaining

(* A step that keeps the period and does not enter or leave the end of a   *)
(* descent is invisible in the abstract key.                               *)
LEMMA KeyStutters ==
    ASSUME st'.current = st.current, Forgotten' = Forgotten,
           Derivable(st) = Remaining, (Derivable(st) = Remaining)'
    PROVE  UNCHANGED Key!vars
<1>1. Remaining' = Remaining
  BY DEF Remaining
<1>. QED  BY <1>1 DEF Key!vars

(* The step that erases the last trace of the current period.              *)
LEMMA KeyForgets ==
    ASSUME IInv', st.current \in Periods,
           st'.current = st.current, ~Forgotten, Forgotten',
           Derivable(st) = Remaining, (Derivable(st) = Remaining)'
    PROVE  Key!Forget
<1>1. st.current \in Nat /\ T \in Nat /\ \A q \in Periods : q \in Nat
  BY TPositive DEF Periods
<1>2. st.current < T - 1
  <2>1. st'.current + 1 < T
    BY DEF IInv, DescendInv, Forgotten
  <2>. QED  BY <1>1, <2>1
<1>3. Remaining' = Remaining \ {st.current} /\ st.current \in Remaining
  BY <1>1 DEF Remaining
<1>. QED  BY <1>2, <1>3 DEF Key!Forget

(* The end of ev_tree_advance, which counts the period.                    *)
LEMMA KeyMoves ==
    ASSUME IInv, AdvanceReturn,
           Derivable(st) = Remaining, (Derivable(st) = Remaining)'
    PROVE  Key!Move
<1>1. /\ st \in TreeState /\ pc = "descend" /\ pc' = "idle"
      /\ st' = [st EXCEPT !.current = @ + 1]
      /\ lvl = Depth
  BY DEF IInv, TypeOK, AdvanceReturn, DescendInv
<1>2. st'.current = st.current + 1
  BY <1>1 DEF TreeState
<1>3. Forgotten /\ ~Forgotten'
  BY <1>1 DEF Forgotten
<1>4. st.current \in Nat /\ \A q \in Periods : q \in Nat
  BY <1>1, TPositive DEF TreeState, Periods
<1>5. Remaining' = Remaining /\ st.current \notin Remaining
  BY <1>2, <1>3, <1>4 DEF Remaining
<1>. QED  BY <1>2, <1>5 DEF Key!Move

(* The tree implements the safety part of the abstract key, in every step  *)
(* of every call: the key of a period is forgotten before the next period  *)
(* begins, at one moment, and nothing else is ever forgotten.              *)
THEOREM Refinement == Spec => Key!Init /\ [][Key!Next]_(Key!vars)
<1>1. IInv => Derivable(st) = Remaining
  BY RemainingIsDerivable
<1>2. ASSUME IInv, Init, Derivable(st) = Remaining
      PROVE  Key!Init
  <2>1. st.current = 0 /\ ~Forgotten
    BY <1>2 DEF Init, RootOnly, Forgotten
  <2>2. Remaining = 0..T-1
    BY <2>1, TPositive DEF Remaining, Periods
  <2>. QED  BY <1>2, <2>1, <2>2 DEF Key!Init
<1>3. ASSUME IInv, IInv', [Next]_vars, Derivable(st) = Remaining,
             (Derivable(st) = Remaining)'
      PROVE  [Key!Next]_(Key!vars)
  <2>1. st \in TreeState /\ st.current \in Periods /\ lvl' \in Nat
    BY <1>3 DEF IInv, TypeOK, TreeState
  <2>2. CASE UNCHANGED vars
    <3>1. st'.current = st.current /\ Forgotten' = Forgotten
      BY <2>2 DEF vars, Forgotten
    <3>. QED  BY <1>3, <3>1, KeyStutters
  <2>3. CASE InitLoop \/ InitReturn \/ AdvanceRefused \/ AdvanceCall
               \/ ScanNext \/ ScanStop
    <3>1. st'.current = st.current
      <4>1. CASE InitLoop
        BY <4>1 DEF InitLoop, DeriveAndDiscard
      <4>. QED  BY <2>3, <4>1 DEF InitReturn, AdvanceRefused, AdvanceCall,
                                  ScanNext, ScanStop
    <3>2. Forgotten = FALSE /\ Forgotten' = FALSE
      BY <2>3 DEF InitLoop, InitReturn, AdvanceRefused, AdvanceCall, ScanNext,
                  ScanStop, Forgotten
    <3>. QED  BY <1>3, <3>1, <3>2, KeyStutters
  <2>4. CASE Take \/ Descend
    <3>1. st'.current = st.current
      <4>1. CASE Take
        BY <4>1 DEF Take, DiscardAncestors, TakeFuture
      <4>2. CASE Descend
        BY <4>2 DEF Descend, DeriveAndDiscard
      <4>. QED  BY <2>4, <4>1, <4>2
    <3>2. Forgotten = FALSE
      BY <2>4, DepthAssumption DEF Take, Descend, Forgotten
    <3>3. CASE Forgotten'
      BY <1>3, <2>1, <3>1, <3>2, <3>3, KeyForgets DEF Key!Next
    <3>4. CASE ~Forgotten'
      <4>1. Forgotten' = FALSE
        BY <3>4 DEF Forgotten
      <4>. QED  BY <1>3, <3>1, <3>2, <4>1, KeyStutters
    <3>. QED  BY <3>3, <3>4
  <2>5. CASE AdvanceReturn
    BY <1>3, <2>5, KeyMoves DEF Key!Next
  <2>. QED  BY <1>3, <2>2, <2>3, <2>4, <2>5 DEF Next, Step
<1>. QED  BY <1>1, <1>2, <1>3, Invariance, PTL DEF Spec

-----------------------------------------------------------------------------
(* The iterations and blocks a started call has left at most: the scan     *)
(* stops at the leaf level at the latest, and the descent starts below the *)
(* root.                                                                   *)
CallLeft == CASE pc = "idle" -> 0
              [] pc = "scan" -> 2 * Depth + 3 - lvl
              [] pc = "take" -> Depth + 1
              [] OTHER       -> Depth + 1 - lvl

(* The same for a caller that advances to the last period: an advance is   *)
(* 2 * Depth + 3 steps at most, its call included, and each counts one     *)
(* period.                                                                 *)
AdvancesLeft == IF pc \in {"init", "idle"} THEN T - 1 - st.current
                                           ELSE T - 2 - st.current
WalkLeft == AdvancesLeft * (2 * Depth + 3) + CallLeft

WalkDone == /\ pc = "idle"
            /\ st.current = T - 1
            /\ ev_tree_leaf(st) = Node(Depth, T - 1)

(* A call is short, it is over exactly when the tree is idle, and no more  *)
(* advances are begun than there are periods left.                         *)
CallInv == /\ CallLeft \in 0..2 * Depth + 2
           /\ CallLeft = 0 <=> pc = "idle"
           /\ AdvancesLeft \in Nat

(* How the loops bound the counters.                                       *)
LEMMA CallBound == ASSUME IInv PROVE CallInv /\ st.current \in Nat
<1> USE DEF CallInv
<1>1. /\ pc \in {"init", "idle", "scan", "take", "descend"}
      /\ st.current \in Periods
  BY DEF IInv, TypeOK, TreeState
<1>2. CASE pc = "init"
  <2>1. lvl \in 0..Depth
    BY <1>2 DEF IInv, InitInv, Levels
  <2>. QED  BY <1>1, <1>2, <2>1, TPositive DEF CallLeft, AdvancesLeft, Periods
<1>3. CASE pc = "idle"
  BY <1>1, <1>3, TPositive DEF CallLeft, AdvancesLeft, Periods
<1>4. CASE pc = "scan"
  <2>1. lvl \in 1..Depth+1 /\ st.current + 1 < T
    BY <1>4 DEF IInv, ScanInv
  <2>. QED  BY <1>1, <1>4, <2>1, TPositive DEF CallLeft, AdvancesLeft, Periods
<1>5. CASE pc = "take"
  <2>1. st.current + 1 < T
    BY <1>5 DEF IInv, ScanInv
  <2>. QED  BY <1>1, <1>5, <2>1, TPositive DEF CallLeft, AdvancesLeft, Periods
<1>6. CASE pc = "descend"
  <2>1. lvl \in 1..Depth /\ st.current + 1 < T
    BY <1>6 DEF IInv, DescendInv
  <2>. QED  BY <1>1, <1>6, <2>1, TPositive DEF CallLeft, AdvancesLeft, Periods
<1>. QED  BY <1>1, <1>2, <1>3, <1>4, <1>5, <1>6

(* Every step of a call leaves fewer, and only the step that counts the    *)
(* period changes how many advances are left.                              *)
LEMMA CallDescends ==
    ASSUME IInv, IInv', Step
    PROVE  /\ CallLeft' < CallLeft
           /\ AdvancesLeft' = AdvancesLeft
<1>1. st \in TreeState /\ st.current \in Nat /\ T \in Nat
  BY TPositive DEF IInv, TypeOK, TreeState, Periods
<1>2. CASE InitLoop
  <2>1. st'.current = st.current
    BY <1>2 DEF InitLoop, DeriveAndDiscard
  <2>2. lvl \in 0..Depth /\ lvl' = lvl + 1 /\ pc = "init" /\ pc' = "init"
    BY <1>2 DEF InitLoop, IInv, InitInv, Levels
  <2>. QED  BY <2>1, <2>2 DEF CallLeft, AdvancesLeft
<1>3. CASE InitReturn
  <2>1. lvl \in 0..Depth
    BY <1>3 DEF InitReturn, IInv, InitInv, Levels
  <2>. QED  BY <1>3, <2>1 DEF InitReturn, CallLeft, AdvancesLeft
<1>4. CASE ScanNext \/ ScanStop
  <2>1. lvl \in 1..Depth+1
    BY <1>4 DEF ScanNext, ScanStop, IInv, ScanInv
  <2>. QED  BY <1>4, <2>1 DEF ScanNext, ScanStop, CallLeft, AdvancesLeft
<1>5. CASE Take
  <2>1. /\ pc = "take" /\ pc' = "descend" /\ diff_level \in 1..Depth
        /\ st' = DiscardAncestors(TakeFuture(st, diff_level), diff_level)
        /\ lvl' = diff_level
    BY <1>5 DEF Take, IInv, ScanInv, GuardNeverFires
  <2>2. st'.current = st.current
    BY <2>1 DEF DiscardAncestors, TakeFuture
  <2>. QED  BY <2>1, <2>2 DEF CallLeft, AdvancesLeft
<1>6. CASE Descend
  <2>1. st'.current = st.current
    BY <1>6 DEF Descend, DeriveAndDiscard
  <2>2. /\ lvl \in 1..Depth /\ lvl' = lvl + 1
        /\ pc = "descend" /\ pc' = "descend"
    BY <1>6 DEF Descend, IInv, DescendInv
  <2>. QED  BY <2>1, <2>2 DEF CallLeft, AdvancesLeft
<1>7. CASE AdvanceReturn
  <2>1. st'.current = st.current + 1
    BY <1>1, <1>7 DEF AdvanceReturn, TreeState
  <2>2. lvl \in 1..Depth /\ pc = "descend" /\ pc' = "idle"
    BY <1>7 DEF AdvanceReturn, IInv, DescendInv
  <2>. QED  BY <1>1, <2>1, <2>2 DEF CallLeft, AdvancesLeft
<1>. QED  BY <1>2, <1>3, <1>4, <1>5, <1>6, <1>7 DEF Step

(* A call that has started ends after at most 2 * Depth + 2 iterations and *)
(* blocks, whatever the period: each of them leaves fewer, and none is     *)
(* left exactly between calls.                                             *)
THEOREM CallsAreShort ==
    Spec => /\ []CallInv
            /\ [][Step => CallLeft' < CallLeft]_vars
<1>1. IInv => CallInv
  BY CallBound
<1>2. IInv /\ IInv' /\ [Next]_vars => [Step => CallLeft' < CallLeft]_vars
  BY CallDescends
<1>. QED  BY <1>1, <1>2, Invariance, PTL DEF Spec

(* Multiples, whose definition the arithmetic of the provers leaves open.  *)
LEMMA Multiples ==
    ASSUME NEW a \in Nat, NEW k \in Nat \ {0}
    PROVE  /\ a * k \in Nat
           /\ a * k = 0 <=> a = 0
           /\ (a - 1) * k = a * k - k
  OBVIOUS

(* The variant of a walk is a number that every step of a call and every   *)
(* call that is not refused makes smaller, and a refused call keeps.       *)
LEMMA WalkDescends ==
    ASSUME IInv, IInv', Next, CallInv, CallInv'
    PROVE  /\ Step \/ AdvanceCall => WalkLeft' < WalkLeft
           /\ WalkLeft' <= WalkLeft
<1> DEFINE k == 2 * Depth + 3
<1>1. /\ k \in Nat \ {0} /\ AdvancesLeft \in Nat /\ AdvancesLeft' \in Nat
      /\ CallLeft \in Nat /\ CallLeft' \in Nat
      /\ st.current \in Nat /\ T \in Nat
  BY CallBound, TPositive DEF CallInv
<1>2. PICK m \in Nat : m = AdvancesLeft * k
  <2> HIDE DEF k
  <2>. QED  BY <1>1, Multiples
<1>3. PICK n \in Nat : n = AdvancesLeft' * k
  <2> HIDE DEF k
  <2>. QED  BY <1>1, Multiples
<1>4. WalkLeft = m + CallLeft /\ WalkLeft' = n + CallLeft'
  BY <1>2, <1>3 DEF WalkLeft
<1>5. CASE Step
  <2>1. CallLeft' < CallLeft /\ AdvancesLeft' = AdvancesLeft
    BY <1>5, CallDescends
  <2>2. n = m
    BY <1>2, <1>3, <2>1
  <2>3. PICK c \in Nat : c = CallLeft
    BY <1>1
  <2>4. PICK d \in Nat : d = CallLeft'
    BY <1>1
  <2>5. WalkLeft = m + c /\ WalkLeft' = m + d /\ d < c
    BY <1>4, <2>1, <2>2, <2>3, <2>4
  <2>6. m + d < m + c /\ m + d <= m + c
    BY <2>5
  <2>. QED  BY <2>5, <2>6
<1>6. CASE AdvanceCall
  <2>1. /\ AdvancesLeft' = AdvancesLeft - 1
        /\ CallLeft = 0 /\ CallLeft' = k - 1
    BY <1>1, <1>6 DEF AdvanceCall, AdvancesLeft, CallLeft
  <2>2. n = m - k
    BY <1>1, <1>2, <1>3, <2>1, Multiples
  <2>. QED  BY <1>1, <1>4, <2>1, <2>2
<1>7. CASE AdvanceRefused
  <2>1. AdvancesLeft' = AdvancesLeft /\ CallLeft' = CallLeft
    BY <1>7 DEF AdvanceRefused, AdvancesLeft, CallLeft
  <2>2. ~(Step \/ AdvanceCall)
    BY <1>1, <1>7 DEF AdvanceRefused, AdvanceCall, Step, InitLoop, InitReturn,
                      ScanNext, ScanStop, Take, Descend, AdvanceReturn
  <2>3. n = m
    BY <1>2, <1>3, <2>1
  <2>. QED  BY <1>1, <1>4, <2>1, <2>2, <2>3
<1>. QED  BY <1>5, <1>6, <1>7 DEF Next

(* Nothing is left exactly where the walk is complete.                     *)
LEMMA WalkBound ==
    ASSUME IInv
    PROVE  WalkLeft \in Nat /\ (WalkLeft = 0 <=> WalkDone)
<1> DEFINE k == 2 * Depth + 3
<1>1. /\ k \in Nat \ {0} /\ AdvancesLeft \in Nat /\ CallLeft \in Nat
      /\ st.current \in Nat /\ T \in Nat /\ (CallLeft = 0 <=> pc = "idle")
  BY CallBound, TPositive DEF CallInv
<1>2. /\ AdvancesLeft * k \in Nat
      /\ AdvancesLeft * k = 0 <=> AdvancesLeft = 0
  <2> HIDE DEF k
  <2>. QED  BY <1>1, Multiples
<1>3. WalkLeft = AdvancesLeft * k + CallLeft
  BY DEF WalkLeft
<1>4. WalkLeft \in Nat /\ (WalkLeft = 0 <=> AdvancesLeft = 0 /\ pc = "idle")
  <2> HIDE DEF k
  <2>. QED  BY <1>1, <1>2, <1>3
<1>5. pc = "idle" => (AdvancesLeft = 0 <=> st.current = T - 1)
  BY <1>1 DEF AdvancesLeft
<1>6. pc = "idle" => ev_tree_leaf(st) = Node(Depth, st.current)
  BY DEF IInv, SettledInv, ev_tree_leaf, Levels
<1>. QED  BY <1>4, <1>5, <1>6 DEF WalkDone

(* A caller that keeps advancing cannot be kept from the last period and   *)
(* its leaf: every step of a call and every accepted call brings it        *)
(* nearer, a refused one takes it nowhere else, and it is there exactly    *)
(* when nothing is left, at most T - 1 advances after ev_tree_init.        *)
THEOREM WalkIsBounded ==
    Spec => /\ [](WalkLeft \in Nat /\ (WalkLeft = 0 <=> WalkDone))
            /\ [][Step \/ AdvanceCall => WalkLeft' < WalkLeft]_vars
            /\ [][WalkLeft' <= WalkLeft]_vars
<1>1. IInv => WalkLeft \in Nat /\ (WalkLeft = 0 <=> WalkDone)
  BY WalkBound
<1>2. IInv /\ IInv' /\ CallInv /\ CallInv' /\ [Next]_vars
        => /\ [Step \/ AdvanceCall => WalkLeft' < WalkLeft]_vars
           /\ [WalkLeft' <= WalkLeft]_vars
  BY WalkDescends
<1>. QED  BY <1>1, <1>2, Invariance, CallsAreShort, PTL DEF Spec
=============================================================================
