---------------------------- MODULE MerkleProofs ----------------------------
(***************************************************************************)
(* Proofs about the commitment tree, for every depth: the build fills the  *)
(* flat array with the tree, a path that was copied out is the one of its  *)
(* period, ev_merkle_verify accepts exactly what was committed, and no     *)
(* call takes a step more or less than the depth asks for.                 *)
(***************************************************************************)
EXTENDS Merkle, TreeProofs

Filled(k, j) == levels[node_off(k, j)] = TreeOf(digs)[k][j]

(* While it builds, the levels from l down are done, and of the one above  *)
(* them the nodes whose children have been visited.                        *)
BuildInv ==
    pc = "build" =>
        /\ levels = [o \in Offsets |-> levels[o]]
        /\ i % 2 = 0 /\ i <= Pow2[l]
        /\ \A k \in l..Depth : \A j \in 0..Pow2[k]-1 : Filled(k, j)
        /\ l > 0 => \A j \in 0..(i \div 2)-1 : Filled(l-1, j)

AuthFrom(a) == \A k \in (a+1)..Depth :
                   path[k-1] = AuthEntry(TreeOf(digs), p, k)

(* The loops of ev_merkle_path and ev_merkle_verify follow the same index  *)
(* from the leaf to the root.  On each level of the second, what has been  *)
(* hashed so far is the node of the tree if and only if everything that    *)
(* went into it is.                                                        *)
PathInv ==
    /\ path = [k \in Edges |-> path[k]]
    /\ pc = "path" => /\ levels # NULL
                      /\ idx = level_index(p, l)
                      /\ AuthFrom(l)

VerifyInv ==
    pc = "verify" => /\ idx = level_index(p, l)
                     /\ cur = PathUp(p, leaf, path)[l]
                     /\ cur = TreeOf(digs)[l][idx]
                          <=> leaf = digs[p] /\ AuthFrom(l)

IInv == /\ TypeOK
        /\ BuildInv /\ BuildComplete
        /\ PathInv /\ PathIsAuth
        /\ VerifyInv /\ VerifyIffCommitted

-----------------------------------------------------------------------------
(* Nothing is built, asked or verified at the start.                       *)
LEMMA InitIInv == Init => IInv
<1>. SUFFICES ASSUME Init PROVE IInv
  OBVIOUS
<1>1. 0 \in Levels /\ 0 \in 0..T /\ 0 \in Periods
  BY DepthAssumption, TPositive DEF Levels, Periods
<1>. QED  BY <1>1 DEF Init, IInv, TypeOK, BuildInv, BuildComplete, PathInv,
                      PathIsAuth, VerifyInv, VerifyIffCommitted, NoPath

(* The calls that fail, the end of a call for its caller, and              *)
(* ev_merkle_free: nothing is written into a tree or a path that is read   *)
(* afterwards.                                                             *)
LEMMA OthersIInv ==
    ASSUME IInv,
           BuildFails \/ PathRefused \/ CallerDone \/ Free \/ UNCHANGED vars
    PROVE  IInv'
<1>1. CASE UNCHANGED vars
  <2>1. UNCHANGED <<pc, digs, levels, root, l, i, idx, cur, p, leaf, path, rc>>
    BY <1>1 DEF vars, locals, caller
  <2>2. TypeOK'
    BY <2>1 DEF IInv, TypeOK
  <2>3. BuildInv'
    BY <2>1 DEF IInv, BuildInv, Filled
  <2>4. BuildComplete'
    BY <2>1 DEF IInv, BuildComplete
  <2>5. PathInv'
    BY <2>1 DEF IInv, PathInv, AuthFrom
  <2>6. PathIsAuth'
    BY <2>1 DEF IInv, PathIsAuth
  <2>7. VerifyInv'
    BY <2>1 DEF IInv, VerifyInv, AuthFrom
  <2>8. VerifyIffCommitted'
    BY <2>1 DEF IInv, VerifyIffCommitted
  <2>. QED  BY <2>2, <2>3, <2>4, <2>5, <2>6, <2>7, <2>8 DEF IInv
<1>2. CASE BuildFails
  <2>1. /\ pc = "none" /\ pc' = pc /\ levels' = NULL /\ rc' = -1
        /\ UNCHANGED <<digs, root, l, i, idx, cur, p, leaf, path>>
    BY <1>2 DEF BuildFails, locals, caller
  <2>. QED  BY <2>1 DEF IInv, TypeOK, BuildInv, BuildComplete, PathInv,
                        PathIsAuth, VerifyInv, VerifyIffCommitted
<1>3. CASE PathRefused \/ Free
  <2>1. /\ pc = "idle" /\ pc' = pc /\ levels' = NULL /\ rc' \in {rc, -1}
        /\ UNCHANGED <<digs, root, l, i, idx, cur, p, leaf, path>>
    BY <1>3 DEF PathRefused, Free, locals, caller
  <2>. QED  BY <2>1 DEF IInv, TypeOK, BuildInv, BuildComplete, PathInv,
                        PathIsAuth, VerifyInv, VerifyIffCommitted
<1>4. CASE CallerDone
  <2>1. /\ pc \in {"pathed", "verified"} /\ pc' = "idle"
        /\ l' = 0 /\ i' = 0 /\ idx' = 0 /\ p' = 0 /\ rc' = 0
        /\ path' = [k \in Edges |-> Junk]
        /\ UNCHANGED <<digs, levels, root>>
    BY <1>4 DEF CallerDone, NoPath
  <2>2. 0 \in Levels /\ 0 \in 0..T /\ 0 \in Periods
    BY DepthAssumption, TPositive DEF Levels, Periods
  <2>. QED  BY <2>1, <2>2 DEF IInv, TypeOK, BuildInv, BuildComplete, PathInv,
                              PathIsAuth, VerifyInv, VerifyIffCommitted
<1>. QED  BY <1>1, <1>2, <1>3, <1>4

-----------------------------------------------------------------------------
(* The leaves go to the deepest level (ev_merkle_build).                   *)
LEMMA BuildCallIInv == ASSUME IInv, BuildCall PROVE IInv'
<1>1. /\ pc = "none" /\ pc' = "build" /\ l' = Depth /\ i' = 0
      /\ levels' = [o \in Offsets |->
                      IF o >= node_off(Depth, 0)
                        THEN digs[o - node_off(Depth, 0)] ELSE Junk]
      /\ UNCHANGED <<digs, root, idx, cur, p, leaf, path, rc>>
  BY DEF BuildCall, caller
<1>2. /\ Depth \in Levels /\ 0 \in 0..T
      /\ Pow2[Depth] \in Nat \ {0}
  BY DepthAssumption, TPositive, Pow2Type DEF Levels
<1>3. TypeOK'
  BY <1>1, <1>2 DEF IInv, TypeOK
<1>4. ASSUME NEW j \in 0..Pow2[Depth]-1
      PROVE  levels'[node_off(Depth, j)] = TreeOf(digs)[Depth][j]
  <2>1. /\ node_off(Depth, j) \in Offsets
        /\ node_off(Depth, j) >= node_off(Depth, 0)
        /\ node_off(Depth, j) - node_off(Depth, 0) = j
    BY <1>2, NodeOffType DEF node_off
  <2>2. levels'[node_off(Depth, j)] = digs[j]
    BY <1>1, <2>1
  <2>. QED  BY <2>2, TreeNode
<1>5. BuildInv'
  <2>1. levels' = [o \in Offsets |-> levels'[o]]
    BY <1>1, Zenon
  <2>2. \A k \in Depth..Depth : \A j \in 0..Pow2[k]-1 :
           levels'[node_off(k, j)] = TreeOf(digs)[k][j]
    BY <1>4, DepthAssumption
  <2>. QED  BY <1>1, <1>2, <2>1, <2>2 DEF BuildInv, Filled
<1>. QED  BY <1>1, <1>3, <1>5
          DEF IInv, BuildComplete, PathInv, PathIsAuth, VerifyInv,
              VerifyIffCommitted

(* Two children are hashed into their parent; the offsets of all the other *)
(* nodes are different ones (ev_merkle_build).                             *)
LEMMA BuildPairIInv == ASSUME IInv, BuildPair PROVE IInv'
<1>1. /\ pc = "build" /\ pc' = pc /\ l > 0 /\ i < Pow2[l]
      /\ levels' = HashPair(levels, l, i)
      /\ i' = i + 2
      /\ UNCHANGED <<digs, root, l, idx, cur, p, leaf, path, rc>>
  BY DEF BuildPair, caller
<1>2. PICK a \in Edges, h \in Nat :
        /\ l = a+1 /\ i = 2*h /\ h \in 0..Pow2[a]-1 /\ i \div 2 = h
        /\ 2*h \in 0..Pow2[a+1]-1 /\ 2*h + 1 \in 0..Pow2[a+1]-1
        /\ 2*h + 2 <= Pow2[a+1] /\ 2*h + 2 \in 0..T /\ l - 1 = a
        /\ (2*h + 2) % 2 = 0 /\ (2*h + 2) \div 2 = h + 1
  <2>1. l - 1 \in Edges /\ l = (l - 1) + 1 /\ i \in Nat /\ i % 2 = 0
    <3>1. l \in Nat /\ l <= Depth /\ i \in Nat
      BY DepthAssumption, TPositive DEF IInv, TypeOK, Levels
    <3>2. i % 2 = 0
      BY <1>1 DEF IInv, BuildInv
    <3>. QED  BY <1>1, <3>1, <3>2, DepthAssumption DEF Edges
  <2>2. PICK a \in Edges : l = a + 1
    BY <2>1
  <2>3. /\ Pow2[a+1] = 2 * Pow2[a] /\ Pow2[a] \in Nat \ {0}
        /\ Pow2[a+1] <= T /\ T \in Nat /\ a \in Nat
    BY Pow2Doubles, Pow2Type, LevelFits, TPositive, DepthAssumption DEF Edges
  <2>4. PICK h \in Nat : i = 2*h
    BY <2>1
  <2>. QED  BY <1>1, <2>2, <2>3, <2>4
<1>3. /\ a \in Levels /\ a+1 \in Levels
      /\ Pow2[a] \in Nat \ {0}
      /\ node_off(a, h) \in Offsets
  BY <1>2, Pow2Doubles, Pow2Type, NodeOffType
<1>4. /\ \A k \in (a+1)..Depth : \A j \in 0..Pow2[k]-1 : Filled(k, j)
      /\ \A j \in 0..h-1 : Filled(a, j)
      /\ levels = [o \in Offsets |-> levels[o]]
  <2>1. /\ \A k \in l..Depth : \A j \in 0..Pow2[k]-1 : Filled(k, j)
        /\ \A j \in 0..(i \div 2)-1 : Filled(l-1, j)
        /\ levels = [o \in Offsets |-> levels[o]]
    BY <1>1, Zenon DEF IInv, BuildInv
  <2>. QED  BY <1>2, <2>1, Zenon
<1>5. Filled(a+1, 2*h) /\ Filled(a+1, 2*h + 1)
  BY <1>2, <1>3, <1>4 DEF Levels
<1>6. levels' = [levels EXCEPT ![node_off(a, h)] =
                    ev_hash_node(TreeOf(digs)[a+1][2*h],
                                 TreeOf(digs)[a+1][2*h + 1])]
  <2>1. HashPair(levels, l, i) = HashPair(levels, a+1, 2*h)
    BY <1>2
  <2>2. (a+1) - 1 = a /\ (2*h) \div 2 = h
    BY <1>2
  <2>. QED  BY <1>1, <1>5, <2>1, <2>2, Zenon DEF HashPair, Filled
<1>7. levels'[node_off(a, h)] = TreeOf(digs)[a][h]
  <2>1. levels'[node_off(a, h)] = ev_hash_node(TreeOf(digs)[a+1][2*h],
                                               TreeOf(digs)[a+1][2*h + 1])
    BY <1>3, <1>4, <1>6, Zenon
  <2>. QED  BY <1>2, <2>1, TreeNode
<1>8. ASSUME NEW k \in Levels, NEW j \in 0..Pow2[k]-1, k # a \/ j # h
      PROVE  levels'[node_off(k, j)] = levels[node_off(k, j)]
  <2>1. node_off(k, j) # node_off(a, h) /\ node_off(k, j) \in Offsets
    BY <1>2, <1>3, <1>8, NodeOffInjective, NodeOffType
  <2>. QED  BY <1>4, <1>6, <2>1, Zenon
<1>9. TypeOK'
  <2>1. DOMAIN levels' = Offsets
    BY <1>4, <1>6, Zenon
  <2>2. i' \in 0..T
    BY <1>1, <1>2, TPositive
  <2>. QED  BY <1>1, <2>1, <2>2 DEF IInv, TypeOK
<1>10. BuildInv'
  <2>1. levels' = [o \in Offsets |-> levels'[o]]
    BY <1>4, <1>6, Zenon
  <2>2. \A k \in (a+1)..Depth : \A j \in 0..Pow2[k]-1 :
           levels'[node_off(k, j)] = TreeOf(digs)[k][j]
    <3>1. \A k \in (a+1)..Depth : k \in Levels /\ k # a
      BY DEF Levels, Edges
    <3>. QED  BY <1>4, <1>8, <3>1 DEF Filled
  <2>3. \A j \in 0..h : levels'[node_off(a, j)] = TreeOf(digs)[a][j]
    <3>1. \A j \in 0..h :
             j \in 0..Pow2[a]-1 /\ (j = h \/ (j # h /\ j \in 0..h-1))
      BY <1>2, <1>3
    <3>. QED  BY <1>3, <1>4, <1>7, <1>8, <3>1 DEF Filled
  <2>4. i' % 2 = 0 /\ i' <= Pow2[a+1] /\ i' \div 2 = h + 1
    BY <1>1, <1>2
  <2>5. (h + 1) - 1 = h /\ (a + 1) - 1 = a
    BY <1>2 DEF Edges
  <2>. QED  BY <1>1, <1>2, <2>1, <2>2, <2>3, <2>4, <2>5 DEF BuildInv, Filled
<1>. QED  BY <1>1, <1>9, <1>10
          DEF IInv, BuildComplete, PathInv, PathIsAuth, VerifyInv,
              VerifyIffCommitted

(* A level is done when all its pairs have been visited.                   *)
LEMMA BuildLevelDoneIInv == ASSUME IInv, BuildLevelDone PROVE IInv'
<1>1. /\ pc = "build" /\ pc' = pc /\ l > 0 /\ i >= Pow2[l]
      /\ l' = l - 1 /\ i' = 0
      /\ UNCHANGED <<digs, levels, root, idx, cur, p, leaf, path, rc>>
  BY DEF BuildLevelDone, caller
<1>2. PICK a \in Edges : l = a + 1
  <2>1. l \in Nat /\ l <= Depth
    BY DepthAssumption DEF IInv, TypeOK, Levels
  <2>2. l - 1 \in Edges /\ l = (l - 1) + 1
    BY <1>1, <2>1, DepthAssumption DEF Edges
  <2>. QED  BY <2>2
<1>3. /\ a \in Levels /\ Pow2[a+1] = 2 * Pow2[a] /\ Pow2[a] \in Nat \ {0}
      /\ l - 1 = a
  BY <1>2, Pow2Doubles, Pow2Type DEF Edges
<1>4. i \div 2 = Pow2[a]
  <2>1. i = 2 * Pow2[a]
    BY <1>1, <1>2, <1>3 DEF IInv, TypeOK, BuildInv
  <2>. QED  BY <1>3, <2>1
<1>5. \A k \in a..Depth : \A j \in 0..Pow2[k]-1 : Filled(k, j)
  <2>1. \A k \in (a+1)..Depth : \A j \in 0..Pow2[k]-1 : Filled(k, j)
    BY <1>1, <1>2 DEF IInv, BuildInv
  <2>2. \A j \in 0..Pow2[a]-1 : Filled(a, j)
    BY <1>1, <1>3, <1>4 DEF IInv, BuildInv
  <2>3. \A k \in a..Depth : k = a \/ k \in (a+1)..Depth
    BY DEF Edges
  <2>. QED  BY <2>1, <2>2, <2>3
<1>6. TypeOK'
  BY <1>1, <1>3, TPositive DEF IInv, TypeOK
<1>7. BuildInv'
  <2>1. i' % 2 = 0 /\ i' <= Pow2[a] /\ i' \div 2 = 0 /\ l' = a
    BY <1>1, <1>3
  <2>. QED  BY <1>1, <1>5, <2>1 DEF IInv, BuildInv, Filled
<1>. QED  BY <1>1, <1>6, <1>7
          DEF IInv, BuildComplete, PathInv, PathIsAuth, VerifyInv,
              VerifyIffCommitted

(* The build returns and its caller publishes the root.                    *)
LEMMA BuildReturnIInv == ASSUME IInv, BuildReturn PROVE IInv'
<1>1. /\ pc = "build" /\ pc' = "idle" /\ l = 0
      /\ root' = levels[0] /\ rc' = 0
      /\ UNCHANGED <<digs, levels, l, i, idx, cur, p, leaf, path>>
  BY DEF BuildReturn, locals, caller
<1>2. \A k \in Levels : \A j \in 0..Pow2[k]-1 : Filled(k, j)
  BY <1>1 DEF IInv, BuildInv, Levels
<1>3. 0 \in Levels /\ Pow2[0] = 1 /\ node_off(0, 0) = 0
  BY DepthAssumption, Pow2Assumption DEF Levels, node_off
<1>4. levels[0] = TreeOf(digs)[0][0]
  BY <1>2, <1>3 DEF Filled
<1>5. BuildComplete'
  BY <1>1, <1>2, <1>4 DEF BuildComplete, Filled
<1>. QED  BY <1>1, <1>5 DEF IInv, TypeOK, BuildInv, PathInv, PathIsAuth,
                            VerifyInv, VerifyIffCommitted

-----------------------------------------------------------------------------
(* One level up: the index is halved, and stays that of the path node.     *)
LEMMA LevelUp ==
    ASSUME IInv, l > 0, idx = level_index(p, l)
    PROVE  \E a \in Edges :
             /\ l = a + 1 /\ l - 1 = a /\ a \in Levels
             /\ idx \in 0..Pow2[a+1]-1
             /\ idx \div 2 = level_index(p, a)
             /\ idx \div 2 \in Periods
             /\ AuthEntry(TreeOf(digs), p, a+1) =
                   TreeOf(digs)[a+1][sibling(idx)]
<1>1. l \in Nat /\ l <= Depth /\ p \in Periods
  BY DepthAssumption DEF IInv, TypeOK, Levels
<1>2. l - 1 \in Edges /\ l = (l - 1) + 1
  BY <1>1, DepthAssumption DEF Edges
<1>3. PICK a \in Edges : l = a + 1 /\ l - 1 = a
  BY <1>2
<1>4. a \in Levels /\ a+1 \in Levels
  BY Pow2Doubles
<1>5. idx \in 0..Pow2[a+1]-1
  BY <1>1, <1>3, <1>4, IndexBound
<1>6. idx \div 2 = level_index(p, a)
  BY <1>1, <1>3, IndexHalves DEF Periods
<1>7. level_index(p, a) \in Periods
  <2>1. level_index(p, a) \in 0..Pow2[a]-1 /\ Pow2[a] \in Nat /\ Pow2[a] <= T
    BY <1>1, <1>4, IndexBound, LevelFits, Pow2Type
  <2>. QED  BY <2>1, TPositive DEF Periods
<1>8. AuthEntry(TreeOf(digs), p, a+1) = TreeOf(digs)[a+1][sibling(idx)]
  BY <1>3 DEF AuthEntry
<1>. QED  BY <1>3, <1>4, <1>5, <1>6, <1>7, <1>8

(* What is known of a path grows by the level that has just been visited.  *)
LEMMA AuthGrows ==
    ASSUME NEW a \in Edges
    PROVE  AuthFrom(a) <=> /\ AuthFrom(a+1)
                           /\ path[a] = AuthEntry(TreeOf(digs), p, a+1)
<1>1. a \in Nat /\ a < Depth /\ (a+1) - 1 = a
  BY DepthAssumption DEF Edges
<1>2. (a+1)..Depth = ((a+1)+1)..Depth \cup {a+1}
  BY <1>1, DepthAssumption
<1>. QED  BY <1>1, <1>2 DEF AuthFrom

(* ev_merkle_path starts at the leaf.                                      *)
LEMMA PathCallIInv == ASSUME IInv, PathCall PROVE IInv'
<1>1. /\ pc = "idle" /\ pc' = "path" /\ levels # NULL
      /\ p' \in Periods /\ idx' = p' /\ l' = Depth
      /\ UNCHANGED <<digs, levels, root, i, cur, leaf, path, rc>>
  BY DEF PathCall
<1>2. l' \in Levels /\ idx' = level_index(p', l')
  <2>1. Depth \in Levels
    BY DepthAssumption DEF Levels
  <2>. QED  BY <1>1, <2>1, IndexEnds
<1>3. TypeOK'
  <2>1. idx' \in Periods
    BY <1>1
  <2>2. /\ pc' = "path" /\ digs' = digs /\ levels' = levels /\ i' = i
        /\ path' = path /\ rc' = rc /\ p' \in Periods /\ l' \in Levels
    BY <1>1, <1>2, Zenon
  <2>. QED  BY <2>1, <2>2, Zenon DEF IInv, TypeOK
<1>4. BuildComplete'
  BY <1>1 DEF IInv, BuildComplete
<1>5. PathInv'
  <2>1. AuthFrom(l)'
    BY <1>1, DepthAssumption DEF AuthFrom
  <2>2. levels' # NULL
    BY <1>1
  <2>3. path' = [k \in Edges |-> path'[k]]
    BY <1>1, Zenon DEF IInv, PathInv
  <2>. QED  BY <1>2, <2>1, <2>2, <2>3, Zenon DEF PathInv
<1>. QED  BY <1>1, <1>3, <1>4, <1>5
          DEF IInv, BuildInv, PathIsAuth, VerifyInv, VerifyIffCommitted

(* It copies the sibling of the path node out of the array, which holds    *)
(* the tree.                                                               *)
LEMMA PathStepIInv == ASSUME IInv, PathStep PROVE IInv'
<1>1. /\ pc = "path" /\ pc' = pc /\ l > 0
      /\ path' = [path EXCEPT ![l-1] = levels[node_off(l, sibling(idx))]]
      /\ idx' = idx \div 2
      /\ l' = l - 1
      /\ UNCHANGED <<digs, levels, root, i, cur, p, leaf, rc>>
  BY DEF PathStep
<1>2. /\ levels # NULL /\ idx = level_index(p, l) /\ AuthFrom(l)
      /\ path = [k \in Edges |-> path[k]]
  BY <1>1 DEF IInv, PathInv
<1>3. PICK a \in Edges :
        /\ l = a + 1 /\ l - 1 = a /\ a \in Levels
        /\ idx \in 0..Pow2[a+1]-1
        /\ idx \div 2 = level_index(p, a)
        /\ idx \div 2 \in Periods
        /\ AuthEntry(TreeOf(digs), p, a+1) = TreeOf(digs)[a+1][sibling(idx)]
  BY <1>1, <1>2, LevelUp
<1>4. levels[node_off(l, sibling(idx))] = AuthEntry(TreeOf(digs), p, a+1)
  <2>1. sibling(idx) \in 0..Pow2[a+1]-1 /\ a+1 \in Levels
    BY <1>3, SiblingBound, Pow2Doubles
  <2>2. levels[node_off(a+1, sibling(idx))] = TreeOf(digs)[a+1][sibling(idx)]
    BY <1>1, <1>2, <2>1 DEF IInv, BuildComplete
  <2>. QED  BY <1>3, <2>2
<1>5. /\ path' = [k \in Edges |-> path'[k]]
      /\ path'[a] = AuthEntry(TreeOf(digs), p, a+1)
      /\ \A k \in Edges : k # a => path'[k] = path[k]
      /\ DOMAIN path' = Edges
  BY <1>1, <1>2, <1>3, <1>4, Zenon
<1>6. \A k \in (a+1)..Depth : path'[k-1] = AuthEntry(TreeOf(digs), p, k)
  <2>. TAKE k \in (a+1)..Depth
  <2>1. CASE k = a+1
    <3>1. k - 1 = a
      BY <2>1, DepthAssumption DEF Edges
    <3>. QED  BY <1>5, <2>1, <3>1
  <2>2. CASE k # a+1
    <3>1. k \in (l+1)..Depth /\ k-1 \in Edges /\ k-1 # a
      BY <1>3, <2>2, DepthAssumption DEF Edges
    <3>. QED  BY <1>2, <1>5, <3>1 DEF AuthFrom
  <2>. QED  BY <2>1, <2>2
<1>7. TypeOK'
  BY <1>1, <1>3, <1>5 DEF IInv, TypeOK
<1>8. PathInv'
  <2>1. l' = a /\ idx' = level_index(p, a)
    BY <1>1, <1>3
  <2>. QED  BY <1>1, <1>2, <1>5, <1>6, <2>1 DEF PathInv, AuthFrom
<1>9. BuildComplete'
  BY <1>1 DEF IInv, BuildComplete
<1>. QED  BY <1>1, <1>7, <1>8, <1>9
          DEF IInv, BuildInv, PathIsAuth, VerifyInv, VerifyIffCommitted

LEMMA PathReturnIInv == ASSUME IInv, PathReturn PROVE IInv'
<1>1. /\ pc = "path" /\ pc' = "pathed" /\ l = 0 /\ rc' = 0
      /\ UNCHANGED <<digs, levels, root, l, i, idx, cur, p, leaf, path>>
  BY DEF PathReturn, locals, caller
<1>2. AuthFrom(0) /\ 0 + 1 = 1
  BY <1>1 DEF IInv, PathInv
<1>3. PathIsAuth'
  BY <1>1, <1>2 DEF PathIsAuth, AuthFrom
<1>4. BuildComplete'
  BY <1>1 DEF IInv, BuildComplete
<1>. QED  BY <1>1, <1>3, <1>4
          DEF IInv, TypeOK, BuildInv, PathInv, VerifyInv, VerifyIffCommitted

-----------------------------------------------------------------------------
(* ev_merkle_verify starts with the leaf, whatever leaf and path it gets.  *)
LEMMA VerifyCallIInv == ASSUME IInv, VerifyCall PROVE IInv'
<1>1. /\ pc = "idle" /\ pc' = "verify"
      /\ p' \in Periods /\ cur' = leaf' /\ idx' = p' /\ l' = Depth
      /\ path' \in [Edges -> Candidates]
      /\ UNCHANGED <<digs, levels, root, i, rc>>
  BY DEF VerifyCall
<1>2. l' \in Levels /\ idx' = level_index(p', l')
  <2>1. Depth \in Levels
    BY DepthAssumption DEF Levels
  <2>. QED  BY <1>1, <2>1, IndexEnds
<1>3. TypeOK'
  <2>1. idx' \in Periods
    BY <1>1
  <2>2. DOMAIN path' = Edges
    BY <1>1
  <2>3. /\ pc' = "verify" /\ digs' = digs /\ levels' = levels /\ i' = i
        /\ rc' = rc /\ p' \in Periods /\ l' \in Levels
    BY <1>1, <1>2, Zenon
  <2>. QED  BY <2>1, <2>2, <2>3, Zenon DEF IInv, TypeOK
<1>4. BuildComplete'
  BY <1>1 DEF IInv, BuildComplete
<1>5. PathInv'
  BY <1>1 DEF PathInv
<1>6. VerifyInv'
  <2>1. cur' = PathUp(p', leaf', path')[l']
    BY <1>1, PathUpLevels
  <2>2. TreeOf(digs)[l'][idx'] = digs[p']
    <3>1. p' \in 0..Pow2[Depth]-1
      BY <1>1 DEF Periods, T
    <3>. QED  BY <1>1, <3>1, TreeNode
  <2>3. AuthFrom(l)'
    BY <1>1, DepthAssumption DEF AuthFrom
  <2>4. cur' = TreeOf(digs')[l'][idx'] <=> leaf' = digs'[p']
    BY <1>1, <2>2, Zenon
  <2>. QED  BY <1>2, <2>1, <2>3, <2>4, Zenon DEF VerifyInv
<1>. QED  BY <1>1, <1>3, <1>4, <1>5, <1>6
          DEF IInv, BuildInv, PathIsAuth, VerifyIffCommitted

(* One hash up: a node of the tree comes out exactly if one went in        *)
(* together with its sibling.                                              *)
LEMMA VerifyStepIInv == ASSUME IInv, VerifyStep PROVE IInv'
<1>1. /\ pc = "verify" /\ pc' = pc /\ l > 0
      /\ cur' = HashUp(cur, path[l-1], idx)
      /\ idx' = idx \div 2
      /\ l' = l - 1
      /\ UNCHANGED <<digs, levels, root, i, p, leaf, path, rc>>
  BY DEF VerifyStep, caller
<1>2. /\ idx = level_index(p, l)
      /\ cur = PathUp(p, leaf, path)[l]
      /\ cur = TreeOf(digs)[l][idx] <=> leaf = digs[p] /\ AuthFrom(l)
  BY <1>1 DEF IInv, VerifyInv
<1>3. PICK a \in Edges :
        /\ l = a + 1 /\ l - 1 = a /\ a \in Levels
        /\ idx \in 0..Pow2[a+1]-1
        /\ idx \div 2 = level_index(p, a)
        /\ idx \div 2 \in Periods
        /\ AuthEntry(TreeOf(digs), p, a+1) = TreeOf(digs)[a+1][sibling(idx)]
  BY <1>1, <1>2, LevelUp
<1>4. cur' = HashUp(cur, path[a], idx)
  BY <1>1, <1>3
<1>5. cur' = PathUp(p, leaf, path)[a]
  BY <1>2, <1>3, <1>4, PathUpLevels
<1>6. cur' = TreeOf(digs)[a][idx \div 2] <=>
        /\ cur = TreeOf(digs)[a+1][idx]
        /\ path[a] = AuthEntry(TreeOf(digs), p, a+1)
  BY <1>3, <1>4, HashUpIsNode
<1>7. cur' = TreeOf(digs)[a][idx \div 2] <=> leaf = digs[p] /\ AuthFrom(a)
  BY <1>2, <1>3, <1>6, AuthGrows
<1>8. TypeOK'
  BY <1>1, <1>3 DEF IInv, TypeOK
<1>9. BuildComplete'
  BY <1>1 DEF IInv, BuildComplete
<1>10. VerifyInv'
  <2>1. l' = a /\ idx' = idx \div 2 /\ idx' = level_index(p, a)
    BY <1>1, <1>3
  <2>. QED  BY <1>1, <1>5, <1>7, <2>1 DEF VerifyInv, AuthFrom
<1>. QED  BY <1>1, <1>8, <1>9, <1>10
          DEF IInv, BuildInv, PathInv, PathIsAuth, VerifyIffCommitted

(* At the root the comparison with the published one decides.              *)
LEMMA VerifyReturnIInv == ASSUME IInv, VerifyReturn PROVE IInv'
<1>1. /\ pc = "verify" /\ pc' = "verified" /\ l = 0
      /\ rc' = (IF cur = root THEN 1 ELSE 0)
      /\ UNCHANGED <<digs, levels, root, l, i, idx, cur, p, leaf, path>>
  BY DEF VerifyReturn, locals, caller
<1>2. /\ idx = level_index(p, 0)
      /\ cur = PathUp(p, leaf, path)[0]
      /\ cur = TreeOf(digs)[0][idx] <=> leaf = digs[p] /\ AuthFrom(0)
  BY <1>1 DEF IInv, VerifyInv
<1>3. idx = 0 /\ root = TreeOf(digs)[0][0] /\ 0 + 1 = 1
  BY <1>1, <1>2, IndexEnds DEF IInv, TypeOK, BuildComplete
<1>4. cur = root <=> leaf = digs[p] /\ AuthFrom(0)
  BY <1>2, <1>3
<1>5. cur = PathRoot(p, leaf, path)
  BY <1>2, PathUpLevels
<1>6. rc' = 1 <=> cur = root
  BY <1>1
<1>7. VerifyIffCommitted'
  BY <1>1, <1>3, <1>4, <1>5, <1>6 DEF VerifyIffCommitted, AuthFrom
<1>8. BuildComplete'
  BY <1>1 DEF IInv, BuildComplete
<1>9. TypeOK'
  BY <1>1 DEF IInv, TypeOK
<1>. QED  BY <1>1, <1>7, <1>8, <1>9
          DEF IInv, BuildInv, PathInv, PathIsAuth, VerifyInv

-----------------------------------------------------------------------------
(* The invariant holds in every state that the code reaches.               *)
THEOREM Invariance == Spec => []IInv
<1>1. IInv /\ [Next]_vars => IInv'
  BY OthersIInv, BuildCallIInv, BuildPairIInv, BuildLevelDoneIInv,
     BuildReturnIInv, PathCallIInv, PathStepIInv, PathReturnIInv,
     VerifyCallIInv, VerifyStepIInv, VerifyReturnIInv
     DEF Next, Step
<1>. QED  BY <1>1, InitIInv, PTL DEF Spec

(* Offsets, levels and indices stay within the array (ev_merkle_build,     *)
(* ev_merkle_path).                                                        *)
THEOREM TypeCorrect == Spec => []TypeOK
<1>1. IInv => TypeOK
  BY DEF IInv
<1>. QED  BY <1>1, Invariance, PTL

(* A finished build has filled the whole array with the tree               *)
(* (ev_merkle_build).                                                      *)
THEOREM BuiltWhole == Spec => []BuildComplete
<1>1. IInv => BuildComplete
  BY DEF IInv
<1>. QED  BY <1>1, Invariance, PTL

(* A path that was copied out is the one of its period (ev_merkle_path).   *)
THEOREM PathCorrect == Spec => []PathIsAuth
<1>1. IInv => PathIsAuth
  BY DEF IInv
<1>. QED  BY <1>1, Invariance, PTL

(* What verifies is what was committed, and nothing else                   *)
(* (ev_merkle_verify).                                                     *)
THEOREM VerifyExact == Spec => []VerifyIffCommitted
<1>1. IInv => VerifyIffCommitted
  BY DEF IInv
<1>. QED  BY <1>1, Invariance, PTL

-----------------------------------------------------------------------------
(* The steps a started call has left: of a build the pairs that are not    *)
(* hashed yet, the levels that are not done and the return; of a path or a *)
(* verification the levels and the return.                                 *)
CallLeft == CASE pc = "build"             -> Pow2[l] - (i \div 2) + l
              [] pc \in {"path", "verify"} -> l + 1
              [] OTHER                    -> 0

Returned == pc \in {"none", "idle", "pathed", "verified"}

(* A call is over exactly when nothing is left of it.                      *)
LEMMA CallBound ==
    ASSUME IInv
    PROVE  CallLeft \in Nat /\ (CallLeft = 0 <=> Returned)
<1>1. /\ l \in Levels /\ l \in Nat /\ i \in Nat
      /\ pc \in {"none", "build", "idle", "path", "pathed", "verify",
                 "verified"}
  BY DepthAssumption, TPositive DEF IInv, TypeOK, Levels
<1>2. CASE pc = "build"
  <2>1. PICK n \in Nat \ {0} : n = Pow2[l]
    BY <1>1, Pow2Type
  <2>2. i % 2 = 0 /\ i <= n
    BY <1>2, <2>1 DEF IInv, BuildInv
  <2>3. n - (i \div 2) + l \in Nat \ {0}
    BY <1>1, <2>1, <2>2
  <2>. QED  BY <1>2, <2>1, <2>3 DEF CallLeft, Returned
<1>3. CASE pc \in {"path", "verify"}
  BY <1>1, <1>3 DEF CallLeft, Returned
<1>4. CASE Returned
  BY <1>4 DEF CallLeft, Returned
<1>. QED  BY <1>1, <1>2, <1>3, <1>4 DEF Returned

(* Every step of a call is one of those that were left.                    *)
LEMMA CallCounts ==
    ASSUME IInv, Step
    PROVE  CallLeft' = CallLeft - 1
<1>1. l \in Levels /\ l \in Nat /\ l <= Depth /\ i \in Nat
  BY DepthAssumption, TPositive DEF IInv, TypeOK, Levels
<1>2. PICK n \in Nat \ {0} : n = Pow2[l]
  BY <1>1, Pow2Type
<1>3. CASE BuildPair
  <2>1. /\ pc = "build" /\ pc' = "build" /\ l' = l /\ i' = i + 2
        /\ Pow2' = Pow2
    BY <1>3 DEF BuildPair
  <2>2. (i + 2) \div 2 = (i \div 2) + 1 /\ i \div 2 \in Nat
    BY <1>1
  <2>. QED  BY <1>1, <1>2, <2>1, <2>2 DEF CallLeft
<1>4. CASE BuildLevelDone
  <2>1. /\ pc = "build" /\ pc' = "build" /\ l' = l - 1 /\ i' = 0
        /\ l > 0 /\ i >= n
    BY <1>2, <1>4 DEF BuildLevelDone
  <2>2. PICK a \in Edges : a = l - 1 /\ a + 1 = l
    BY <1>1, <2>1, DepthAssumption DEF Edges
  <2>3. PICK m \in Nat \ {0} : m = Pow2[a] /\ n = 2 * m
    BY <1>2, <2>2, Pow2Doubles, Pow2Type DEF Edges, Levels
  <2>4. i = n
    BY <1>1, <1>2, <2>1 DEF IInv, BuildInv
  <2>5. i \div 2 = m /\ 0 \div 2 = 0
    BY <2>3, <2>4
  <2>6. CallLeft = n - m + l /\ CallLeft' = m - 0 + (l - 1)
    BY <1>2, <2>1, <2>2, <2>3, <2>5 DEF CallLeft
  <2>7. l \in Nat /\ n = 2 * m
    BY <1>1, <2>3
  <2>8. (n - m + l) - 1 = m - 0 + (l - 1)
    BY <2>7
  <2>. QED  BY <2>6, <2>8
<1>5. CASE BuildReturn
  <2>1. pc = "build" /\ pc' = "idle" /\ l = 0
    BY <1>5 DEF BuildReturn
  <2>2. n = 1
    BY <1>2, <2>1, Pow2Assumption
  <2>3. i \div 2 = 0
    BY <1>1, <1>2, <2>1, <2>2 DEF IInv, BuildInv
  <2>. QED  BY <1>2, <2>1, <2>2, <2>3 DEF CallLeft
<1>6. CASE PathStep \/ VerifyStep
  BY <1>1, <1>6 DEF PathStep, VerifyStep, CallLeft
<1>7. CASE PathReturn \/ VerifyReturn
  BY <1>1, <1>7 DEF PathReturn, VerifyReturn, CallLeft
<1>. QED  BY <1>3, <1>4, <1>5, <1>6, <1>7 DEF Step

(* A call that has started returns, after a number of steps that is known  *)
(* when it starts: a build hashes each of the T - 1 pairs once, and a path *)
(* or a verification takes one iteration per level, whatever the period,   *)
(* the leaf and the path are (ev_merkle_verify has no early exit).         *)
THEOREM CallsAreExact ==
    Spec => /\ [](CallLeft \in Nat /\ (CallLeft = 0 <=> Returned))
            /\ [][Step => CallLeft' = CallLeft - 1]_vars
            /\ [][BuildCall => CallLeft' = T + Depth]_vars
            /\ [][PathCall \/ VerifyCall => CallLeft' = Depth + 1]_vars
<1>1. IInv => CallLeft \in Nat /\ (CallLeft = 0 <=> Returned)
  BY CallBound
<1>2. IInv /\ [Next]_vars => [Step => CallLeft' = CallLeft - 1]_vars
  BY CallCounts
<1>3. [Next]_vars => [BuildCall => CallLeft' = T + Depth]_vars
  <2> SUFFICES ASSUME BuildCall PROVE CallLeft' = T + Depth
    OBVIOUS
  <2>1. pc' = "build" /\ l' = Depth /\ i' = 0
    BY DEF BuildCall
  <2>2. CallLeft' = T - (0 \div 2) + Depth
    BY <2>1 DEF CallLeft, T
  <2>. QED  BY <2>2, TPositive, DepthAssumption
<1>4. [Next]_vars => [PathCall \/ VerifyCall => CallLeft' = Depth + 1]_vars
  BY DEF PathCall, VerifyCall, CallLeft
<1>. QED  BY <1>1, <1>2, <1>3, <1>4, Invariance, PTL DEF Spec
=============================================================================
