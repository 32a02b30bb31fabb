------------------------------- MODULE Merkle -------------------------------
(***************************************************************************)
(* The functions of src/evmldsa/ev_merkle.c as their caller sees them: one *)
(* tree is built, its paths are copied out, leaves are verified against    *)
(* the root that was published, and the tree is freed.  Each loop          *)
(* iteration is one step; pc tells which function runs, and after a call   *)
(* of ev_merkle_path or ev_merkle_verify it waits in "pathed" or           *)
(* "verified" until the caller has looked at the result.                   *)
(***************************************************************************)
EXTENDS MerkleState

CONSTANTS Leaf,     \* the leaf digests a caller may pass in
          Forged,   \* a digest that no tree contains
          Junk,     \* what malloc returns before it is written
          NULL

VARIABLES pc,
          digs,               \* the caller's array of leaf digests
          levels,             \* mt->levels
          root,               \* the published copy of levels[0] (pk->root)
          l, i, idx, cur,     \* locals of the loops
          p, leaf, path,      \* arguments and results of a call
          rc                  \* what the last call returned

locals == <<l, i, idx, cur>>
caller == <<p, leaf, path>>
vars   == <<pc, digs, levels, root, locals, caller, rc>>

NoPath == [k \in Edges |-> Junk]

Init == /\ pc = "none"
        /\ digs \in [Periods -> Leaf]
        /\ levels = NULL
        /\ root = NULL
        /\ l = 0 /\ i = 0 /\ idx = 0 /\ cur = NULL
        /\ p = 0 /\ leaf = NULL /\ path = NoPath
        /\ rc = 0

-----------------------------------------------------------------------------
(* ev_merkle_build: out of memory, or the leaves go to the deepest level.  *)
BuildFails == /\ pc = "none"
              /\ levels' = NULL
              /\ rc' = -1
              /\ UNCHANGED <<pc, digs, root, locals, caller>>

BuildCall == /\ pc = "none"
             /\ levels' = [o \in Offsets |->
                             IF o >= node_off(Depth, 0)
                               THEN digs[o - node_off(Depth, 0)] ELSE Junk]
             /\ l' = Depth
             /\ i' = 0
             /\ pc' = "build"
             /\ UNCHANGED <<digs, root, idx, cur, caller, rc>>

BuildPair == /\ pc = "build"
             /\ l > 0
             /\ i < Pow2[l]
             /\ levels' = HashPair(levels, l, i)
             /\ i' = i + 2
             /\ UNCHANGED <<pc, digs, root, l, idx, cur, caller, rc>>

(* Mutant: the level is not counted down.                                  *)
BuildLevelDone_SameLevel == /\ pc = "build"
                            /\ l > 0
                            /\ i >= Pow2[l]
                            /\ i' = 0
                            /\ UNCHANGED <<pc, digs, levels, root, l, idx, cur,
                                           caller, rc>>

BuildLevelDone == /\ pc = "build"
                  /\ l > 0
                  /\ i >= Pow2[l]
                  /\ l' = l - 1
                  /\ i' = 0
                  /\ UNCHANGED <<pc, digs, levels, root, idx, cur, caller, rc>>

(* The build returns 0 and the caller publishes the root.                  *)
BuildReturn == /\ pc = "build"
               /\ l = 0
               /\ root' = levels[0]
               /\ rc' = 0
               /\ pc' = "idle"
               /\ UNCHANGED <<digs, levels, locals, caller>>

-----------------------------------------------------------------------------
(* ev_merkle_path: a freed tree refuses, a built one copies siblings out.  *)
PathRefused == /\ pc = "idle"
               /\ levels = NULL
               /\ rc' = -1
               /\ UNCHANGED <<pc, digs, levels, root, locals, caller>>

PathCall == /\ pc = "idle"
            /\ levels # NULL
            /\ p' \in Periods
            /\ idx' = p'
            /\ l' = Depth
            /\ pc' = "path"
            /\ UNCHANGED <<digs, levels, root, i, cur, leaf, path, rc>>

(* Mutants: the index is not shifted, or shifted the wrong way.            *)
PathStep_NoShift == /\ pc = "path"
                    /\ l > 0
                    /\ path' = [path EXCEPT ![l-1] =
                                   levels[node_off(l, sibling(idx))]]
                    /\ l' = l - 1
                    /\ UNCHANGED <<pc, digs, levels, root, i, idx, cur, p, leaf,
                                   rc>>

PathStep_ShiftsLeft == /\ pc = "path"
                       /\ l > 0
                       /\ path' = [path EXCEPT ![l-1] =
                                      levels[node_off(l, sibling(idx))]]
                       /\ idx' = idx * 2
                       /\ l' = l - 1
                       /\ UNCHANGED <<pc, digs, levels, root, i, cur, p, leaf,
                                      rc>>

PathStep == /\ pc = "path"
            /\ l > 0
            /\ path' = [path EXCEPT ![l-1] = levels[node_off(l, sibling(idx))]]
            /\ idx' = idx \div 2
            /\ l' = l - 1
            /\ UNCHANGED <<pc, digs, levels, root, i, cur, p, leaf, rc>>

PathReturn == /\ pc = "path"
              /\ l = 0
              /\ rc' = 0
              /\ pc' = "pathed"
              /\ UNCHANGED <<digs, levels, root, locals, caller>>

-----------------------------------------------------------------------------
(* ev_merkle_verify against the published root, with any leaf and path     *)
(* made of digests of the tree and one that is not in it.                  *)
Candidates ==
    {Forged} \cup
    UNION {{TreeOf(digs)[k][j] : j \in 0..Pow2[k]-1} : k \in Levels}

VerifyCall == /\ pc = "idle"
              /\ p' \in Periods
              /\ leaf' \in Leaf \cup {Forged}
              /\ path' \in [Edges -> Candidates]
              /\ cur' = leaf'
              /\ idx' = p'
              /\ l' = Depth
              /\ pc' = "verify"
              /\ UNCHANGED <<digs, levels, root, i, rc>>

(* Mutant: the index is not shifted.                                       *)
VerifyStep_NoShift == /\ pc = "verify"
                      /\ l > 0
                      /\ cur' = HashUp(cur, path[l-1], idx)
                      /\ l' = l - 1
                      /\ UNCHANGED <<pc, digs, levels, root, i, idx, caller,
                                     rc>>

VerifyStep == /\ pc = "verify"
              /\ l > 0
              /\ cur' = HashUp(cur, path[l-1], idx)
              /\ idx' = idx \div 2
              /\ l' = l - 1
              /\ UNCHANGED <<pc, digs, levels, root, i, caller, rc>>

VerifyReturn == /\ pc = "verify"
                /\ l = 0
                /\ rc' = IF cur = root THEN 1 ELSE 0
                /\ pc' = "verified"
                /\ UNCHANGED <<digs, levels, root, locals, caller>>

(* The caller has used the result and drops its buffers.                   *)
CallerDone == /\ pc \in {"pathed", "verified"}
              /\ pc' = "idle"
              /\ l' = 0 /\ i' = 0 /\ idx' = 0 /\ cur' = NULL
              /\ p' = 0 /\ leaf' = NULL /\ path' = NoPath
              /\ rc' = 0
              /\ UNCHANGED <<digs, levels, root>>

(* ev_merkle_free.                                                         *)
Free == /\ pc = "idle"
        /\ levels' = NULL
        /\ UNCHANGED <<pc, digs, root, locals, caller, rc>>

-----------------------------------------------------------------------------
Step == BuildPair \/ BuildLevelDone \/ BuildReturn \/ PathStep \/ PathReturn
          \/ VerifyStep \/ VerifyReturn

Next == \/ BuildFails \/ BuildCall \/ PathRefused \/ PathCall \/ VerifyCall
        \/ CallerDone \/ Free \/ Step

Spec == Init /\ [][Next]_vars /\ WF_vars(Step)

TypeOK == /\ pc \in {"none", "build", "idle", "path", "pathed", "verify",
                     "verified"}
          /\ digs \in [Periods -> Leaf]
          /\ levels = NULL \/ DOMAIN levels = Offsets
          /\ l \in Levels
          /\ i \in 0..T
          /\ idx \in Periods
          /\ p \in Periods
          /\ DOMAIN path = Edges
          /\ rc \in {0, 1, -1}

-----------------------------------------------------------------------------
(* A finished build has written every node of the flat array once it can   *)
(* be read: each offset holds the digest of the node it stands for, and    *)
(* the published root is that of the tree.                                 *)
BuildComplete ==
    pc \notin {"none", "build"} =>
        /\ root = TreeOf(digs)[0][0]
        /\ levels # NULL =>
             \A k \in Levels : \A j \in 0..Pow2[k]-1 :
                 levels[node_off(k, j)] = TreeOf(digs)[k][j]

(* A path that was copied out holds, on each level, the sibling of the     *)
(* node on the way to its period: no level is skipped, swapped or stale.   *)
PathIsAuth ==
    pc = "pathed" => \A k \in 1..Depth :
        path[k-1] = AuthEntry(TreeOf(digs), p, k)

(* ev_merkle_verify accepts exactly the committed leaf of that period with *)
(* its own path; another leaf, period, path or order of siblings fails,    *)
(* and a freed signer tree changes nothing for the verifier.  What it      *)
(* compares is the root that the leaf and the path lead to.                *)
VerifyIffCommitted ==
    pc = "verified" =>
        /\ rc = 1 <=> /\ leaf = digs[p]
                      /\ \A k \in 1..Depth :
                             path[k-1] = AuthEntry(TreeOf(digs), p, k)
        /\ cur = PathRoot(p, leaf, path)

(* Every call that has started returns.                                    *)
CallsReturn == (pc \in {"build", "path", "verify"})
                 ~> (pc \in {"idle", "pathed", "verified"})
=============================================================================
