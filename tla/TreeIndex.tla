----------------------------- MODULE TreeIndex -----------------------------
(***************************************************************************)
(* The index arithmetic that the seed tree (ev_seedtree.c) and the Merkle  *)
(* tree (ev_merkle.c) share: a complete binary tree whose leaves are the   *)
(* periods 0..T-1, with T a power of two.                                  *)
(***************************************************************************)
EXTENDS Integers

CONSTANTS Depth,   \* par.depth: the tree has Depth levels below its root
          Pow2     \* Pow2[k] = 1 << k, for k <= Depth

ASSUME DepthAssumption == Depth \in Nat

ASSUME Pow2Assumption ==
    /\ Pow2 \in [0..Depth -> Nat \ {0}]
    /\ Pow2[0] = 1
    /\ \A k \in 0..Depth-1 : Pow2[k+1] = 2 * Pow2[k]

T       == Pow2[Depth]   \* par.T, the number of periods
Periods == 0..T-1
Levels  == 0..Depth      \* level 0 is the root, level Depth the leaves
Edges   == 0..Depth-1    \* the steps from a level to the one below it

(* Index, within its level, of the node on the path from the root to leaf. *)
level_index(leaf, level) == leaf \div Pow2[Depth - level]
=============================================================================
