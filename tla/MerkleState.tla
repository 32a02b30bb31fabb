---------------------------- MODULE MerkleState ----------------------------
(***************************************************************************)
(* The commitment tree of src/evmldsa/ev_merkle.c as operators.            *)
(*                                                                         *)
(* A digest is a term: a leaf digest is a value of the caller's, an inner  *)
(* digest is the pair that was hashed under the node domain.  SHA3-256 is  *)
(* taken to be injective on what this code feeds it.  The whole tree is    *)
(* one flat array in level order, as in the code.                          *)
(***************************************************************************)
EXTENDS TreeIndex

ev_hash_node(left, right) == <<"node", left, right>>

node_off(level, idx) == Pow2[level] - 1 + idx

Offsets == 0..2 * T - 2   \* total_nodes = 2 * (1 << depth) - 1

(* idx ^ 1u: the other child of the same parent.                           *)
sibling(idx) == IF idx % 2 = 0 THEN idx + 1 ELSE idx - 1

(* Mutant: the two children are hashed in the wrong order.                 *)
HashPair_Swapped(levels, l, i) ==
    [levels EXCEPT ![node_off(l-1, i \div 2)] =
        ev_hash_node(levels[node_off(l, i+1)], levels[node_off(l, i)])]

(* One inner iteration of ev_merkle_build: two children are hashed.        *)
HashPair(levels, l, i) ==
    [levels EXCEPT ![node_off(l-1, i \div 2)] =
        ev_hash_node(levels[node_off(l, i)], levels[node_off(l, i+1)])]

(* One iteration of ev_merkle_verify: cur and its sibling are hashed in    *)
(* the order that the low bit of idx tells.                                *)
HashUp(cur, sib, idx) == IF idx % 2 = 1 THEN ev_hash_node(sib, cur)
                                        ELSE ev_hash_node(cur, sib)

-----------------------------------------------------------------------------
(* Reference definitions: the digest of every node from its children, the  *)
(* entry of level l in the authentication path of period p, and the root   *)
(* that a leaf and a path lead to.  Merkle shows that the loops of the     *)
(* code compute these, and the modules that call the tree use them.        *)
TreeOf(digs) ==
    LET node[l \in Levels] ==
          [i \in 0..Pow2[l]-1 |->
              IF l = Depth THEN digs[i]
              ELSE ev_hash_node(node[l+1][2*i], node[l+1][2*i + 1])]
    IN  node

AuthEntry(tree, p, l) == tree[l][sibling(level_index(p, l))]

PathRoot(p, leaf, path) ==
    LET up[l \in Levels] ==
          IF l = Depth THEN leaf
          ELSE HashUp(up[l+1], path[l], level_index(p, l+1))
    IN  up[0]
=============================================================================
