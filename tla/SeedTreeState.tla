--------------------------- MODULE SeedTreeState ---------------------------
(***************************************************************************)
(* The struct ev_tree_state of src/evmldsa/ev_seedtree.h and the pieces of *)
(* ev_seedtree.c that read or write it, as operators on one record.        *)
(*                                                                         *)
(* A seed is a 32-byte string that SHA3 derived from another one.  It is   *)
(* modelled by how it was derived: the string it started from (the root    *)
(* seed, or the all-zero string that memset leaves behind) and the node of *)
(* the binary tree that the left/right steps lead to.  Origin 0 is the     *)
(* all-zero string, origin n > 0 the n-th root seed.  Derivation is        *)
(* injective on these terms, so a seed equals the one wanted only if it    *)
(* was derived from the right parent on the right side, and a child of an  *)
(* erased slot is a node of the tree of origin 0, of no use to any period. *)
(***************************************************************************)
EXTENDS TreeIndex, FiniteSets

Seed == [origin : Nat, lvl : Nat, idx : Nat]

(* Node i on level l of the tree of the first root seed.                   *)
Node(l, i) == [origin |-> 1, lvl |-> l, idx |-> i]
Zero       == [origin |-> 0, lvl |-> 0, idx |-> 0]

EV_DOM_LEFT  == 1
EV_DOM_RIGHT == 2

(* Mutant: the side is counted from the wrong end.                         *)
ev_derive_child_OffByOne(seed, dom) ==
    [origin |-> seed.origin,
     lvl    |-> seed.lvl + 1,
     idx    |-> 2 * seed.idx + (dom - EV_DOM_RIGHT)]

ev_derive_child(seed, dom) ==
    [origin |-> seed.origin,
     lvl    |-> seed.lvl + 1,
     idx    |-> 2 * seed.idx + (dom - EV_DOM_LEFT)]

-----------------------------------------------------------------------------
TreeState == [path         : [Levels -> Seed],
              future       : [Edges -> Seed],
              future_valid : [Edges -> {0, 1}],
              current      : Periods]

(* What ev_tree_init writes before its loop: memset, then the root seed.   *)
RootOnly(root) ==
    [path         |-> [l \in Levels |-> IF l = 0 THEN root ELSE Zero],
     future       |-> [l \in Edges |-> Zero],
     future_valid |-> [l \in Edges |-> 0],
     current      |-> 0]

(* Mutants: the parent is not zeroed, or it is zeroed too early.           *)
DeriveAndDiscard_KeepsParent(tree, lvl) ==
    LET seed == tree.path[lvl] IN
    [tree EXCEPT !.path[lvl+1] = ev_derive_child(seed, EV_DOM_LEFT),
                 !.future[lvl] = ev_derive_child(seed, EV_DOM_RIGHT),
                 !.future_valid[lvl] = 1]

DeriveAndDiscard_ZeroesFirst(tree, lvl) ==
    LET seed == tree.path[lvl] IN
    [tree EXCEPT !.path[lvl+1] = ev_derive_child(seed, EV_DOM_LEFT),
                 !.path[lvl] = Zero,
                 !.future[lvl] = ev_derive_child(Zero, EV_DOM_RIGHT),
                 !.future_valid[lvl] = 1]

(* Body of the descent loops of ev_tree_init and ev_tree_advance: both     *)
(* children of path[lvl] are derived and path[lvl] is zeroed.              *)
DeriveAndDiscard(tree, lvl) ==
    LET seed == tree.path[lvl] IN
    [path         |-> [tree.path EXCEPT
                         ![lvl+1] = ev_derive_child(seed, EV_DOM_LEFT),
                         ![lvl]   = Zero],
     future       |-> [tree.future EXCEPT
                         ![lvl] = ev_derive_child(seed, EV_DOM_RIGHT)],
     future_valid |-> [tree.future_valid EXCEPT ![lvl] = 1],
     current      |-> tree.current]

(* Mutants: the consumed slot keeps its seed, or its flag.                 *)
TakeFuture_KeepsSeed(tree, diff_level) ==
    [tree EXCEPT !.path[diff_level] = tree.future[diff_level - 1],
                 !.future_valid[diff_level - 1] = 0]

TakeFuture_KeepsFlag(tree, diff_level) ==
    [tree EXCEPT !.path[diff_level] = tree.future[diff_level - 1],
                 !.future[diff_level - 1] = Zero]

(* The stored right sibling at the branch point becomes the new path node. *)
TakeFuture(tree, diff_level) ==
    LET parent == diff_level - 1 IN
    [path         |-> [tree.path EXCEPT ![diff_level] = tree.future[parent]],
     future       |-> [tree.future EXCEPT ![parent] = Zero],
     future_valid |-> [tree.future_valid EXCEPT ![parent] = 0],
     current      |-> tree.current]

(* Every path node above the branch point is zeroed.                       *)
DiscardAncestors(tree, diff_level) ==
    [tree EXCEPT !.path = [l \in Levels |-> IF l < diff_level THEN Zero
                                                              ELSE @[l]]]

ev_tree_leaf(tree) == tree.path[Depth]

(* Two derivations are counted for every live frontier entry.              *)
ev_tree_descents(tree) ==
    2 * Cardinality({l \in Edges : tree.future_valid[l] = 1})

-----------------------------------------------------------------------------
(* What can be re-derived from a state: used by the properties only.       *)
Covers(seed, q) == /\ seed.origin # 0
                   /\ level_index(q, seed.lvl) = seed.idx

Holders(tree, q) ==
    {<<"path", l>>   : l \in {k \in Levels : Covers(tree.path[k], q)}} \cup
    {<<"future", l>> : l \in {k \in Edges  : Covers(tree.future[k], q)}}

Derivable(tree) == {q \in Periods : Holders(tree, q) # {}}
=============================================================================
