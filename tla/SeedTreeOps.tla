---------------------------- MODULE SeedTreeOps ----------------------------
(***************************************************************************)
(* ev_tree_init and ev_tree_advance as one operator each, for the modules  *)
(* that call them: the loops become recursive functions over the same loop *)
(* bodies.  SeedTree takes them apart step by step; its invariant          *)
(* StepsMatchOps compares the two.                                         *)
(***************************************************************************)
EXTENDS SeedTreeState, FiniteSetsExt

(* for (lvl = from; lvl < depth; lvl++)                                    *)
DescendFrom(tree, from) ==
    LET loop[lvl \in from..Depth] ==
          IF lvl = from THEN tree ELSE DeriveAndDiscard(loop[lvl-1], lvl-1)
    IN  loop[Depth]

ev_tree_init(rootSeed) == DescendFrom(RootOnly(rootSeed), 0)

(* The shallowest level on which the paths to p and p+1 differ.            *)
BranchLevel(p) ==
    Min({l \in 1..Depth : level_index(p, l) # level_index(p+1, l)}
          \cup {Depth})

(* The result is the return code and the struct afterwards.                *)
ev_tree_advance(tree) ==
    LET p == tree.current
        d == BranchLevel(p)
    IN  IF p + 1 >= T THEN [rc |-> -1, tree |-> tree]
        ELSE IF tree.future_valid[d-1] = 0 THEN [rc |-> -2, tree |-> tree]
        ELSE [rc   |-> 0,
              tree |-> [DescendFrom(DiscardAncestors(TakeFuture(tree, d), d), d)
                          EXCEPT !.current = p + 1]]

(* A copy of the tree that is advanced from period 0, as ev_keygen does:   *)
(* walk[p] is its state when the loop reaches period p.                    *)
Walk(tree) ==
    LET walk[p \in Periods] ==
          IF p = 0 THEN tree ELSE ev_tree_advance(walk[p-1]).tree
    IN  walk
=============================================================================
