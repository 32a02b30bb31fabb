------------------------------ MODULE SeedTree ------------------------------
(***************************************************************************)
(* The GGM seed tree of src/evmldsa/ev_seedtree.c, one step per loop       *)
(* iteration or straight-line block of ev_tree_init and ev_tree_advance.   *)
(* pc is the place in the code, lvl and diff_level are its locals, rc is   *)
(* what the last ev_tree_advance returned.  The local p equals st.current  *)
(* until the last assignment of ev_tree_advance.                           *)
(***************************************************************************)
EXTENDS SeedTreeOps

VARIABLES st, pc, lvl, diff_level, rc

vars == <<st, pc, lvl, diff_level, rc>>

root == Node(0, 0)

TypeOK == /\ st \in TreeState
          /\ pc \in {"init", "idle", "scan", "take", "descend"}
          /\ lvl \in 0..Depth+1
          /\ diff_level \in Levels
          /\ rc \in {0, -1, -2}

Init == /\ st = RootOnly(root)
        /\ pc = "init"
        /\ lvl = 0
        /\ diff_level = 0
        /\ rc = 0

-----------------------------------------------------------------------------
(* ev_tree_init: the descent from the root to leaf 0.                      *)
InitLoop == /\ pc = "init"
            /\ lvl < Depth
            /\ st' = DeriveAndDiscard(st, lvl)
            /\ lvl' = lvl + 1
            /\ UNCHANGED <<pc, diff_level, rc>>

InitReturn == /\ pc = "init"
              /\ lvl >= Depth
              /\ pc' = "idle"
              /\ UNCHANGED <<st, lvl, diff_level, rc>>

-----------------------------------------------------------------------------
(* Mutant: the last period wraps around to a fresh tree.                   *)
AdvanceRefused_Wraps == /\ pc = "idle"
                        /\ st.current + 1 >= T
                        /\ st' = RootOnly(root)
                        /\ pc' = "init"
                        /\ lvl' = 0
                        /\ UNCHANGED <<diff_level, rc>>

(* ev_tree_advance: refused in the last period.                            *)
AdvanceRefused == /\ pc = "idle"
                  /\ st.current + 1 >= T
                  /\ rc' = -1
                  /\ UNCHANGED <<st, pc, lvl, diff_level>>

(* Mutant: the period is counted before anything is erased.                *)
AdvanceCall_CountsFirst == /\ pc = "idle"
                           /\ st.current + 1 < T
                           /\ st' = [st EXCEPT !.current = @ + 1]
                           /\ diff_level' = Depth
                           /\ lvl' = 1
                           /\ pc' = "scan"
                           /\ UNCHANGED rc

AdvanceCall == /\ pc = "idle"
               /\ st.current + 1 < T
               /\ diff_level' = Depth
               /\ lvl' = 1
               /\ pc' = "scan"
               /\ UNCHANGED <<st, rc>>

(* Top-down scan for the shallowest level where the two paths differ.      *)
SamePathAt(l) == level_index(st.current, l) = level_index(st.current + 1, l)

(* Mutant: the loop variable is not advanced.                              *)
ScanNext_NoStep == /\ pc = "scan"
                   /\ lvl <= Depth
                   /\ SamePathAt(lvl)
                   /\ UNCHANGED vars

ScanNext == /\ pc = "scan"
            /\ lvl <= Depth
            /\ SamePathAt(lvl)
            /\ lvl' = lvl + 1
            /\ UNCHANGED <<st, pc, diff_level, rc>>

(* Mutant: the branch point that was found is not stored.                  *)
ScanStop_KeepsDefault == /\ pc = "scan"
                         /\ ~(lvl <= Depth /\ SamePathAt(lvl))
                         /\ pc' = "take"
                         /\ UNCHANGED <<st, lvl, diff_level, rc>>

ScanStop == /\ pc = "scan"
            /\ ~(lvl <= Depth /\ SamePathAt(lvl))
            /\ diff_level' = IF lvl <= Depth THEN lvl ELSE diff_level
            /\ pc' = "take"
            /\ UNCHANGED <<st, lvl, rc>>

(* The corruption guard, then the sibling is consumed and the ancestors    *)
(* are zeroed.                                                             *)
Take == /\ pc = "take"
        /\ IF st.future_valid[diff_level-1] = 0
             THEN /\ rc' = -2
                  /\ pc' = "idle"
                  /\ UNCHANGED <<st, lvl>>
             ELSE /\ st' = DiscardAncestors(TakeFuture(st, diff_level),
                                            diff_level)
                  /\ lvl' = diff_level
                  /\ pc' = "descend"
                  /\ UNCHANGED rc
        /\ UNCHANGED diff_level

Descend == /\ pc = "descend"
           /\ lvl < Depth
           /\ st' = DeriveAndDiscard(st, lvl)
           /\ lvl' = lvl + 1
           /\ UNCHANGED <<pc, diff_level, rc>>

(* Mutant: the period is not counted.                                      *)
AdvanceReturn_KeepsPeriod == /\ pc = "descend"
                             /\ lvl >= Depth
                             /\ rc' = 0
                             /\ pc' = "idle"
                             /\ UNCHANGED <<st, lvl, diff_level>>

AdvanceReturn == /\ pc = "descend"
                 /\ lvl >= Depth
                 /\ st' = [st EXCEPT !.current = @ + 1]
                 /\ rc' = 0
                 /\ pc' = "idle"
                 /\ UNCHANGED <<lvl, diff_level>>

Step == InitLoop \/ InitReturn \/ ScanNext \/ ScanStop \/ Take \/ Descend
          \/ AdvanceReturn

Next == Step \/ AdvanceRefused \/ AdvanceCall

(* A call that has started runs to its end; nobody has to make a call.     *)
Spec == Init /\ [][Next]_vars /\ WF_vars(Step)

-----------------------------------------------------------------------------
(* No seed held anywhere in the struct, between calls or between two       *)
(* iterations of a call's loops, lets a period before the current one be   *)
(* derived again (ERASURE CRITICAL, ev_seedtree.c:19 and :58;              *)
(* no_past_ancestor of ev_c4_selftest.c).                                  *)
Erasure == \A q \in Periods : q < st.current => Holders(st, q) = {}

(* Between calls the only seed on the path is that of the current leaf: no *)
(* ancestor survives that would re-derive it after the next advance.       *)
OnlyLeafOnPath ==
    pc = "idle" => \A l \in Levels :
        st.path[l] = IF l = Depth THEN Node(Depth, st.current) ELSE Zero

(* Nothing is erased too early either: each later period can be derived    *)
(* from exactly one retained seed, between two iterations of an advance    *)
(* too, and between calls so can the current one.                          *)
NoPeriodLost ==
    \A q \in Periods :
        (q > st.current \/ (q = st.current /\ pc = "idle"))
            => Cardinality(Holders(st, q)) = 1

(* The live flags and the frontier seeds agree: a slot is live exactly     *)
(* when it holds a seed, between calls and between the iterations of one.  *)
FlagsMatchSeeds ==
    \A l \in Edges : st.future_valid[l] = 1 <=> st.future[l] # Zero

(* Between calls the step-by-step tree is the one that the operators used  *)
(* by the composed modules compute for the same number of advances.        *)
StepsMatchOps == pc = "idle" => st = Walk(ev_tree_init(root))[st.current]

(* The corruption guard of ev_tree_advance is dead code: the sibling that  *)
(* the branch point needs is always live.                                  *)
GuardNeverFires == rc # -2

(* A step may only lose periods: what cannot be derived now can never be   *)
(* derived again, from any later state.                                    *)
NeverRegained == [][Derivable(st') \subseteq Derivable(st)]_vars

(* A caller that keeps advancing, as the loops of ev_keygen and of the     *)
(* self tests do, reaches the last period and stays there with a usable    *)
(* leaf.                                                                   *)
WalkCompletes ==
    WF_vars(AdvanceCall) =>
        <>[](/\ pc = "idle"
             /\ st.current = T - 1
             /\ ev_tree_leaf(st) = Node(Depth, T - 1))

(* The tree implements the abstract forward-only key.                      *)
Key == INSTANCE ForwardKey WITH LastPeriod <- T - 1,
                                period <- st.current,
                                usable <- Derivable(st)
ImplementsForwardKey == Key!Spec

-----------------------------------------------------------------------------
(* The inductive invariant.  In period t the frontier slot l is live       *)
(* exactly when the path to t turns left below level l, and then it holds  *)
(* the right sibling of the node the path goes to.                         *)
Frontier(t, l) ==
    LET i == level_index(t, l+1) IN
    IF i % 2 = 0 THEN /\ st.future_valid[l] = 1
                      /\ st.future[l] = Node(l+1, i+1)
                 ELSE /\ st.future_valid[l] = 0
                      /\ st.future[l] = Zero

(* In ev_tree_init the single seed moves down the leftmost path.           *)
InitInv ==
    pc = "init" =>
        /\ st.current = 0
        /\ lvl \in Levels
        /\ \A l \in Levels : st.path[l] = IF l = lvl THEN Node(l, 0) ELSE Zero
        /\ \A l \in Edges : IF l < lvl THEN Frontier(0, l)
                            ELSE st.future_valid[l] = 0 /\ st.future[l] = Zero

(* Until the guard of ev_tree_advance has passed, the struct is that of    *)
(* the current period.                                                     *)
SettledInv ==
    pc \in {"idle", "scan", "take"} =>
        /\ \A l \in Levels :
               st.path[l] = IF l = Depth THEN Node(l, st.current) ELSE Zero
        /\ \A l \in Edges : Frontier(st.current, l)

(* The scan has passed only levels that the two paths share.               *)
ScanInv ==
    /\ pc = "scan" => /\ st.current + 1 < T
                      /\ lvl \in 1..Depth+1
                      /\ \A l \in 1..lvl-1 : SamePathAt(l)
    /\ pc = "take" => /\ st.current + 1 < T
                      /\ diff_level \in 1..Depth
                      /\ \A l \in 1..diff_level-1 : SamePathAt(l)
                      /\ ~SamePathAt(diff_level)

(* The descent to the next leaf: above lvl the struct is already that of   *)
(* period p+1, at and below lvl it is still that of period p.              *)
DescendInv ==
    pc = "descend" =>
        /\ st.current + 1 < T
        /\ lvl \in 1..Depth
        /\ ~SamePathAt(lvl)
        /\ \A l \in Levels :
               st.path[l] = IF l = lvl
                              THEN Node(l, level_index(st.current + 1, l))
                              ELSE IF l = Depth THEN Node(l, st.current)
                              ELSE Zero
        /\ \A l \in Edges : IF l < lvl THEN Frontier(st.current + 1, l)
                                       ELSE Frontier(st.current, l)

IInv == /\ TypeOK
        /\ InitInv
        /\ SettledInv
        /\ ScanInv
        /\ DescendInv
        /\ GuardNeverFires

-----------------------------------------------------------------------------
(* ev_seedtree.h:32 says that ev_tree_descents is the number of one-way    *)
(* derivations needed to reach the leaf from the root, which is at least   *)
(* one per level.                                                          *)
DescentsReachLeaf == pc = "idle" => ev_tree_descents(st) >= Depth
=============================================================================
