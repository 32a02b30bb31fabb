------------------------------ MODULE SelfTest ------------------------------
(***************************************************************************)
(* src/evmldsa/ev_c4_selftest.c, run_one: a key is taken through its whole *)
(* life, and in four of its periods a signature is made, verified,         *)
(* spoilt in four ways, and the tree searched for seeds of the past.       *)
(*                                                                         *)
(* It runs with enough memory.  Without, it looks into a struct that a     *)
(* failed ev_keygen has not filled (line 53), and changes the byte before  *)
(* its buffer if ev_sign failed (line 74).                                 *)
(***************************************************************************)
EXTENDS EvMlDsa, Sequences

VARIABLES step,      \* "start", "loop", "check", "free" or "end"
          visit,     \* the loop index i, from 1
          failed     \* fails > 0

tvars == <<step, visit, failed>>

periods == <<0, 1, T \div 2, T - 1>>

TestMessage == <<0, 0>>

TestInit == step = "start" /\ visit = 1 /\ failed = FALSE

CHECK(c) == failed' = (failed \/ ~c)

TestKeygen == /\ step = "start"
              /\ Keygen(1, {})
              /\ CHECK(rc' = 0)
              /\ step' = "loop"
              /\ UNCHANGED visit

(* while (sk.tree.current < p): nothing but the period ends this loop.     *)
EvolveTo == /\ step = "loop" /\ visit <= Len(periods)
            /\ sk.tree.current < periods[visit]
            /\ Evolve
            /\ CHECK(rc' = 0)
            /\ UNCHANGED <<step, visit>>

TestSign == /\ step = "loop" /\ visit <= Len(periods)
            /\ ~(sk.tree.current < periods[visit])
            /\ Sign(TestMessage)
            /\ CHECK(rc' = 0)
            /\ step' = "check"
            /\ UNCHANGED visit

(* One bit of the period tag, of the leaf key, of the last path entry, of  *)
(* the leaf signature.                                                     *)
Spoilt == {[sig EXCEPT !.p = IF @ % 2 = 0 THEN @ + 1 ELSE @ - 1],
           [sig EXCEPT !.t1.seed = Zero],
           [sig EXCEPT !.path[Depth-1] = ZeroDigest],
           [sig EXCEPT !.fswa.key.seed = Zero]}

state_has(tree, seed) == \/ \E l \in Levels : tree.path[l] = seed
                         \/ \E l \in Edges : /\ tree.future_valid[l] = 1
                                             /\ tree.future[l] = seed

(* Every ancestor of q is derived again from the root seed of the test.    *)
Ancestors(q) ==
    LET node[l \in Levels] ==
          IF l = 0 THEN RootSeed(1)
          ELSE ev_derive_child(node[l-1], IF level_index(q, l) % 2 = 1
                                            THEN EV_DOM_RIGHT
                                            ELSE EV_DOM_LEFT)
    IN  node

no_past_ancestor(tree, upto) ==
    \A q \in 0..upto, l \in Levels :
        (l < Depth \/ q < upto) => ~state_has(tree, Ancestors(q)[l])

TestChecks ==
    /\ step = "check"
    /\ CHECK(/\ ev_verify(pk, TestMessage, sig, siglen, "none") = 0
             /\ \A bad \in Spoilt :
                    ev_verify(pk, TestMessage, bad, siglen, "none") # 0
             /\ no_past_ancestor(sk.tree, periods[visit]))
    /\ visit' = visit + 1
    /\ step' = "loop"
    /\ UNCHANGED vars

TestLastEvolve == /\ step = "loop" /\ visit > Len(periods)
                  /\ Evolve
                  /\ CHECK(rc' # 0)
                  /\ step' = "free"
                  /\ UNCHANGED visit

TestFree == /\ step = "free"
            /\ MerkleFree
            /\ step' = "end"
            /\ UNCHANGED <<visit, failed>>

TestSteps == EvolveTo \/ TestSign \/ TestChecks \/ TestLastEvolve \/ TestFree

-----------------------------------------------------------------------------
(* "C4 SELFTEST: ALL PASS" (ev_c4_selftest.c:94): what evolves, signs and  *)
(* verifies does so in each visited period, no spoilt signature is         *)
(* accepted, no past seed is found, and the period after the last refuses. *)
AllPass == ~failed
=============================================================================
