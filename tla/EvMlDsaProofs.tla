--------------------------- MODULE EvMlDsaProofs ---------------------------
(***************************************************************************)
(* Proofs about the scheme of evmldsa.c, for every depth, build, set of    *)
(* failing mallocs and number of calls.  The seed tree and the commitment  *)
(* tree are used through the lemmas about their operators; here it is      *)
(* shown that what ev_keygen, ev_evolve and ev_sign leave in the structs   *)
(* and in the caller's buffer fits together.                               *)
(***************************************************************************)
EXTENDS EvMlDsa, TreeProofs

-----------------------------------------------------------------------------
(* What the scheme computes from a matrix seed rho and the root seed r, in *)
(* build b; z are the periods whose leaf digest ran out of memory.         *)
MatrixSeed(b, rho, p) == IF b THEN rho ELSE <<"period", rho, p>>

KeyOf(b, rho, r, p) == LeafKey(MatrixSeed(b, rho, p), NodeOf(r, Depth, p))

PairOf(b, rho, r, p) ==
    ev_leaf_keypair(MatrixSeed(b, rho, p), NodeOf(r, Depth, p))

Digests(b, rho, r, z) ==
    [p \in Periods |-> ev_merkle_leafdigest(KeyOf(b, rho, r, p), p \in z)]

Committed(b, rho, r, z) == TreeOf(Digests(b, rho, r, z))

OwnPathOf(tree, p) == [k \in Edges |-> AuthEntry(tree, p, k+1)]

Accepts(b, key, m, s) ==
    /\ s.p < T
    /\ PathRoot(s.p, <<"leaf", s.t1>>, s.path) = key.root
    /\ s.fswa = crypto_sign_signature(<<s.p, m>>, s.t1)
    /\ s.t1.mat = MatrixSeed(b, key.rho, s.p)

(* A leaf digest is zero only where the malloc failed, and it determines   *)
(* the leaf key (ev_merkle_leafdigest).                                    *)
LEMMA LeafDigestIs ==
    ASSUME NEW k, NEW n
    PROVE  /\ ev_merkle_leafdigest(k, FALSE) = <<"leaf", k>>
           /\ ev_merkle_leafdigest(k, TRUE) # <<"leaf", n>>
           /\ <<"leaf", k>> = <<"leaf", n>> <=> k = n
  BY DEF ev_merkle_leafdigest, ZeroDigest

(* The seed tree in period t of root seed r.                               *)
LEMMA TreeFacts ==
    ASSUME NEW r \in Nat, NEW t \in Periods
    PROVE  /\ TreeIn(r, t).current = t
           /\ ev_tree_leaf(TreeIn(r, t)) = NodeOf(r, Depth, t)
           /\ TreeIn(r, t) \in TreeState
<1>1. Zero \in Seed /\ Depth \in Levels
  BY DepthAssumption DEF Zero, Seed, Levels
<1>2. TreeIn(r, t) \in TreeState
  BY <1>1, DescentType DEF TreeIn
<1>3. ev_tree_leaf(TreeIn(r, t)) = NodeOf(r, Depth, t)
  BY <1>1, IndexEnds DEF ev_tree_leaf, TreeIn, Descent, DescentPath
<1>. QED  BY <1>2, <1>3 DEF TreeIn, Descent

(* ev_tree_init on a root seed gives the tree of period 0.                 *)
LEMMA FreshTree ==
    ASSUME NEW r \in Roots
    PROVE  ev_tree_init(RootSeed(r)) = TreeIn(r, 0)
<1>1. RootSeed(r) = NodeOf(r, 0, 0) /\ r \in Nat
  BY RootsAssumption DEF RootSeed, Zero, NodeOf
<1>. QED  BY <1>1, InitTree

(* The walker of ev_keygen meets the leaf of every period.                 *)
LEMMA DigestsAre ==
    ASSUME NEW rho, NEW r \in Roots, NEW z
    PROVE  LeafDigests(rho, TreeIn(r, 0), z) = Digests(legacy, rho, r, z)
<1>1. r \in Nat
  BY RootsAssumption
<1>2. PICK W : W = Walk(TreeIn(r, 0))
  OBVIOUS
<1>3. \A p \in Periods : ev_tree_leaf(W[p]) = NodeOf(r, Depth, p)
  BY <1>1, <1>2, WalkTree, TreeFacts
<1>4. \A p \in Periods :
         ev_merkle_leafdigest(
            ev_leaf_keypair(ev_matrix_seed(rho, p), ev_tree_leaf(W[p])).t1,
            p \in z)
           = ev_merkle_leafdigest(KeyOf(legacy, rho, r, p), p \in z)
  BY <1>3 DEF ev_leaf_keypair, ev_matrix_seed, MatrixSeed, KeyOf
<1>. QED  BY <1>2, <1>4, Zenon DEF LeafDigests, Digests

(* What ev_verify accepts when no malloc fails, and the most it accepts    *)
(* when the malloc of the composite message fails, or that of the digest.  *)
LEMMA VerifyIs ==
    ASSUME NEW key, NEW m, NEW s, s.p \in Periods, NEW len, NEW oom
    PROVE  /\ ev_verify(key, m, s, SigBytes, "none") = 0
                <=> Accepts(legacy, key, m, s)
           /\ ev_verify(key, m, s, len, oom) = 0 =>
                 \/ oom # "digest" /\ Accepts(legacy, key, m, s)
                 \/ /\ oom = "digest"
                    /\ PathRoot(s.p, ZeroDigest, s.path) = key.root
<1>1. s.p < T /\ ~(s.p >= T)
  BY TPositive DEF Periods
<1>2. /\ ev_merkle_leafdigest(s.t1, "none" = "digest") = <<"leaf", s.t1>>
      /\ oom # "digest" =>
           ev_merkle_leafdigest(s.t1, oom = "digest") = <<"leaf", s.t1>>
      /\ oom = "digest" =>
           ev_merkle_leafdigest(s.t1, oom = "digest") = ZeroDigest
  BY DEF ev_merkle_leafdigest
<1>3. crypto_sign_verify(s.fswa, Composite(s.p, m),
                         ev_matrix_seed(key.rho, s.p), s.t1)
        <=> /\ s.fswa = crypto_sign_signature(<<s.p, m>>, s.t1)
            /\ s.t1.mat = MatrixSeed(legacy, key.rho, s.p)
  BY Zenon DEF crypto_sign_verify, Composite, ev_matrix_seed, MatrixSeed
<1>4. ev_verify(key, m, s, SigBytes, "none") = 0
        <=> Accepts(legacy, key, m, s)
  BY <1>1, <1>2, <1>3 DEF ev_verify, Accepts, SigBytes
<1>5. ASSUME ev_verify(key, m, s, len, oom) = 0
      PROVE  /\ PathRoot(s.p, ev_merkle_leafdigest(s.t1, oom = "digest"),
                         s.path) = key.root
             /\ crypto_sign_verify(s.fswa, Composite(s.p, m),
                                   ev_matrix_seed(key.rho, s.p), s.t1)
  BY <1>1, <1>5 DEF ev_verify
<1>. QED  BY <1>1, <1>2, <1>3, <1>4, <1>5, Zenon DEF Accepts

-----------------------------------------------------------------------------
(* The inductive invariant, in parts.                                      *)
(*                                                                         *)
(* Fields: which fields the structs have.                                  *)
Fields == /\ DOMAIN sk = {"tree", "mt", "rho", "leaf_rho", "leaf"}
          /\ DOMAIN pk = {"rho", "root"}

(* Once a key generation has got to the seed tree, that is the tree of     *)
(* some root seed in some period, and unless it is fresh the leaf cache is *)
(* that of the period under sk.rho, whatever failed before.                *)
InTree(r, t) == /\ sk.tree = TreeIn(r, t)
                /\ t # 0 => sk.leaf = PairOf(legacy, sk.rho, r, t)

TreeInv == phase \in {"ready", "failed"} =>
             \E r \in Roots, t \in Periods : InTree(r, t)

(* After a key generation that returned 0 the structs fit together.        *)
Mishaps == {z \in SUBSET Periods : z # {} => "digest" \in OutOfMemory}

InStep(r, t, z) ==
    /\ sk.tree = TreeIn(r, t)
    /\ sk.rho = pk.rho
    /\ sk.leaf_rho = MatrixSeed(legacy, pk.rho, t)
    /\ sk.leaf = PairOf(legacy, pk.rho, r, t)
    /\ pk.root = Committed(legacy, pk.rho, r, z)[0][0]
    /\ sk.mt # NULL => sk.mt = Committed(legacy, pk.rho, r, z)

ReadyInv == phase = "ready" =>
              \E r \in Roots, t \in Periods, z \in Mishaps : InStep(r, t, z)

(* As soon as there is a tree to take a path from, the published root is   *)
(* that of a root seed of this signer, also when rho is that of a later    *)
(* key generation that failed.                                             *)
Rhos == {<<"hash", r>> : r \in Roots} \cup
        {<<"random", n>> : n \in 0..MaxKeygens}

RootOf(rho, r, z) == pk.root = Committed(legacy, rho, r, z)[0][0]

RootInv == (sk.mt # NULL \/ sig.path # NULL) =>
             \E rho \in Rhos, r \in Roots, z \in Mishaps : RootOf(rho, r, z)

(* The leaf signature in the buffer is one that was made, for the period   *)
(* in the buffer.                                                          *)
MadeBy(k, m) ==
    /\ sig.fswa = crypto_sign_signature(<<sig.p, m>>, k)
    /\ <<k, sig.p, m>> \in attempts

SigInv == sig.path # NULL =>
            \E a \in attempts : a[3] \in Messages /\ MadeBy(a[1], a[3])

(* The archived signatures of a whole key verify.                          *)
IssuedInv == "digest" \notin OutOfMemory =>
    \A e \in issued : e.sig.p \in Periods /\
                      (e.keyed => Accepts(legacy, e.pk, e.m, e.sig))

IInv == /\ TypeOK /\ Fields /\ TreeInv /\ ReadyInv /\ RootInv
        /\ SigInv /\ IssuedInv

-----------------------------------------------------------------------------
(* Nothing has been generated yet.                                         *)
LEMMA InitIInv == ASSUME Init PROVE IInv
<1>1. 0 \in Periods
  BY TPositive DEF Periods
<1>. QED
  BY <1>1, BoundsAssumption
     DEF Init, IInv, TypeOK, Fields, TreeInv, ReadyInv, RootInv, SigInv,
         IssuedInv

(* A call that changes nothing but its return code.                        *)
LEMMA QuietIInv ==
    ASSUME IInv,
           UNCHANGED <<legacy, phase, pk, sk, caller, published, keygens>>,
           rc' \in {rc, 0, -1}
    PROVE  IInv'
<1>1. UNCHANGED <<legacy, phase, pk, sk, sig, siglen, issued, attempts,
                  keygens>>
  BY DEF caller
<1>2. TypeOK'
  BY <1>1 DEF IInv, TypeOK
<1>3. Fields'
  BY <1>1 DEF IInv, Fields
<1>4. TreeInv'
  BY <1>1 DEF IInv, TreeInv, InTree
<1>5. ReadyInv'
  BY <1>1 DEF IInv, ReadyInv, InStep
<1>6. RootInv'
  BY <1>1 DEF IInv, RootInv, RootOf
<1>7. SigInv'
  BY <1>1 DEF IInv, SigInv, MadeBy
<1>8. IssuedInv'
  BY <1>1 DEF IInv, IssuedInv
<1>. QED  BY <1>2, <1>3, <1>4, <1>5, <1>6, <1>7, <1>8 DEF IInv

(* The matrix seed of a key generation.                                    *)
LEMMA NewRhoIn ==
    ASSUME NEW r \in Roots, keygens \in 0..MaxKeygens
    PROVE  NewRho(r) \in Rhos
  BY DEF NewRho, Rhos

(* After a key generation that failed the seed tree is fresh; the rest is  *)
(* old, and so is the root.                                                *)
LEMMA KeygenFailsIInv ==
    ASSUME IInv, NEW r \in Roots, NEW site \in OutOfMemory,
           KeygenFails(r, site)
    PROVE  IInv'
<1>1. /\ phase' = "failed" /\ keygens' = keygens + 1 /\ keygens < MaxKeygens
      /\ rc' \in {-3, -4}
      /\ UNCHANGED <<legacy, sig, siglen, issued, attempts>>
  BY DEF KeygenFails, caller
<1>2. /\ DOMAIN sk = {"tree", "mt", "rho", "leaf_rho", "leaf"}
      /\ DOMAIN pk = {"rho", "root"}
  BY DEF IInv, Fields
<1>3. /\ pk' = [pk EXCEPT !.rho = NewRho(r)]
      /\ sk' = [sk EXCEPT !.rho = NewRho(r), !.tree = TreeIn(r, 0),
                          !.mt = IF site = "tree" THEN NULL ELSE @]
  BY FreshTree DEF KeygenFails
<1>4. /\ pk'.root = pk.root
      /\ sk'.tree = TreeIn(r, 0)
      /\ sk'.mt # NULL => sk.mt # NULL
  BY <1>2, <1>3
<1>5. TypeOK'
  BY <1>1, BoundsAssumption DEF IInv, TypeOK
<1>6. Fields'
  BY <1>2, <1>3 DEF Fields
<1>7. TreeInv'
  <2>1. 0 \in Periods
    BY TPositive DEF Periods
  <2>2. InTree(r, 0)'
    BY <1>4 DEF InTree
  <2>. QED  BY <2>1, <2>2 DEF TreeInv
<1>8. ReadyInv'
  BY <1>1 DEF ReadyInv
<1>9. RootInv'
  BY <1>1, <1>4 DEF IInv, RootInv, RootOf
<1>10. SigInv'
  BY <1>1 DEF IInv, SigInv, MadeBy
<1>11. IssuedInv'
  BY <1>1 DEF IInv, IssuedInv
<1>. QED  BY <1>5, <1>6, <1>7, <1>8, <1>9, <1>10, <1>11 DEF IInv

(* The process is gone; its archive stays.                                 *)
LEMMA KeygenCrashesIInv == ASSUME IInv, KeygenCrashes PROVE IInv'
<1>1. /\ phase' = "crashed"
      /\ UNCHANGED <<legacy, pk, sk, sig, siglen, rc, issued, attempts,
                      keygens>>
  BY DEF KeygenCrashes, caller
<1>2. TypeOK'
  BY <1>1 DEF IInv, TypeOK
<1>3. Fields'
  BY <1>1 DEF IInv, Fields
<1>4. TreeInv' /\ ReadyInv'
  BY <1>1 DEF TreeInv, ReadyInv
<1>5. RootInv'
  BY <1>1 DEF IInv, RootInv, RootOf
<1>6. SigInv'
  BY <1>1 DEF IInv, SigInv, MadeBy
<1>7. IssuedInv'
  BY <1>1 DEF IInv, IssuedInv
<1>. QED  BY <1>2, <1>3, <1>4, <1>5, <1>6, <1>7 DEF IInv

(* What WithLeaf does to each field.                                       *)
LEMMA WithLeafFields ==
    ASSUME NEW s, DOMAIN s = {"tree", "mt", "rho", "leaf_rho", "leaf"},
           NEW rho, NEW r \in Nat, NEW t \in Periods,
           NEW new, new = WithLeaf(s, rho, TreeIn(r, t))
    PROVE  /\ DOMAIN new = {"tree", "mt", "rho", "leaf_rho", "leaf"}
           /\ new.tree = TreeIn(r, t)
           /\ new.mt = s.mt /\ new.rho = s.rho
           /\ new.leaf_rho = MatrixSeed(legacy, rho, t)
           /\ new.leaf = PairOf(legacy, rho, r, t)
<1>1. new = [s EXCEPT !.tree = TreeIn(r, t),
                      !.leaf_rho = MatrixSeed(legacy, rho, t),
                      !.leaf = PairOf(legacy, rho, r, t)]
  BY TreeFacts DEF WithLeaf, ev_matrix_seed, MatrixSeed, PairOf
<1>. QED  BY <1>1

(* A whole key: the root, the tree and the leaf cache come from the same   *)
(* root seed and matrix seed.                                              *)
LEMMA KeygenWrites ==
    ASSUME IInv, NEW r \in Roots,
           NEW zeroed \in {{}} \cup {{p} : p \in Periods}, Keygen(r, zeroed)
    PROVE  \E rho \in Rhos :
              /\ zeroed \in Mishaps
              /\ phase' = "ready" /\ keygens' \in 0..MaxKeygens /\ rc' = 0
              /\ UNCHANGED <<legacy, sig, siglen, issued, attempts>>
              /\ DOMAIN sk' = {"tree", "mt", "rho", "leaf_rho", "leaf"}
              /\ DOMAIN pk' = {"rho", "root"}
              /\ sk'.mt = Committed(legacy, rho, r, zeroed)
              /\ RootOf(rho, r, zeroed)' /\ InStep(r, 0, zeroed)'
<1>0. PICK rho, mt : rho = NewRho(r) /\ mt = Committed(legacy, rho, r, zeroed)
  OBVIOUS
<1>1. /\ phase' = "ready" /\ keygens' = keygens + 1 /\ keygens < MaxKeygens
      /\ rc' = 0
      /\ zeroed # {} => "digest" \in OutOfMemory
      /\ UNCHANGED <<legacy, sig, siglen, issued, attempts>>
  BY DEF Keygen, caller
<1>2. 0 \in Periods /\ r \in Nat /\ zeroed \in Mishaps /\ rho \in Rhos
  <2>1. zeroed \in SUBSET Periods
    OBVIOUS
  <2>2. keygens \in 0..MaxKeygens
    BY DEF IInv, TypeOK
  <2>3. 0 \in Periods
    BY TPositive DEF Periods
  <2>4. rho \in Rhos
    BY <1>0, <2>2, NewRhoIn
  <2>. QED  BY <1>1, <2>1, <2>3, <2>4, RootsAssumption DEF Mishaps
<1>3. /\ pk' = [rho |-> rho, root |-> mt[0][0]]
      /\ sk' = WithLeaf([sk EXCEPT !.rho = rho, !.mt = mt], rho, TreeIn(r, 0))
  BY <1>0, FreshTree, DigestsAre DEF Keygen, Committed
<1>4. PICK s : s = [sk EXCEPT !.rho = rho, !.mt = mt]
  OBVIOUS
<1>5. /\ DOMAIN s = {"tree", "mt", "rho", "leaf_rho", "leaf"}
      /\ s.rho = rho /\ s.mt = mt
      /\ sk' = WithLeaf(s, rho, TreeIn(r, 0))
  BY <1>3, <1>4 DEF IInv, Fields
<1>6. /\ DOMAIN sk' = {"tree", "mt", "rho", "leaf_rho", "leaf"}
      /\ sk'.tree = TreeIn(r, 0)
      /\ sk'.mt = mt /\ sk'.rho = rho
      /\ sk'.leaf_rho = MatrixSeed(legacy, rho, 0)
      /\ sk'.leaf = PairOf(legacy, rho, r, 0)
  BY <1>2, <1>5, WithLeafFields
<1>7. DOMAIN pk' = {"rho", "root"} /\ pk'.rho = rho /\ pk'.root = mt[0][0]
  BY <1>3
<1>8. InStep(r, 0, zeroed)' /\ RootOf(rho, r, zeroed)'
  BY <1>0, <1>1, <1>6, <1>7 DEF InStep, RootOf
<1>9. keygens' \in 0..MaxKeygens
  BY <1>1, BoundsAssumption DEF IInv, TypeOK
<1>. QED  BY <1>0, <1>1, <1>2, <1>6, <1>7, <1>8, <1>9

LEMMA KeygenIInv ==
    ASSUME IInv, NEW r \in Roots,
           NEW zeroed \in {{}} \cup {{p} : p \in Periods}, Keygen(r, zeroed)
    PROVE  IInv'
<1>1. PICK rho \in Rhos :
        /\ zeroed \in Mishaps
        /\ phase' = "ready" /\ keygens' \in 0..MaxKeygens /\ rc' = 0
        /\ UNCHANGED <<legacy, sig, siglen, issued, attempts>>
        /\ DOMAIN sk' = {"tree", "mt", "rho", "leaf_rho", "leaf"}
        /\ DOMAIN pk' = {"rho", "root"}
        /\ RootOf(rho, r, zeroed)' /\ InStep(r, 0, zeroed)'
  BY KeygenWrites
<1>2. 0 \in Periods /\ r \in Nat
  BY TPositive, RootsAssumption DEF Periods
<1>3. sk'.tree = TreeIn(r, 0)
  BY <1>1 DEF InStep
<1>4. TypeOK'
  BY <1>1, <1>2, <1>3, TreeFacts DEF IInv, TypeOK
<1>5. Fields'
  BY <1>1 DEF Fields
<1>6. TreeInv'
  BY <1>2, <1>3 DEF TreeInv, InTree
<1>7. ReadyInv'
  BY <1>1, <1>2 DEF ReadyInv
<1>8. RootInv'
  BY <1>1 DEF RootInv
<1>9. SigInv'
  BY <1>1 DEF IInv, SigInv, MadeBy
<1>10. IssuedInv'
  BY <1>1 DEF IInv, IssuedInv
<1>. QED  BY <1>4, <1>5, <1>6, <1>7, <1>8, <1>9, <1>10 DEF IInv

(* ev_evolve steps the tree to the next period and caches its leaf pair,   *)
(* or changes nothing in the last one.                                     *)
LEMMA EvolveIInv == ASSUME IInv, Evolve PROVE IInv'
<1>1. /\ phase \in {"ready", "failed"}
      /\ UNCHANGED <<legacy, phase, pk, caller, published, keygens>>
  BY DEF Evolve, Usable
<1>2. PICK r \in Roots, t \in Periods : InTree(r, t)
  BY <1>1 DEF IInv, TreeInv
<1>3. sk.tree = TreeIn(r, t) /\ r \in Nat
  BY <1>2, RootsAssumption DEF InTree
<1>4. t \in Nat /\ T \in Nat
  BY TPositive DEF Periods
<1>5. CASE t + 1 >= T
  <2>1. ev_tree_advance(sk.tree) = [rc |-> -1, tree |-> TreeIn(r, t)]
    BY <1>3, <1>5, AdvanceTree
  <2>2. rc' = -1 /\ UNCHANGED sk
    BY <2>1 DEF Evolve
  <2>. QED  BY <1>1, <2>2, QuietIInv
<1>6. CASE t + 1 < T
  <2>1. /\ t + 1 \in Periods /\ t + 1 # 0
        /\ ev_tree_advance(sk.tree) = [rc |-> 0, tree |-> TreeIn(r, t+1)]
    BY <1>3, <1>4, <1>6, AdvanceTree
  <2>2. rc' = 0 /\ sk' = WithLeaf(sk, sk.rho, TreeIn(r, t+1))
    BY <2>1 DEF Evolve
  <2>3. DOMAIN sk = {"tree", "mt", "rho", "leaf_rho", "leaf"}
    BY DEF IInv, Fields
  <2>4. /\ DOMAIN sk' = {"tree", "mt", "rho", "leaf_rho", "leaf"}
        /\ sk'.tree = TreeIn(r, t+1)
        /\ sk'.mt = sk.mt /\ sk'.rho = sk.rho
        /\ sk'.leaf_rho = MatrixSeed(legacy, sk.rho, t+1)
        /\ sk'.leaf = PairOf(legacy, sk.rho, r, t+1)
    BY <1>3, <2>1, <2>2, <2>3, WithLeafFields
  <2>5. UNCHANGED <<legacy, phase, pk, sig, siglen, issued, attempts, keygens>>
    BY <1>1 DEF caller
  <2>6. TypeOK'
    BY <1>3, <2>1, <2>2, <2>4, <2>5, TreeFacts DEF IInv, TypeOK
  <2>7. Fields'
    BY <2>4, <2>5 DEF IInv, Fields
  <2>8. TreeInv'
    <3>1. InTree(r, t+1)'
      BY <2>4, <2>5 DEF InTree
    <3>. QED  BY <2>1, <3>1 DEF TreeInv
  <2>9. ReadyInv'
    <3> SUFFICES ASSUME phase = "ready" PROVE ReadyInv'
      BY <2>5 DEF ReadyInv
    <3>1. PICK q \in Roots, u \in Periods, z \in Mishaps : InStep(q, u, z)
      BY DEF IInv, ReadyInv
    <3>2. TreeIn(q, u) = TreeIn(r, t)
      BY <1>3, <3>1 DEF InStep
    <3>3. q = r
      <4>1. q \in Nat /\ u = t
        BY <1>3, <3>2, TreeFacts, RootsAssumption
      <4>2. NodeOf(q, Depth, u) = NodeOf(r, Depth, t)
        BY <1>3, <3>2, <4>1, TreeFacts
      <4>. QED  BY <4>2 DEF NodeOf
    <3>4. InStep(r, t+1, z)'
      BY <2>4, <2>5, <3>1, <3>3 DEF InStep
    <3>. QED  BY <2>1, <3>4 DEF ReadyInv
  <2>10. RootInv'
    BY <2>4, <2>5 DEF IInv, RootInv, RootOf
  <2>11. SigInv'
    BY <2>5 DEF IInv, SigInv, MadeBy
  <2>12. IssuedInv'
    BY <2>5 DEF IInv, IssuedInv
  <2>. QED  BY <2>6, <2>7, <2>8, <2>9, <2>10, <2>11, <2>12 DEF IInv
<1>. QED  BY <1>4, <1>5, <1>6

(* Freeing the tree leaves everything else as it was.                      *)
LEMMA MerkleFreeIInv == ASSUME IInv, MerkleFree PROVE IInv'
<1>1. /\ sk' = [sk EXCEPT !.mt = NULL]
      /\ UNCHANGED <<legacy, phase, pk, sig, siglen, issued, attempts, rc,
                      keygens>>
  BY DEF MerkleFree, caller
<1>2. /\ DOMAIN sk' = {"tree", "mt", "rho", "leaf_rho", "leaf"}
      /\ sk'.tree = sk.tree /\ sk'.rho = sk.rho /\ sk'.leaf = sk.leaf
      /\ sk'.leaf_rho = sk.leaf_rho /\ sk'.mt = NULL
  BY <1>1 DEF IInv, Fields
<1>3. TypeOK'
  BY <1>1, <1>2 DEF IInv, TypeOK
<1>4. Fields'
  BY <1>1, <1>2 DEF IInv, Fields
<1>5. TreeInv'
  BY <1>1, <1>2 DEF IInv, TreeInv, InTree
<1>6. ReadyInv'
  BY <1>1, <1>2 DEF IInv, ReadyInv, InStep
<1>7. RootInv'
  BY <1>1, <1>2 DEF IInv, RootInv, RootOf
<1>8. SigInv'
  BY <1>1 DEF IInv, SigInv, MadeBy
<1>9. IssuedInv'
  BY <1>1 DEF IInv, IssuedInv
<1>. QED  BY <1>3, <1>4, <1>5, <1>6, <1>7, <1>8, <1>9 DEF IInv

-----------------------------------------------------------------------------
(* The root of a commitment, for one period: what leads to it starts with  *)
(* the digest of that period's key, and that digest does so with the path  *)
(* from the tree (ev_merkle_path, ev_merkle_verify).                       *)
LEMMA RootTells ==
    ASSUME NEW b, NEW rho, NEW r, NEW p \in Periods, NEW leaf, NEW path,
           PathRoot(p, leaf, path) = Committed(b, rho, r, {})[0][0]
    PROVE  leaf = <<"leaf", KeyOf(b, rho, r, p)>>
<1>1. leaf = Digests(b, rho, r, {})[p]
  BY PathToRoot DEF Committed
<1>. QED  BY <1>1 DEF Digests, ev_merkle_leafdigest

LEMMA PathLeads ==
    ASSUME NEW b, NEW rho, NEW r, NEW p \in Periods, NEW tree,
           tree = Committed(b, rho, r, {})
    PROVE  PathRoot(p, <<"leaf", KeyOf(b, rho, r, p)>>, OwnPathOf(tree, p))
             = tree[0][0]
<1>1. Digests(b, rho, r, {})[p] = <<"leaf", KeyOf(b, rho, r, p)>>
  BY DEF Digests, ev_merkle_leafdigest
<1>2. OwnPath(Digests(b, rho, r, {}), p, OwnPathOf(tree, p), 0)
  BY DEF OwnPath, OwnPathOf, Committed
<1>. QED  BY <1>1, <1>2, PathToRoot DEF Committed

(* What ev_sign returns 0 for under a whole key is accepted by it.         *)
LEMMA SignedIsAccepted ==
    ASSUME NEW r \in Roots, NEW t \in Periods, InStep(r, t, {}), NEW m,
           sk.mt # NULL, NEW s, s.p = t,
           s.fswa = crypto_sign_signature(<<t, m>>, sk.leaf.sk),
           s.t1 = sk.leaf.t1, s.path = OwnPathOf(sk.mt, t)
    PROVE  Accepts(legacy, pk, m, s)
<1>1. /\ sk.leaf.sk = KeyOf(legacy, pk.rho, r, t)
      /\ sk.leaf.t1 = KeyOf(legacy, pk.rho, r, t)
  BY DEF InStep, PairOf, KeyOf, ev_leaf_keypair
<1>2. sk.mt = Committed(legacy, pk.rho, r, {}) /\ pk.root = sk.mt[0][0]
  BY DEF InStep
<1>3. PathRoot(t, <<"leaf", s.t1>>, s.path) = pk.root
  BY <1>1, <1>2, PathLeads
<1>4. s.t1.mat = MatrixSeed(legacy, pk.rho, t)
  BY <1>1 DEF KeyOf, LeafKey
<1>5. t < T
  BY TPositive DEF Periods
<1>. QED  BY <1>1, <1>3, <1>4, <1>5 DEF Accepts

(* What is proved of ev_sign holds of every signer that writes the same    *)
(* into the buffer, whatever it tells its caller in length and return code *)
(* (breakdown_bench.c has a second one).                                   *)
Signs(m) ==
    LET p == sk.tree.current
    IN  /\ Usable
        /\ sig' = [p    |-> p,
                   fswa |-> crypto_sign_signature(<<p, m>>, sk.leaf.sk),
                   t1   |-> sk.leaf.t1,
                   path |-> IF sk.mt = NULL THEN sig.path
                            ELSE OwnPathOf(sk.mt, p)]
        /\ siglen' \in {siglen, SigBytes}
        /\ rc' \in {rc, 0, -3}
        /\ attempts' = attempts \cup {<<sk.leaf.sk, p, m>>}
        /\ issued' = IF sk.mt = NULL THEN issued
                     ELSE issued \cup {Issue(m, sig')}
        /\ UNCHANGED <<legacy, phase, pk, sk, published, keygens>>

AnySigner == Next \/ \E m \in Messages : Signs(m)

SignersSpec == Init /\ [][AnySigner]_vars

LEMMA SignSigns == ASSUME NEW m, Sign(m) PROVE Signs(m)
<1>1. PICK p : p = sk.tree.current
  OBVIOUS
<1>2. CASE sk.mt = NULL
  BY <1>1, <1>2 DEF Sign, Signs, Composite, SigBytes
<1>3. CASE sk.mt # NULL
  <2>1. PICK parts : parts =
          [p |-> p, fswa |-> crypto_sign_signature(<<p, m>>, sk.leaf.sk),
           t1 |-> sk.leaf.t1, path |-> sig.path]
    OBVIOUS
  <2>2. /\ sig' = [parts EXCEPT !.path = OwnPathOf(sk.mt, p)]
        /\ issued' = issued \cup {Issue(m, sig')}
    BY <1>1, <1>3, <2>1, Zenon DEF Sign, Composite, OwnPathOf
  <2>. QED  BY <1>1, <1>3, <2>1, <2>2 DEF Sign, Signs
<1>. QED  BY <1>2, <1>3

LEMMA SpecSigners == Spec => SignersSpec
<1>1. [Next]_vars => [AnySigner]_vars
  BY DEF AnySigner
<1>. QED  BY <1>1, PTL DEF Spec, SignersSpec

(* Whatever a signer writes, the leaf signature and the period in the      *)
(* buffer belong together, and with a path the whole signature verifies.   *)
LEMMA SignsIInv == ASSUME IInv, NEW m \in Messages, Signs(m) PROVE IInv'
<1>1. /\ phase \in {"ready", "failed"}
      /\ UNCHANGED <<legacy, phase, pk, sk, keygens>>
      /\ siglen' \in {siglen, SigBytes} /\ rc' \in {rc, 0, -3}
  BY DEF Signs, Usable
<1>2. PICK r \in Roots, t \in Periods : InTree(r, t)
  BY <1>1 DEF IInv, TreeInv
<1>3. sk.tree.current = t
  BY <1>2, TreeFacts, RootsAssumption DEF InTree
<1>4. /\ sig'.p = t
      /\ sig'.fswa = crypto_sign_signature(<<t, m>>, sk.leaf.sk)
      /\ sig'.t1 = sk.leaf.t1
      /\ sig'.path = IF sk.mt = NULL THEN sig.path ELSE OwnPathOf(sk.mt, t)
      /\ attempts' = attempts \cup {<<sk.leaf.sk, t, m>>}
  BY <1>3 DEF Signs
<1>5. issued' = IF sk.mt = NULL THEN issued
                ELSE issued \cup {Issue(m, sig')}
  BY DEF Signs
<1>6. TypeOK'
  BY <1>1, <1>4 DEF IInv, TypeOK
<1>7. Fields'
  BY <1>1 DEF IInv, Fields
<1>8. TreeInv'
  BY <1>1 DEF IInv, TreeInv, InTree
<1>9. ReadyInv'
  BY <1>1 DEF IInv, ReadyInv, InStep
<1>10. RootInv'
  <2>1. sig'.path # NULL => sig.path # NULL \/ sk.mt # NULL
    BY <1>4
  <2>. QED  BY <1>1, <2>1 DEF IInv, RootInv, RootOf
<1>11. SigInv'
  <2>1. PICK a \in attempts' : a = <<sk.leaf.sk, t, m>>
    BY <1>4
  <2>2. MadeBy(a[1], a[3])' /\ a[3] \in Messages
    BY <1>4, <2>1 DEF MadeBy
  <2>. QED  BY <2>2 DEF SigInv
<1>12. IssuedInv'
  <2> SUFFICES ASSUME "digest" \notin OutOfMemory, NEW e \in issued'
               PROVE  /\ e.sig.p \in Periods
                      /\ e.keyed => Accepts(legacy, e.pk, e.m, e.sig)
    BY <1>1 DEF IssuedInv
  <2>1. CASE e \in issued
    BY <2>1 DEF IInv, IssuedInv
  <2>2. CASE e \notin issued
    <3>1. sk.mt # NULL /\ e = Issue(m, sig')
      BY <1>5, <2>2
    <3>2. e.pk = pk /\ e.m = m /\ e.sig = sig' /\ (e.keyed <=> phase = "ready")
      BY <3>1 DEF Issue
    <3>3. ASSUME phase = "ready"
          PROVE  Accepts(legacy, pk, m, sig')
      <4>1. PICK q \in Roots, u \in Periods, z \in Mishaps : InStep(q, u, z)
        BY <3>3 DEF IInv, ReadyInv
      <4>2. z = {}
        BY DEF Mishaps
      <4>3. u = t
        BY <1>3, <4>1, TreeFacts, RootsAssumption DEF InStep
      <4>. QED  BY <1>4, <3>1, <4>1, <4>2, <4>3, SignedIsAccepted
    <3>. QED  BY <1>4, <3>2, <3>3
  <2>. QED  BY <2>1, <2>2
<1>. QED  BY <1>6, <1>7, <1>8, <1>9, <1>10, <1>11, <1>12 DEF IInv

-----------------------------------------------------------------------------
(* Every call of the scheme, with any signer that writes the same buffer.  *)
LEMMA StepIInv == ASSUME IInv, [AnySigner]_vars PROVE IInv'
<1>1. CASE UNCHANGED vars
  BY <1>1, QuietIInv DEF vars, caller
<1>2. CASE \E t \in BadT : KeygenRefused(t)
  BY <1>2, QuietIInv DEF KeygenRefused
<1>3. CASE SignFails
  BY <1>3, QuietIInv DEF SignFails
<1>. QED
  BY <1>1, <1>2, <1>3, KeygenFailsIInv, KeygenCrashesIInv, KeygenIInv,
     EvolveIInv, SignSigns, SignsIInv, MerkleFreeIInv DEF AnySigner, Next

LEMMA SignersInvariance == SignersSpec => []IInv
  BY StepIInv, InitIInv, PTL DEF SignersSpec

(* The structs, the buffer and the archive fit together after every call   *)
(* of the scheme, also after one that fails half way.                      *)
THEOREM Invariance == Spec => []IInv
  BY SpecSigners, SignersInvariance, PTL

(* The fields of the buffer and the counters have their types.             *)
THEOREM TypeCorrect == Spec => []TypeOK
<1>1. IInv => TypeOK
  BY DEF IInv
<1>. QED  BY <1>1, Invariance, PTL

(* The leaf cache is the pair of the current period, the one that          *)
(* ev_keygen committed to, and rho is the published one (ev_keygen,        *)
(* ev_evolve).                                                             *)
THEOREM CacheIsCurrent == Spec => []CacheCoherent
<1>1. ASSUME IInv, phase = "ready"
      PROVE  CacheCoherent
  <2>1. PICK r \in Roots, t \in Periods, z \in Mishaps : InStep(r, t, z)
    BY <1>1 DEF IInv, ReadyInv
  <2>2. /\ r \in Nat /\ sk.tree.current = t
        /\ ev_tree_leaf(sk.tree) = NodeOf(r, Depth, t)
    BY <2>1, TreeFacts, RootsAssumption DEF InStep
  <2>3. PICK pair : pair = ev_leaf_keypair(ev_matrix_seed(pk.rho, t),
                                           ev_tree_leaf(sk.tree))
    OBVIOUS
  <2>4. pair = PairOf(legacy, pk.rho, r, t)
    BY <2>2, <2>3 DEF PairOf, ev_matrix_seed, MatrixSeed
  <2>5. sk.leaf = pair /\ sk.leaf_rho = pair.rho
    BY <2>1, <2>4 DEF InStep, PairOf, ev_leaf_keypair
  <2>6. ASSUME sk.mt # NULL
        PROVE  sk.mt[Depth][t] = ev_merkle_leafdigest(pair.t1, t \in z)
    <3>1. pair.t1 = KeyOf(legacy, pk.rho, r, t)
      BY <2>4 DEF PairOf, KeyOf, ev_leaf_keypair
    <3>2. sk.mt = TreeOf(Digests(legacy, pk.rho, r, z))
      BY <2>1, <2>6 DEF InStep, Committed
    <3>3. sk.mt[Depth][t] = Digests(legacy, pk.rho, r, z)[t]
      BY <3>2, TreeNode DEF Periods, T
    <3>. QED  BY <3>1, <3>3 DEF Digests
  <2>7. sk.mt # NULL => sk.mt[Depth][t] \in
          {ev_merkle_leafdigest(pair.t1, oom) : oom \in BOOLEAN}
    <3>1. ev_merkle_leafdigest(pair.t1, t \in z)
            \in {ev_merkle_leafdigest(pair.t1, TRUE),
                 ev_merkle_leafdigest(pair.t1, FALSE)}
      BY DEF ev_merkle_leafdigest
    <3>2. {ev_merkle_leafdigest(pair.t1, TRUE),
           ev_merkle_leafdigest(pair.t1, FALSE)}
            \subseteq {ev_merkle_leafdigest(pair.t1, oom) : oom \in BOOLEAN}
      BY Zenon
    <3>. QED  BY <2>6, <3>1, <3>2
  <2>. QED  BY <2>2, <2>3, <2>5, <2>7, Zenon DEF CacheCoherent
<1>2. IInv => CacheCoherent
  BY <1>1 DEF CacheCoherent
<1>. QED  BY <1>2, Invariance, PTL

(* Neither the seed tree nor the leaf cache is of any use for a period     *)
(* before the current one, in a key that is whole and in one that a later  *)
(* key generation left half replaced (ev_evolve, ev_tree_advance).         *)
THEOREM SecretsGone == Spec => []SecretsForwardOnly
<1>1. ASSUME IInv, Usable, NEW q \in Periods, q < sk.tree.current
      PROVE  /\ Holders(sk.tree, q) = {}
             /\ ~Covers(sk.leaf.sk.seed, q)
  <2>1. PICK r \in Roots, t \in Periods : InTree(r, t)
    BY <1>1 DEF IInv, TreeInv, Usable
  <2>2. /\ r \in Nat \ {0} /\ sk.tree = TreeIn(r, t) /\ sk.tree.current = t
    BY <2>1, TreeFacts, RootsAssumption DEF InTree
  <2>3. q < t /\ t # 0 /\ Depth \in Levels
    BY <1>1, <2>2, DepthAssumption DEF Periods, Levels
  <2>4. level_index(q, Depth) = q /\ level_index(t, Depth) = t /\ q # t
    BY <2>3, IndexEnds DEF Periods
  <2>5. Holders(sk.tree, q) = {}
    BY <2>2, <2>3, <2>4, NoHolder DEF TreeIn
  <2>6. sk.leaf.sk.seed = NodeOf(r, Depth, t)
    BY <2>1, <2>3 DEF InTree, PairOf, ev_leaf_keypair, LeafKey
  <2>7. ~Covers(sk.leaf.sk.seed, q)
    BY <2>4, <2>6 DEF Covers, NodeOf
  <2>. QED  BY <2>5, <2>7
<1>2. IInv => SecretsForwardOnly
  BY <1>1 DEF SecretsForwardOnly
<1>. QED  BY <1>2, Invariance, PTL

(* What is archived under a whole key verifies.                            *)
LEMMA ArchiveStands ==
    ASSUME "digest" \notin OutOfMemory
    PROVE  IInv => IssuedVerifies
  BY VerifyIs DEF IInv, IssuedInv, IssuedVerifies

(* What ev_sign returned 0 for under a whole key verifies for ever, if the *)
(* malloc of ev_merkle_leafdigest does not fail (ev_sign, ev_verify).      *)
THEOREM ArchiveVerifies ==
    ASSUME "digest" \notin OutOfMemory
    PROVE  Spec => []IssuedVerifies
  BY ArchiveStands, Invariance, PTL

(* What ev_verify accepts in the buffer was signed with the leaf key that  *)
(* the buffer shows, and that is the one of its period.                    *)
LEMMA BufferIsAuthentic ==
    ASSUME "digest" \notin OutOfMemory
    PROVE  IInv => BufferAuthentic
<1>1. ASSUME IInv, NEW m \in Messages, NEW oom, sig.path # NULL,
             ev_verify(pk, m, sig, siglen, oom) = 0
      PROVE  \E r \in Roots :
                <<CommittedKey(r, sig.p), sig.p, m>> \in attempts
  <2>1. sig.p \in Periods
    BY <1>1 DEF IInv, TypeOK
  <2>2. PICK rho \in Rhos, r \in Roots, z \in Mishaps : RootOf(rho, r, z)
    BY <1>1 DEF IInv, RootInv
  <2>3. pk.root = Committed(legacy, rho, r, {})[0][0]
    BY <2>2 DEF RootOf, Mishaps
  <2>4. oom # "digest" /\ Accepts(legacy, pk, m, sig)
    <3>1. CASE oom = "digest" /\ PathRoot(sig.p, ZeroDigest, sig.path) = pk.root
      <4>1. ZeroDigest = <<"leaf", KeyOf(legacy, rho, r, sig.p)>>
        BY <2>1, <2>3, <3>1, RootTells
      <4>2. ZeroDigest # <<"leaf", KeyOf(legacy, rho, r, sig.p)>>
        BY LeafDigestIs DEF ev_merkle_leafdigest
      <4>. QED  BY <4>1, <4>2
    <3>. QED  BY <1>1, <2>1, <3>1, VerifyIs
  <2>5. <<"leaf", sig.t1>> = <<"leaf", KeyOf(legacy, rho, r, sig.p)>>
    BY <2>1, <2>3, <2>4, RootTells DEF Accepts
  <2>6. sig.t1 = KeyOf(legacy, rho, r, sig.p)
    BY <2>5
  <2>7. sig.t1 = CommittedKey(r, sig.p)
    <3>1. sig.t1.mat = ev_matrix_seed(pk.rho, sig.p)
      BY <2>4 DEF Accepts, ev_matrix_seed, MatrixSeed
    <3>2. sig.t1 = LeafKey(sig.t1.mat, NodeOf(r, Depth, sig.p))
      BY <2>6 DEF KeyOf, LeafKey
    <3>. QED  BY <3>1, <3>2 DEF CommittedKey, NodeOf
  <2>8. PICK a \in attempts : MadeBy(a[1], a[3])
    BY <1>1 DEF IInv, SigInv
  <2>9. crypto_sign_signature(<<sig.p, m>>, sig.t1)
          = crypto_sign_signature(<<sig.p, a[3]>>, a[1])
    BY <2>4, <2>8 DEF Accepts, MadeBy
  <2>10. a[1] = sig.t1 /\ a[3] = m
    BY <2>9 DEF crypto_sign_signature
  <2>. QED  BY <2>7, <2>8, <2>10 DEF MadeBy
<1>. QED  BY <1>1 DEF BufferAuthentic

(* The buffer is accepted only for a message that the leaf key of its      *)
(* period signed, whatever failed half way before, under the same          *)
(* condition (ev_sign, ev_keygen, ev_verify).                              *)
THEOREM Authentic ==
    ASSUME "digest" \notin OutOfMemory
    PROVE  Spec => []BufferAuthentic
  BY BufferIsAuthentic, Invariance, PTL

-----------------------------------------------------------------------------
(* The scheme implements the abstract key-evolving scheme.  A key          *)
(* generation that fails half way leaves structs with which the caller can *)
(* evolve and sign; what is signed then is archived under a public key     *)
(* that was never published, but its parts may fit another key.  In the    *)
(* build with a matrix seed per period every generation draws a new rho    *)
(* and they never do.  In the default build rho is a hash of the root      *)
(* seed, and the caller must not give a root seed to ev_keygen again when  *)
(* something has been signed with it, unless that gives the same key.      *)
RootServesOneKey ==
    [][legacy /\ keygens' # keygens =>
         \A e \in issued :
            pk'.rho \in {e.pk.rho, e.sig.t1.mat} => e.pk = pk']_vars

KeyFrom(b, rho, r, z) ==
    [rho |-> rho, root |-> Committed(b, rho, r, z)[0][0]]

(* What n key generations may have taken for rho: in the build with a seed *)
(* per period, what they have drawn.                                       *)
Drawn(b, n, rho) == b \/ \E k \in 0..n-1 : rho = <<"random", k>>

(* The published key is a whole one and its root stays in pk, whatever     *)
(* happens to rho.                                                         *)
PublishedBy(rho, r, z) ==
    /\ published = KeyFrom(legacy, rho, r, z)
    /\ sk.mt # NULL => sk.mt = Committed(legacy, rho, r, z)

KeyInv == sk.leaf # NULL =>
            /\ pk = [rho |-> sk.rho, root |-> published.root]
            /\ phase = "ready" => sk.rho = published.rho
            /\ Drawn(legacy, keygens, sk.rho)
            /\ \E rho, r, z : PublishedBy(rho, r, z)

(* The leaf cache belongs to the published key as long as it is of period  *)
(* 0, and after an evolution to the rho in the structs.                    *)
CacheFrom(rho, r, t) ==
    /\ sk.leaf = PairOf(legacy, rho, r, t)
    /\ Drawn(legacy, keygens, rho)
    /\ t = 0 => rho = published.rho
    /\ sk.tree.current # 0 => rho = sk.rho

LeafInv == sk.leaf # NULL =>
             \E rho, r : \E t \in Periods : CacheFrom(rho, r, t)

(* An archived signature consists of a leaf signature by some leaf key and *)
(* a path in the tree under the root it was archived with.                 *)
SignedBy(b, e, rho, r, t) ==
    /\ e.sig.t1 = KeyOf(b, rho, r, t)
    /\ e.sig.fswa = crypto_sign_signature(<<e.sig.p, e.m>>, e.sig.t1)

PathIn(b, e, rho, r, z) ==
    /\ e.pk.root = Committed(b, rho, r, z)[0][0]
    /\ e.sig.path = OwnPathOf(Committed(b, rho, r, z), e.sig.p)

InArchive(b, n, e) ==
    /\ e.sig.p \in Periods /\ e.m \in Messages
    /\ e.pk = [rho |-> e.pk.rho, root |-> e.pk.root]
    /\ Drawn(b, n, e.pk.rho)
    /\ \E rho, r : \E t \in Periods :
          Drawn(b, n, rho) /\ SignedBy(b, e, rho, r, t)
    /\ \E rho, r, z : PathIn(b, e, rho, r, z)

ArchiveInv == \A e \in issued : InArchive(legacy, keygens, e)

(* A rho that an archived signature uses belongs to one public key.        *)
Uses(b, e, rho) == \/ e.pk.rho = rho
                   \/ \E p \in Periods : e.sig.t1.mat = MatrixSeed(b, rho, p)

OneKeyInv == \A e \in issued :
               /\ Uses(legacy, e, pk.rho) => e.pk = pk
               /\ e.pk.rho = published.rho => e.pk = published

(* The leaf signature in f verifies under the key of e; then the path in f *)
(* leads to the root of that key, too.                                     *)
Fits(b, e, f) == \E rho, r, z : /\ e.pk = KeyFrom(b, rho, r, z)
                                /\ f.sig.p \notin z
                                /\ f.sig.t1 = KeyOf(b, rho, r, f.sig.p)

FitInv == \A e \in issued, f \in issued :
            Fits(legacy, e, f) => f.pk.root = e.pk.root

RefInv == KeyInv /\ LeafInv /\ ArchiveInv /\ OneKeyInv /\ FitInv

-----------------------------------------------------------------------------
(* A leaf key tells the matrix seed, the root seed and the period.         *)
LEMMA LeafTells ==
    ASSUME NEW b, NEW rho, NEW r, NEW p, NEW rho2, NEW r2, NEW p2,
           KeyOf(b, rho, r, p) = KeyOf(b, rho2, r2, p2)
    PROVE  rho = rho2 /\ r = r2 /\ p = p2
<1>1. NodeOf(r, Depth, p) = NodeOf(r2, Depth, p2)
  BY DEF KeyOf, LeafKey
<1>2. r = r2 /\ p = p2
  <2>1. NodeOf(r, Depth, p).origin = NodeOf(r2, Depth, p2).origin
    BY <1>1
  <2>2. NodeOf(r, Depth, p).idx = NodeOf(r2, Depth, p2).idx
    BY <1>1
  <2>. QED  BY <2>1, <2>2 DEF NodeOf
<1>3. MatrixSeed(b, rho, p) = MatrixSeed(b, rho2, p)
  BY <1>2 DEF KeyOf, LeafKey
<1>. QED  BY <1>2, <1>3 DEF MatrixSeed

(* A leaf digest in a tree, of a period that did not run out of memory and *)
(* of one that may have.                                                   *)
LEMMA DigestTells ==
    ASSUME NEW b, NEW rho, NEW r, NEW z, NEW p \in Periods
    PROVE  /\ p \notin z =>
                Digests(b, rho, r, z)[p] = <<"leaf", KeyOf(b, rho, r, p)>>
           /\ \A k : Digests(b, rho, r, z)[p] = <<"leaf", k>> =>
                       p \notin z /\ k = KeyOf(b, rho, r, p)
<1>1. Digests(b, rho, r, z)[p]
        = ev_merkle_leafdigest(KeyOf(b, rho, r, p), p \in z)
  BY DEF Digests
<1>2. ASSUME p \notin z
      PROVE  Digests(b, rho, r, z)[p] = <<"leaf", KeyOf(b, rho, r, p)>>
  BY <1>1, <1>2 DEF ev_merkle_leafdigest
<1>3. ASSUME p \in z, NEW k
      PROVE  Digests(b, rho, r, z)[p] # <<"leaf", k>>
  BY <1>1, <1>3 DEF ev_merkle_leafdigest, ZeroDigest
<1>. QED  BY <1>2, <1>3

(* Trees with the same root have the same digests, and the path of a       *)
(* period leads from its digest to the root.                               *)
LEMMA RootsAgree ==
    ASSUME NEW b, NEW rho, NEW r, NEW z, NEW rho2, NEW r2, NEW z2,
           NEW p \in Periods,
           Committed(b, rho, r, z)[0][0] = Committed(b, rho2, r2, z2)[0][0]
    PROVE  Digests(b, rho, r, z)[p] = Digests(b, rho2, r2, z2)[p]
<1>1. PICK d, d2 : d = Digests(b, rho, r, z) /\ d2 = Digests(b, rho2, r2, z2)
  OBVIOUS
<1>2. TreeOf(d)[0][0] = TreeOf(d2)[0][0]
  BY <1>1 DEF Committed
<1>3. PICK path : path = OwnPathOf(TreeOf(d), p)
  OBVIOUS
<1>4. OwnPath(d, p, path, 0)
  BY <1>3 DEF OwnPath, OwnPathOf
<1>5. PathRoot(p, d[p], path) = TreeOf(d)[0][0]
  BY <1>4, PathToRoot
<1>6. d[p] = d2[p]
  BY <1>2, <1>5, PathToRoot
<1>. QED  BY <1>1, <1>6

LEMMA OwnPathLeads ==
    ASSUME NEW b, NEW rho, NEW r, NEW z, NEW p \in Periods
    PROVE  PathRoot(p, Digests(b, rho, r, z)[p],
                    OwnPathOf(Committed(b, rho, r, z), p))
             = Committed(b, rho, r, z)[0][0]
<1>1. OwnPath(Digests(b, rho, r, z), p,
              OwnPathOf(Committed(b, rho, r, z), p), 0)
  BY DEF OwnPath, OwnPathOf, Committed
<1>. QED  BY <1>1, PathToRoot DEF Committed

(* However the parts of archived signatures are put together, what         *)
(* verifies is that a leaf signature fits a key: a path leads to the root  *)
(* only from the leaf key of its period.                                   *)
Mixed(p, f, g, h) == [p |-> p, fswa |-> f.sig.fswa, t1 |-> g.sig.t1,
                      path |-> h.sig.path]

LEMMA MixedFits ==
    ASSUME ArchiveInv, NEW e \in issued, NEW p \in Periods,
           NEW m \in Messages, NEW f \in issued, NEW g \in issued,
           NEW h \in issued, Accepts(legacy, e.pk, m, Mixed(p, f, g, h))
    PROVE  f.sig.p = p /\ f.m = m /\ Fits(legacy, e, f)
<1>1. PICK rho, r, z : PathIn(legacy, e, rho, r, z)
  BY DEF ArchiveInv, InArchive
<1>2. /\ PathRoot(p, <<"leaf", g.sig.t1>>, h.sig.path) = e.pk.root
      /\ f.sig.fswa = crypto_sign_signature(<<p, m>>, g.sig.t1)
      /\ g.sig.t1.mat = MatrixSeed(legacy, e.pk.rho, p)
  BY DEF Accepts, Mixed
<1>3. <<"leaf", g.sig.t1>> = Digests(legacy, rho, r, z)[p]
  BY <1>1, <1>2, PathToRoot DEF PathIn, Committed
<1>4. p \notin z /\ g.sig.t1 = KeyOf(legacy, rho, r, p)
  BY <1>3, DigestTells
<1>5. MatrixSeed(legacy, rho, p) = MatrixSeed(legacy, e.pk.rho, p)
  BY <1>2, <1>4 DEF KeyOf, LeafKey
<1>6. e.pk = KeyFrom(legacy, rho, r, z)
  <2>1. e.pk.rho = rho
    BY <1>5 DEF MatrixSeed
  <2>2. e.pk = [rho |-> e.pk.rho, root |-> e.pk.root]
    BY DEF ArchiveInv, InArchive
  <2>. QED  BY <1>1, <2>1, <2>2, Zenon DEF PathIn, KeyFrom
<1>7. f.sig.p = p /\ f.m = m /\ f.sig.t1 = g.sig.t1
  <2>1. f.sig.fswa = crypto_sign_signature(<<f.sig.p, f.m>>, f.sig.t1)
    BY DEF ArchiveInv, InArchive, SignedBy
  <2>2. /\ <<f.sig.p, f.m>> = <<p, m>>
        /\ f.sig.t1 = g.sig.t1
    BY <1>2, <2>1 DEF crypto_sign_signature
  <2>. QED  BY <2>2
<1>. QED  BY <1>4, <1>6, <1>7 DEF Fits

LEMMA FittingVerifies ==
    ASSUME ArchiveInv, FitInv, NEW e \in issued, NEW f \in issued,
           Fits(legacy, e, f)
    PROVE  Accepts(legacy, e.pk, f.m, Mixed(f.sig.p, f, f, f))
<1>1. PICK rho, r, z : /\ e.pk = KeyFrom(legacy, rho, r, z)
                       /\ f.sig.p \notin z
                       /\ f.sig.t1 = KeyOf(legacy, rho, r, f.sig.p)
  BY DEF Fits
<1>2. PICK rho2, r2, z2 : PathIn(legacy, f, rho2, r2, z2)
  BY DEF ArchiveInv, InArchive
<1>3. PICK p \in Periods : p = f.sig.p
  BY DEF ArchiveInv, InArchive
<1>4. /\ e.pk.rho = rho
      /\ e.pk.root = Committed(legacy, rho, r, z)[0][0]
      /\ e.pk.root = Committed(legacy, rho2, r2, z2)[0][0]
  BY <1>1, <1>2 DEF KeyFrom, PathIn, FitInv
<1>5. Digests(legacy, rho2, r2, z2)[p] = <<"leaf", f.sig.t1>>
  <2>1. Digests(legacy, rho, r, z)[p] = <<"leaf", f.sig.t1>>
    BY <1>1, <1>3, DigestTells
  <2>2. Digests(legacy, rho, r, z)[p] = Digests(legacy, rho2, r2, z2)[p]
    <3>1. Committed(legacy, rho, r, z)[0][0]
            = Committed(legacy, rho2, r2, z2)[0][0]
      BY <1>4
    <3>. QED  BY <3>1, RootsAgree
  <2>. QED  BY <2>1, <2>2
<1>6. f.sig.path = OwnPathOf(Committed(legacy, rho2, r2, z2), p)
  BY <1>2, <1>3 DEF PathIn
<1>7. PathRoot(p, <<"leaf", f.sig.t1>>, f.sig.path) = e.pk.root
  BY <1>4, <1>5, <1>6, OwnPathLeads
<1>8. f.sig.t1.mat = MatrixSeed(legacy, e.pk.rho, p) /\ p < T
  BY <1>1, <1>3, <1>4, TPositive DEF KeyOf, LeafKey, Periods
<1>9. f.sig.fswa = crypto_sign_signature(<<p, f.m>>, f.sig.t1)
  BY <1>3 DEF ArchiveInv, InArchive, SignedBy
<1>. QED  BY <1>3, <1>7, <1>8, <1>9 DEF Accepts, Mixed

Fitting == {x \in {e.pk : e \in issued} \X Periods \X Messages :
              \E e \in issued, f \in issued :
                 x = <<e.pk, f.sig.p, f.m>> /\ Fits(legacy, e, f)}

LEMMA VerifiableIs == ASSUME ArchiveInv, FitInv PROVE Verifiable = Fitting
<1>1. ASSUME NEW x \in Verifiable PROVE x \in Fitting
  <2>1. PICK e \in issued, p \in Periods, m \in Messages :
           x = <<e.pk, p, m>>
    BY DEF Verifiable
  <2>2. PICK f \in issued, g \in issued, h \in issued :
           ev_verify(e.pk, m, Mixed(p, f, g, h), SigBytes, "none") = 0
    BY <1>1, <2>1 DEF Verifiable, Mixed
  <2>3. Mixed(p, f, g, h).p \in Periods
    BY DEF Mixed
  <2>4. Accepts(legacy, e.pk, m, Mixed(p, f, g, h))
    BY <2>2, <2>3, VerifyIs
  <2>5. f.sig.p = p /\ f.m = m /\ Fits(legacy, e, f)
    BY <2>4, MixedFits
  <2>. QED  BY <2>1, <2>5 DEF Fitting
<1>2. ASSUME NEW x \in Fitting PROVE x \in Verifiable
  <2>1. PICK e \in issued, f \in issued :
           x = <<e.pk, f.sig.p, f.m>> /\ Fits(legacy, e, f)
    BY DEF Fitting
  <2>2. PICK p \in Periods : p = f.sig.p
    BY DEF ArchiveInv, InArchive
  <2>3. Mixed(p, f, f, f).p \in Periods
    BY DEF Mixed
  <2>4. ev_verify(e.pk, f.m, Mixed(p, f, f, f), SigBytes, "none") = 0
    BY <2>1, <2>2, <2>3, FittingVerifies, VerifyIs
  <2>5. x \in {d.pk : d \in issued} \X Periods \X Messages
    BY DEF Fitting
  <2>6. ev_verify(x[1], x[3],
                  [p |-> x[2], fswa |-> f.sig.fswa, t1 |-> f.sig.t1,
                   path |-> f.sig.path], SigBytes, "none") = 0
    BY <2>1, <2>2, <2>4 DEF Mixed
  <2>. QED  BY <2>5, <2>6 DEF Verifiable
<1>. QED  BY <1>1, <1>2

-----------------------------------------------------------------------------
(* The invariant of the refinement is preserved, action by action.         *)
LEMMA InitRefInv == ASSUME Init PROVE RefInv
  BY DEF Init, RefInv, KeyInv, LeafInv, ArchiveInv, OneKeyInv, FitInv

(* A new rho in the build with a matrix seed per period is not used yet.   *)
LEMMA NewRhoUnused ==
    ASSUME ArchiveInv, keygens \in Nat, ~legacy, NEW r, NEW e \in issued
    PROVE  ~Uses(legacy, e, NewRho(r))
<1>1. NewRho(r) = <<"random", keygens>>
  BY DEF NewRho
<1>2. ASSUME NEW rho, Drawn(legacy, keygens, rho) PROVE rho # NewRho(r)
  BY <1>1, <1>2 DEF Drawn
<1>3. e.pk.rho # NewRho(r)
  BY <1>2 DEF ArchiveInv, InArchive
<1>4. ASSUME NEW p \in Periods, e.sig.t1.mat = MatrixSeed(legacy, NewRho(r), p)
      PROVE  FALSE
  <2>1. PICK rho, q, t : /\ Drawn(legacy, keygens, rho)
                         /\ SignedBy(legacy, e, rho, q, t)
    BY DEF ArchiveInv, InArchive
  <2>2. e.sig.t1.mat = MatrixSeed(legacy, rho, t)
    BY <2>1 DEF SignedBy, KeyOf, LeafKey
  <2>3. rho = NewRho(r)
    BY <1>4, <2>2 DEF MatrixSeed
  <2>. QED  BY <1>2, <2>1, <2>3
<1>. QED  BY <1>3, <1>4 DEF Uses

(* So in both builds a key generation takes the rho of no other key.       *)
KeygenStep(r) == /\ keygens < MaxKeygens /\ keygens' = keygens + 1
                 /\ pk'.rho = NewRho(r)
                 /\ UNCHANGED <<legacy, issued>>

LEMMA NewRhoIsOwn ==
    ASSUME IInv, RefInv, NEW r, KeygenStep(r),
           legacy => \A e \in issued :
              pk'.rho \in {e.pk.rho, e.sig.t1.mat} => e.pk = pk',
           NEW e \in issued, Uses(legacy, e, pk'.rho)
    PROVE  e.pk = pk'
<1>1. keygens \in Nat
  BY BoundsAssumption DEF IInv, TypeOK
<1>2. CASE ~legacy
  BY <1>1, <1>2, NewRhoUnused DEF KeygenStep, RefInv
<1>3. CASE legacy
  BY <1>3 DEF Uses, MatrixSeed
<1>. QED  BY <1>2, <1>3

(* The archive stays as it is when a key is generated.                     *)
LEMMA DrawnLater ==
    ASSUME NEW b, NEW n \in Nat, NEW rho, Drawn(b, n, rho)
    PROVE  Drawn(b, n+1, rho)
<1>1. 0..n-1 \subseteq 0..(n+1)-1
  OBVIOUS
<1>. QED  BY <1>1 DEF Drawn

LEMMA ArchivedLater ==
    ASSUME NEW b, NEW n \in Nat, NEW e, InArchive(b, n, e)
    PROVE  InArchive(b, n+1, e)
<1>1. PICK rho, r, t : /\ t \in Periods
                       /\ Drawn(b, n, rho) /\ SignedBy(b, e, rho, r, t)
  BY DEF InArchive
<1>2. Drawn(b, n+1, rho) /\ Drawn(b, n+1, e.pk.rho)
  BY <1>1, DrawnLater DEF InArchive
<1>. QED  BY <1>1, <1>2 DEF InArchive

LEMMA KeygenArchive ==
    ASSUME IInv, RefInv, NEW r, KeygenStep(r)
    PROVE  /\ ArchiveInv' /\ FitInv'
           /\ Drawn(legacy, keygens', pk'.rho)
           /\ \A rho : Drawn(legacy, keygens, rho)
                         => Drawn(legacy, keygens', rho)
<1>1. /\ keygens \in Nat /\ keygens' = keygens + 1
      /\ UNCHANGED <<legacy, issued>>
  BY BoundsAssumption DEF IInv, TypeOK, KeygenStep
<1>2. \A rho : Drawn(legacy, keygens, rho) => Drawn(legacy, keygens', rho)
  BY <1>1, DrawnLater
<1>3. Drawn(legacy, keygens', pk'.rho)
  <2>1. legacy \/ pk'.rho = <<"random", keygens>>
    BY DEF KeygenStep, NewRho
  <2>2. keygens \in 0..keygens'-1
    BY <1>1
  <2>. QED  BY <2>1, <2>2 DEF Drawn
<1>4. ArchiveInv'
  BY <1>1, ArchivedLater DEF RefInv, ArchiveInv
<1>5. FitInv'
  BY <1>1 DEF RefInv, FitInv, Fits
<1>. QED  BY <1>2, <1>3, <1>4, <1>5

(* A key generation that fails: the published root and the leaf cache stay.*)
LEMMA KeygenFailsRefInv ==
    ASSUME IInv, RefInv, NEW r \in Roots, NEW site \in OutOfMemory,
           KeygenFails(r, site),
           legacy => \A e \in issued :
              pk'.rho \in {e.pk.rho, e.sig.t1.mat} => e.pk = pk'
    PROVE  RefInv'
<1>1. /\ phase' = "failed" /\ keygens < MaxKeygens /\ keygens' = keygens + 1
      /\ UNCHANGED <<legacy, issued, published>>
  BY DEF KeygenFails, caller
<1>2. /\ DOMAIN sk = {"tree", "mt", "rho", "leaf_rho", "leaf"}
      /\ DOMAIN pk = {"rho", "root"}
  BY DEF IInv, Fields
<1>3. /\ pk' = [pk EXCEPT !.rho = NewRho(r)]
      /\ sk' = [sk EXCEPT !.rho = NewRho(r), !.tree = TreeIn(r, 0),
                          !.mt = IF site = "tree" THEN NULL ELSE @]
  BY FreshTree DEF KeygenFails
<1>4. /\ pk'.rho = NewRho(r)
      /\ sk'.rho = NewRho(r) /\ sk'.tree = TreeIn(r, 0)
      /\ sk'.leaf = sk.leaf
      /\ sk'.mt # NULL => sk'.mt = sk.mt
  BY <1>2, <1>3
<1>5. KeygenStep(r)
  BY <1>1, <1>4 DEF KeygenStep
<1>6. /\ ArchiveInv' /\ FitInv' /\ Drawn(legacy, keygens', pk'.rho)
      /\ \A rho : Drawn(legacy, keygens, rho)
                    => Drawn(legacy, keygens', rho)
  BY <1>5, KeygenArchive
<1>7. KeyInv'
  <2> SUFFICES ASSUME sk.leaf # NULL PROVE KeyInv'
    BY <1>4 DEF KeyInv
  <2>1. pk' = [rho |-> sk'.rho, root |-> published.root]
    <3>1. pk = [rho |-> sk.rho, root |-> published.root]
      BY DEF RefInv, KeyInv
    <3>. QED  BY <1>3, <1>4, <3>1
  <2>2. PICK rho, q, z : PublishedBy(rho, q, z)
    BY DEF RefInv, KeyInv
  <2>3. PublishedBy(rho, q, z)'
    BY <1>1, <1>4, <2>2 DEF PublishedBy
  <2>. QED  BY <1>1, <1>4, <1>6, <2>1, <2>3 DEF KeyInv
<1>8. LeafInv'
  <2>1. 0 \in Periods /\ r \in Nat
    BY TPositive, RootsAssumption DEF Periods
  <2>2. sk'.tree.current = 0
    BY <1>4, <2>1, TreeFacts
  <2>3. ASSUME NEW rho, NEW q, NEW t \in Periods, CacheFrom(rho, q, t)
        PROVE  CacheFrom(rho, q, t)'
    BY <1>1, <1>4, <1>6, <2>2, <2>3 DEF CacheFrom
  <2>. QED  BY <1>4, <2>3 DEF RefInv, LeafInv
<1>9. OneKeyInv'
  <2>1. ASSUME NEW e \in issued, Uses(legacy, e, pk'.rho)
        PROVE  e.pk = pk'
    BY <1>5, <2>1, NewRhoIsOwn
  <2>2. \A e \in issued : e.pk.rho = published.rho => e.pk = published
    BY DEF RefInv, OneKeyInv
  <2>. QED  BY <1>1, <2>1, <2>2 DEF OneKeyInv
<1>. QED  BY <1>6, <1>7, <1>8, <1>9 DEF RefInv

(* A new key: everything is its own.                                       *)
LEMMA KeygenRefInv ==
    ASSUME IInv, RefInv, NEW r \in Roots,
           NEW zeroed \in {{}} \cup {{p} : p \in Periods}, Keygen(r, zeroed),
           legacy => \A e \in issued :
              pk'.rho \in {e.pk.rho, e.sig.t1.mat} => e.pk = pk'
    PROVE  RefInv'
<1>0. PICK rho, mt :
        rho = NewRho(r) /\ mt = Committed(legacy, rho, r, zeroed)
  OBVIOUS
<1>1. /\ keygens' = keygens + 1 /\ keygens < MaxKeygens
      /\ UNCHANGED <<legacy, issued>>
      /\ published' = pk'
  BY DEF Keygen, caller
<1>2. 0 \in Periods /\ r \in Nat
  BY TPositive, RootsAssumption DEF Periods
<1>3. /\ pk' = [rho |-> rho, root |-> mt[0][0]]
      /\ sk' = WithLeaf([sk EXCEPT !.rho = rho, !.mt = mt], rho, TreeIn(r, 0))
  BY <1>0, FreshTree, DigestsAre DEF Keygen, Committed
<1>4. PICK s : s = [sk EXCEPT !.rho = rho, !.mt = mt]
  OBVIOUS
<1>5. /\ DOMAIN s = {"tree", "mt", "rho", "leaf_rho", "leaf"}
      /\ s.rho = rho /\ s.mt = mt
      /\ sk' = WithLeaf(s, rho, TreeIn(r, 0))
  BY <1>3, <1>4 DEF IInv, Fields
<1>6. /\ sk'.tree = TreeIn(r, 0) /\ sk'.tree.current = 0
      /\ sk'.mt = mt /\ sk'.rho = rho
      /\ sk'.leaf = PairOf(legacy, rho, r, 0)
  BY <1>2, <1>5, WithLeafFields, TreeFacts
<1>7. KeygenStep(r)
  BY <1>0, <1>1, <1>3 DEF KeygenStep
<1>8. /\ ArchiveInv' /\ FitInv' /\ Drawn(legacy, keygens', pk'.rho)
  BY <1>7, KeygenArchive
<1>9. KeyInv'
  <2>1. PublishedBy(rho, r, zeroed)'
    BY <1>0, <1>1, <1>3, <1>6 DEF PublishedBy, KeyFrom
  <2>. QED  BY <1>1, <1>3, <1>6, <1>8, <2>1 DEF KeyInv
<1>10. LeafInv'
  <2>1. CacheFrom(rho, r, 0)'
    BY <1>1, <1>3, <1>6, <1>8 DEF CacheFrom
  <2>. QED  BY <1>2, <2>1 DEF LeafInv
<1>11. OneKeyInv'
  <2>1. ASSUME NEW e \in issued, Uses(legacy, e, pk'.rho)
        PROVE  e.pk = pk'
    BY <1>7, <2>1, NewRhoIsOwn
  <2>2. \A e \in issued : e.pk.rho = pk'.rho => Uses(legacy, e, pk'.rho)
    BY DEF Uses
  <2>. QED  BY <1>1, <2>1, <2>2 DEF OneKeyInv
<1>. QED  BY <1>8, <1>9, <1>10, <1>11 DEF RefInv

(* A call that leaves keys and archive alone.                              *)
LEMMA QuietRefInv ==
    ASSUME RefInv, UNCHANGED <<legacy, pk, published, issued, keygens>>,
           phase' = phase \/ phase' = "crashed",
           sk'.tree = sk.tree, sk'.leaf = sk.leaf, sk'.rho = sk.rho,
           sk'.mt = sk.mt \/ sk'.mt = NULL
    PROVE  RefInv'
<1>1. KeyInv'
  <2>1. ASSUME NEW rho, NEW r, NEW z, PublishedBy(rho, r, z)
        PROVE  PublishedBy(rho, r, z)'
    BY <2>1 DEF PublishedBy
  <2>. QED  BY <2>1 DEF RefInv, KeyInv
<1>2. LeafInv'
  BY DEF RefInv, LeafInv, CacheFrom
<1>3. ArchiveInv'
  BY DEF RefInv, ArchiveInv
<1>4. OneKeyInv'
  BY DEF RefInv, OneKeyInv, Uses
<1>5. FitInv'
  BY DEF RefInv, FitInv, Fits
<1>. QED  BY <1>1, <1>2, <1>3, <1>4, <1>5 DEF RefInv

(* An evolution replaces the leaf cache, or changes nothing.               *)
LEMMA EvolveRefInv == ASSUME IInv, RefInv, Evolve PROVE RefInv'
<1>1. /\ phase \in {"ready", "failed"} /\ sk.leaf # NULL
      /\ UNCHANGED <<legacy, phase, pk, issued, published, keygens>>
  BY DEF Evolve, Usable, caller
<1>2. PICK r \in Roots, t \in Periods : InTree(r, t)
  BY <1>1 DEF IInv, TreeInv
<1>3. sk.tree = TreeIn(r, t) /\ r \in Nat
  BY <1>2, RootsAssumption DEF InTree
<1>4. t \in Nat /\ T \in Nat
  BY TPositive DEF Periods
<1>5. CASE t + 1 >= T
  <2>1. UNCHANGED sk
    BY <1>3, <1>5, AdvanceTree DEF Evolve
  <2>. QED  BY <1>1, <2>1, QuietRefInv
<1>6. CASE t + 1 < T
  <2>1. /\ t + 1 \in Periods /\ t + 1 # 0
        /\ ev_tree_advance(sk.tree) = [rc |-> 0, tree |-> TreeIn(r, t+1)]
    BY <1>3, <1>4, <1>6, AdvanceTree
  <2>2. sk' = WithLeaf(sk, sk.rho, TreeIn(r, t+1))
    BY <2>1 DEF Evolve
  <2>3. /\ sk'.mt = sk.mt /\ sk'.rho = sk.rho
        /\ sk'.leaf = PairOf(legacy, sk.rho, r, t+1)
    BY <1>3, <2>1, <2>2, WithLeafFields DEF IInv, Fields
  <2>4. KeyInv'
    <3>1. PICK rho, q, z : PublishedBy(rho, q, z)
      BY <1>1 DEF RefInv, KeyInv
    <3>2. PublishedBy(rho, q, z)'
      BY <1>1, <2>3, <3>1 DEF PublishedBy
    <3>. QED  BY <1>1, <2>3, <3>2 DEF RefInv, KeyInv
  <2>5. LeafInv'
    <3>1. PICK rho : rho = sk.rho
      OBVIOUS
    <3>2. CacheFrom(rho, r, t+1)'
      BY <1>1, <2>1, <2>3, <3>1 DEF RefInv, KeyInv, CacheFrom
    <3>. QED  BY <2>1, <3>2 DEF LeafInv
  <2>6. ArchiveInv'
    BY <1>1 DEF RefInv, ArchiveInv
  <2>7. OneKeyInv'
    BY <1>1 DEF RefInv, OneKeyInv, Uses
  <2>8. FitInv'
    BY <1>1 DEF RefInv, FitInv, Fits
  <2>. QED  BY <2>4, <2>5, <2>6, <2>7, <2>8 DEF RefInv
<1>. QED  BY <1>4, <1>5, <1>6

-----------------------------------------------------------------------------
(* What a signing adds to the archive.                                     *)
Adds(m, f) == /\ issued' = issued \cup {f}
              /\ f.pk = pk /\ f.m = m
              /\ f.sig.p = sk.tree.current
              /\ f.sig.t1 = sk.leaf.t1
              /\ f.sig.fswa = crypto_sign_signature(<<f.sig.p, m>>, f.sig.t1)
              /\ f.sig.path = OwnPathOf(sk.mt, f.sig.p)

LEMMA SignAdds ==
    ASSUME IInv, RefInv, NEW m \in Messages, Signs(m), sk.mt # NULL
    PROVE  /\ Adds(m, Issue(m, sig'))
           /\ sk.tree.current \in Periods /\ sk.leaf # NULL
<1>1. phase \in {"ready", "failed"} /\ sk.leaf # NULL
  BY DEF Signs, Usable
<1>2. PICK r \in Roots, t \in Periods : InTree(r, t)
  BY <1>1 DEF IInv, TreeInv
<1>3. sk.tree.current = t
  BY <1>2, TreeFacts, RootsAssumption DEF InTree
<1>4. /\ sig'.p = t /\ sig'.t1 = sk.leaf.t1
      /\ sig'.fswa = crypto_sign_signature(<<t, m>>, sk.leaf.sk)
      /\ sig'.path = OwnPathOf(sk.mt, t)
      /\ issued' = issued \cup {Issue(m, sig')}
  BY <1>3 DEF Signs
<1>5. sk.leaf.sk = sk.leaf.t1
  <2>1. PICK rho, q, u : u \in Periods /\ CacheFrom(rho, q, u)
    BY <1>1 DEF RefInv, LeafInv
  <2>. QED  BY <2>1 DEF CacheFrom, PairOf, ev_leaf_keypair
<1>6. /\ Issue(m, sig').pk = pk /\ Issue(m, sig').m = m
      /\ Issue(m, sig').sig = sig'
  BY DEF Issue
<1>. QED  BY <1>1, <1>3, <1>4, <1>5, <1>6 DEF Adds

(* The new one is made like the others.                                    *)
LEMMA AddedIsArchived ==
    ASSUME RefInv, NEW m \in Messages, NEW f, Adds(m, f),
           sk.tree.current \in Periods, sk.leaf # NULL, sk.mt # NULL
    PROVE  InArchive(legacy, keygens, f)
<1>1. f.pk = [rho |-> f.pk.rho, root |-> f.pk.root]
  <2>1. pk = [rho |-> sk.rho, root |-> published.root]
    BY DEF RefInv, KeyInv
  <2>. QED  BY <2>1 DEF Adds
<1>2. Drawn(legacy, keygens, f.pk.rho)
  <2>1. f.pk.rho = sk.rho
    BY DEF RefInv, KeyInv, Adds
  <2>. QED  BY <2>1 DEF RefInv, KeyInv
<1>3. PICK rho, r, t : t \in Periods /\ CacheFrom(rho, r, t)
  BY DEF RefInv, LeafInv
<1>4. /\ Drawn(legacy, keygens, rho)
      /\ SignedBy(legacy, f, rho, r, t)
  <2>1. f.sig.t1 = KeyOf(legacy, rho, r, t)
    BY <1>3 DEF Adds, CacheFrom, PairOf, ev_leaf_keypair, KeyOf
  <2>2. f.sig.fswa = crypto_sign_signature(<<f.sig.p, f.m>>, f.sig.t1)
    BY DEF Adds
  <2>3. Drawn(legacy, keygens, rho)
    BY <1>3 DEF CacheFrom
  <2>. QED  BY <2>1, <2>2, <2>3 DEF SignedBy
<1>5. PICK rho2, r2, z2 : PublishedBy(rho2, r2, z2)
  BY DEF RefInv, KeyInv
<1>6. PathIn(legacy, f, rho2, r2, z2)
  <2>1. f.pk.root = Committed(legacy, rho2, r2, z2)[0][0]
    BY <1>5 DEF PublishedBy, KeyFrom, RefInv, KeyInv, Adds
  <2>2. f.sig.path = OwnPathOf(Committed(legacy, rho2, r2, z2), f.sig.p)
    BY <1>5 DEF PublishedBy, Adds
  <2>. QED  BY <2>1, <2>2 DEF PathIn
<1>7. f.sig.p \in Periods /\ f.m \in Messages
  BY DEF Adds
<1>. QED  BY <1>1, <1>2, <1>3, <1>4, <1>6, <1>7 DEF InArchive

(* The public key in the structs is the published one as soon as its rho   *)
(* is, or as it is whole.                                                  *)
LEMMA KeyIsPublished ==
    ASSUME RefInv, sk.leaf # NULL, pk.rho = published.rho
    PROVE  pk = published
<1>1. PICK rho, r, z : PublishedBy(rho, r, z)
  BY DEF RefInv, KeyInv
<1>2. pk = [rho |-> pk.rho, root |-> published.root]
  BY DEF RefInv, KeyInv
<1>3. published = [rho |-> published.rho, root |-> published.root]
  BY <1>1 DEF PublishedBy, KeyFrom
<1>. QED  BY <1>2, <1>3

LEMMA WholeIsPublished ==
    ASSUME RefInv, sk.leaf # NULL, NEW rho, NEW r, NEW z, NEW p \in Periods,
           pk = KeyFrom(legacy, rho, r, z), p \notin z
    PROVE  pk = published
<1>1. PICK rho2, r2, z2 : PublishedBy(rho2, r2, z2)
  BY DEF RefInv, KeyInv
<1>2. /\ published.rho = rho2 /\ pk.rho = rho
      /\ Committed(legacy, rho, r, z)[0][0]
           = Committed(legacy, rho2, r2, z2)[0][0]
  <2>1. published.root = Committed(legacy, rho2, r2, z2)[0][0]
    BY <1>1 DEF PublishedBy, KeyFrom
  <2>2. pk.root = published.root
    BY DEF RefInv, KeyInv
  <2>. QED  BY <1>1, <2>1, <2>2 DEF PublishedBy, KeyFrom
<1>3. Digests(legacy, rho, r, z)[p] = Digests(legacy, rho2, r2, z2)[p]
  BY <1>2, RootsAgree
<1>4. Digests(legacy, rho, r, z)[p] = <<"leaf", KeyOf(legacy, rho, r, p)>>
  BY DigestTells
<1>5. KeyOf(legacy, rho, r, p) = KeyOf(legacy, rho2, r2, p)
  <2>1. Digests(legacy, rho2, r2, z2)[p] = <<"leaf", KeyOf(legacy, rho, r, p)>>
    BY <1>3, <1>4
  <2>. QED  BY <2>1, DigestTells
<1>6. rho = rho2
  BY <1>5, LeafTells
<1>. QED  BY <1>2, <1>6, KeyIsPublished

(* The leaf signature that is added fits the published key only.           *)
LEMMA AddedFits ==
    ASSUME RefInv, NEW m \in Messages, NEW f, Adds(m, f),
           sk.tree.current \in Periods, sk.leaf # NULL, sk.mt # NULL,
           NEW e \in issued', Fits(legacy, e, f)
    PROVE  e.pk = published
<1>1. PICK p \in Periods : p = f.sig.p
  BY DEF Adds
<1>2. PICK rho, r, z : /\ e.pk = KeyFrom(legacy, rho, r, z)
                       /\ p \notin z
                       /\ f.sig.t1 = KeyOf(legacy, rho, r, p)
  BY <1>1 DEF Fits
<1>3. PICK rho2, r2, t2 : t2 \in Periods /\ CacheFrom(rho2, r2, t2)
  BY DEF RefInv, LeafInv
<1>4. rho = rho2 /\ p = t2
  <2>1. f.sig.t1 = KeyOf(legacy, rho2, r2, t2)
    BY <1>3 DEF Adds, CacheFrom, PairOf, ev_leaf_keypair, KeyOf
  <2>2. KeyOf(legacy, rho, r, p) = KeyOf(legacy, rho2, r2, t2)
    BY <1>2, <2>1
  <2>. QED  BY <2>2, LeafTells
<1>5. e \in issued \/ e.pk = pk
  BY DEF Adds
<1>6. e.pk.rho = rho
  BY <1>2 DEF KeyFrom
<1>7. CASE p = 0
  <2>1. rho = published.rho
    BY <1>3, <1>4, <1>7 DEF CacheFrom
  <2>2. ASSUME e \in issued PROVE e.pk = published
    BY <1>6, <2>1, <2>2 DEF RefInv, OneKeyInv
  <2>3. ASSUME e.pk = pk PROVE e.pk = published
    BY <1>6, <2>1, <2>3, KeyIsPublished
  <2>. QED  BY <1>5, <2>2, <2>3
<1>8. CASE p # 0
  <2>1. rho = sk.rho /\ pk.rho = sk.rho
    BY <1>1, <1>3, <1>4, <1>8 DEF CacheFrom, Adds, RefInv, KeyInv
  <2>2. e.pk = pk
    <3>1. Uses(legacy, e, pk.rho)
      BY <1>6, <2>1 DEF Uses
    <3>. QED  BY <1>5, <3>1 DEF RefInv, OneKeyInv
  <2>. QED  BY <1>2, <2>2, WholeIsPublished
<1>. QED  BY <1>7, <1>8

(* And an old one fits a key that is archived now only if it did before.   *)
LEMMA OldFits ==
    ASSUME RefInv, NEW m \in Messages, NEW f, Adds(m, f),
           NEW e \in issued', NEW g \in issued, Fits(legacy, e, g)
    PROVE  \E d \in issued : d.pk = e.pk /\ Fits(legacy, d, g)
<1>1. CASE e \in issued
  BY <1>1
<1>2. CASE e \notin issued
  <2>1. e.pk = pk
    BY <1>2 DEF Adds
  <2>2. PICK rho, r, z : /\ e.pk = KeyFrom(legacy, rho, r, z)
                         /\ g.sig.p \notin z
                         /\ g.sig.t1 = KeyOf(legacy, rho, r, g.sig.p)
    BY DEF Fits
  <2>3. g.sig.p \in Periods
    BY DEF RefInv, ArchiveInv, InArchive
  <2>4. Uses(legacy, g, pk.rho)
    BY <2>1, <2>2, <2>3 DEF Uses, KeyFrom, KeyOf, LeafKey
  <2>5. g.pk = pk
    BY <2>4 DEF RefInv, OneKeyInv
  <2>6. Fits(legacy, g, g)
    BY <2>1, <2>2, <2>5 DEF Fits
  <2>. QED  BY <2>1, <2>5, <2>6
<1>. QED  BY <1>1, <1>2

(* A signer changes neither keys nor structs, only the archive grows.      *)
LEMMA SignsRefInv ==
    ASSUME IInv, RefInv, NEW m \in Messages, Signs(m)
    PROVE  RefInv'
<1>1. UNCHANGED <<legacy, phase, pk, sk, published, keygens>>
  BY DEF Signs
<1>2. CASE sk.mt = NULL
  <2>1. UNCHANGED issued
    BY <1>2 DEF Signs
  <2>. QED  BY <1>1, <2>1, QuietRefInv
<1>3. CASE sk.mt # NULL
  <2>1. PICK f : /\ Adds(m, f)
                 /\ sk.tree.current \in Periods /\ sk.leaf # NULL
    BY <1>3, SignAdds
  <2>2. \A e \in issued' : e \in issued \/ e = f
    BY <2>1 DEF Adds
  <2>3. KeyInv'
    BY <1>1 DEF RefInv, KeyInv, PublishedBy
  <2>4. LeafInv'
    BY <1>1 DEF RefInv, LeafInv, CacheFrom
  <2>5. ArchiveInv'
    <3>1. InArchive(legacy, keygens, f)
      BY <1>3, <2>1, AddedIsArchived
    <3>. QED  BY <1>1, <2>2, <3>1 DEF RefInv, ArchiveInv
  <2>6. OneKeyInv'
    <3>1. f.pk = pk
      BY <2>1 DEF Adds
    <3>2. f.pk.rho = published.rho => f.pk = published
      BY <2>1, <3>1, KeyIsPublished
    <3>. QED  BY <1>1, <2>2, <3>1, <3>2 DEF RefInv, OneKeyInv
  <2>7. FitInv'
    <3> SUFFICES ASSUME NEW e \in issued', NEW g \in issued',
                        Fits(legacy, e, g)
                 PROVE  g.pk.root = e.pk.root
      BY <1>1 DEF FitInv
    <3>1. CASE g = f
      <4>1. e.pk = published
        BY <1>3, <2>1, <3>1, AddedFits
      <4>2. g.pk = pk /\ pk.root = published.root
        BY <2>1, <3>1 DEF Adds, RefInv, KeyInv
      <4>. QED  BY <4>1, <4>2
    <3>2. CASE g \in issued
      <4>1. PICK d \in issued : d.pk = e.pk /\ Fits(legacy, d, g)
        BY <2>1, <3>2, OldFits
      <4>. QED  BY <3>2, <4>1 DEF RefInv, FitInv
    <3>. QED  BY <2>2, <3>1, <3>2
  <2>. QED  BY <2>3, <2>4, <2>5, <2>6, <2>7 DEF RefInv
<1>. QED  BY <1>2, <1>3

(* What the caller promises, for one step.                                 *)
Serves == legacy /\ keygens' # keygens =>
            \A e \in issued :
               pk'.rho \in {e.pk.rho, e.sig.t1.mat} => e.pk = pk'

LEMMA StepRefInv ==
    ASSUME IInv, RefInv, [AnySigner]_vars, [Serves]_vars
    PROVE  RefInv'
<1>1. CASE \/ \E t \in BadT : KeygenRefused(t)
           \/ SignFails \/ UNCHANGED vars
  BY <1>1, QuietRefInv DEF KeygenRefused, SignFails, vars, caller
<1>2. CASE KeygenCrashes
  BY <1>2, QuietRefInv DEF KeygenCrashes, caller
<1>3. ASSUME NEW r \in Roots, NEW site \in OutOfMemory, KeygenFails(r, site)
      PROVE  RefInv'
  <2>1. keygens' # keygens
    BY <1>3, BoundsAssumption DEF KeygenFails, IInv, TypeOK
  <2>2. Serves
    BY <2>1 DEF vars
  <2>. QED  BY <1>3, <2>1, <2>2, KeygenFailsRefInv DEF Serves
<1>4. ASSUME NEW r \in Roots,
             NEW zeroed \in {{}} \cup {{p} : p \in Periods}, Keygen(r, zeroed)
      PROVE  RefInv'
  <2>1. keygens' # keygens
    BY <1>4, BoundsAssumption DEF Keygen, IInv, TypeOK
  <2>2. Serves
    BY <2>1 DEF vars
  <2>. QED  BY <1>4, <2>1, <2>2, KeygenRefInv DEF Serves
<1>5. CASE MerkleFree
  <2>1. /\ UNCHANGED <<legacy, phase, pk, published, issued, keygens>>
        /\ sk' = [sk EXCEPT !.mt = NULL]
    BY <1>5 DEF MerkleFree, caller
  <2>2. /\ sk'.tree = sk.tree /\ sk'.leaf = sk.leaf /\ sk'.rho = sk.rho
        /\ sk'.mt = NULL
    BY <2>1 DEF IInv, Fields
  <2>. QED  BY <2>1, <2>2, QuietRefInv
<1>. QED  BY <1>1, <1>2, <1>3, <1>4, <1>5, EvolveRefInv, SignSigns, SignsRefInv
          DEF AnySigner, Next

-----------------------------------------------------------------------------
(* The state of the abstract scheme that a state stands for.               *)
AbsKey    == IF Usable THEN published ELSE NULL
AbsPeriod == IF Usable THEN sk.tree.current ELSE 0

LEMMA AbsNewKey ==
    ASSUME AbsPeriod' = 0, UNCHANGED Verifiable
    PROVE  Scheme!Next
  BY Zenon DEF AbsPeriod, Scheme!Next, Scheme!NewKey

LEMMA AbsSign ==
    ASSUME NEW m \in Messages, AbsKey # NULL,
           Verifiable' = Verifiable \cup {<<AbsKey, AbsPeriod, m>>},
           UNCHANGED <<AbsKey, AbsPeriod>>
    PROVE  Scheme!Next
<1>1. Scheme!Sign(m)
  BY DEF AbsKey, AbsPeriod, Scheme!Sign
<1>. QED  BY <1>1 DEF Scheme!Next

LEMMA AbsEvolve ==
    ASSUME AbsKey # NULL, AbsPeriod < T - 1, AbsPeriod' = AbsPeriod + 1,
           UNCHANGED <<AbsKey, Verifiable>>
    PROVE  Scheme!Next
<1>1. Scheme!Evolve
  BY DEF AbsKey, AbsPeriod, Scheme!Evolve
<1>. QED  BY <1>1 DEF Scheme!Next

LEMMA AbsStutter ==
    ASSUME UNCHANGED <<AbsKey, AbsPeriod, Verifiable>>
    PROVE  UNCHANGED Scheme!vars
  BY DEF AbsKey, AbsPeriod, Scheme!vars

(* A model value is no public key.                                         *)
NullIsNoKey == \A rho, root : [rho |-> rho, root |-> root] # NULL

(* A signing makes one triple verifiable, of the published key, its period *)
(* and the message, or none.                                               *)
LEMMA SignExtends ==
    ASSUME IInv, RefInv, NEW m \in Messages, Signs(m), sk.mt # NULL
    PROVE  \/ Fitting' = Fitting
           \/ Fitting' = Fitting \cup {<<published, sk.tree.current, m>>}
<1>1. legacy' = legacy
  BY DEF Signs
<1>2. PICK f : /\ Adds(m, f)
               /\ sk.tree.current \in Periods /\ sk.leaf # NULL
  BY SignAdds
<1>3. PICK new : new = <<published, sk.tree.current, m>>
  OBVIOUS
<1>4. ASSUME NEW x \in Fitting PROVE x \in Fitting'
  <2>1. issued \subseteq issued'
    BY <1>2 DEF Adds
  <2>. QED  BY <1>1, <2>1 DEF Fitting
<1>5. ASSUME NEW x \in Fitting', x # new PROVE x \in Fitting
  <2>1. PICK e \in issued', g \in issued' :
           x = <<e.pk, g.sig.p, g.m>> /\ Fits(legacy, e, g)
    BY <1>1, <1>5 DEF Fitting
  <2>2. g # f
    <3> SUFFICES ASSUME g = f PROVE FALSE
      OBVIOUS
    <3>1. e.pk = published
      BY <1>2, <2>1, AddedFits
    <3>2. x = new
      BY <1>2, <1>3, <2>1, <3>1 DEF Adds
    <3>. QED  BY <1>5, <3>2
  <2>3. g \in issued
    BY <1>2, <2>2 DEF Adds
  <2>4. PICK d \in issued : d.pk = e.pk /\ Fits(legacy, d, g)
    BY <1>2, <2>1, <2>3, OldFits
  <2>5. x = <<d.pk, g.sig.p, g.m>>
    BY <2>1, <2>4
  <2>6. g.sig.p \in Periods /\ g.m \in Messages
    BY <2>3 DEF RefInv, ArchiveInv, InArchive
  <2>7. x \in {c.pk : c \in issued} \X Periods \X Messages
    BY <2>5, <2>6
  <2>. QED  BY <2>3, <2>4, <2>5, <2>7 DEF Fitting
<1>6. CASE new \in Fitting'
  BY <1>3, <1>4, <1>5, <1>6
<1>7. CASE new \notin Fitting'
  BY <1>4, <1>5, <1>7
<1>. QED  BY <1>6, <1>7

(* Each call of the scheme is a step of the abstract one, or none.         *)
LEMMA Simulation ==
    ASSUME IInv, RefInv, NullIsNoKey, [AnySigner]_vars,
           Verifiable = Fitting, Verifiable' = Fitting'
    PROVE  Scheme!Next \/ UNCHANGED Scheme!vars
<1>1. ASSUME UNCHANGED <<legacy, issued>>
      PROVE  UNCHANGED Verifiable
  BY <1>1 DEF Fitting
<1>2. ASSUME UNCHANGED <<legacy, phase, published, issued>>,
             sk'.leaf = sk.leaf, sk'.tree = sk.tree
      PROVE  UNCHANGED Scheme!vars
  <2>1. UNCHANGED <<AbsKey, AbsPeriod>>
    BY <1>2 DEF AbsKey, AbsPeriod, Usable
  <2>. QED  BY <1>1, <1>2, <2>1, AbsStutter
<1>3. Usable => AbsKey = published /\ published # NULL
  <2>1. Usable => \E rho, r, z : PublishedBy(rho, r, z)
    BY DEF Usable, RefInv, KeyInv
  <2>. QED  BY <2>1 DEF AbsKey, PublishedBy, KeyFrom, NullIsNoKey
<1>4. CASE \/ \E t \in BadT : KeygenRefused(t)
           \/ SignFails \/ UNCHANGED vars
  BY <1>2, <1>4 DEF KeygenRefused, SignFails, vars, caller
<1>5. ASSUME NEW r \in Roots, NEW site \in OutOfMemory, KeygenFails(r, site)
      PROVE  Scheme!Next
  <2>1. UNCHANGED <<legacy, issued>>
    BY <1>5 DEF KeygenFails, caller
  <2>2. r \in Nat /\ 0 \in Periods
    BY RootsAssumption, TPositive DEF Periods
  <2>3. sk' = [sk EXCEPT !.rho = NewRho(r), !.tree = TreeIn(r, 0),
                         !.mt = IF site = "tree" THEN NULL ELSE @]
    BY <1>5, FreshTree DEF KeygenFails
  <2>4. sk'.tree = TreeIn(r, 0)
    BY <2>3 DEF IInv, Fields
  <2>5. AbsPeriod' = 0
    BY <2>2, <2>4, TreeFacts DEF AbsPeriod
  <2>. QED  BY <1>1, <2>1, <2>5, AbsNewKey
<1>6. CASE KeygenCrashes
  <2>1. phase' = "crashed" /\ UNCHANGED <<legacy, issued>>
    BY <1>6 DEF KeygenCrashes, caller
  <2>2. AbsPeriod' = 0
    BY <2>1 DEF AbsPeriod, Usable
  <2>. QED  BY <1>1, <2>1, <2>2, AbsNewKey
<1>7. ASSUME NEW r \in Roots,
             NEW zeroed \in {{}} \cup {{p} : p \in Periods}, Keygen(r, zeroed)
      PROVE  Scheme!Next
  <2>1. UNCHANGED <<legacy, issued>>
    BY <1>7 DEF Keygen, caller
  <2>2. PICK rho, mt, s : /\ s = [sk EXCEPT !.rho = rho, !.mt = mt]
                          /\ sk' = WithLeaf(s, rho, TreeIn(r, 0))
    BY <1>7, FreshTree, Zenon DEF Keygen
  <2>3. r \in Nat /\ 0 \in Periods
    BY RootsAssumption, TPositive DEF Periods
  <2>4. sk'.tree = TreeIn(r, 0)
    <3>1. DOMAIN s = {"tree", "mt", "rho", "leaf_rho", "leaf"}
      BY <2>2 DEF IInv, Fields
    <3>2. sk' = WithLeaf(s, rho, TreeIn(r, 0))
      BY <2>2
    <3>. QED  BY <2>3, <3>1, <3>2, WithLeafFields
  <2>5. AbsPeriod' = 0
    BY <2>3, <2>4, TreeFacts DEF AbsPeriod
  <2>. QED  BY <1>1, <2>1, <2>5, AbsNewKey
<1>8. CASE Evolve
  <2>1. /\ Usable /\ phase \in {"ready", "failed"}
        /\ UNCHANGED <<legacy, phase, published, issued>>
    BY <1>8 DEF Evolve, caller, Usable
  <2>2. PICK r \in Roots, t \in Periods : InTree(r, t)
    BY <2>1 DEF IInv, TreeInv
  <2>3. sk.tree = TreeIn(r, t) /\ r \in Nat /\ sk.tree.current = t
    BY <2>2, TreeFacts, RootsAssumption DEF InTree
  <2>4. t \in Nat /\ T \in Nat
    BY TPositive DEF Periods
  <2>5. CASE t + 1 >= T
    <3>1. ev_tree_advance(sk.tree).rc # 0
      BY <2>3, <2>5, AdvanceTree
    <3>2. UNCHANGED sk
      BY <1>8, <3>1 DEF Evolve
    <3>. QED  BY <1>2, <2>1, <3>2
  <2>6. CASE t + 1 < T
    <3>1. /\ t + 1 \in Periods
          /\ ev_tree_advance(sk.tree) = [rc |-> 0, tree |-> TreeIn(r, t+1)]
      BY <2>3, <2>4, <2>6, AdvanceTree
    <3>2. sk' = WithLeaf(sk, sk.rho, TreeIn(r, t+1))
      BY <1>8, <3>1 DEF Evolve
    <3>3. sk'.tree.current = t + 1
      BY <2>3, <3>1, <3>2, WithLeafFields, TreeFacts DEF IInv, Fields
    <3>4. CASE Usable'
      <4>1. AbsKey # NULL /\ UNCHANGED AbsKey
        BY <1>3, <2>1, <3>4 DEF AbsKey
      <4>2. AbsPeriod = t /\ AbsPeriod' = t + 1 /\ t < T - 1
        BY <2>1, <2>3, <2>4, <2>6, <3>3, <3>4 DEF AbsPeriod
      <4>. QED  BY <1>1, <2>1, <4>1, <4>2, AbsEvolve
    <3>5. CASE ~Usable'
      <4>1. AbsPeriod' = 0
        BY <3>5 DEF AbsPeriod
      <4>. QED  BY <1>1, <2>1, <4>1, AbsNewKey
    <3>. QED  BY <3>4, <3>5
  <2>. QED  BY <2>4, <2>5, <2>6
<1>9. ASSUME NEW m \in Messages, Signs(m)
      PROVE  Scheme!Next \/ UNCHANGED Scheme!vars
  <2>1. Usable /\ UNCHANGED <<legacy, phase, sk, published>>
    BY <1>9 DEF Signs
  <2>2. CASE sk.mt = NULL
    <3>1. UNCHANGED issued
      BY <1>9, <2>2 DEF Signs
    <3>. QED  BY <1>2, <2>1, <3>1
  <2>3. CASE sk.mt # NULL
    <3>1. AbsKey = published /\ AbsKey # NULL /\ AbsPeriod = sk.tree.current
      BY <1>3, <2>1 DEF AbsPeriod
    <3>2. UNCHANGED <<AbsKey, AbsPeriod>>
      BY <2>1 DEF AbsKey, AbsPeriod, Usable
    <3>3. CASE Fitting' = Fitting
      BY <3>2, <3>3, AbsStutter
    <3>4. CASE Fitting' = Fitting \cup {<<published, sk.tree.current, m>>}
      BY <3>1, <3>2, <3>4, AbsSign
    <3>. QED  BY <1>9, <2>3, <3>3, <3>4, SignExtends
  <2>. QED  BY <2>2, <2>3
<1>10. CASE MerkleFree
  <2>1. /\ UNCHANGED <<legacy, phase, published, issued>>
        /\ sk' = [sk EXCEPT !.mt = NULL]
    BY <1>10 DEF MerkleFree, caller
  <2>2. sk'.leaf = sk.leaf /\ sk'.tree = sk.tree
    BY <2>1 DEF IInv, Fields
  <2>. QED  BY <1>2, <2>1, <2>2
<1>. QED  BY <1>4, <1>5, <1>6, <1>7, <1>8, <1>9, <1>10, SignSigns
          DEF AnySigner, Next

LEMMA SignersRefine ==
    ASSUME NullIsNoKey
    PROVE  SignersSpec /\ [][Serves]_vars => ImplementsKeyEvolving
<1>1. Init => Scheme!Init
  <2>1. ASSUME Init PROVE ~Usable /\ Verifiable = {}
    BY <2>1 DEF Init, Usable, Verifiable
  <2>. QED  BY <2>1 DEF Scheme!Init
<1>2. RefInv => Verifiable = Fitting
  BY VerifiableIs DEF RefInv
<1>3. IInv /\ RefInv /\ [AnySigner]_vars /\ [Serves]_vars => RefInv'
  BY StepRefInv
<1>4. /\ IInv /\ RefInv /\ [AnySigner]_vars
      /\ Verifiable = Fitting /\ (Verifiable = Fitting)'
      => [Scheme!Next]_(Scheme!vars)
  BY Simulation
<1>. QED  BY <1>1, <1>2, <1>3, <1>4, InitRefInv, SignersInvariance, PTL
          DEF SignersSpec, ImplementsKeyEvolving, Scheme!Spec

(* A triple of key, period and message becomes verifiable only when its    *)
(* key signs it in its period, and for ever, through evolutions, new keys, *)
(* a freed tree and calls that fail, key generations that fail half way    *)
(* among them, if a root seed serves one key only (ev_keygen, ev_sign,     *)
(* ev_evolve, ev_verify).                                                  *)
THEOREM Refinement ==
    ASSUME NullIsNoKey
    PROVE  Spec /\ RootServesOneKey => ImplementsKeyEvolving
<1>1. RootServesOneKey => [][Serves]_vars
  BY DEF RootServesOneKey, Serves
<1>. QED  BY <1>1, SpecSigners, SignersRefine, PTL

(* No call switches the build.                                             *)
LEMMA LegacyStays == ASSUME [AnySigner]_vars PROVE legacy' = legacy
<1>1. ASSUME NEW t, KeygenRefused(t) PROVE legacy' = legacy
  BY <1>1 DEF KeygenRefused
<1>2. ASSUME NEW r, NEW site, KeygenFails(r, site) PROVE legacy' = legacy
  BY <1>2 DEF KeygenFails
<1>3. ASSUME NEW r, NEW z, Keygen(r, z) PROVE legacy' = legacy
  BY <1>3 DEF Keygen
<1>4. ASSUME NEW m, Signs(m) PROVE legacy' = legacy
  BY <1>4 DEF Signs
<1>5. CASE KeygenCrashes \/ Evolve \/ SignFails \/ MerkleFree
           \/ UNCHANGED vars
  BY <1>5 DEF KeygenCrashes, Evolve, SignFails, MerkleFree, vars
<1>. QED  BY <1>1, <1>2, <1>3, <1>4, <1>5, SignSigns DEF AnySigner, Next

LEMMA BuildStays == SignersSpec => [](legacy \in Builds)
<1>1. Init => legacy \in Builds
  BY DEF Init
<1>2. legacy \in Builds /\ [AnySigner]_vars => (legacy \in Builds)'
  BY LegacyStays
<1>. QED  BY <1>1, <1>2, PTL DEF SignersSpec

(* Serves asks nothing of the build with a matrix seed per period.         *)
LEMMA SignersRefinePerPeriod ==
    ASSUME NullIsNoKey, Builds = {FALSE}
    PROVE  SignersSpec => ImplementsKeyEvolving
<1>1. legacy \in Builds => Serves
  BY DEF Serves
<1>2. SignersSpec => [][Serves]_vars
  BY <1>1, BuildStays, PTL
<1>. QED  BY <1>2, SignersRefine, PTL

(* In the build with a matrix seed per period the same needs no promise of *)
(* the caller (ev_matrix_seed, ev_keygen).                                 *)
THEOREM RefinementPerPeriod ==
    ASSUME NullIsNoKey, Builds = {FALSE}
    PROVE  Spec => ImplementsKeyEvolving
  BY SpecSigners, SignersRefinePerPeriod, PTL

-----------------------------------------------------------------------------
(* In both builds it needs none either if no key generation fails half     *)
(* way, or if there are only two: what is signed over a half replaced key  *)
(* then comes after the last key.  Before that, every archived signature   *)
(* is that of the whole key of its root seed.                              *)
FewFailures == /\ "digest" \notin OutOfMemory
               /\ \/ OutOfMemory \cap {"digests", "tree"} = {}
                  \/ MaxKeygens <= 2

HashKey(r) == KeyFrom(TRUE, <<"hash", r>>, r, {})

OfRoot(e, r) == e.pk = HashKey(r) /\ e.sig.t1.mat = <<"hash", r>>

OwnKey(r) == /\ pk = HashKey(r) /\ sk.rho = <<"hash", r>>
             /\ sk.leaf.t1.mat = <<"hash", r>>

NothingMixed == /\ phase = "failed" => sk.leaf = NULL
                /\ \A e \in issued : \E r : OfRoot(e, r)

TidyInv == legacy =>
             /\ keygens < MaxKeygens => NothingMixed
             /\ phase = "ready" => \E r : OwnKey(r)
             /\ keygens = 0 => sk.leaf = NULL /\ issued = {}
             /\ keygens <= 1 => \A e \in issued : e.pk = pk

LEMMA InitTidy == ASSUME Init PROVE TidyInv
  BY DEF Init, TidyInv, NothingMixed

LEMMA QuietTidy ==
    ASSUME TidyInv, UNCHANGED <<legacy, pk, issued, keygens>>,
           phase' = phase \/ phase' = "crashed",
           sk'.leaf = sk.leaf, sk'.rho = sk.rho
    PROVE  TidyInv'
<1>1. NothingMixed => NothingMixed'
  BY DEF NothingMixed, OfRoot
<1>2. \A r : OwnKey(r) => OwnKey(r)'
  BY DEF OwnKey
<1>. QED  BY <1>1, <1>2 DEF TidyInv

(* The default build makes every leaf pair of a key with its one matrix.   *)
LEMMA LeafMatrix ==
    ASSUME NEW s, DOMAIN s = {"tree", "mt", "rho", "leaf_rho", "leaf"},
           NEW rho, NEW r \in Nat, NEW t \in Periods,
           NEW new, new = WithLeaf(s, rho, TreeIn(r, t))
    PROVE  new.rho = s.rho /\ (legacy => new.leaf.t1.mat = rho)
<1>1. new.rho = s.rho /\ new.leaf = PairOf(legacy, rho, r, t)
  BY WithLeafFields
<1>2. legacy => MatrixSeed(legacy, rho, t) = rho
  BY DEF MatrixSeed
<1>. QED  BY <1>1, <1>2 DEF PairOf, ev_leaf_keypair, LeafKey

(* The default build hashes the root seed, and a key generation that may   *)
(* be followed by another is whole, or the first.                          *)
LEMMA KeygenTidy ==
    ASSUME FewFailures, IInv, TidyInv, legacy, NEW r \in Roots,
           NEW zeroed \in {{}} \cup {{p} : p \in Periods}, Keygen(r, zeroed)
    PROVE  /\ TidyInv'
           /\ \A e \in issued :
                 pk'.rho \in {e.pk.rho, e.sig.t1.mat} => e.pk = pk'
<1>0. PICK rho, mt : /\ rho = <<"hash", r>>
                     /\ mt = Committed(TRUE, rho, r, {})
  OBVIOUS
<1>1. /\ keygens' = keygens + 1 /\ keygens < MaxKeygens /\ phase' = "ready"
      /\ UNCHANGED <<legacy, issued>>
      /\ zeroed = {}
  BY DEF Keygen, caller, FewFailures
<1>2. 0 \in Periods /\ r \in Nat /\ keygens \in Nat
  BY TPositive, RootsAssumption, BoundsAssumption DEF Periods, IInv, TypeOK
<1>3. NewRho(r) = rho /\ Digests(legacy, rho, r, zeroed)
                           = Digests(TRUE, rho, r, {})
  <2>1. legacy = TRUE
    OBVIOUS
  <2>. QED  BY <1>0, <1>1, <2>1 DEF NewRho
<1>4. /\ pk' = [rho |-> rho, root |-> mt[0][0]]
      /\ sk' = WithLeaf([sk EXCEPT !.rho = rho, !.mt = mt], rho, TreeIn(r, 0))
  BY <1>0, <1>1, <1>3, FreshTree, DigestsAre DEF Keygen, Committed
<1>5. PICK s : s = [sk EXCEPT !.rho = rho, !.mt = mt]
  OBVIOUS
<1>6. /\ DOMAIN s = {"tree", "mt", "rho", "leaf_rho", "leaf"}
      /\ s.rho = rho
      /\ sk' = WithLeaf(s, rho, TreeIn(r, 0))
  BY <1>4, <1>5 DEF IInv, Fields
<1>7. sk'.rho = rho /\ sk'.leaf.t1.mat = rho
  BY <1>2, <1>6, LeafMatrix
<1>8. OwnKey(r)'
  BY <1>0, <1>4, <1>7 DEF OwnKey, HashKey, KeyFrom
<1>9. TidyInv'
  <2>1. NothingMixed => NothingMixed'
    BY <1>1 DEF NothingMixed, OfRoot
  <2>2. keygens' <= 1 => issued = {}
    BY <1>1, <1>2 DEF TidyInv
  <2>. QED  BY <1>1, <1>2, <1>8, <2>1, <2>2 DEF TidyInv
<1>10. ASSUME NEW e \in issued, pk'.rho \in {e.pk.rho, e.sig.t1.mat}
       PROVE  e.pk = pk'
  <2>1. PICK q : OfRoot(e, q)
    BY <1>1 DEF TidyInv, NothingMixed
  <2>2. pk'.rho = <<"hash", q>>
    BY <1>10, <2>1 DEF OfRoot, HashKey, KeyFrom
  <2>3. q = r
    BY <1>0, <1>4, <2>2
  <2>4. pk' = HashKey(r)
    BY <1>0, <1>4 DEF HashKey, KeyFrom
  <2>. QED  BY <2>1, <2>3, <2>4 DEF OfRoot
<1>. QED  BY <1>9, <1>10

LEMMA KeygenFailsTidy ==
    ASSUME FewFailures, IInv, TidyInv, legacy, NEW r \in Roots,
           NEW site \in OutOfMemory, KeygenFails(r, site)
    PROVE  /\ TidyInv'
           /\ \A e \in issued :
                 pk'.rho \in {e.pk.rho, e.sig.t1.mat} => e.pk = pk'
<1>1. /\ keygens' = keygens + 1 /\ keygens < MaxKeygens /\ phase' = "failed"
      /\ UNCHANGED <<legacy, issued>>
      /\ MaxKeygens <= 2
  BY DEF KeygenFails, caller, FewFailures
<1>2. keygens \in Nat /\ MaxKeygens \in Nat
  BY BoundsAssumption DEF IInv, TypeOK
<1>3. DOMAIN pk = {"rho", "root"} /\ sk'.leaf = sk.leaf
      /\ pk' = [pk EXCEPT !.rho = <<"hash", r>>]
  BY DEF KeygenFails, NewRho, IInv, Fields
<1>4. keygens <= 1
  BY <1>1, <1>2
<1>5. keygens' < MaxKeygens \/ keygens' <= 1 => keygens = 0
  BY <1>1, <1>2
<1>6. TidyInv'
  <2>1. keygens = 0 => NothingMixed'
    BY <1>1, <1>3 DEF TidyInv, NothingMixed
  <2>2. keygens = 0 => issued' = {}
    BY <1>1 DEF TidyInv
  <2>3. keygens' # 0
    BY <1>1, <1>2
  <2>. QED  BY <1>1, <1>5, <2>1, <2>2, <2>3 DEF TidyInv
<1>7. ASSUME NEW e \in issued, pk'.rho \in {e.pk.rho, e.sig.t1.mat}
      PROVE  e.pk = pk'
  <2>1. PICK q : OfRoot(e, q)
    BY <1>1 DEF TidyInv, NothingMixed
  <2>2. pk'.rho = <<"hash", q>> /\ pk'.rho = <<"hash", r>>
    BY <1>3, <1>7, <2>1 DEF OfRoot, HashKey, KeyFrom
  <2>3. pk = HashKey(r)
    BY <1>4, <2>1, <2>2 DEF TidyInv, OfRoot
  <2>4. PICK rt : pk = [rho |-> <<"hash", r>>, root |-> rt]
    BY <2>3 DEF HashKey, KeyFrom
  <2>5. pk' = pk
    BY <1>3, <2>4
  <2>. QED  BY <1>4, <2>5 DEF TidyInv
<1>. QED  BY <1>6, <1>7

LEMMA EvolveTidy ==
    ASSUME IInv, TidyInv, legacy, Evolve
    PROVE  TidyInv'
<1>1. /\ phase \in {"ready", "failed"} /\ sk.leaf # NULL
      /\ UNCHANGED <<legacy, phase, pk, issued, keygens>>
  BY DEF Evolve, Usable, caller
<1>2. PICK r \in Roots, t \in Periods : InTree(r, t)
  BY <1>1 DEF IInv, TreeInv
<1>3. sk.tree = TreeIn(r, t) /\ r \in Nat /\ t \in Nat /\ T \in Nat
  BY <1>2, RootsAssumption, TPositive DEF InTree, Periods
<1>4. CASE t + 1 >= T
  <2>1. UNCHANGED sk
    BY <1>3, <1>4, AdvanceTree DEF Evolve
  <2>. QED  BY <1>1, <2>1, QuietTidy
<1>5. CASE t + 1 < T
  <2>1. /\ t + 1 \in Periods
        /\ ev_tree_advance(sk.tree) = [rc |-> 0, tree |-> TreeIn(r, t+1)]
    BY <1>3, <1>5, AdvanceTree
  <2>2. sk' = WithLeaf(sk, sk.rho, TreeIn(r, t+1))
    BY <2>1 DEF Evolve
  <2>3. DOMAIN sk = {"tree", "mt", "rho", "leaf_rho", "leaf"}
    BY DEF IInv, Fields
  <2>4. sk'.rho = sk.rho /\ sk'.leaf.t1.mat = sk.rho
    BY <1>3, <2>1, <2>2, <2>3, LeafMatrix
  <2>5. \A q : OwnKey(q) => OwnKey(q)'
    BY <1>1, <2>4 DEF OwnKey
  <2>6. NothingMixed => NothingMixed'
    BY <1>1 DEF NothingMixed, OfRoot
  <2>. QED  BY <1>1, <2>5, <2>6 DEF TidyInv
<1>. QED  BY <1>3, <1>4, <1>5

LEMMA SignsTidy ==
    ASSUME IInv, TidyInv, legacy, NEW m \in Messages, Signs(m)
    PROVE  TidyInv'
<1>1. /\ phase \in {"ready", "failed"} /\ sk.leaf # NULL
      /\ UNCHANGED <<legacy, phase, pk, sk, keygens>>
  BY DEF Signs, Usable
<1>2. CASE sk.mt = NULL
  <2>1. UNCHANGED issued
    BY <1>2 DEF Signs
  <2>. QED  BY <1>1, <2>1, QuietTidy
<1>3. CASE sk.mt # NULL
  <2>1. PICK f : f = Issue(m, sig')
    OBVIOUS
  <2>2. issued' = issued \cup {f} /\ f.pk = pk /\ f.sig.t1 = sk.leaf.t1
    BY <1>3, <2>1 DEF Signs, Issue
  <2>3. ASSUME NothingMixed PROVE NothingMixed'
    <3>1. PICK r : OwnKey(r)
      BY <1>1, <2>3 DEF NothingMixed, TidyInv
    <3>2. OfRoot(f, r)
      BY <2>2, <3>1 DEF OwnKey, OfRoot
    <3>. QED  BY <1>1, <2>2, <2>3, <3>2 DEF NothingMixed
  <2>4. \A q : OwnKey(q) => OwnKey(q)'
    BY <1>1 DEF OwnKey
  <2>. QED  BY <1>1, <2>2, <2>3, <2>4 DEF TidyInv
<1>. QED  BY <1>2, <1>3

LEMMA StepTidy ==
    ASSUME FewFailures, IInv, TidyInv, [AnySigner]_vars
    PROVE  TidyInv' /\ [Serves]_vars
<1>1. legacy' = legacy
  BY LegacyStays
<1>2. CASE ~legacy
  BY <1>1, <1>2 DEF TidyInv, Serves
<1>3. ASSUME legacy, UNCHANGED <<pk, issued, keygens>>,
             phase' = phase \/ phase' = "crashed",
             sk'.leaf = sk.leaf, sk'.rho = sk.rho
      PROVE  TidyInv' /\ [Serves]_vars
  BY <1>1, <1>3, QuietTidy DEF Serves
<1>4. CASE legacy /\ (\/ \E t \in BadT : KeygenRefused(t)
                      \/ SignFails \/ UNCHANGED vars \/ KeygenCrashes)
  BY <1>3, <1>4 DEF KeygenRefused, SignFails, KeygenCrashes, vars, caller
<1>5. CASE legacy /\ MerkleFree
  <2>1. /\ UNCHANGED <<phase, pk, issued, keygens>>
        /\ sk' = [sk EXCEPT !.mt = NULL]
    BY <1>5 DEF MerkleFree, caller
  <2>2. sk'.leaf = sk.leaf /\ sk'.rho = sk.rho
    BY <2>1 DEF IInv, Fields
  <2>. QED  BY <1>3, <1>5, <2>1, <2>2
<1>6. ASSUME legacy, NEW r \in Roots,
             NEW zeroed \in {{}} \cup {{p} : p \in Periods}, Keygen(r, zeroed)
      PROVE  TidyInv' /\ [Serves]_vars
  BY <1>6, KeygenTidy DEF Serves
<1>7. ASSUME legacy, NEW r \in Roots, NEW site \in OutOfMemory,
             KeygenFails(r, site)
      PROVE  TidyInv' /\ [Serves]_vars
  BY <1>7, KeygenFailsTidy DEF Serves
<1>8. CASE legacy /\ Evolve
  <2>1. keygens' = keygens
    BY <1>8 DEF Evolve
  <2>. QED  BY <1>8, <2>1, EvolveTidy DEF Serves
<1>9. ASSUME legacy, NEW m \in Messages, Signs(m)
      PROVE  TidyInv' /\ [Serves]_vars
  <2>1. keygens' = keygens
    BY <1>9 DEF Signs
  <2>. QED  BY <1>9, <2>1, SignsTidy DEF Serves
<1>. QED  BY <1>2, <1>4, <1>5, <1>6, <1>7, <1>8, <1>9, SignSigns
          DEF AnySigner, Next

LEMMA SignersRefineFewFailures ==
    ASSUME NullIsNoKey, FewFailures
    PROVE  SignersSpec => ImplementsKeyEvolving
<1>1. IInv /\ TidyInv /\ [AnySigner]_vars => TidyInv' /\ [Serves]_vars
  BY StepTidy
<1>2. SignersSpec => [][Serves]_vars
  BY <1>1, InitTidy, SignersInvariance, PTL DEF SignersSpec
<1>. QED  BY <1>2, SignersRefine, PTL

(* The instances that the runs check are among these.                      *)
THEOREM RefinementFewFailures ==
    ASSUME NullIsNoKey, FewFailures
    PROVE  Spec => ImplementsKeyEvolving
  BY SpecSigners, SignersRefineFewFailures, PTL
=============================================================================
