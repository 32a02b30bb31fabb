------------------------------ MODULE EvMlDsa ------------------------------
(***************************************************************************)
(* The signature scheme of src/evmldsa/evmldsa.c: key generation, signing, *)
(* evolution and verification over the seed tree and the Merkle tree.      *)
(* The structs ev_pk and ev_sk are records, the caller's signature buffer  *)
(* and its length are variables, and every call is one action.  Any malloc *)
(* that the code makes may fail where OutOfMemory says so.                 *)
(*                                                                         *)
(* The leaf signature scheme (third-party Dilithium) is symbolic: a key    *)
(* pair is the matrix seed and leaf seed it was expanded from, and a       *)
(* signature is the key and the message that went into it.                 *)
(***************************************************************************)
EXTENDS SeedTreeOps, MerkleState

CONSTANTS Messages,
          Roots,         \* root seeds, as origins n > 0
          BadT,          \* arguments T that are not the one of this model
          Builds,        \* the values of EVMLDSA_LEGACY to choose from
          OutOfMemory,   \* the mallocs that may fail
          MaxKeygens,    \* bound on the number of key generations
          MaxIssued,     \* bound on the number of signatures in the archive
          NULL

ASSUME RootsAssumption == Roots \subseteq Nat \ {0}

ASSUME BoundsAssumption == MaxKeygens \in Nat

EV_MAX_DEPTH == 20

VARIABLES legacy,    \* EVMLDSA_LEGACY: one matrix seed for all periods
          phase,     \* "none", "failed", "ready" or "crashed"
          pk, sk,
          sig, siglen,   \* the caller's buffer and length
          rc,        \* what the last call returned
          issued,    \* the signatures that ev_sign returned 0 for, archived
          attempts,  \* history: leaf key, period, message of each signing
          published, \* history: the key of the last ev_keygen that returned 0
          keygens

vars == <<legacy, phase, pk, sk, sig, siglen, rc, issued, attempts,
          published, keygens>>

-----------------------------------------------------------------------------
(* Hashes and the leaf scheme.                                             *)
ZeroDigest == <<"zero">>

ev_merkle_leafdigest(t1, oom) == IF oom THEN ZeroDigest ELSE <<"leaf", t1>>

ev_matrix_seed(rho, p) == IF legacy THEN rho ELSE <<"period", rho, p>>

LeafKey(rho_p, seed) == [mat |-> rho_p, seed |-> seed]

ev_leaf_keypair(rho_p, seed) == [rho |-> rho_p, t1 |-> LeafKey(rho_p, seed),
                                 sk |-> LeafKey(rho_p, seed)]

(* Mutant: the message is not copied behind the period.                    *)
Composite_NoMessage(p, m) == <<p>>

Composite(p, m) == <<p, m>>

crypto_sign_signature(cm, key) == [key |-> key, cm |-> cm]

crypto_sign_verify(fswa, cm, rho_p, t1) ==
    fswa = crypto_sign_signature(cm, t1) /\ t1.mat = rho_p

-----------------------------------------------------------------------------
(* ev_verify.  oom is the malloc that fails during the call, if any.       *)
SigBytes == 1   \* ev_sig_bytes(depth); 0 is any other length

ev_verify(key, m, s, len, oom) ==
    IF len # SigBytes THEN -1
    ELSE IF s.p >= T THEN -2
    ELSE IF PathRoot(s.p, ev_merkle_leafdigest(s.t1, oom = "digest"), s.path)
              # key.root THEN -3
    ELSE IF oom = "message" THEN -4
    ELSE IF crypto_sign_verify(s.fswa, Composite(s.p, m),
                               ev_matrix_seed(key.rho, s.p), s.t1) THEN 0
    ELSE -5

-----------------------------------------------------------------------------
(* The parts of ev_keygen.                                                 *)
ValidT(t) == \E d \in 0..EV_MAX_DEPTH : t = 2^d

NewRho(r) == IF legacy THEN <<"hash", r>> ELSE <<"random", keygens>>

RootSeed(r) == [Zero EXCEPT !.origin = r]

(* Mutant: the walker is not advanced.                                     *)
LeafDigests_NoAdvance(rho, tree, zeroed) ==
    [p \in Periods |->
        ev_merkle_leafdigest(
            ev_leaf_keypair(ev_matrix_seed(rho, p), ev_tree_leaf(tree)).t1,
            p \in zeroed)]

LeafDigests(rho, tree, zeroed) ==
    LET walk == Walk(tree) IN
    [p \in Periods |->
        ev_merkle_leafdigest(
            ev_leaf_keypair(ev_matrix_seed(rho, p), ev_tree_leaf(walk[p])).t1,
            p \in zeroed)]

(* Mutant: the tree is not stored.                                         *)
WithLeaf_ForgetsTree(s, rho, tree) ==
    LET rho_p == ev_matrix_seed(rho, tree.current)
    IN  [s EXCEPT !.leaf_rho = rho_p,
                  !.leaf = ev_leaf_keypair(rho_p, ev_tree_leaf(tree))]

(* The leaf key pair of the current period, as ev_keygen and ev_evolve     *)
(* cache it in the secret key.                                             *)
WithLeaf(s, rho, tree) ==
    LET rho_p == ev_matrix_seed(rho, tree.current)
    IN  [s EXCEPT !.tree = tree,
                  !.leaf_rho = rho_p,
                  !.leaf = ev_leaf_keypair(rho_p, ev_tree_leaf(tree))]

Init == /\ legacy \in Builds
        /\ phase = "none"
        /\ pk = [rho |-> NULL, root |-> NULL]
        /\ sk = [tree |-> NULL, mt |-> NULL, rho |-> NULL,
                 leaf_rho |-> NULL, leaf |-> NULL]
        /\ sig = [p |-> 0, fswa |-> NULL, t1 |-> NULL, path |-> NULL]
        /\ siglen = 0
        /\ rc = 0
        /\ issued = {}
        /\ attempts = {}
        /\ published = NULL
        /\ keygens = 0

caller == <<sig, siglen, issued, attempts>>

(* The structs can be used: their pointers have been set once.  The caller *)
(* may ignore that a later key generation failed (figdata_bench.c:61).     *)
Usable == phase \in {"ready", "failed"} /\ sk.leaf # NULL

(* A period count that is zero, no power of two or too large.              *)
KeygenRefused(t) == /\ phase # "crashed"
                    /\ ~ValidT(t)
                    /\ rc' = -1
                    /\ UNCHANGED <<legacy, phase, pk, sk, caller, published,
                                    keygens>>

(* Out of memory for the leaf digests (-3) or for the tree (-4): rho and   *)
(* the seed tree have been replaced by then, the rest has not.             *)
KeygenFails(r, site) ==
    /\ phase # "crashed"
    /\ keygens < MaxKeygens
    /\ site \in OutOfMemory \cap {"digests", "tree"}
    /\ pk' = [pk EXCEPT !.rho = NewRho(r)]
    /\ sk' = [sk EXCEPT !.rho = NewRho(r),
                        !.tree = ev_tree_init(RootSeed(r)),
                        !.mt = IF site = "tree" THEN NULL ELSE @]
    /\ rc' = IF site = "tree" THEN -4 ELSE -3
    /\ phase' = "failed"
    /\ keygens' = keygens + 1
    /\ UNCHANGED <<legacy, caller, published>>

(* The leaf key buffers are not checked: writing to them ends the process. *)
KeygenCrashes == /\ phase # "crashed"
                 /\ keygens < MaxKeygens
                 /\ "leafkey" \in OutOfMemory
                 /\ phase' = "crashed"
                 /\ UNCHANGED <<legacy, pk, sk, caller, rc, published,
                                 keygens>>

(* A leaf digest whose malloc failed is silently zero.                     *)
Keygen(r, zeroed) ==
    LET rho  == NewRho(r)
        tree == ev_tree_init(RootSeed(r))
        mt   == TreeOf(LeafDigests(rho, tree, zeroed))
    IN  /\ phase # "crashed"
        /\ keygens < MaxKeygens
        /\ zeroed # {} => "digest" \in OutOfMemory
        /\ pk' = [rho |-> rho, root |-> mt[0][0]]
        /\ published' = pk'
        /\ sk' = WithLeaf([sk EXCEPT !.rho = rho, !.mt = mt], rho, tree)
        /\ rc' = 0
        /\ phase' = "ready"
        /\ keygens' = keygens + 1
        /\ UNCHANGED <<legacy, caller>>

-----------------------------------------------------------------------------
Issue(m, s) == [pk |-> pk, m |-> m, sig |-> s, keyed |-> phase = "ready"]

(* Mutant: the cached leaf key is not replaced.                            *)
Evolve_StaleLeaf == LET next == ev_tree_advance(sk.tree) IN
                    /\ Usable
                    /\ IF next.rc # 0
                         THEN rc' = -1 /\ UNCHANGED sk
                         ELSE rc' = 0 /\ sk' = [sk EXCEPT !.tree = next.tree]
                    /\ UNCHANGED <<legacy, phase, pk, caller, published,
                                    keygens>>

(* ev_evolve.                                                              *)
Evolve == LET next == ev_tree_advance(sk.tree) IN
          /\ Usable
          /\ IF next.rc # 0
               THEN rc' = -1 /\ UNCHANGED sk
               ELSE rc' = 0 /\ sk' = WithLeaf(sk, sk.rho, next.tree)
          /\ UNCHANGED <<legacy, phase, pk, caller, published, keygens>>

(* ev_sign: no memory for the composite message.                           *)
SignFails == /\ Usable
             /\ "message" \in OutOfMemory
             /\ rc' = -1
             /\ UNCHANGED <<legacy, phase, pk, sk, caller, published, keygens>>

(* Mutant: the path is always that of the first period.                    *)
Sign_FirstPath(m) ==
    LET p == sk.tree.current
        full == [p    |-> p,
                 fswa |-> crypto_sign_signature(Composite(p, m), sk.leaf.sk),
                 t1   |-> sk.leaf.t1,
                 path |-> [k \in Edges |-> AuthEntry(sk.mt, 0, k+1)]]
    IN  /\ Usable
        /\ sk.mt # NULL
        /\ sig' = full
        /\ siglen' = SigBytes
        /\ rc' = 0
        /\ attempts' = attempts \cup {<<sk.leaf.sk, p, m>>}
        /\ issued' = issued \cup {Issue(m, full)}
        /\ UNCHANGED <<legacy, phase, pk, sk, published, keygens>>

(* ev_sign: period, leaf signature and leaf key go to the buffer; the path *)
(* follows unless the tree has been freed, and only then the length.       *)
Sign(m) ==
    LET p     == sk.tree.current
        parts == [p    |-> p,
                  fswa |-> crypto_sign_signature(Composite(p, m), sk.leaf.sk),
                  t1   |-> sk.leaf.t1,
                  path |-> sig.path]
        full  == [parts EXCEPT !.path =
                    [k \in Edges |-> AuthEntry(sk.mt, p, k+1)]]
    IN  /\ Usable
        /\ attempts' = attempts \cup {<<sk.leaf.sk, p, m>>}
        /\ IF sk.mt = NULL
             THEN /\ sig' = parts
                  /\ rc' = -3
                  /\ UNCHANGED <<siglen, issued>>
             ELSE /\ sig' = full
                  /\ siglen' = SigBytes
                  /\ rc' = 0
                  /\ issued' = issued \cup {Issue(m, full)}
                  /\ Cardinality(issued') <= MaxIssued
        /\ UNCHANGED <<legacy, phase, pk, sk, published, keygens>>

(* ev_merkle_free on the signer's tree; the caller may go on after it,     *)
(* which none of the programs does.                                        *)
MerkleFree == /\ Usable
              /\ sk' = [sk EXCEPT !.mt = NULL]
              /\ UNCHANGED <<legacy, phase, pk, caller, rc, published, keygens>>

-----------------------------------------------------------------------------
Next == \/ \E t \in BadT : KeygenRefused(t)
        \/ \E r \in Roots, site \in OutOfMemory : KeygenFails(r, site)
        \/ KeygenCrashes
        \/ \E r \in Roots :
              \E zeroed \in {{}} \cup {{p} : p \in Periods} : Keygen(r, zeroed)
        \/ Evolve
        \/ SignFails
        \/ \E m \in Messages : Sign(m)
        \/ MerkleFree

Spec == Init /\ [][Next]_vars

TypeOK == /\ phase \in {"none", "failed", "ready", "crashed"}
          /\ phase = "ready" => sk.tree \in TreeState
          /\ sig.p \in Periods
          /\ siglen \in {0, SigBytes}
          /\ rc \in {0, -1, -3, -4}
          /\ keygens \in 0..MaxKeygens

-----------------------------------------------------------------------------
(* The cached leaf key pair is that of the current period of the tree, and *)
(* it is the one that key generation committed to: the independent walker  *)
(* of ev_keygen and the later evolutions reach the same leaves, and sk and *)
(* pk agree on the matrix seed.                                            *)
CacheCoherent ==
    phase = "ready" =>
        LET p    == sk.tree.current
            pair == ev_leaf_keypair(ev_matrix_seed(pk.rho, p),
                                    ev_tree_leaf(sk.tree))
        IN  /\ sk.leaf = pair
            /\ sk.leaf_rho = pair.rho
            /\ sk.mt # NULL => sk.mt[Depth][p] \in
                   {ev_merkle_leafdigest(pair.t1, oom) : oom \in BOOLEAN}

(* Nothing in the secret key, neither a slot of the seed tree nor the      *)
(* cached leaf key, serves a period before the current one.                *)
SecretsForwardOnly ==
    Usable =>
        \A q \in Periods : q < sk.tree.current =>
            /\ Holders(sk.tree, q) = {}
            /\ ~Covers(sk.leaf.sk.seed, q)

(* The leaf key that belongs to period p under the matrix seed of pk, in   *)
(* the seed tree of root seed r.                                           *)
CommittedKey(r, p) == LeafKey(ev_matrix_seed(pk.rho, p),
                              [origin |-> r, lvl |-> Depth, idx |-> p])

(* Whatever is in the caller's buffer, after any mix of calls that worked  *)
(* and calls that failed half way, it is accepted for a message only if    *)
(* the leaf key of that period, from a root seed of this signer and under  *)
(* the matrix seed of the public key, signed that message in that period;  *)
(* a verifier that runs out of memory accepts no more than one that does   *)
(* not.                                                                    *)
BufferAuthentic ==
    \A m \in Messages, oom \in {"none", "digest", "message"} :
        (sig.path # NULL /\ ev_verify(pk, m, sig, siglen, oom) = 0)
            => \E r \in Roots :
                  <<CommittedKey(r, sig.p), sig.p, m>> \in attempts

(* What verifies when the parts of archived signatures are put together in *)
(* every way, under every key that ever signed.                            *)
Verifiable ==
    {x \in {e.pk : e \in issued} \X Periods \X Messages :
        \E f \in issued, g \in issued, h \in issued :
            ev_verify(x[1], x[3],
                      [p |-> x[2], fswa |-> f.sig.fswa, t1 |-> g.sig.t1,
                       path |-> h.sig.path], SigBytes, "none") = 0}

(* The scheme implements the abstract one: a triple becomes verifiable     *)
(* only when its key signs it in its period, and then for ever, through    *)
(* evolutions, failed calls, new keys and a freed tree.  The key is the    *)
(* last one published: if a later key generation fails, the structs may    *)
(* still hold its leaf key and commitment tree.                            *)
Scheme == INSTANCE KeyEvolving WITH
            LastPeriod <- T - 1,
            NoKey  <- NULL,
            key    <- IF Usable THEN published ELSE NULL,
            period <- IF Usable THEN sk.tree.current ELSE 0,
            signed <- Verifiable
ImplementsKeyEvolving == Scheme!Spec

-----------------------------------------------------------------------------
(* Every signature that ev_sign returned 0 for, under a key whose          *)
(* generation returned 0, verifies in its own period and after every later *)
(* call (ev_test.c:61, the archival property).                             *)
IssuedVerifies ==
    \A e \in issued :
        e.keyed => ev_verify(e.pk, e.m, e.sig, SigBytes, "none") = 0
=============================================================================
