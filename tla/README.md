# evML-DSA in TLA+

This directory is the verification project of the evML-DSA reference
implementation: TLA+ specifications of its seed tree, its Merkle commitment
tree, its signature scheme, its hash function, the programs that exercise it and
the baselines it is measured against; TLC configurations that check them on small
instances; and TLAPS proofs, for every value of the constants, of the invariants of
all these parts, of the refinements of the seed tree, the scheme and the baselines,
and of what the programs count and find.

## The system

evML-DSA is a forward-secure signature.  The lifetime of a key is cut into
T = 2^depth periods.  Every period has an ML-DSA key pair of its own, expanded
from a leaf seed of a binary seed tree.  A Merkle tree over the public keys of
all periods gives the root that is published.  The signer keeps only what later
periods need; `ev_evolve` goes to the next period and forgets the last one.

| Part | Source | State | Operations |
|---|---|---|---|
| seed tree | `ev_seedtree.c` | `path[]`, `future[]`, `future_valid[]`, `current` | `ev_tree_init`, `ev_tree_advance`, `ev_tree_leaf`, `ev_tree_descents` |
| commitment tree | `ev_merkle.c` | `levels` (flat array in level order) | `ev_merkle_build`, `_path`, `_verify`, `_leafdigest`, `_free` |
| scheme | `evmldsa.c` | `ev_pk` (rho, root), `ev_sk` (tree, commitment tree, rho, cached leaf key pair), the caller's signature buffer | `ev_keygen`, `ev_evolve`, `ev_sign`, `ev_verify` |
| hashes | `ev_sha3.c` | the 25 lanes of the sponge | `ev_sha3_256`, domain-separated wrappers |
| tests | `ev_selftest.c`, `ev_test.c`, `ev_c4_selftest.c` | – | call sequences and assertions |
| drivers | `bench_workload.c`, `extended_bench.c`, `bench.c`, `figdata_bench.c` | archive of messages and signatures | fill an archive over all periods and verify it; one signature in each period (E6); one signature verified many times |
| stage breakdown | `breakdown_bench.c` | the caller's buffer | `staged_sign`, `staged_verify` |
| rechain baseline | `bench_rechain.c`, `extended_bench.c` | chain of period keys and certificates | verification at distance d |
| LMS baseline | `baselines/bench_lms.c` over hash-sigs | `privkey`, `privkey_len` behind two callbacks; the working key | generate, load, sign in sequence, verify |
| XMSS baseline | `baselines/bench_xmss.c` over xmss-reference | secret key with its index | key pair, sign in sequence, verify |
| vendored libraries | `third-party/` | – | ML-DSA, LMS/HSS, XMSS |

`ev_keygen` calls `ev_tree_init`, then copies the tree and advances the copy
through every period to collect the leaf digests, builds the commitment tree
from them and copies its root into the public key.  `ev_evolve` advances the
tree in the secret key and recomputes the cached key pair.  `ev_sign` reads
cache, period and commitment tree; `ev_verify` sees only public key and
signature.  Everything is sequential: there are no threads, callbacks or
messages in the core.  In the LMS baseline the library calls back into the
benchmark to store its key, and stores the next index before it computes a
signature.

What is hard here is therefore not concurrency but history and partial state:

* the seed tree is correct only if a long sequence of advances never leaves a
  seed behind and never erases one too early, after any iteration of any call;
* two parties compute the same thing twice, at different times: the walker of
  `ev_keygen` and the later evolutions, the build loop and the verify loop, the
  matrix seed of signer and verifier;
* a call can fail half way (`malloc`, a freed tree) and leave structs and buffers
  that mix two operations; the caller may go on with them, or generate again in
  the same structs;
* a signature must stay valid through everything that happens to the signer;
* a stateful one-time key must not be used twice, whatever the storage refuses and
  wherever the process stops, and its last use is a case of its own;
* loops that end by a condition on the key they drive, or that skip a part of their
  body when a call fails.

The correctness properties per part: the seed tree keeps exactly the seeds of the
current and later periods (erasure, nothing lost, guard dead, walk completes);
the commitment tree is the tree of its digests, hands out the right siblings, and
is accepted by the verifier for the committed leaf only; the scheme implements
"a triple (key, period, message) verifies from the moment it is signed in that
period, for ever, and none other does"; the hash is SHA3-256 of inputs that differ
whenever the arguments differ; the programs end, count every failure and find what
they signed; the baselines use each one-time key once, in order.

## Modules

| Module | Models |
|---|---|
| `TreeIndex` | `Depth`, T, levels and `level_index`, shared by both trees |
| `SeedTreeState` | the struct `ev_tree_state` as a record, and the blocks of `ev_seedtree.c` as operators on it |
| `SeedTree` | `ev_tree_init` and `ev_tree_advance` as a step machine; its properties and inductive invariant |
| `SeedTreeOps` | the same two functions as one operator each, their loops as recursive functions, for the modules that call them |
| `ForwardKey` | abstract specification: a key that only loses periods, forgets first and moves after |
| `MerkleState` | node offsets, one iteration of each loop of `ev_merkle.c`, and recursive reference definitions of tree, path and root |
| `Merkle` | build, path, verify and free as a step machine over the flat array |
| `KeyEvolving` | abstract specification: what a key-evolving signature scheme promises |
| `EvMlDsa` | the scheme: one action per call or failure exit, over `SeedTreeOps` and `MerkleState` |
| `Breakdown` | the second signer and verifier of `breakdown_bench.c`, over `EvMlDsa` |
| `Archive` | the drivers that fill an archive over all periods and scan it, over `EvMlDsa` |
| `SelfTest` | `run_one` of `ev_c4_selftest.c`, over `EvMlDsa` |
| `Rechain` | the certificate chain, verified at a distance |
| `Workloads` | these programs side by side, with the stability experiment E6 and the mode "distance" |
| `Fips202` | abstract specification: SHA3-256 bit by bit |
| `Sponge` | `ev_sha3_256` and `keccakf` over lanes and bytes, and the inputs of the wrappers |
| `OneTimeKeys` | abstract specification: one-time keys used in order, none twice |
| `Lms` | the callbacks and main of `bench_lms.c`, over the index handling of hash-sigs |
| `Xmss` | main of `bench_xmss.c` and the library's test of a used-up key, over `xmssmt_core_sign` |
| `MCSeedTree`, `MCMerkle`, `MCEvMlDsa`, `MCBreakdown`, `MCWorkloads`, `MCSponge`, `MCLms`, `MCXmss` | values of the constants for TLC |
| `TreeProofs` | lemmas about `TreeIndex`, `SeedTreeOps` and `MerkleState`: indices, the struct of each period, tree, path and root |
| `SeedTreeProofs` | the theorems about `SeedTree` |
| `MerkleProofs` | the theorems about `Merkle` |
| `EvMlDsaProofs` | the theorems about `EvMlDsa`, and those about any signer in the same structs |
| `WorkloadsProofs` | the theorems about `Workloads`, `Archive`, `SelfTest`, `Rechain` and `Breakdown` |
| `SpongeProofs` | the theorems about the hash and its inputs |
| `LmsProofs`, `XmssProofs` | the theorems about `Lms` and `Xmss` |

### How the state corresponds to the code

*Seeds* (`SeedTreeState`).  A seed is the record (origin, level, index): which
string it was derived from and by which left/right steps.  Origin 0 is the
all-zero string that `memset` leaves, origin n > 0 the n-th root seed.  SHA3 is
taken to be injective and never to give zero.  Deriving a child of an erased slot
is possible, as in the code, and gives a node of the tree of origin 0.  `Covers`
tells whether a seed lets a period be derived; `Derivable` is what an observer of
the whole struct can still reach.

*SeedTree.*  `pc` is the place in the code.  `InitLoop` and `Descend` are one
iteration of the two descent loops; `ScanNext`/`ScanStop` the scan for the branch
level (45-50); `Take` the guard and the straight-line block 53-62, with the loop
that zeroes the ancestors folded in; `AdvanceReturn` the store of `current`.
`p` of the code is `st.current` until that store.  The stores inside one iteration
(24-27, 65-68) and those of `Take` are one step: nobody else has the struct, so the
properties speak of the states between calls and between iterations, and of the order
of the stores of an iteration only by what it leaves behind.

*Merkle.*  `levels` is the flat array, with `Junk` where it has not been written;
`l`, `i`, `idx`, `cur` are the loop variables.  The caller passes any leaf and any
path built from digests of the tree and one foreign digest.  A digest is a term,
so hashing is injective.

*EvMlDsa.*  `legacy` is the build option `EVMLDSA_LEGACY`, chosen once: one matrix
seed for all periods (the default) or one for each.  `pk`, `sk`, `sig` and `siglen`
are what the caller owns.  A leaf key
pair is the pair (matrix seed, leaf seed); a leaf signature is the key and the
message.  The constant `OutOfMemory` names the mallocs that may fail, each as in
the code: "digests" (-3) and "tree" (-4) in `ev_keygen`, "leafkey" (unchecked, the
process ends), "message" in `ev_sign` (-1) and in `ev_verify` (-4, within
`BufferAuthentic`), "digest" in `ev_merkle_leafdigest` (not reported).
`KeygenFails` leaves new rho and tree next to the old root and cache.  `MerkleFree` is
the header's `ev_merkle_free` on the signer's tree, after which a caller may go on,
although no program of the repository does; `Sign` on a
freed tree writes all but the path and the length.  The caller may ignore that a key generation failed,
as `figdata_bench.c:61` and `bench.c:65` do: if the structs held a key before
(`Usable`), `Evolve` and `Sign` go on over the mixture.  Structs that were never
generated hold uninitialised pointers, and using them is outside the model.
`issued` is the archive of the drivers, where `keyed` tells the signatures made
under a key whose generation returned 0.  Two history variables serve the
properties: `attempts` holds which leaf key signed which message in which period,
`published` the public key of the last successful `ev_keygen`, which is the key the
abstract scheme speaks of.  `Verifiable` takes the archived signatures apart and puts period, leaf
signature, leaf key and path together again in every way, which covers the tamper
and re-tag cases of `ev_test.c`.

*Archive.*  The loop counters `p`, `i`, `made`, `k`, `rep` and `bad` are those of
`mode_archive` in `extended_bench.c` (and of the shorter copies in
`figdata_bench.c` and `bench_workload.c`); `store` pairs the slot of the message
with the slot of the signature.  One iteration of a loop is one action, and the
calls in it are the actions of `EvMlDsa`.

*Workloads.*  `mode` says which program runs.  The archive and the self test bring
their own locals; `round`, `failures` and `wpc` are those of E6 and of the last loop
of "distance", and `stable` records the periods that E6 signed and verified.  The
chain has no part in the scheme; its certificates and signatures are records of
what signed what.  `SelfTest` spoils the record of a signature in the four places
where `ev_c4_selftest.c` flips a bit, and derives every ancestor again to search the
tree for it.

*Sponge.*  A lane is the set of the numbers of its one bits, so that exclusive or is
symmetric difference and a rotation adds to the numbers; a byte is a number.  Each
loop of `keccakf` is an operator, in place where the code works in place; one round,
one absorbed block and the final copy are actions.  `Fips202` knows neither lanes
nor bytes nor tables: it computes the rotation offsets and the round constants as
the standard defines them.  `Array` and `Ones` map lanes and bytes to its coordinates
and positions.

*Lms.*  A signature is two steps, `Advance` (`hss_advance_count`, which stores the
next index) and `Release`, because that is where a process may stop.  `w` is the
working key: `count` is the index it will sign with, `reserve` the one in storage.
The build "demo" is a caller as in the `demo.c` of the library, whose storage may
refuse a write whole (what is reported as failed has not been stored; the real
`demo.c` can report a failure after it has written, see "Not modelled") and whose
process may stop between any two steps and load the key again
(`Restart`); in the benchmark itself neither happens, and it ends when the library
reports an error (`KeygenFails`, `LoadFails`, `SigningFails`).  `call` is "sign"
between the two steps, and `lost` counts indices that were stored but gave no
signature.

*Xmss.*  `xmssmt_core_sign` is one operator that follows the order of the C
function: read `idx`, delete the key if it is the last, copy the index bytes,
increment, sign with what is then in the key.

*Breakdown.*  `StagedSign` and `staged_verify` are the copies of signer and
verifier in `breakdown_bench.c`; they share structs and buffer with the original
calls.  A failed malloc in them ends the process and is left out.

## Runs

| Run (cfg) | Instance | Shows |
|---|---|---|
| `seed_tree` (`MCSeedTree.cfg`) | depth 5 | erasure, nothing lost, flags, dead guard, inductive invariant, refinement of `ForwardKey`, steps and operators agree, a caller that keeps advancing reaches the last period |
| `merkle` (`MCMerkle.cfg`) | depth 2, two digests on four leaves | the loops compute the reference tree, paths and verdicts; calls return |
| `scheme` (`MCEvMlDsa.cfg`) | depth 2, both builds, 1 key, 3 archived signatures | cached key, secrets and archive under all failures that are reported; refinement of `KeyEvolving` |
| `breakdown` (`MCBreakdown.cfg`) | depth 1, 2 root seeds, 2 keys, 2 archived signatures of either signer | both verifiers accept the same signatures, and the buffer is accepted only for what a leaf key signed; with a second key in the same structs and either signer, still `KeyEvolving` |
| `workloads` (`MCWorkloads.cfg`) | depth 3; 2, 8 or 16 records, 2 scans; chains of 64 and 129 keys at the distances of the three programs | every record verifies, even spread, E6 counts what is missing, each printed distance is a whole verification, the self test passes, all programs end |
| `sponge` (`MCSponge.cfg`) | 12 calls: the two test vectors, 135, 136 and 272 bytes, every wrapper | round by round SHA3-256; inputs of different calls differ |
| `lms` (`MCLms.cfg`) | both builds of the benchmark; a caller with 2 keys of 4 indices | the stored key stays ahead and loadable, no index twice, losses only in the middle of a call, the benchmark ends and accepts all its signatures unless the library reports an error |
| `xmss` (`MCXmss.cfg`) | 100 signatures of 1024; the test on a tree of 8 | no index twice, a used-up key is deleted, both programs succeed |
| `staged_rho` (`MCStagedRho.cfg`) | expected violation | see findings |
| `zero_digest` (`MCZeroDigest.cfg`) | expected violation | see findings |
| `seed_tree_descents` (`MCDescents.cfg`) | expected violation | see findings |
| `xmss_last` (`MCXmssLast.cfg`) | expected violation | see findings |

*Why the bounds are enough.*  The seed tree is deterministic apart from the moment
of a call, so depth 5 is every iteration of a lifetime of 32 periods: the branch
level takes each value from 1 to 5, and carries of every length occur; the proofs
remove the bound.  In the commitment tree, depth 2 is the smallest with an inner
level between leaf and root, so an index that is not shifted, a level that is
skipped or an offset that is wrong shows; two digests on four leaves give equal
siblings, equal cousins and all-different halves.  In the scheme, three archived
signatures allow two of one period and one of another, or three periods, before
their parts are recombined; four periods give a period with a left and one with a
right branch on each level.  A second key is too much for that instance: the mixture that
a key generation leaves behind when it fails half way, and a key that is generated
again, occur in `breakdown` and not in `scheme`, and what only `scheme` checks
(`CacheCoherent`, `SecretsForwardOnly`) is proved for any number of key generations.
The second key is checked at depth 1, where the
recombination of the parts of two keys is what matters; what a third key can do that
two cannot is a result of the proofs (see `Refinement` below).  The archive has a quota
of one and of two records per period, as the sizes of the drivers are multiples of
T, and one size below T, for which the code clamps the quota to one; the self test
visits the periods 0, 1, 4 and 7, so that its inner loop runs zero, one and three
times.  The chains and distances are those of the programs; each distance is timed
twice instead of 100 times, enough for a repetition to find what the one before
left behind.  The inputs of the sponge lie one byte below a block, on it and on two
blocks, next to the lengths that the wrappers use; the permutation is the real one.
The LMS caller has two keys of four indices, so that a key is used up, a new one
generated over it, and each write can be refused or followed by a
restart; `max_count` of the benchmark is the real one.  The used-up XMSS key needs
every index once, which is why its tree has eight leaves and the benchmark's its
1024.

*Deadlock.*  Checked in the seed tree and the commitment tree.  Switched off in
`scheme`, because a key generation that cannot allocate the leaf key buffers ends
the process, in `breakdown`, where the bound on the archive is reached, in `sponge`,
where a call is over once it has returned, and in `workloads`, `lms` and `xmss`,
where the programs end.

*Fairness.*  Only weak fairness of the steps inside a call (`Step`): the code is
sequential and a call that was entered runs to its return.  Whether a call is made
is up to the caller; `WalkCompletes` adds weak fairness of `AdvanceCall` as its
hypothesis, which is the loop of `ev_keygen` (evmldsa.c:111) and of
`ev_selftest.c:44`.  `Workloads` assumes weak fairness of the loops once a program
has its key (`Running`), `Lms` of the steps of the benchmark but not of the other
caller, `Xmss` of every step: sequential programs that nothing blocks.  The scheme
and `Sponge` state no fairness and no liveness.

## Findings

* `zero_digest`: `ev_merkle_leafdigest` cannot report a failed malloc and leaves a
  zero digest.  `ev_keygen` returns 0; the signatures of that period are then
  produced with return code 0 and refused by `ev_verify` with -3.
* `staged_rho`: the staged verifier says that it mirrors `ev_verify`, but takes
  the matrix seed of the public key instead of the one of the period; built with
  `CONSTRUCTION=0` it refuses every genuine signature.
* `seed_tree_descents`: `ev_tree_descents` is documented as the number of
  derivations from the root to the leaf, but counts live frontier entries, which
  is 0 in the last period.
* `xmss_last`: with the last index, `xmssmt_core_sign` deletes the key and then
  signs with it.  The call returns 0; the signature carries an index of ones and was
  made from zero seeds, and `xmss_sign_open` refuses it.  A key of height 10 gives
  1023 signatures that verify, where `bench_xmss.c:33` counts 1024; the benchmark
  makes 100.

Remarks that no run is about: the comment at the top of `evmldsa.c` (lines 2-4) says
that the default construction derives a matrix seed per leaf, while the default of
`ev_params.h:27-36` is the shared one.  `bench_rechain.c:53` says that the period
index is the distance from the root, but a signature of period p takes p + 1
certificates to reach the root key, as `EveryLineReachesRoot` states.

The header `ev_seedtree.h:8` describes `path[]` as holding every node of the
current path; the code keeps only the leaf, as the later comments of the same file
say and as `OnlyLeafOnPath` states.

## Proofs

Everything below holds for every value of the constants that satisfies the named
assumptions of the modules, among them every natural `Depth`, any number of
messages, root seeds, key generations, records, indices and distances.  Where a
theorem needs more, the table says so.  `IInv` is in each module the inductive
invariant, and `Invariance` the theorem `Spec => []IInv`.

### Seed tree (`SeedTreeProofs`)

| Theorem | States |
|---|---|
| `Invariance`, `TypeCorrect` | `Spec => []IInv`, `Spec => []TypeOK` |
| `GuardIsDead` | `Spec => []GuardNeverFires` |
| `LeafOnly` | `Spec => []OnlyLeafOnPath` |
| `PastIsErased` | `Spec => []Erasure` |
| `NothingLost` | `Spec => []NoPeriodLost` |
| `FlagsAgree` | `Spec => []FlagsMatchSeeds` |
| `OperatorsAgree` | `Spec => []StepsMatchOps` |
| `ForgottenForever` | `Spec => NeverRegained` |
| `Refinement` | `Spec => Key!Init /\ [][Key!Next]_(Key!vars)`, the safety part of `ImplementsForwardKey` |
| `CallsAreShort` | every step of a call lowers `CallLeft`, which is at most 2·Depth+2 and 0 exactly between calls |
| `WalkIsBounded` | `WalkLeft` never grows, every step and every accepted advance lowers it, and it is 0 exactly in the last period with its leaf at hand |

None of these properties is inductive: a state that satisfies `Erasure` may hold a
frontier seed on the wrong level that covers a later past.  The inductive
invariant says exactly what each slot contains.  In period t, slot l of the
frontier is live if and only if the path to t turns left below level l, and then
holds the right sibling there (`Frontier`); between calls the path holds the leaf
only (`SettledInv`); the scan has passed only levels that both paths share
(`ScanInv`); in the middle of a descent the struct is that of period p+1 above
`lvl` and that of p at and below it (`DescendInv`).

The argument needs one fact of arithmetic: the indices of p and p+1 on a level are
equal or differ by one, and they differ on the shallowest such level d exactly
because p is the last leaf of the left child there.  So the path to p turns left
below level d-1, slot d-1 is live, and the guard does not fire; above d the two
frontiers agree.  `TreeProofs` derives this from the division theorem (`DivMod`,
`DivTwice`, `DivSucc`, `IndexHalves`, `IndexSucc`, `IndexMono`).  `Erasure` and
`NeverRegained` then follow from the contents of the slots: a seed on a path or
frontier covers no leaf left of its own subtree (`IndexMono`).  For `NoPeriodLost`,
a later leaf leaves the path to the current one on exactly one level, and there the
frontier is live.  The refinement follows because what the struct lets an observer
derive is then known in every state: it is the set of periods still to come, after
each iteration of a call.

`TreeProofs` also proves what the operators of `SeedTreeOps` compute: `ev_tree_init`
gives the struct of period 0, `ev_tree_advance` that of the next period or the
refusal in the last one, and `Walk` that of every period (`InitTree`,
`AdvanceTree`, `WalkTree`).  The other modules use these.

`CallsAreShort` and `WalkIsBounded` are the safety halves of `WalkCompletes` (see
"Bounds and guards" below).  The scan has fewer than Depth+1 levels to pass and the
descent Depth, and the two counters meet at `lvl`.

### Commitment tree (`MerkleProofs`)

| Theorem | States |
|---|---|
| `Invariance`, `TypeCorrect` | `Spec => []IInv`, `Spec => []TypeOK` |
| `BuiltWhole` | `Spec => []BuildComplete` |
| `PathCorrect` | `Spec => []PathIsAuth` |
| `VerifyExact` | `Spec => []VerifyIffCommitted` |
| `CallsAreExact` | every step lowers `CallLeft` by one, which is T+Depth at the start of a build, Depth+1 at that of a path or a verification, and 0 exactly after the return |

The three properties speak of calls that are over; what makes them inductive are the
loop invariants.  `BuildInv`: the levels from `l` down to the leaves are those of
the reference tree, and so are the parents that the inner loop has passed.
`PathInv`: the siblings copied so far are right.  `VerifyInv`: the current digest is
the node (l, idx) of the tree *if and only if* leaf and siblings so far are the
committed ones.  The "only if" needs that a parent determines its two children,
which is where the injective digests come in; it is what makes `ev_merkle_verify`
binding, and the half that tests, which try a few wrong leaves, cannot reach.
`TreeProofs` supplies the arithmetic of the flat array: `node_off` and the
levels do not overlap, and the parent of (l, 2i) and (l, 2i+1) is (l-1, i).

`CallsAreExact` says more than that the calls return: how many steps they take
depends on the depth alone, neither on the digests nor on the index that is looked
up, nor on whether the path verifies.

### Scheme (`EvMlDsaProofs`)

| Theorem | States | If |
|---|---|---|
| `Invariance`, `TypeCorrect` | `Spec => []IInv`, `Spec => []TypeOK` | |
| `CacheIsCurrent` | `Spec => []CacheCoherent` | |
| `SecretsGone` | `Spec => []SecretsForwardOnly` | |
| `ArchiveVerifies` | `Spec => []IssuedVerifies` | leaf digests do not run out of memory |
| `Authentic` | `Spec => []BufferAuthentic` | the same |
| `Refinement` | `Spec /\ RootServesOneKey => ImplementsKeyEvolving` | `NullIsNoKey` |
| `RefinementPerPeriod` | `Spec => ImplementsKeyEvolving` | `NullIsNoKey`; the build with a matrix seed per period |
| `RefinementFewFailures` | `Spec => ImplementsKeyEvolving` | `NullIsNoKey`; leaf digests do not run out of memory; no key generation fails half way, or there are at most two (`FewFailures`) |

The inductive invariant says of structs, buffer and archive where they came from,
whatever failed before.  `TreeInv`: once a key generation has reached the seed tree,
it is the tree of some root seed in some period, and the cached leaf key is that of
the period under the matrix seed in `sk`, unless the tree is fresh.  `ReadyInv`:
after a key generation that returned 0, seed tree, matrix seeds, cached leaf key,
root and commitment tree belong to one root seed (`InStep`).  `RootInv`: as soon as
there is a tree to take a path from, the published root is that of a root seed of
this signer, also next to the rho of a later key generation that failed.  `SigInv`:
the leaf signature in the buffer was made by a leaf key that attempted it.
`IssuedInv`: what was archived under a whole key is accepted.  `CacheCoherent` alone
is not inductive, because it says nothing of the trees behind the cache, and
`IssuedVerifies` not, because a signature is made from the cache but checked
against the root.

That the digest of a leaf may silently be zero is excluded by hypothesis in
`ArchiveVerifies` and `Authentic`; the finding `zero_digest` shows that this is
necessary.  The first two refinements need no such hypothesis.  `NullIsNoKey` says that
the null pointer is no public key, which a model value is not.

The refinement adds `RefInv`: what the archived signatures, taken apart and put
together again in every way, can verify under each key that ever signed is what that
key signed (`KeyInv`, `LeafInv`, `ArchiveInv`, `OneKeyInv`, `FitInv`).  Proving it
showed where the promise ends, beyond the bounds of the runs.  In the default build
rho is the hash of the root seed.  If a key is generated, a second key generation
(with another root seed) fails half way, the caller goes on over the mixture to
evolve and sign, and then a key is generated from the second root seed, the leaf key
that signed over the half-replaced key is a leaf key of the new one: a triple of the
new key is verifiable that was signed before the key existed.  `RootServesOneKey` is
the promise of the caller that excludes this: a root seed is not used again once
something was signed under its matrix seed, unless for the same key.  With a matrix
seed per period every key generation draws a new rho and nothing has to be promised.
With at most two key generations, or with none that fails half way, the case does
not occur: `RefinementFewFailures`, under which the instances of the runs fall, with
`TidyInv` as its invariant.  For the same reason `BufferAuthentic` names the leaf
key, not the public key, that signed.

All of this is proved of any signer that writes the same buffer (`Signs`,
`SignersSpec`), not of `ev_sign` alone, so that it covers `staged_sign` as well.

### Programs (`WorkloadsProofs`)

| Theorem | States | If |
|---|---|---|
| `ProgramsCallTheScheme` | `WorkSpec => Spec`: all of the above holds in the programs | `Values` |
| `ArchiveHolds` | `WorkSpec => []RecordsVerify` | `Values` |
| `ArchiveIsSpread` | `WorkSpec => []EvenlySpread` | `Values`, `WholeQuotas` |
| `CountsAreComplete` | `WorkSpec => []StabilityCounts` | `Values` |
| `LinesReachRoot` | `WorkSpec => []EveryLineReachesRoot` | `LabelsFit` |
| `SelfTestPasses` | `WorkSpec => []AllPass` | `Values`; depth not 0 |
| `NoneFails` | no driver gives up, none counts a failure, E6 verifies all T periods | `Values`, `EnoughMemory` |
| `ChainsVerify` | no chain ends with "verify fail", and the last plain verification is of the last key's signature | `LastIsWhole` |
| `ProgramsAreBounded` | every step of a program lowers `StepsLeft`, a number that is 0 exactly at its end | `Values`, `Repeats`; depth not 0 |
| `ProgramsGoOn` | where a program loops, a guard holds; where it signs, evolves or frees, the key is whole and its tree there | the same, `NullIsNoLeaf` |
| `VerifiersAgree` | `StagedSpec => []StagedAgrees` | the default build |
| `ArchiveVerifiesStaged`, `AuthenticStaged` | `StagedSpec => []IssuedVerifies`, `[]BufferAuthentic` | leaf digests do not run out of memory |
| `RefinementStaged` | `StagedSpec /\ RootServesOneKey => ImplementsKeyEvolving` | `NullIsNoKey` |
| `RefinementStagedFewFailures` | `StagedSpec => ImplementsKeyEvolving` | `NullIsNoKey`, `FewFailures` |

`Values` asks that the constants of the programs fit together: sizes are numbers,
the labels of all records are messages, the root seed of the self test is a root seed, a
tree is not the null pointer.  `WholeQuotas`: the number of records is below T or a
multiple of T, as in all drivers; with a remainder the last records would never be
signed.  `LabelsFit`: in each list of distances only the greatest may be clamped to
the end of the chain.  The periods 0, 1, T/2 and T-1 of the self test do not all
exist in a tree of one leaf, hence the depth: with a single period the loop of
`ev_c4_selftest.c` that evolves until period 1 would never end.  `VerifiersAgree`
needs the default build, as the finding `staged_rho` shows.  `EnoughMemory`: the malloc
of the message buffer in `ev_sign` and `ev_verify` does not fail, which is what the
drivers count on when they expect 0 failures; the run lets it fail, and then failures
are counted (`StabilityCounts`).  `LastIsWhole`: a driver without a part
after the chain has the last key as its last label (63 of 64 in `bench_rechain.c`),
since it verifies that signature again without a look at the result.  `Repeats`: the
loops repeat at least once (`SCANS`, `REPS`).  `NullIsNoLeaf`: a leaf key is not the
null pointer.  The run's constants satisfy all but `EnoughMemory`.

The invariants go program by program (`WInv` for the first two).  `FillInv`: the
key is in the period of the loop counter, `made` is quota times period plus inner
counter, and every record below `made` is accepted in the slot of its period; with
that the nested loops fill each slot once.  `StabilityInv`: the periods that E6 has seen and its
failures add up to the rounds, and the key may lag behind the loop: it is in a period
no later than the round, and later than all that were seen; this lag is why the count is not inductive by itself, for after
`SignSkipped` the next signature has an older period than its round.  `WalkInv`: the
certificates verified so far are those below the loop counter, and each printed line
went to the key that its label leads to.  `TestInv`: the key of the self test is
never past the period that the loop seeks, what it has in its buffer is the
signature of that period, and no check has failed.  Each of the four spoilt
signatures is refused for a reason of its own (`SpoiltRefused`): the period is part
of the signed message, the leaf key must be the one that signed, the last path entry
is bound to the root by the commitment tree (`PathToRoot`), and a changed leaf
signature was made by no such key.  That no seed of the past is found
(`PastNotFound`) uses the contents of the slots: a live frontier seed lies to the
right of the path, an ancestor of a past leaf on it or to its left.

`NoneFails` adds where the signature in the buffer comes from between signing and
verifying (`BufferInv`): with enough memory it is one that is accepted for the label
it is verified for, so that the key of E6 never lags behind.  `ChainsVerify` rests on
`CertInv`: certificate j is of key j and by key j-1 for all j made so far, and the
buffer is signed by the key of the line that is timed.  `LoopsInv` keeps the counters
of all loops within them: the slot that is scanned next is one that was filled, a
line is walked only when the chain is whole, a repetition is one of `Reps`.

### Hash (`SpongeProofs`)

| Theorem | States |
|---|---|
| `InputsNeverCollide` | `Spec => []InputsDiffer` |
| `Invariance` | `Spec => []IInv` |
| `HashIsFips202` | `Spec => ImplementsFips202` |

All three are for every set of calls: all 32-byte seeds and nodes, all 32-bit period
numbers, leaf keys and other inputs of any length.

*Inputs.*  The marker byte tells the wrappers apart, and within a wrapper every part
but the last has a fixed length (`PartsApart`, `PeriodsApart`).  It is what justifies
the injective terms for hashes in the other modules.

*The permutation.*  25 lanes stand for the state array of the standard (`Array`), and
each loop is one of its step mappings: `ThetaIs` (the parity of five bits as a
cardinality against the exclusive or of five lanes), `RhoPiIs`, `ChiIs`, `IotaIs`,
together `KeccakfIs`.  For the walk in place, `Walk` says what the lanes hold after i
moves: those at PI[1], ..., PI[i] are turned, all others are as they were, and `t`
carries the lane that the last move displaced, which is right because PI visits no
lane twice (`PIInjective`, `RhoPiMoves`).  The tables are compared with the
definitions of the standard: PI is its walk through the plane and RHO its triangular
numbers modulo 64 (`PlaceIs`, `TurnsAre`), and RC is what the shift register gives,
taken seven steps at a time as exclusive ors of its eight bits (`SevenSteps`,
`RegisterRows`, `RoundConstants`).

*The sponge.*  `BlockIs` reduces a block to bits: a buffer whose bytes hold the bits
of the padded message adds the standard's block to the state.  `FullBuffer` shows
this for a block of the input, `LastBuffer` for the padded one, on whose last byte
`0x06` and `0x80` may meet (`TopBit`); `TotalIs` that the padded message ends there.
`SomeByte` is what lets a byte be chosen by its bits when the digest is written.  The
inductive invariant is small: the offset is a multiple of the rate and within the
input, and the padded block comes only when less than a block is left.

### Baselines (`LmsProofs`, `XmssProofs`)

| Theorem | States |
|---|---|
| `LmsProofs!Invariance` | `Spec => []IInv` |
| `AlwaysAhead` | `Spec => []StoredAhead` |
| `NoneWasted` | `Spec => []LossOnlyMidCall` |
| `NoneIsInvalid` | `Spec => [](pc # "invalid")`: the benchmark finds no signature invalid |
| `BenchIsBounded` | every step of the benchmark lowers `StepsLeft`, and while there are one-time keys enough one of its steps is possible until the end |
| `LmsProofs!Refinement` | `Spec => ImplementsOneTimeKeys` |
| `XmssProofs!Invariance` | `Spec => []IInv` |
| `UsedUpIsDeleted` | `Spec => []UsedUpKeyIsDeleted` |
| `OnlyTheLastIsSpoilt` | a signature verifies if and only if its index is not 2^h - 1 |
| `VerdictIs` | `xmss_max_signatures` succeeds; the benchmark succeeds if and only if `N_SIGN` is below 2^h |
| `DriversAreBounded` | every step of a driver lowers `StepsLeft`, which is 0 exactly at a verdict, and no loop misses its end |
| `XmssProofs!Refinement` | `Spec => ImplementsOneTimeKeys` |

In `Lms`, the invariant relates the stored index, the working key and the signatures
given out: seeds are drawn in order, so that a key above the last one drawn is new
and has lost nothing, and a stored key can be read whole (`FreshInv`); the working
key counts up to what is stored, and between `Advance` and `Release` the reserved
index is one that no signature has (`WorkingInv`); every signature of a key has an
index below the stored one, and below the next one of the working key
(`SignedInv`); the benchmark loads only what it has generated and leaves nothing
reserved between two signatures (`BenchInv`); and `LossOnlyMidCall` itself.  A
refused write leaves the storage at the old index and a restart takes it from there,
which is why the relation has to hold between the two steps of a signature as well.
In `Xmss`, `sk.idx` is above every index that has been used; the bound on the index
field comes from the powers of two, as sizes of sets of subsets (`PowersGrow`).
`DriverInv` adds the drivers' loops: the benchmark's counter is the index of the key,
and of the signatures that were looked at all but the one of the last index were
valid.  `OnlyTheLastIsSpoilt` gives the finding about the last signature for every
height: signing with the last index deletes the seeds first.

### Bounds and guards

That a loop ends has two halves.  One is safety: a natural number that every step
lowers, and a guard that holds as long as the number is not 0.  The other is that a
step that stays possible is taken, which is the fairness of the specifications.  The
first half is proved for all that the liveness properties speak of, for every value
of the constants and not only in the small instance:

| Property | Bound | Guards |
|---|---|---|
| `WalkCompletes` | `CallsAreShort`, `WalkIsBounded` | `GuardIsDead`: the one branch that would stop a descent is never taken |
| `CallsReturn` | `CallsAreExact` | the loops have no other exit |
| `ProgramsEnd` | `ProgramsAreBounded` | `ProgramsGoOn`, `ChainsVerify` |
| `BenchSucceeds` | `BenchIsBounded` | `BenchIsBounded` (`GoesOn`), `NoneIsInvalid` |
| `DriversSucceed` | `DriversAreBounded` | `DriversAreBounded` (`StepsInv`), `VerdictIs` |

The bounds hold whatever fails on the way (a failed signature, a refused record, a
chain that does not verify), because a failure ends a loop or counts as a round.

### What is only model-checked

* The second half of liveness: from a bound and a guard to an end by the rule for
  weak fairness, which needs `ENABLED` and induction over the bound.  `CallsReturn`,
  `WalkCompletes`, `ProgramsEnd`, `BenchSucceeds`, `DriversSucceed` and the fairness
  in `ImplementsForwardKey` are checked by TLC on the instances of the runs.
* `KnownAnswers`: that the digests of two inputs are the published ones is a
  computation of 24 rounds on concrete bits, which TLC does and the provers would
  have to unroll.

The facts about recursive functions (the trees, the walks, the shift register, the
loops of `SeedTreeOps`) are proved without the library's induction theorems, whose
operator parameter the provers cannot instantiate: `TreeProofs` takes the least
element of the set of counterexamples instead (`Least`, `SetInduction`, `LevelsUp`,
`LevelsDown`).

## Not modelled

* The lattice arithmetic of ML-DSA: the leaf scheme is symbolic, and outside of
  `Sponge` a hash is an injective term.  Collisions and the rejection loop of ML-DSA
  are therefore outside every property.
* Bytes on the wire: a signature is a record; a buffer of another length is length 0.
* Stack copies of seeds inside `ev_keygen` and `ev_evolve`: the properties are about
  the structs that outlive the calls.
* Timing code, statistics, plots, recorded results, build files.
* `batch`, `Tsweep` and `bench.c`: loops that sign or verify one message again and
  again, or generate keys of several sizes, and print times.
* Machines with big-endian words, where the last copy of `ev_sha3_256` would give
  other bytes.
* In hash-sigs: several levels, subtrees, reservation ahead, threads, and a write
  that is reported as failed but took place.  In xmss-reference: several layers,
  `xmss_core_fast.c`, and an index field of no more bits than the tree has levels.
  The index field has 30 bits in the model where the real one has 32.
* Structs before the first successful `ev_keygen`: the tests and drivers that ignore
  its return code would read uninitialised memory.

## Plan

Done, in this order, the most important behaviour first: the seed tree with its
step machine, abstract key and proofs; the commitment tree; the scheme over both;
the staged copies of signer and verifier; the programs that drive the scheme and
the certificate chain; the hash; the stateful baselines; then the proofs about each
of them: invariants and refinements first, the bounds of loops and programs last.

Next: the programs of `ev_selftest.c` and `bench.c`; several levels and reservation
ahead in hash-sigs.
