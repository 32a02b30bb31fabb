--------------------------- MODULE WorkloadsProofs ---------------------------
(***************************************************************************)
(* Proofs about the programs that drive the scheme and the chain: what an  *)
(* archive holds, what the stability experiment counts, what a line of the *)
(* distance mode stands for, what the self test finds, that nothing fails  *)
(* without a cause and every program is bounded, and how the stages of the *)
(* breakdown driver behave, for every depth, size and list of distances.   *)
(***************************************************************************)
EXTENDS Workloads, Breakdown, EvMlDsaProofs

(* What the values of the constants provide: the labels of all records are *)
(* messages, the seed of the self test is a root seed, and a tree is not   *)
(* the null pointer.                                                       *)
Values ==
    /\ Sizes \subseteq Nat
    /\ \A n \in Sizes, q \in Periods : \A j \in 0..(n \div T) :
          <<q, j>> \in Messages
    /\ 1 \in Roots
    /\ \A digs : TreeOf(digs) # NULL

-----------------------------------------------------------------------------
(* A key in use, of root seed root or of any: whole, in period t, and with *)
(* its tree.                                                               *)
KeyAt(root, t) == phase = "ready" /\ sk.mt # NULL /\ InStep(root, t, {})

KeyIn(t) == \E root \in Roots : KeyAt(root, t)

LEMMA PeriodAt ==
    ASSUME NEW root \in Roots, NEW t \in Periods, KeyAt(root, t)
    PROVE  sk.tree = TreeIn(root, t) /\ sk.tree.current = t
  BY TreeFacts, RootsAssumption DEF KeyAt, InStep

LEMMA QuietKeyAt ==
    ASSUME NEW root, NEW t, KeyAt(root, t),
           UNCHANGED <<legacy, phase, pk, sk>>
    PROVE  KeyAt(root, t)'
  BY DEF KeyAt, InStep

LEMMA QuietKeyIn ==
    ASSUME NEW t, KeyIn(t), UNCHANGED <<legacy, phase, pk, sk>>
    PROVE  KeyIn(t)'
  BY QuietKeyAt DEF KeyIn

(* The calls that the programs make (ev_keygen, ev_evolve, ev_sign).       *)
LEMMA KeygenKeyAt ==
    ASSUME Values, IInv, NEW root \in Roots, Keygen(root, {})
    PROVE  KeyAt(root, 0)'
<1>1. PICK rho : /\ phase' = "ready"
                 /\ sk'.mt = Committed(legacy, rho, root, {})
                 /\ InStep(root, 0, {})'
  BY KeygenWrites
<1>2. Committed(legacy, rho, root, {}) # NULL
  BY DEF Values, Committed
<1>. QED  BY <1>1, <1>2 DEF KeyAt

LEMMA KeygenKeyIn ==
    ASSUME Values, IInv, NEW root \in Roots, Keygen(root, {})
    PROVE  KeyIn(0)'
  BY KeygenKeyAt DEF KeyIn

LEMMA EvolveKeyAt ==
    ASSUME IInv, NEW root \in Roots, NEW t \in Periods, KeyAt(root, t),
           t + 1 < T, Evolve
    PROVE  /\ t + 1 \in Periods /\ KeyAt(root, t + 1)' /\ rc' = 0
           /\ UNCHANGED <<legacy, pk, sig>>
<1>1. InStep(root, t, {})
  BY DEF KeyAt
<1>2. sk.tree = TreeIn(root, t) /\ root \in Nat
  BY <1>1, RootsAssumption DEF InStep
<1>3. /\ t + 1 \in Periods
      /\ ev_tree_advance(sk.tree) = [rc |-> 0, tree |-> TreeIn(root, t+1)]
  BY <1>2, AdvanceTree
<1>4. /\ sk' = WithLeaf(sk, sk.rho, TreeIn(root, t+1)) /\ rc' = 0
      /\ UNCHANGED <<legacy, phase, pk, sig>>
  BY <1>3 DEF Evolve, caller
<1>5. DOMAIN sk = {"tree", "mt", "rho", "leaf_rho", "leaf"}
  BY DEF IInv, Fields
<1>6. /\ sk'.tree = TreeIn(root, t+1)
      /\ sk'.mt = sk.mt /\ sk'.rho = sk.rho
      /\ sk'.leaf_rho = MatrixSeed(legacy, sk.rho, t+1)
      /\ sk'.leaf = PairOf(legacy, sk.rho, root, t+1)
  BY <1>2, <1>3, <1>4, <1>5, WithLeafFields
<1>7. InStep(root, t + 1, {})'
  BY <1>1, <1>4, <1>6 DEF InStep
<1>8. phase' = "ready" /\ sk'.mt # NULL
  BY <1>4, <1>6 DEF KeyAt
<1>. QED  BY <1>3, <1>4, <1>7, <1>8 DEF KeyAt

LEMMA EvolveKeyIn ==
    ASSUME IInv, NEW t \in Periods, KeyIn(t), t + 1 < T, Evolve
    PROVE  /\ t + 1 \in Periods /\ KeyIn(t + 1)'
           /\ UNCHANGED <<legacy, pk, sig>>
<1>1. PICK root \in Roots : KeyAt(root, t)
  BY DEF KeyIn
<1>2. /\ t + 1 \in Periods /\ KeyAt(root, t + 1)'
      /\ UNCHANGED <<legacy, pk, sig>>
  BY <1>1, EvolveKeyAt
<1>. QED  BY <1>2 DEF KeyIn

LEMMA SignKeyAt ==
    ASSUME NEW root \in Roots, NEW t \in Periods, KeyAt(root, t),
           NEW m, Sign(m)
    PROVE  /\ KeyAt(root, t)' /\ UNCHANGED <<legacy, pk, sk>>
           /\ sig'.p = t /\ Accepts(legacy, pk, m, sig')
<1>1. InStep(root, t, {})
  BY DEF KeyAt
<1>2. sk.tree.current = t /\ sk.mt # NULL
  BY PeriodAt DEF KeyAt
<1>3. Signs(m)
  BY SignSigns
<1>4. UNCHANGED <<legacy, phase, pk, sk>>
  BY <1>3 DEF Signs
<1>5. /\ sig'.p = t
      /\ sig'.fswa = crypto_sign_signature(<<t, m>>, sk.leaf.sk)
      /\ sig'.t1 = sk.leaf.t1
      /\ sig'.path = OwnPathOf(sk.mt, t)
  BY <1>2, <1>3 DEF Signs
<1>6. Accepts(legacy, pk, m, sig')
  BY <1>1, <1>2, <1>5, SignedIsAccepted
<1>. QED  BY <1>4, <1>5, <1>6, QuietKeyAt

LEMMA SignKeyIn ==
    ASSUME NEW t \in Periods, KeyIn(t), NEW m, Sign(m)
    PROVE  /\ KeyIn(t)' /\ UNCHANGED <<legacy, pk>>
           /\ sig'.p = t /\ Accepts(legacy, pk, m, sig')
<1>1. PICK root \in Roots : KeyAt(root, t)
  BY DEF KeyIn
<1>2. /\ KeyAt(root, t)' /\ UNCHANGED <<legacy, pk>>
      /\ sig'.p = t /\ Accepts(legacy, pk, m, sig')
  BY <1>1, SignKeyAt
<1>. QED  BY <1>2 DEF KeyIn

-----------------------------------------------------------------------------
(* The programs share the scheme and leave each other's locals alone.      *)
ModesInv ==
    /\ mode \in Modes
    /\ n_rec \in Sizes
    /\ mode # "archive" => pc = "keygen" /\ made = 0 /\ n_rec = T
    /\ mode \in {"archive", "selftest"} => wpc = "start"
    /\ mode = "distance" /\ wpc \in {"start", "sign"} => round = 0

(* The archive while it is filled: the loops have gone through p periods   *)
(* and i records of the next, the key is in that period, and the record in *)
(* slot s is of period s \div per.                                         *)
InSlot(s, q) == /\ q \in Periods
                /\ per * q <= s /\ s < per * q + per

Stored(s) == /\ Accepts(legacy, pk, store[s].m, store[s].sig)
             /\ InSlot(s, store[s].sig.p)

FillInv ==
    mode = "archive" =>
      /\ p \in 0..T /\ i \in 0..per /\ made \in 0..n_rec
      /\ store = [s \in Slots |-> store[s]]
      /\ pc = "keygen" => p = 0 /\ i = 0 /\ made = 0
      /\ pc = "fill" => /\ made = per * p + i
                        /\ KeyIn(IF p < T THEN p ELSE T - 1)
      /\ pc \in {"scan", "done"} => made = per * p /\ ~(p < T /\ made < n_rec)
      /\ \A s \in 0..made-1 : Stored(s)

(* The stability experiment: a round that is over either added its period  *)
(* or was counted, and after a failed signature the key lags behind.       *)
LagsAt(t) == /\ t <= round
             /\ KeyIn(t)
             /\ stable \subseteq 0..t-1
             /\ wpc = "verify" => sig.p = t

StabilityInv ==
    mode = "stability" =>
      /\ wpc \in {"start", "sign", "verify", "done"}
      /\ round \in 0..T /\ failures \in Nat
      /\ IsFiniteSet(stable) /\ round = Cardinality(stable) + failures
      /\ wpc = "start" => round = 0 /\ stable = {}
      /\ wpc \in {"sign", "verify"} =>
           round < T /\ \E t \in Periods : LagsAt(t)
      /\ wpc = "done" => round = T

WInv == ModesInv /\ FillInv /\ StabilityInv

-----------------------------------------------------------------------------
(* What each program can do.                                               *)
ArchiveStep == Archiving /\ (Generate \/ Loops)

StabilityStep ==
    /\ mode = "stability" /\ Working
    /\ \/ Start \/ SignOne \/ SignSkipped
       \/ \E oom \in VerifierOutOfMemory : Stable(oom)

DistanceStep ==
    /\ mode = "distance"
    /\ \/ /\ Working
          /\ \/ Start \/ SignOne \/ DistanceUnsigned
             \/ \E oom \in VerifierOutOfMemory : DistanceVerify(oom)
       \/ Chaining /\ Chain!ChainNext

TestStep == Testing /\ (TestKeygen \/ TestSteps)

LEMMA StepsOf ==
    ASSUME ModesInv, [WorkNext]_wvars
    PROVE  \/ UNCHANGED wvars
           \/ ArchiveStep \/ StabilityStep \/ DistanceStep \/ TestStep
<1>1. ASSUME Working, Start
      PROVE  StabilityStep \/ DistanceStep
  BY <1>1 DEF Start, StabilityStep, DistanceStep
<1>2. ASSUME Working, SignOne
      PROVE  StabilityStep \/ DistanceStep
  <2>1. mode \in {"stability", "distance"}
    BY <1>2 DEF SignOne, ModesInv, Modes
  <2>. QED  BY <1>2, <2>1 DEF StabilityStep, DistanceStep
<1>3. ASSUME Working, SignSkipped \/
             \E oom \in VerifierOutOfMemory : Stable(oom)
      PROVE  StabilityStep
  BY <1>3 DEF SignSkipped, Stable, StabilityStep
<1>4. ASSUME Working, DistanceUnsigned \/
             \E oom \in VerifierOutOfMemory : DistanceVerify(oom)
      PROVE  DistanceStep
  BY <1>4 DEF DistanceUnsigned, DistanceVerify, DistanceStep
<1>5. ASSUME Chaining /\ Chain!ChainNext
      PROVE  DistanceStep
  BY <1>5 DEF Chaining, DistanceStep
<1>. QED  BY <1>1, <1>2, <1>3, <1>4, <1>5
          DEF WorkNext, Running, WorkSteps, ArchiveStep, TestStep

LEMMA ModeStays ==
    ASSUME ArchiveStep \/ StabilityStep \/ DistanceStep \/ TestStep
    PROVE  /\ mode' = mode
           /\ ArchiveStep => mode = "archive" /\ UNCHANGED <<round, wpc>>
           /\ StabilityStep => mode = "stability"
                               /\ UNCHANGED <<n_rec, pc, made>>
           /\ DistanceStep => mode = "distance" /\ UNCHANGED <<n_rec, pc, made>>
           /\ TestStep => mode = "selftest"
                          /\ UNCHANGED <<n_rec, pc, made, wpc>>
<1>1. ASSUME Working PROVE mode' = mode /\ UNCHANGED <<n_rec, pc, made>>
  BY <1>1 DEF Working, Fixed, archive, fill
<1>2. ASSUME Chaining PROVE mode' = mode /\ UNCHANGED <<n_rec, pc, made>>
  BY <1>2 DEF Chaining, Fixed, avars, fill
<1>3. ASSUME Archiving
      PROVE  mode = "archive" /\ mode' = mode /\ UNCHANGED <<round, wpc>>
  BY <1>3 DEF Archiving, Fixed, wlocals
<1>4. ASSUME Testing
      PROVE  mode = "selftest" /\ mode' = mode
             /\ UNCHANGED <<n_rec, pc, made, wpc>>
  BY <1>4 DEF Testing, Fixed, archive, fill, wlocals
<1>. QED  BY <1>1, <1>2, <1>3, <1>4
          DEF ArchiveStep, StabilityStep, DistanceStep, TestStep

-----------------------------------------------------------------------------
(* The quota of a period (bench_workload.c, "per").                        *)
LEMMA Larger == ASSUME NEW a \in Nat, NEW b \in Nat
                PROVE  Max({a, b}) = IF a >= b THEN a ELSE b
<1> DEFINE top == IF a >= b THEN a ELSE b
<1>1. top \in {a, b} /\ \A y \in {a, b} : top >= y
  OBVIOUS
<1>2. \A x \in {a, b} : (\A y \in {a, b} : x >= y) => x = top
  OBVIOUS
<1>. QED  BY <1>1, <1>2 DEF Max

LEMMA PerIs ==
    ASSUME Values, ModesInv
    PROVE  /\ per \in Nat \ {0} /\ n_rec \in Nat /\ T \in Nat \ {0}
           /\ per - 1 <= n_rec \div T
           /\ per * T <= n_rec \/ (n_rec < T /\ per = 1)
           /\ per = IF n_rec \div T >= 1 THEN n_rec \div T ELSE 1
<1>1. n_rec \in Nat /\ T \in Nat \ {0}
  BY TPositive DEF Values, ModesInv
<1>2. PICK q \in Nat, x \in Nat : /\ q = n_rec \div T /\ x < T
                                  /\ n_rec = T * q + x
  BY <1>1, DivMod
<1>3. per = IF q >= 1 THEN q ELSE 1
  BY <1>2, Larger DEF per
<1>4. per * T <= n_rec \/ (n_rec < T /\ per = 1)
  <2>1. CASE q >= 1
    <3>1. per * T = T * q
      BY <1>1, <1>3, <2>1
    <3>. QED  BY <1>1, <1>2, <3>1
  <2>2. CASE q = 0
    <3>1. T * q = 0
      BY <1>1, <2>2
    <3>. QED  BY <1>1, <1>2, <1>3, <2>2, <3>1
  <2>. QED  BY <1>2, <2>1, <2>2
<1>. QED  BY <1>1, <1>2, <1>3, <1>4

(* The labels that the programs sign.                                      *)
LEMMA Labels ==
    ASSUME Values, ModesInv, NEW q \in Periods
    PROVE  /\ <<q, 0>> \in Messages
           /\ \A j \in 0..(per-1) : <<q, j>> \in Messages
<1>1. PICK a \in Nat, b \in Nat : a = n_rec \div T /\ b = per /\ b - 1 <= a
  BY PerIs, DivMod
<1>2. \A j \in 0..a : <<q, j>> \in Messages
  BY <1>1 DEF Values, ModesInv
<1>. QED  BY <1>1, <1>2

(* Whatever a program does, the scheme sees one of its own calls or none.  *)
LEMMA CallsOfScheme ==
    ASSUME Values, WInv, [WorkNext]_wvars
    PROVE  [Next]_vars
<1>1. CASE UNCHANGED wvars
  BY <1>1 DEF wvars, avars
<1>2. CASE ArchiveStep
  <2>1. mode = "archive"
    BY <1>2, ModeStays
  <2>2. CASE Generate
    BY <2>2 DEF Generate, Next
  <2>3. CASE SignRecord
    <3>1. p < T /\ i < per /\ Sign(<<p, i>>)
      BY <2>3 DEF SignRecord, QuotaLeft
    <3>2. p \in Periods /\ i \in 0..(per-1)
      BY <2>1, <3>1, PerIs DEF WInv, FillInv, Periods
    <3>3. <<p, i>> \in Messages
      BY <3>2, Labels DEF WInv
    <3>. QED  BY <3>1, <3>3 DEF Next
  <2>4. CASE SignExit \/ PeriodDone \/ FillDone \/ ScanDone
             \/ \E oom \in VerifierOutOfMemory : VerifyRecord(oom)
    BY <2>4 DEF SignExit, PeriodDone, FillDone, ScanDone, VerifyRecord, Next
  <2>. QED  BY <1>2, <2>2, <2>3, <2>4 DEF ArchiveStep, Loops
<1>3. ASSUME SignOne, mode \in {"stability", "distance"}
      PROVE  [Next]_vars
  <2>1. round \in Periods
    BY <1>3, TPositive
       DEF SignOne, WInv, ModesInv, StabilityInv, Periods
  <2>2. <<round, 0>> \in Messages
    BY <2>1, Labels DEF WInv
  <2>. QED  BY <1>3, <2>2 DEF SignOne, Next
<1>4. CASE StabilityStep
  <2>1. CASE Start
    BY <2>1 DEF Start, Next
  <2>2. CASE SignSkipped \/ \E oom \in VerifierOutOfMemory : Stable(oom)
    BY <2>2 DEF SignSkipped, Stable, Next
  <2>. QED  BY <1>3, <1>4, <2>1, <2>2 DEF StabilityStep
<1>5. CASE DistanceStep
  <2>1. CASE Start
    BY <2>1 DEF Start, Next
  <2>2. CASE DistanceUnsigned
             \/ \E oom \in VerifierOutOfMemory : DistanceVerify(oom)
    BY <2>2 DEF DistanceUnsigned, DistanceVerify, Next
  <2>3. CASE Chaining
    BY <2>3 DEF Chaining, avars
  <2>. QED  BY <1>3, <1>5, <2>1, <2>2, <2>3 DEF DistanceStep
<1>6. CASE TestStep
  <2>1. CASE TestKeygen
    BY <2>1 DEF TestKeygen, Values, Next
  <2>2. CASE TestSign
    <3>1. 0 \in Periods
      BY TPositive DEF Periods
    <3>2. TestMessage \in Messages
      BY <3>1, Labels DEF WInv, TestMessage
    <3>. QED  BY <2>2, <3>2 DEF TestSign, Next
  <2>3. CASE EvolveTo \/ TestChecks \/ TestLastEvolve \/ TestFree
    BY <2>3 DEF EvolveTo, TestChecks, TestLastEvolve, TestFree, Next
  <2>. QED  BY <1>6, <2>1, <2>2, <2>3 DEF TestStep, TestSteps
<1>. QED  BY <1>1, <1>2, <1>4, <1>5, <1>6, StepsOf DEF WInv

-----------------------------------------------------------------------------
(* The modes, first: who starts, and with which number of records.         *)
LEMMA InitWInv == ASSUME Values, WorkInit PROVE WInv
<1>1. /\ mode \in Modes /\ n_rec \in Sizes /\ pc = "keygen"
      /\ mode # "archive" => n_rec = T
      /\ p = 0 /\ i = 0 /\ made = 0
      /\ store = [s \in Slots |-> [m |-> NULL, sig |-> NULL]]
      /\ round = 0 /\ failures = 0 /\ stable = {} /\ wpc = "start"
  BY DEF WorkInit, ArchiveInit
<1>2. ModesInv
  BY <1>1 DEF ModesInv
<1>3. FillInv
  <2>1. store = [s \in Slots |-> store[s]]
    BY <1>1
  <2>2. 0 \in 0..T /\ 0 \in 0..per /\ 0 \in 0..n_rec /\ 0..0-1 = {}
    BY <1>2, PerIs
  <2>. QED  BY <1>1, <2>1, <2>2 DEF FillInv
<1>4. StabilityInv
  <2>1. IsFiniteSet({}) /\ Cardinality({}) = 0
    BY FS_EmptySet
  <2>2. 0 \in 0..T /\ 0 = 0 + 0
    BY TPositive
  <2>. QED  BY <1>1, <2>1, <2>2 DEF StabilityInv
<1>. QED  BY <1>2, <1>3, <1>4 DEF WInv

LEMMA NextModes == ASSUME WInv, [WorkNext]_wvars PROVE ModesInv'
<1>1. CASE UNCHANGED wvars
  <2>1. UNCHANGED <<mode, n_rec, pc, made, wpc, round>>
    BY <1>1 DEF wvars, avars, fill, wlocals
  <2>. QED  BY <2>1 DEF WInv, ModesInv
<1>2. CASE ArchiveStep
  <2>1. n_rec' = n_rec
    BY <1>2 DEF ArchiveStep, Generate, Loops, SignRecord, SignExit,
                PeriodDone, FillDone, VerifyRecord, ScanDone
  <2>. QED  BY <1>2, <2>1, ModeStays DEF WInv, ModesInv
<1>3. CASE StabilityStep
  BY <1>3, ModeStays DEF WInv, ModesInv
<1>4. CASE TestStep
  BY <1>4, ModeStays DEF WInv, ModesInv
<1>5. CASE DistanceStep
  <2>1. wpc' \in {"start", "sign"} => round' = 0
    <3>1. CASE Start
      BY <1>5, <3>1, ModeStays DEF Start, WInv, ModesInv
    <3>2. CASE SignOne \/ DistanceUnsigned
      BY <3>2 DEF SignOne, DistanceUnsigned
    <3>3. CASE \E oom \in VerifierOutOfMemory : DistanceVerify(oom)
      BY <3>3 DEF DistanceVerify
    <3>4. CASE Chaining
      BY <1>5, <3>4, ModeStays DEF Chaining, wlocals, WInv, ModesInv
    <3>. QED  BY <1>5, <3>1, <3>2, <3>3, <3>4 DEF DistanceStep
  <2>. QED  BY <1>5, <2>1, ModeStays DEF WInv, ModesInv
<1>. QED  BY <1>1, <1>2, <1>3, <1>4, <1>5, StepsOf DEF WInv

-----------------------------------------------------------------------------
(* Filling the archive.  A record that is stored stays as it is.           *)
LEMMA StoredStays ==
    ASSUME NEW s, Stored(s), store'[s] = store[s],
           UNCHANGED <<legacy, pk, n_rec>>
    PROVE  Stored(s)'
<1>1. per' = per
  BY DEF per
<1>. QED  BY <1>1 DEF Stored, InSlot

LEMMA FillLocals ==
    ASSUME FillInv, mode = "archive"
    PROVE  /\ p \in 0..T /\ i \in 0..per /\ made \in 0..n_rec
           /\ store = [s \in Slots |-> store[s]]
           /\ \A s \in 0..made-1 : Stored(s)
  BY DEF FillInv

(* The quota is used up only when all records of the period are made.      *)
LEMMA QuotaDone ==
    ASSUME Values, WInv, mode = "archive", PeriodDone
    PROVE  p < T /\ i = per /\ made = per * (p + 1)
<1>1. /\ p \in 0..T /\ i \in 0..per /\ made \in 0..n_rec
      /\ made = per * p + i
  BY DEF PeriodDone, WInv, FillInv
<1>2. /\ p < T /\ (i > 0 \/ made < n_rec)
      /\ ~(i < per /\ made < n_rec)
  BY DEF PeriodDone, QuotaLeft
<1>3. /\ per \in Nat \ {0} /\ n_rec \in Nat /\ T \in Nat \ {0}
      /\ per * T <= n_rec \/ (n_rec < T /\ per = 1)
  BY PerIs DEF WInv
<1>4. per * p + per <= per * T
  BY <1>1, <1>2, <1>3, MulGap
<1>5. i = per
  <2> SUFFICES ASSUME i < per PROVE FALSE
    BY <1>1, <1>3
  <2>1. made = n_rec /\ i > 0
    BY <1>1, <1>2, <1>3
  <2>2. per # 1
    BY <1>1, <1>3, <2>1
  <2>3. per * T <= n_rec
    BY <1>3, <2>2
  <2>4. PICK x \in Nat, y \in Nat : x = per * p /\ y = per * T
    BY <1>1, <1>3
  <2>. QED  BY <1>1, <1>3, <1>4, <2>1, <2>3, <2>4
<1>6. per * (p + 1) = per * p + per
  BY <1>1, <1>3
<1>. QED  BY <1>1, <1>2, <1>5, <1>6

LEMMA FillGenerate ==
    ASSUME Values, WInv, IInv, mode = "archive", mode' = mode, Generate
    PROVE  FillInv'
<1>1. PICK root \in Roots : Keygen(root, {})
  BY DEF Generate
<1>2. KeyIn(0)'
  BY <1>1, KeygenKeyIn
<1>3. /\ p = 0 /\ i = 0 /\ made = 0 /\ p \in 0..T /\ i \in 0..per
      /\ made \in 0..n_rec /\ store = [s \in Slots |-> store[s]]
  BY DEF Generate, WInv, FillInv
<1>4. /\ pc' = "fill" /\ UNCHANGED <<n_rec, p, i, made, store>>
      /\ per' = per /\ Slots' = Slots
  BY DEF Generate, fill, per, Slots
<1>5. 0 < T /\ per \in Nat
  BY TPositive, PerIs DEF WInv
<1>6. /\ 0..made'-1 = {} /\ made' = per' * p' + i'
  BY <1>3, <1>4, <1>5
<1>. QED  BY <1>2, <1>3, <1>4, <1>5, <1>6 DEF FillInv

LEMMA FillRecord ==
    ASSUME Values, WInv, mode = "archive", mode' = mode, SignRecord
    PROVE  FillInv'
<1>1. /\ p \in 0..T /\ i \in 0..per /\ made \in 0..n_rec
      /\ store = [s \in Slots |-> store[s]]
      /\ \A s \in 0..made-1 : Stored(s)
      /\ made = per * p + i
  BY FillLocals DEF WInv, FillInv, SignRecord
<1>2. /\ p < T /\ i < per /\ made < n_rec /\ Sign(<<p, i>>)
      /\ store' = [store EXCEPT ![made] = [m |-> <<p, i>>, sig |-> sig']]
      /\ made' = made + 1 /\ i' = i + 1 /\ pc' = "fill"
      /\ UNCHANGED <<n_rec, p>>
  BY DEF SignRecord, QuotaLeft
<1>3. /\ per \in Nat \ {0} /\ n_rec \in Nat /\ T \in Nat \ {0}
      /\ per' = per /\ Slots' = Slots
  BY <1>2, PerIs DEF WInv, per, Slots
<1>4. p \in Periods /\ KeyIn(p)
  <2>1. KeyIn(IF p < T THEN p ELSE T - 1)
    BY DEF WInv, FillInv, SignRecord
  <2>. QED  BY <1>1, <1>2, <1>3, <2>1 DEF Periods
<1>5. /\ KeyIn(p)' /\ UNCHANGED <<legacy, pk>>
      /\ sig'.p = p /\ Accepts(legacy, pk, <<p, i>>, sig')
  BY <1>2, <1>4, SignKeyIn
<1>6. PICK b \in Nat : b = per * p
  BY <1>1, <1>3
<1>7. made' = per' * p' + i' /\ made' \in 0..n_rec' /\ i' \in 0..per'
  BY <1>1, <1>2, <1>3, <1>6
<1>8. made \in Slots
  BY <1>1, <1>2, <1>3 DEF Slots
<1>9. /\ store'[made] = [m |-> <<p, i>>, sig |-> sig']
      /\ store' = [s \in Slots |-> store'[s]]
      /\ \A s \in Slots \ {made} : store'[s] = store[s]
  BY <1>1, <1>2, <1>8
<1>10. ASSUME NEW s \in 0..made'-1 PROVE Stored(s)'
  <2>1. CASE s = made
    <3>1. InSlot(s, p)'
      BY <1>1, <1>2, <1>3, <1>4, <1>6, <2>1 DEF InSlot
    <3>. QED  BY <1>2, <1>5, <1>9, <2>1, <3>1 DEF Stored
  <2>2. CASE s # made
    <3>1. s \in 0..made-1 /\ s \in Slots \ {made}
      BY <1>1, <1>2, <1>3, <2>2 DEF Slots
    <3>. QED  BY <1>1, <1>2, <1>5, <1>9, <3>1, StoredStays
  <2>. QED  BY <2>1, <2>2
<1>. QED  BY <1>1, <1>2, <1>3, <1>5, <1>7, <1>9, <1>10 DEF FillInv

LEMMA FillPeriod ==
    ASSUME Values, WInv, IInv, mode = "archive", mode' = mode, PeriodDone
    PROVE  FillInv'
<1>1. /\ p \in 0..T /\ made \in 0..n_rec
      /\ store = [s \in Slots |-> store[s]]
      /\ \A s \in 0..made-1 : Stored(s)
  BY FillLocals DEF WInv
<1>2. p < T /\ i = per /\ made = per * (p + 1)
  BY QuotaDone
<1>3. /\ p' = p + 1 /\ i' = 0 /\ pc = "fill" /\ pc' = "fill"
      /\ UNCHANGED <<n_rec, made, store>>
      /\ per' = per /\ Slots' = Slots
  BY DEF PeriodDone, per, Slots
<1>4. per \in Nat \ {0} /\ n_rec \in Nat /\ T \in Nat \ {0}
  BY PerIs DEF WInv
<1>5. p \in Periods /\ KeyIn(p)
  <2>1. KeyIn(IF p < T THEN p ELSE T - 1)
    BY <1>3 DEF WInv, FillInv
  <2>. QED  BY <1>1, <1>2, <1>4, <2>1 DEF Periods
<1>6. /\ KeyIn(IF p < T THEN p ELSE T - 1)' /\ UNCHANGED <<legacy, pk>>
  <2>1. CASE p + 1 < T
    <3>1. Evolve
      BY <2>1 DEF PeriodDone
    <3>2. PICK t \in Periods : t = p
      BY <1>5
    <3>3. KeyIn(t + 1)' /\ UNCHANGED <<legacy, pk>>
      BY <1>5, <2>1, <3>1, <3>2, EvolveKeyIn
    <3>4. (IF p < T THEN p ELSE T - 1)' = t + 1
      BY <1>3, <2>1, <3>2
    <3>. QED  BY <3>3, <3>4
  <2>2. CASE ~(p + 1 < T)
    <3>1. UNCHANGED <<legacy, phase, pk, sk>>
      BY <2>2 DEF PeriodDone, vars
    <3>2. PICK t : t = p
      OBVIOUS
    <3>3. (IF p < T THEN p ELSE T - 1)' = t
      BY <1>1, <1>2, <1>3, <1>4, <2>2, <3>2
    <3>4. KeyIn(t)'
      BY <1>5, <3>1, <3>2, QuietKeyIn
    <3>. QED  BY <3>1, <3>3, <3>4
  <2>. QED  BY <2>1, <2>2
<1>7. \A s \in 0..made'-1 : Stored(s)'
  BY <1>1, <1>3, <1>6, StoredStays
<1>8. made' = per' * p' + i' /\ p' \in 0..T /\ 0 \in 0..per'
  BY <1>1, <1>2, <1>3, <1>4
<1>. QED  BY <1>1, <1>3, <1>6, <1>7, <1>8 DEF FillInv

(* The other steps of the archive program leave key and store alone.       *)
LEMMA FillEnd ==
    ASSUME Values, WInv, mode = "archive", mode' = mode,
           SignExit \/ FillDone \/ ScanDone
             \/ \E oom \in VerifierOutOfMemory : VerifyRecord(oom)
    PROVE  FillInv'
<1>1. /\ p \in 0..T /\ i \in 0..per /\ made \in 0..n_rec
      /\ store = [s \in Slots |-> store[s]]
      /\ \A s \in 0..made-1 : Stored(s)
  BY FillLocals DEF WInv
<1>2. /\ UNCHANGED <<legacy, pk, n_rec, p, i, made, store>>
      /\ per' = per /\ Slots' = Slots
  BY DEF SignExit, SignFails, FillDone, ScanDone, VerifyRecord, fill, vars,
         per, Slots
<1>3. \A s \in 0..made'-1 : Stored(s)'
  BY <1>1, <1>2, StoredStays
<1>4. /\ pc' \notin {"keygen", "fill"}
      /\ pc' \in {"scan", "done"} => made = per * p /\ ~(p < T /\ made < n_rec)
  <2>1. CASE SignExit
    BY <2>1 DEF SignExit
  <2>2. CASE FillDone
    <3>1. made = per * p + 0 /\ per \in Nat /\ ~(p < T /\ made < n_rec)
      BY <2>2, PerIs DEF FillDone, WInv, FillInv
    <3>2. made = per * p
      BY <1>1, <3>1
    <3>. QED  BY <2>2, <3>1, <3>2 DEF FillDone
  <2>3. CASE ScanDone \/ \E oom \in VerifierOutOfMemory : VerifyRecord(oom)
    <3>1. pc = "scan" /\ pc' \in {"scan", "done", "exit"}
      BY <2>3 DEF ScanDone, VerifyRecord
    <3>. QED  BY <3>1 DEF WInv, FillInv
  <2>. QED  BY <2>1, <2>2, <2>3
<1>. QED  BY <1>1, <1>2, <1>3, <1>4 DEF FillInv

LEMMA NextFill ==
    ASSUME Values, WInv, IInv, [WorkNext]_wvars
    PROVE  FillInv'
<1>1. CASE UNCHANGED wvars
  <2>1. /\ UNCHANGED <<legacy, phase, pk, sk, mode, pc, n_rec, p, i, made,
                       store>>
        /\ per' = per /\ Slots' = Slots
    BY <1>1 DEF wvars, avars, fill, vars, per, Slots
  <2>2. ASSUME mode = "archive"
        PROVE  /\ \A s \in 0..made'-1 : Stored(s)'
               /\ \A t : KeyIn(t) => KeyIn(t)'
    BY <2>1, <2>2, FillLocals, StoredStays, QuietKeyIn DEF WInv
  <2>. QED  BY <2>1, <2>2 DEF FillInv, WInv
<1>2. CASE ArchiveStep
  <2>1. mode = "archive" /\ mode' = mode
    BY <1>2, ModeStays
  <2>. QED  BY <1>2, <2>1, FillGenerate, FillRecord, FillPeriod, FillEnd
            DEF ArchiveStep, Loops
<1>3. CASE StabilityStep \/ DistanceStep \/ TestStep
  BY <1>3, ModeStays DEF FillInv
<1>. QED  BY <1>1, <1>2, <1>3, StepsOf DEF WInv

-----------------------------------------------------------------------------
(* The stability experiment.                                               *)
LEMMA StabilityStart ==
    ASSUME Values, WInv, IInv, mode = "stability", mode' = mode, Start
    PROVE  StabilityInv'
<1>1. PICK root \in Roots : Keygen(root, {})
  BY DEF Start
<1>2. KeyIn(0)'
  BY <1>1, KeygenKeyIn
<1>3. /\ wpc = "start" /\ wpc' = "sign"
      /\ UNCHANGED <<round, failures, stable>>
  BY DEF Start
<1>4. /\ round = 0 /\ stable = {} /\ failures \in Nat /\ IsFiniteSet(stable)
      /\ round = Cardinality(stable) + failures
  BY <1>3 DEF WInv, StabilityInv
<1>5. 0 \in Periods /\ 0 < T /\ 0 \in 0..T
  BY TPositive DEF Periods
<1>6. LagsAt(0)'
  BY <1>2, <1>3, <1>4 DEF LagsAt
<1>. QED  BY <1>3, <1>4, <1>5, <1>6 DEF StabilityInv

LEMMA StabilitySign ==
    ASSUME WInv, mode = "stability", mode' = mode, SignOne
    PROVE  StabilityInv'
<1>1. /\ wpc = "sign" /\ wpc' = "verify" /\ Sign(<<round, 0>>)
      /\ UNCHANGED <<round, failures, stable>>
  BY DEF SignOne
<1>2. PICK t \in Periods : LagsAt(t)
  BY <1>1 DEF WInv, StabilityInv
<1>3. KeyIn(t)' /\ sig'.p = t
  BY <1>1, <1>2, SignKeyIn DEF LagsAt
<1>4. LagsAt(t)'
  BY <1>1, <1>2, <1>3 DEF LagsAt
<1>. QED  BY <1>1, <1>4 DEF WInv, StabilityInv

(* A round that is over: what is left to show is where the key is.         *)
LEMMA RoundOver ==
    ASSUME WInv, mode = "stability", mode' = mode, NextRound,
           wpc \in {"sign", "verify"},
           IsFiniteSet(stable'), failures' \in Nat,
           Cardinality(stable') + failures'
             = Cardinality(stable) + failures + 1,
           round + 1 < T => \E t \in Periods : LagsAt(t)'
    PROVE  StabilityInv'
<1>1. /\ round \in 0..T /\ round < T /\ T \in Nat
      /\ round = Cardinality(stable) + failures
      /\ IsFiniteSet(stable) /\ failures \in Nat
  BY TPositive DEF WInv, StabilityInv
<1>2. /\ round' = round + 1
      /\ wpc' = IF round + 1 < T THEN "sign" ELSE "done"
  BY DEF NextRound
<1>3. Cardinality(stable) \in Nat /\ Cardinality(stable') \in Nat
  BY <1>1, FS_CardinalityType
<1>4. round' \in 0..T /\ round' = Cardinality(stable') + failures'
  BY <1>1, <1>2, <1>3
<1>. QED  BY <1>1, <1>2, <1>4 DEF StabilityInv

LEMMA StabilitySkipped ==
    ASSUME WInv, mode = "stability", mode' = mode, SignSkipped
    PROVE  StabilityInv'
<1>1. /\ wpc = "sign" /\ failures' = failures + 1 /\ stable' = stable
      /\ NextRound /\ UNCHANGED <<legacy, phase, pk, sk>>
  BY DEF SignSkipped, SignFails
<1>2. PICK t \in Periods : LagsAt(t)
  BY <1>1 DEF WInv, StabilityInv
<1>3. /\ round \in Nat /\ failures \in Nat
      /\ IsFiniteSet(stable) /\ Cardinality(stable) \in Nat
  BY TPositive, FS_CardinalityType DEF WInv, StabilityInv
<1>4. LagsAt(t)'
  <2>1. KeyIn(t)'
    BY <1>1, <1>2, QuietKeyIn DEF LagsAt
  <2>2. round' = round + 1 /\ wpc' # "verify" /\ t <= round + 1
    BY <1>1, <1>2, <1>3 DEF NextRound, LagsAt, Periods
  <2>. QED  BY <1>1, <1>2, <2>1, <2>2 DEF LagsAt
<1>5. /\ failures' \in Nat
      /\ Cardinality(stable') + failures'
           = Cardinality(stable) + failures + 1
  BY <1>1, <1>3
<1>. QED  BY <1>1, <1>3, <1>4, <1>5, RoundOver

LEMMA StabilityRound ==
    ASSUME WInv, IInv, mode = "stability", mode' = mode,
           NEW oom \in VerifierOutOfMemory, Stable(oom)
    PROVE  StabilityInv'
<1>1. wpc = "verify" /\ NextRound
  BY DEF Stable
<1>2. PICK t \in Periods : LagsAt(t)
  BY <1>1 DEF WInv, StabilityInv
<1>3. /\ round \in Nat /\ failures \in Nat /\ T \in Nat
      /\ IsFiniteSet(stable) /\ Cardinality(stable) \in Nat
  BY TPositive, FS_CardinalityType DEF WInv, StabilityInv
<1>4. t \notin stable /\ sig.p = t /\ stable \subseteq 0..t-1 /\ t <= round
  BY <1>1, <1>2 DEF LagsAt, Periods
<1>5. \/ failures' = failures /\ stable' = stable \cup {t}
      \/ failures' = failures + 1 /\ stable' = stable
  BY <1>4 DEF Stable
<1>6. /\ IsFiniteSet(stable') /\ failures' \in Nat
      /\ Cardinality(stable') + failures'
           = Cardinality(stable) + failures + 1
  <2>1. /\ IsFiniteSet(stable \cup {t})
        /\ Cardinality(stable \cup {t}) = Cardinality(stable) + 1
    <3>1. IsFiniteSet(stable)
      BY <1>3
    <3>2. /\ IsFiniteSet(stable \cup {t})
          /\ Cardinality(stable \cup {t}) =
               IF t \in stable THEN Cardinality(stable)
                               ELSE Cardinality(stable) + 1
      BY <3>1, FS_AddElement, Zenon
    <3>. QED  BY <1>4, <3>2
  <2>2. CASE failures' = failures /\ stable' = stable \cup {t}
    <3>1. Cardinality(stable') = Cardinality(stable \cup {t})
      BY <2>2
    <3>2. IsFiniteSet(stable')
      BY <2>1, <2>2
    <3>. QED  BY <1>3, <2>1, <2>2, <3>1, <3>2
  <2>3. CASE failures' = failures + 1 /\ stable' = stable
    BY <1>3, <2>3
  <2>. QED  BY <1>5, <2>2, <2>3
<1>7. ASSUME round + 1 < T
      PROVE  \E q \in Periods : LagsAt(q)'
  <2>1. t + 1 < T /\ Evolve /\ t \in Nat
    BY <1>3, <1>4, <1>7 DEF Stable, Periods
  <2>2. t + 1 \in Periods /\ KeyIn(t + 1)'
    BY <1>2, <2>1, EvolveKeyIn DEF LagsAt
  <2>3. PICK q \in Periods : q = t + 1
    BY <2>2
  <2>4. stable' \subseteq 0..q-1
    <3>1. \A x \in stable' : x \in 0..t-1 \/ x = t
      BY <1>4, <1>5
    <3>2. \A x : x \in 0..t-1 \/ x = t => x \in 0..q-1
      BY <2>1, <2>3
    <3>. QED  BY <3>1, <3>2
  <2>5. q <= round' /\ wpc' # "verify"
    BY <1>1, <1>3, <1>4, <2>1, <2>3 DEF NextRound
  <2>. QED  BY <2>2, <2>3, <2>4, <2>5 DEF LagsAt
<1>. QED  BY <1>1, <1>6, <1>7, RoundOver

LEMMA NextStability ==
    ASSUME Values, WInv, IInv, [WorkNext]_wvars
    PROVE  StabilityInv'
<1>1. CASE UNCHANGED wvars
  <2>1. UNCHANGED <<legacy, phase, pk, sk, sig, mode, wpc, round, failures,
                    stable>>
    BY <1>1 DEF wvars, avars, vars, caller, wlocals
  <2>2. \A t : LagsAt(t) => LagsAt(t)'
    BY <2>1, QuietKeyIn DEF LagsAt
  <2>. QED  BY <2>1, <2>2 DEF WInv, StabilityInv
<1>2. CASE StabilityStep
  BY <1>2, ModeStays, StabilityStart, StabilitySign, StabilitySkipped,
     StabilityRound DEF StabilityStep
<1>3. CASE ArchiveStep \/ DistanceStep \/ TestStep
  BY <1>3, ModeStays DEF StabilityInv
<1>. QED  BY <1>1, <1>2, <1>3, StepsOf DEF WInv

-----------------------------------------------------------------------------
(* Structs, archive and counters after every step of every program.        *)
LEMMA WorkInvariant ==
    ASSUME Values
    PROVE  WorkSpec => [](IInv /\ WInv)
<1>1. WorkInit => IInv /\ WInv
  BY InitIInv, InitWInv DEF WorkInit, ArchiveInit
<1>2. IInv /\ WInv /\ [WorkNext]_wvars => (IInv /\ WInv)'
  <2> SUFFICES ASSUME IInv, WInv, [WorkNext]_wvars
               PROVE  IInv' /\ WInv'
    OBVIOUS
  <2>1. [AnySigner]_vars
    BY CallsOfScheme DEF AnySigner
  <2>2. IInv'
    BY <2>1, StepIInv
  <2>. QED  BY <2>2, NextModes, NextFill, NextStability DEF WInv
<1>. QED  BY <1>1, <1>2, PTL DEF WorkSpec

(* Whatever a program does, the scheme sees nothing but its own calls: all *)
(* that is proved about them holds in the drivers and in the self test.    *)
THEOREM ProgramsCallTheScheme ==
    ASSUME Values
    PROVE  WorkSpec => Spec
<1>1. WorkInit => Init
  BY DEF WorkInit, ArchiveInit
<1>2. IInv /\ WInv /\ [WorkNext]_wvars => [Next]_vars
  BY CallsOfScheme
<1>. QED  BY <1>1, <1>2, WorkInvariant, PTL DEF WorkSpec, Spec

LEMMA ArchivedVerify == ASSUME WInv PROVE RecordsVerify
<1> SUFFICES ASSUME NEW s \in 0..made-1
             PROVE  ev_verify(pk, store[s].m, store[s].sig, SigBytes, "none")
                      = 0
  BY DEF RecordsVerify
<1>1. mode = "archive"
  BY DEF WInv, ModesInv
<1>2. Stored(s)
  BY <1>1, FillLocals DEF WInv
<1>3. store[s].sig.p \in Periods
  BY <1>2 DEF Stored, InSlot
<1>. QED  BY <1>2, <1>3, VerifyIs DEF Stored

(* Every record in the archive verifies, from the moment it is stored and  *)
(* through all later evolutions (bench_workload.c, extended_bench.c).      *)
THEOREM ArchiveHolds ==
    ASSUME Values
    PROVE  WorkSpec => []RecordsVerify
<1>1. WInv => RecordsVerify
  BY ArchivedVerify
<1>. QED  BY <1>1, WorkInvariant, PTL

(* In the stability experiment each round either adds a period that no     *)
(* round before had, or is counted as a failure (bench_workload.c:6).      *)
THEOREM CountsAreComplete ==
    ASSUME Values
    PROVE  WorkSpec => []StabilityCounts
<1>1. WInv => StabilityCounts
  BY DEF WInv, StabilityInv, StabilityCounts
<1>. QED  BY <1>1, WorkInvariant, PTL

-----------------------------------------------------------------------------
(* With enough memory nothing fails, whatever the programs do.             *)
EnoughMemory == "message" \notin OutOfMemory

NothingFails ==
    /\ pc # "exit" /\ bad = 0
    /\ failures = 0 /\ wpc # "exit"
    /\ mode = "stability" /\ wpc = "done" => Cardinality(stable) = T

(* What is in the buffer when it is verified is a signature of the label   *)
(* that it is verified for.                                                *)
Awaited == <<IF mode = "stability" THEN round ELSE 0, 0>>

BufferInv ==
    /\ mode = "distance" /\ wpc = "sign" => KeyIn(0)
    /\ wpc = "verify" => /\ siglen = SigBytes /\ sig.p \in Periods
                         /\ Accepts(legacy, pk, Awaited, sig)

(* The slot that is verified next.                                         *)
ScanInv == k \in Nat /\ made \in Nat

SmoothInv == NothingFails /\ BufferInv /\ ScanInv

LEMMA OnlyNone == ASSUME EnoughMemory PROVE VerifierOutOfMemory = {"none"}
  BY DEF EnoughMemory, VerifierOutOfMemory

LEMMA NoneIsBad ==
    ASSUME Values, EnoughMemory, WInv, mode = "archive", bad = 0,
           ScanInv, NEW oom \in VerifierOutOfMemory, VerifyRecord(oom)
    PROVE  bad' = 0
<1>1. k < made /\ oom = "none"
  BY OnlyNone DEF VerifyRecord
<1>2. RecordsVerify
  BY ArchivedVerify
<1>3. k \in 0..made-1
  BY <1>1 DEF ScanInv
<1>. QED  BY <1>1, <1>2, <1>3 DEF VerifyRecord, RecordsVerify

LEMMA Awaits ==
    ASSUME BufferInv, wpc = "verify"
    PROVE  ev_verify(pk, Awaited, sig, siglen, "none") = 0
  BY VerifyIs DEF BufferInv

LEMMA QuietBuffer ==
    ASSUME BufferInv, mode' = mode,
           UNCHANGED <<legacy, phase, pk, sk, sig, siglen, round, wpc>>
    PROVE  BufferInv'
<1>1. KeyIn(0) => KeyIn(0)'
  BY QuietKeyIn
<1>2. Awaited' = Awaited
  BY DEF Awaited
<1>. QED  BY <1>1, <1>2 DEF BufferInv

(* The steps of E6 and of the mode "distance".                             *)
LEMMA SmoothStart ==
    ASSUME Values, WInv, IInv, SmoothInv, mode' = mode,
           UNCHANGED <<pc, bad, k, made>>, Start
    PROVE  SmoothInv'
<1>1. PICK root \in Roots : Keygen(root, {})
  BY DEF Start
<1>2. KeyIn(0)'
  BY <1>1, KeygenKeyIn
<1>. QED  BY <1>2 DEF SmoothInv, Start, BufferInv, NothingFails, ScanInv

LEMMA SmoothSign ==
    ASSUME WInv, SmoothInv, mode \in {"stability", "distance"}, mode' = mode,
           UNCHANGED <<pc, bad, k, made>>, SignOne
    PROVE  SmoothInv'
<1>1. /\ wpc = "sign" /\ wpc' = "verify" /\ Sign(<<round, 0>>)
      /\ UNCHANGED <<round, failures, stable>>
  BY DEF SignOne
<1>2. PICK t \in Periods : KeyIn(t)
  <2>1. CASE mode = "stability"
    BY <1>1, <2>1 DEF WInv, StabilityInv, LagsAt
  <2>2. CASE mode = "distance"
    <3>1. 0 \in Periods
      BY TPositive DEF Periods
    <3>. QED  BY <1>1, <2>2, <3>1 DEF SmoothInv, BufferInv
  <2>. QED  BY <2>1, <2>2
<1>3. <<round, 0>> = Awaited'
  BY <1>1 DEF Awaited, WInv, ModesInv
<1>4. /\ sig'.p = t /\ Accepts(legacy, pk, <<round, 0>>, sig')
      /\ UNCHANGED <<legacy, pk>>
  BY <1>1, <1>2, SignKeyIn
<1>5. siglen' = SigBytes
  BY <1>1, <1>2 DEF Sign, KeyIn, KeyAt
<1>6. BufferInv'
  BY <1>1, <1>3, <1>4, <1>5, <1>2 DEF BufferInv
<1>. QED  BY <1>1, <1>6 DEF SmoothInv, NothingFails, ScanInv

LEMMA SmoothRound ==
    ASSUME Values, EnoughMemory, WInv, WInv', SmoothInv, mode = "stability",
           mode' = mode, UNCHANGED <<pc, bad, k, made>>,
           NEW oom \in VerifierOutOfMemory, Stable(oom)
    PROVE  SmoothInv'
<1>1. oom = "none" /\ wpc = "verify" /\ NextRound
  BY OnlyNone DEF Stable
<1>2. ev_verify(pk, <<round, 0>>, sig, siglen, oom) = 0
  BY <1>1, Awaits DEF SmoothInv, Awaited
<1>3. failures' = 0 /\ wpc' \in {"sign", "done"}
  BY <1>1, <1>2 DEF Stable, SmoothInv, NothingFails, NextRound
<1>4. wpc' = "done" => Cardinality(stable') = T
  <2>1. /\ T \in Nat
        /\ wpc' = "done" =>
             round' = T /\ IsFiniteSet(stable')
               /\ round' = Cardinality(stable') + failures'
    BY TPositive DEF WInv, StabilityInv
  <2>2. IsFiniteSet(stable') => Cardinality(stable') \in Nat
    BY FS_CardinalityType
  <2>. QED  BY <1>3, <2>1, <2>2
<1>. QED  BY <1>3, <1>4 DEF SmoothInv, NothingFails, BufferInv,
                        ScanInv

LEMMA SmoothVerify ==
    ASSUME EnoughMemory, SmoothInv, mode' = mode,
           UNCHANGED <<pc, bad, k, made>>,
           NEW oom \in VerifierOutOfMemory, DistanceVerify(oom)
    PROVE  SmoothInv'
<1>1. /\ oom = "none" /\ wpc = "verify" /\ mode = "distance"
      /\ UNCHANGED <<legacy, phase, pk, sk, sig, siglen, failures, stable>>
  BY OnlyNone DEF DistanceVerify, vars, caller
<1>2. Awaited = <<0, 0>> /\ Awaited' = Awaited
  BY <1>1 DEF Awaited
<1>3. wpc' \in {"verify", "done"}
  BY <1>1, <1>2, Awaits DEF DistanceVerify, SmoothInv
<1>. QED  BY <1>1, <1>2, <1>3 DEF SmoothInv, NothingFails, BufferInv,
                        ScanInv

LEMMA NoSignFails == ASSUME EnoughMemory PROVE ~SignFails
  BY DEF EnoughMemory, SignFails

(* The steps of the archive program.                                       *)
LEMMA SmoothArchive ==
    ASSUME Values, EnoughMemory, WInv, SmoothInv, mode = "archive",
           mode' = mode, UNCHANGED <<round, failures, stable, wpc>>,
           Generate \/ Loops
    PROVE  SmoothInv'
<1>1. pc' # "exit" /\ bad' = 0
  <2>1. pc # "exit" /\ bad = 0
    BY DEF SmoothInv, NothingFails
  <2>2. CASE Generate \/ SignRecord \/ PeriodDone \/ FillDone
    BY <2>1, <2>2 DEF Generate, SignRecord, PeriodDone, FillDone, scan
  <2>3. CASE SignExit
    BY <2>3, NoSignFails DEF SignExit
  <2>4. ASSUME NEW oom \in VerifierOutOfMemory, VerifyRecord(oom)
        PROVE  pc' # "exit" /\ bad' = 0
    BY <2>1, <2>4, NoneIsBad DEF VerifyRecord, SmoothInv
  <2>5. CASE ScanDone
    BY <2>1, <2>5 DEF ScanDone
  <2>. QED  BY <2>2, <2>3, <2>4, <2>5 DEF Loops
<1>2. wpc = "start"
  BY DEF WInv, ModesInv
<1>3. k' \in Nat /\ made' \in Nat
  <2>1. k \in Nat /\ made \in Nat
    BY DEF SmoothInv, ScanInv
  <2>. QED  BY <2>1 DEF Generate, Loops, SignRecord, SignExit, PeriodDone,
                        FillDone, VerifyRecord, ScanDone, fill, scan
<1>. QED  BY <1>1, <1>2, <1>3 DEF SmoothInv, NothingFails, BufferInv,
                        ScanInv

LEMMA NextSmooth ==
    ASSUME Values, EnoughMemory, IInv, WInv, WInv', SmoothInv,
           [WorkNext]_wvars
    PROVE  SmoothInv'
<1>1. CASE UNCHANGED wvars
  <2>1. UNCHANGED <<legacy, phase, pk, sk, sig, siglen, mode, pc, bad, k,
                    made, round, failures, stable, wpc>>
    BY <1>1 DEF wvars, avars, vars, caller, fill, scan, wlocals
  <2>. QED  BY <2>1, QuietBuffer DEF SmoothInv, NothingFails, ScanInv
<1>2. CASE ArchiveStep
  <2>1. /\ mode = "archive" /\ mode' = mode
        /\ UNCHANGED <<round, failures, stable, wpc>>
        /\ Generate \/ Loops
    BY <1>2 DEF ArchiveStep, Archiving, Fixed, wlocals
  <2>. QED  BY <2>1, SmoothArchive
<1>3. CASE StabilityStep
  <2>1. mode = "stability" /\ mode' = mode /\ UNCHANGED <<pc, bad, k, made>>
    BY <1>3 DEF StabilityStep, Working, Fixed, archive, fill, scan
  <2>2. CASE SignSkipped
    BY <2>2, NoSignFails DEF SignSkipped
  <2>3. CASE Start
    BY <2>1, <2>3, SmoothStart
  <2>. QED  BY <1>3, <2>1, <2>2, <2>3, SmoothSign, SmoothRound
            DEF StabilityStep
<1>4. CASE DistanceStep
  <2>1. CASE Working
    <3>1. mode = "distance" /\ mode' = mode /\ UNCHANGED <<pc, bad, k, made>>
      BY <1>4, <2>1 DEF DistanceStep, Working, Fixed, archive, fill, scan
    <3>2. CASE DistanceUnsigned
      BY <3>2, NoSignFails DEF DistanceUnsigned
    <3>3. CASE Start
      BY <3>1, <3>3, SmoothStart
    <3>4. CASE Chaining
      <4>1. UNCHANGED <<legacy, phase, pk, sk, sig, siglen, mode, pc, bad,
                        k, made, round, failures, stable, wpc>>
        BY <3>4 DEF Chaining, Fixed, avars, vars, caller, fill, scan, wlocals
      <4>. QED  BY <4>1, QuietBuffer DEF SmoothInv, NothingFails, ScanInv
    <3>. QED  BY <1>4, <3>1, <3>2, <3>3, <3>4, SmoothSign, SmoothVerify
              DEF DistanceStep
  <2>2. CASE Chaining
    <3>1. UNCHANGED <<legacy, phase, pk, sk, sig, siglen, mode, pc, bad,
                      k, made, round, failures, stable, wpc>>
      BY <2>2 DEF Chaining, Fixed, avars, vars, caller, fill, scan, wlocals
    <3>. QED  BY <3>1, QuietBuffer DEF SmoothInv, NothingFails, ScanInv
  <2>. QED  BY <1>4, <2>1, <2>2 DEF DistanceStep
<1>5. CASE TestStep
  <2>1. /\ mode = "selftest" /\ mode' = mode
        /\ UNCHANGED <<pc, bad, k, made, round, failures, stable, wpc>>
    BY <1>5 DEF TestStep, Testing, Fixed, archive, fill, scan, wlocals
  <2>2. wpc = "start"
    BY <2>1 DEF WInv, ModesInv
  <2>. QED  BY <2>1, <2>2 DEF SmoothInv, NothingFails, BufferInv,
                        ScanInv
<1>. QED  BY <1>1, <1>2, <1>3, <1>4, <1>5, StepsOf DEF WInv

(* With enough memory no driver gives up and none counts a failure:        *)
(* "count failures (expect 0)" (bench_workload.c:6) comes out as expected, *)
(* all T periods verify, no record of an archive is refused, and no line   *)
(* of the mode "distance" ends the program.                                *)
THEOREM NoneFails ==
    ASSUME Values, EnoughMemory
    PROVE  WorkSpec => []NothingFails
<1>1. WorkInit => SmoothInv
  BY DEF WorkInit, ArchiveInit, SmoothInv, NothingFails, BufferInv,
                        ScanInv
<1>2. IInv /\ WInv /\ WInv' /\ SmoothInv /\ [WorkNext]_wvars => SmoothInv'
  BY NextSmooth
<1>3. SmoothInv => NothingFails
  BY DEF SmoothInv
<1>. QED  BY <1>1, <1>2, <1>3, WorkInvariant, PTL DEF WorkSpec

-----------------------------------------------------------------------------
(* As in the drivers, the records are fewer than the periods or the same   *)
(* number for each; what is left over would never be signed.               *)
WholeQuotas == \A n \in Sizes : n < T \/ n = T * (n \div T)

(* The slots of period q are the quota from per * q on, as far as the      *)
(* archive reaches.                                                        *)
LEMMA SlotsOfPeriod ==
    ASSUME Values, WInv, mode = "archive", made = n_rec, NEW q \in Periods
    PROVE  {s \in Slots : store[s].sig.p = q}
             = {s \in Slots : per * q <= s /\ s < per * q + per}
<1>1. per \in Nat \ {0} /\ n_rec \in Nat /\ T \in Nat
  BY PerIs DEF WInv
<1>2. ASSUME NEW s \in Slots
      PROVE  store[s].sig.p = q <=> per * q <= s /\ s < per * q + per
  <2>1. s \in 0..made-1 /\ s \in Nat
    BY <1>1, <1>2 DEF Slots
  <2>2. InSlot(s, store[s].sig.p)
    BY <2>1, FillLocals DEF WInv, Stored
  <2>3. PICK b \in Nat, c \in Nat : b = store[s].sig.p /\ c = q
    BY <1>1, <2>2 DEF InSlot, Periods
  <2>4. per * b <= s /\ s < per * b + per
    BY <2>2, <2>3 DEF InSlot
  <2>5. ASSUME per * c <= s, s < per * c + per
        PROVE  b = c
    <3>1. PICK x \in Nat, y \in Nat : x = per * b /\ y = per * c
      BY <1>1, <2>3
    <3>2. CASE b < c
      <4>1. x + per <= y
        BY <1>1, <3>1, <3>2, MulGap
      <4>. QED  BY <1>1, <2>1, <2>4, <2>5, <3>1, <4>1
    <3>3. CASE c < b
      <4>1. y + per <= x
        BY <1>1, <3>1, <3>3, MulGap
      <4>. QED  BY <1>1, <2>1, <2>4, <2>5, <3>1, <4>1
    <3>. QED  BY <2>3, <3>2, <3>3
  <2>. QED  BY <2>3, <2>4, <2>5
<1>. QED  BY <1>2

LEMMA FilledUp ==
    ASSUME Values, WholeQuotas, WInv, mode = "archive",
           pc \in {"scan", "done"}
    PROVE  made = n_rec
<1>1. /\ p \in 0..T /\ made \in 0..n_rec
      /\ made = per * p /\ ~(p < T /\ made < n_rec)
  BY DEF WInv, FillInv
<1>2. /\ per \in Nat \ {0} /\ n_rec \in Nat /\ T \in Nat \ {0}
      /\ per = IF n_rec \div T >= 1 THEN n_rec \div T ELSE 1
      /\ per * T <= n_rec \/ (n_rec < T /\ per = 1)
  BY PerIs DEF WInv
<1>3. CASE n_rec < T /\ per = 1
  BY <1>1, <1>2, <1>3
<1>4. CASE per * T <= n_rec
  <2>1. n_rec < T \/ n_rec = T * (n_rec \div T)
    BY DEF WholeQuotas, WInv, ModesInv
  <2>2. T <= per * T
    BY <1>2
  <2>3. n_rec = T * (n_rec \div T) /\ n_rec >= T
    BY <1>2, <1>4, <2>1, <2>2
  <2>4. PICK c : c = n_rec \div T /\ c \in Nat
    BY <1>2, DivMod
  <2>5. c # 0
    BY <1>2, <2>3, <2>4
  <2>6. n_rec = per * T
    BY <1>2, <2>3, <2>4, <2>5
  <2>7. p = T => made = n_rec
    BY <1>1, <2>6
  <2>. QED  BY <1>1, <1>2, <2>7
<1>. QED  BY <1>2, <1>3, <1>4

LEMMA QuotaOf ==
    ASSUME Values, WholeQuotas, WInv, NEW q \in Periods
    PROVE  Cardinality({s \in Slots : per * q <= s /\ s < per * q + per})
             = IF n_rec < T THEN (IF q < n_rec THEN 1 ELSE 0)
                            ELSE n_rec \div T
<1>1. /\ per \in Nat \ {0} /\ n_rec \in Nat /\ T \in Nat \ {0}
      /\ per = IF n_rec \div T >= 1 THEN n_rec \div T ELSE 1
      /\ per * T <= n_rec \/ (n_rec < T /\ per = 1)
  BY PerIs DEF WInv
<1>2. PICK c \in Nat : c = n_rec \div T
  BY <1>1, DivMod
<1>3. q \in Nat /\ q < T
  BY <1>1 DEF Periods
<1>4. CASE n_rec < T
  <2>1. n_rec \div T = 0
    BY <1>1, <1>4, DivUnique
  <2>2. per = 1 /\ per * q = q
    BY <1>1, <1>3, <2>1
  <2>3. {s \in Slots : per * q <= s /\ s < per * q + per}
          = IF q < n_rec THEN {q} ELSE {}
    <3>1. \A s \in Int : q <= s /\ s < q + 1 <=> s = q
      BY <1>3
    <3>2. {s \in Slots : per * q <= s /\ s < per * q + per}
            = {s \in Slots : s = q}
      BY <1>1, <2>2, <3>1 DEF Slots
    <3>3. q \in Slots <=> q < n_rec
      BY <1>1, <1>3 DEF Slots
    <3>. QED  BY <3>2, <3>3
  <2>. QED  BY <1>4, <2>3, FS_EmptySet, FS_Singleton
<1>5. CASE n_rec >= T
  <2>1. n_rec = T * c
    BY <1>1, <1>2, <1>5 DEF WholeQuotas, WInv, ModesInv
  <2>2. c # 0
    BY <1>1, <1>5, <2>1
  <2>3. per = c /\ per * T <= n_rec
    BY <1>1, <1>2, <1>5, <2>1, <2>2
  <2>4. PICK a \in Nat, b \in Nat : /\ a = per * q /\ b = per * T
                                    /\ a + per <= b
    <3>1. per * q \in Nat /\ per * T \in Nat
      BY <1>1, <1>3
    <3>2. per * q + per <= per * T
      BY <1>1, <1>3, MulGap
    <3>. QED  BY <3>1, <3>2
  <2>5. {s \in Slots : per * q <= s /\ s < per * q + per} = a..(a + per - 1)
    BY <1>1, <2>3, <2>4 DEF Slots
  <2>6. Cardinality(a..(a + per - 1)) = per
    <3>1. a \in Int /\ a + per - 1 \in Int /\ ~(a > a + per - 1)
      BY <1>1, <2>4
    <3>2. Cardinality(a..(a + per - 1)) = (a + per - 1) - a + 1
      BY <3>1, FS_Interval
    <3>. QED  BY <1>1, <2>4, <3>2
  <2>7. Cardinality({s \in Slots : per * q <= s /\ s < per * q + per}) = per
    BY <2>5, <2>6
  <2>. QED  BY <1>1, <1>2, <1>5, <2>3, <2>7
<1>. QED  BY <1>1, <1>4, <1>5

(* Once filled, no slot of the archive is empty and each period has its    *)
(* quota; fewer records than periods go to the first periods, one each     *)
(* (bench_workload.c:53, extended_bench.c and figdata_bench.c).            *)
THEOREM ArchiveIsSpread ==
    ASSUME Values, WholeQuotas
    PROVE  WorkSpec => []EvenlySpread
<1>1. ASSUME WInv, pc \in {"scan", "done"}
      PROVE  /\ made = n_rec
             /\ \A q \in Periods :
                  Cardinality({s \in Slots : store[s].sig.p = q}) =
                    IF n_rec < T THEN (IF q < n_rec THEN 1 ELSE 0)
                                 ELSE n_rec \div T
  <2>1. mode = "archive"
    BY <1>1 DEF WInv, ModesInv
  <2>2. made = n_rec
    BY <1>1, <2>1, FilledUp
  <2>3. ASSUME NEW q \in Periods
        PROVE  Cardinality({s \in Slots : store[s].sig.p = q}) =
                 IF n_rec < T THEN (IF q < n_rec THEN 1 ELSE 0)
                              ELSE n_rec \div T
    <3>1. {s \in Slots : store[s].sig.p = q}
            = {s \in Slots : per * q <= s /\ s < per * q + per}
      BY <1>1, <2>1, <2>2, SlotsOfPeriod
    <3>. QED  BY <1>1, <3>1, QuotaOf
  <2>. QED  BY <2>2, <2>3
<1>2. WInv => EvenlySpread
  BY <1>1 DEF EvenlySpread
<1>. QED  BY <1>2, WorkInvariant, PTL

-----------------------------------------------------------------------------
(* The chain.  In every driver the labels of the lines, the greatest one   *)
(* aside, stay below the index of the last key.                            *)
LabelsFit ==
    \A d \in Drivers : \A a \in DOMAIN d.dists, b \in DOMAIN d.dists :
        d.dists[a] < d.dists[b] => d.dists[a] < d.MAXCHAIN - 1

(* The key that the line with label d leads to; a line that has been       *)
(* printed is that of a label, and the repetition that is timed has so far *)
(* verified the certificates below walk.                                   *)
Target(d) == IF drv.rootAtZero /\ d = 0 THEN -1 ELSE Chain!Clamp(d)

Label(d) == d \in Nat /\ \E j \in DOMAIN drv.dists : d = drv.dists[j]

WalkInv ==
    /\ drv \in Drivers
    /\ di \in Nat \ {0} /\ walk \in Nat
    /\ at \in Int /\ at < drv.MAXCHAIN
    /\ walked = 0..walk-1
    /\ rpc = "walk" => /\ Label(drv.dists[di])
                       /\ at = Target(drv.dists[di])
                       /\ walk <= at + 1
    /\ \A x \in rows : Label(x.d) /\ x.at = Target(x.d) /\ x.walked = 0..x.at

LEMMA TargetIs ==
    ASSUME drv \in Drivers, NEW d \in Nat
    PROVE  Target(d) \in Int /\ Target(d) < drv.MAXCHAIN /\ Target(d) >= -1
<1>1. drv.MAXCHAIN \in Nat \ {0}
  BY DriversAssumption
<1>. QED  BY <1>1 DEF Target, Chain!Clamp

LEMMA TargetGrows ==
    ASSUME LabelsFit, drv \in Drivers, NEW a, NEW b, Label(a), Label(b), a < b
    PROVE  Target(a) < Target(b)
<1>1. /\ drv.MAXCHAIN \in Nat \ {0} /\ a \in Nat /\ b \in Nat
      /\ a < drv.MAXCHAIN - 1
  BY DriversAssumption DEF LabelsFit, Label
<1>2. Target(a) <= a
  BY <1>1 DEF Target, Chain!Clamp
<1>3. Target(b) = IF b >= drv.MAXCHAIN THEN drv.MAXCHAIN - 1 ELSE b
  BY <1>1 DEF Target, Chain!Clamp
<1>4. Target(a) \in Int
  BY <1>1, TargetIs
<1>. QED  BY <1>1, <1>2, <1>3, <1>4

LEMMA InitWalk == ASSUME WorkInit PROVE WalkInv
<1>1. /\ drv \in Drivers /\ di = 1 /\ at = 0 /\ walk = 0 /\ walked = {}
      /\ rows = {} /\ rpc = "setup"
  BY DEF WorkInit, Chain!ChainInit
<1>2. drv.MAXCHAIN \in Nat \ {0} /\ 0..0-1 = {}
  BY <1>1, DriversAssumption
<1>. QED  BY <1>1, <1>2 DEF WalkInv

LEMMA ChainStep == ASSUME WalkInv, Chain!ChainNext PROVE WalkInv'
<1>1. /\ drv \in Drivers /\ di \in Nat \ {0} /\ walk \in Nat
      /\ at \in Int /\ at < drv.MAXCHAIN /\ walked = 0..walk-1
      /\ \A x \in rows : /\ Label(x.d) /\ x.at = Target(x.d)
                         /\ x.walked = 0..x.at
  BY DEF WalkInv
<1>2. /\ drv' = drv
      /\ \A d : (Label(d)' <=> Label(d)) /\ Target(d)' = Target(d)
  <2>1. drv' = drv
    BY DEF Chain!ChainNext, Chain!Setup, Chain!NextDistance, Chain!WalkCert,
           Chain!WalkDone, Chain!PlainVerify
  <2>. QED  BY <2>1 DEF Label, Target, Chain!Clamp
<1>3. CASE Chain!Setup \/ Chain!PlainVerify
  <2>1. UNCHANGED <<di, at, walk, walked, rows>> /\ rpc' # "walk"
    BY <1>3 DEF Chain!Setup, Chain!PlainVerify, Chain!chainlocals
  <2>. QED  BY <1>1, <1>2, <2>1 DEF WalkInv
<1>4. CASE Chain!NextDistance
  <2>1. /\ di <= Len(drv.dists) /\ drv.dists \in Seq(Nat)
        /\ at' = Target(drv.dists[di]) /\ walk' = 0 /\ walked' = {}
        /\ UNCHANGED <<di, rows>>
    BY <1>1, <1>4, DriversAssumption DEF Chain!NextDistance, Target
  <2>2. Label(drv.dists[di])
    BY <1>1, <2>1 DEF Label
  <2>3. at' \in Int /\ at' < drv.MAXCHAIN /\ 0 <= at' + 1
    BY <1>1, <2>1, <2>2, TargetIs DEF Label
  <2>4. 0..0-1 = {}
    OBVIOUS
  <2>5. Label(drv.dists[di])' /\ at' = Target(drv.dists[di])'
    BY <1>2, <2>1, <2>2
  <2>. QED  BY <1>1, <1>2, <2>1, <2>3, <2>4, <2>5 DEF WalkInv
<1>5. CASE Chain!WalkCert
  <2>1. /\ walk <= at /\ rpc = "walk" /\ UNCHANGED <<di, at, rows>>
        /\ \/ walk' = walk + 1 /\ walked' = walked \cup {walk} /\ rpc' = rpc
           \/ UNCHANGED <<walk, walked>> /\ rpc' = "exit"
    BY <1>5 DEF Chain!WalkCert
  <2>2. /\ Label(drv.dists[di])' /\ at' = Target(drv.dists[di])'
        /\ walk <= at + 1
    BY <1>2, <2>1 DEF WalkInv
  <2>3. (0..walk-1) \cup {walk} = 0..walk+1-1
    <3>1. \A x : x \in 0..walk-1 \/ x = walk <=> x \in 0..walk+1-1
      BY <1>1
    <3>. QED  BY <3>1
  <2>4. walked' = 0..walk'-1 /\ walk' \in Nat
    <3>1. CASE walk' = walk + 1 /\ walked' = walked \cup {walk}
      BY <1>1, <2>3, <3>1
    <3>2. CASE UNCHANGED <<walk, walked>>
      BY <1>1, <3>2
    <3>. QED  BY <2>1, <3>1, <3>2
  <2>5. rpc' = "walk" => walk' <= at' + 1
    BY <1>1, <2>1
  <2>. QED  BY <1>1, <1>2, <2>1, <2>2, <2>4, <2>5 DEF WalkInv
<1>6. CASE Chain!WalkDone
  <2>1. /\ walk = at + 1 /\ rpc = "walk" /\ Label(drv.dists[di])
        /\ at = Target(drv.dists[di]) /\ at' = at
    BY <1>1, <1>6 DEF Chain!WalkDone, WalkInv
  <2>2. walked = 0..at
    BY <1>1, <2>1
  <2>3. CASE rpc' = "exit"
    <3>1. UNCHANGED <<rows, walk, walked, di>>
      BY <1>6, <2>1, <2>3 DEF Chain!WalkDone
    <3>. QED  BY <1>1, <1>2, <2>1, <2>3, <3>1 DEF WalkInv
  <2>4. CASE rpc' # "exit"
    <3>1. /\ rows' = rows \cup {[d |-> drv.dists[di], at |-> at,
                                 walked |-> walked]}
          /\ walk' = 0 /\ walked' = {}
          /\ \/ di' = di /\ rpc' = rpc
             \/ di' = di + 1 /\ rpc' = "setup"
      BY <1>6, <2>4 DEF Chain!WalkDone
    <3>2. \A x \in rows' : /\ Label(x.d)' /\ x.at = Target(x.d)'
                           /\ x.walked = 0..x.at
      BY <1>1, <1>2, <2>1, <2>2, <3>1
    <3>3. /\ 0..0-1 = {} /\ di' \in Nat \ {0} /\ 0 <= at' + 1
          /\ rpc' = "walk" => di' = di
      BY <1>1, <2>1, <3>1
    <3>4. \/ Label(drv.dists[di])' /\ at' = Target(drv.dists[di])'
          \/ rpc' # "walk"
      BY <1>2, <2>1, <3>3
    <3>. QED  BY <1>1, <1>2, <2>1, <3>1, <3>2, <3>3, <3>4 DEF WalkInv
  <2>. QED  BY <2>3, <2>4
<1>. QED  BY <1>3, <1>4, <1>5, <1>6 DEF Chain!ChainNext

LEMMA WalkInvariant == WorkSpec => []WalkInv
<1>1. WalkInv /\ [WorkNext]_wvars => WalkInv'
  <2> SUFFICES ASSUME WalkInv, [WorkNext]_wvars PROVE WalkInv'
    OBVIOUS
  <2>1. CASE Chaining /\ Chain!ChainNext
    BY <2>1, ChainStep
  <2>2. CASE ~(Chaining /\ Chain!ChainNext)
    <3>1. UNCHANGED <<drv, di, at, walk, walked, rows, rpc>>
      BY <2>2 DEF WorkNext, Running, Archiving, Testing, Working, wvars, chain
    <3>. QED  BY <3>1 DEF WalkInv, Label, Target, Chain!Clamp
  <2>. QED  BY <2>1, <2>2
<1>. QED  BY <1>1, InitWalk, PTL DEF WorkSpec

(* Each printed line stands for the certificates of all keys from the root *)
(* key to the one that signed, verified in the repetition that was timed,  *)
(* and a greater distance is more work (bench_rechain.c and the modes      *)
(* "distance").                                                            *)
THEOREM LinesReachRoot ==
    ASSUME LabelsFit
    PROVE  WorkSpec => []EveryLineReachesRoot
<1>1. WalkInv => EveryLineReachesRoot
  BY TargetGrows DEF WalkInv, EveryLineReachesRoot,
                     Chain!EveryLineReachesRoot
<1>. QED  BY <1>1, WalkInvariant, PTL

(* The driver without a rest verifies the last key plainly: its last label *)
(* is that of the last key or a greater one (bench_rechain.c: 63 of 64).   *)
LastIsWhole ==
    \A d \in Drivers :
        d.rest \/ /\ ~d.rootAtZero /\ Len(d.dists) > 0
                  /\ d.dists[Len(d.dists)] >= d.MAXCHAIN - 1

(* The certificates made so far are those of the chain, the buffer is      *)
(* signed by the key of the line that is timed or was timed last, and the  *)
(* chain is whole before the first line.                                   *)
LastLine == Target(drv.dists[di - 1])

CertInv ==
    /\ links \in 0..drv.MAXCHAIN
    /\ cert = [j \in 0..drv.MAXCHAIN-1 |-> cert[j]]
    /\ \A j \in 0..links-1 :
          cert[j] = [of |-> Chain!Key(j), by |-> Chain!Key(j - 1)]
    /\ rpc \in {"setup", "walk", "done"}
    /\ rpc # "setup" \/ di # 1 => links = drv.MAXCHAIN
    /\ di <= Len(drv.dists) + 1
    /\ rpc = "walk" => di <= Len(drv.dists) /\ msgsig = Chain!Key(at)
    /\ rpc = "setup" /\ di # 1 => msgsig = Chain!Key(LastLine)
    /\ rpc = "done" => plain

LEMMA InitCert == ASSUME WorkInit PROVE CertInv
<1>1. /\ drv \in Drivers /\ di = 1 /\ links = 0 /\ rpc = "setup"
      /\ cert = [j \in 0..drv.MAXCHAIN-1 |-> [of |-> 0, by |-> 0]]
  BY DEF WorkInit, Chain!ChainInit
<1>2. drv.MAXCHAIN \in Nat \ {0} /\ 0..0-1 = {} /\ drv.dists \in Seq(Nat)
  BY <1>1, DriversAssumption
<1>3. Len(drv.dists) \in Nat
  BY <1>2
<1>4. cert = [j \in 0..drv.MAXCHAIN-1 |-> cert[j]]
  BY <1>1
<1>. QED  BY <1>1, <1>2, <1>3, <1>4 DEF CertInv

(* The chain grows by one certificate.                                     *)
LEMMA CertSetup ==
    ASSUME WalkInv, CertInv, Chain!Setup
    PROVE  CertInv'
<1>1. /\ rpc = "setup" /\ links < drv.MAXCHAIN /\ links \in 0..drv.MAXCHAIN
      /\ cert = [j \in 0..drv.MAXCHAIN-1 |-> cert[j]]
      /\ cert' = [cert EXCEPT ![links] =
                     [of |-> Chain!Key(links), by |-> Chain!Key(links - 1)]]
      /\ links' = links + 1
      /\ UNCHANGED <<drv, msgsig, di, at, rpc, plain>>
  BY DEF Chain!Setup, CertInv, Chain!chainlocals
<1>2. drv.MAXCHAIN \in Nat
  BY DriversAssumption DEF WalkInv
<1>3. di = 1
  BY <1>1, <1>2 DEF CertInv
<1>4. cert' = [j \in 0..drv'.MAXCHAIN-1 |-> cert'[j]]
  BY <1>1
<1>5. ASSUME NEW j \in 0..links'-1
      PROVE  cert'[j] = [of |-> Chain!Key(j), by |-> Chain!Key(j - 1)]
  <2>1. links \in 0..drv.MAXCHAIN-1
    BY <1>1, <1>2
  <2>2. CASE j = links
    BY <1>1, <2>1, <2>2
  <2>3. CASE j # links
    <3>1. j \in 0..links-1 /\ j \in 0..drv.MAXCHAIN-1
      BY <1>1, <1>2, <2>3
    <3>2. cert'[j] = cert[j]
      BY <1>1, <2>3, <3>1
    <3>. QED  BY <3>1, <3>2 DEF CertInv
  <2>. QED  BY <2>2, <2>3
<1>6. links' \in 0..drv'.MAXCHAIN
  BY <1>1, <1>2
<1>. QED  BY <1>1, <1>3, <1>4, <1>5, <1>6 DEF CertInv

(* The steps of the lines.                                                 *)
LEMMA CertLines ==
    ASSUME WalkInv, CertInv,
           Chain!NextDistance \/ Chain!WalkCert \/ Chain!WalkDone
    PROVE  CertInv'
<1>1. /\ UNCHANGED <<drv, links, cert, plain>>
      /\ \A d : Target(d)' = Target(d)
  <2>1. UNCHANGED <<drv, links, cert, plain>>
    BY DEF Chain!NextDistance, Chain!WalkCert, Chain!WalkDone
  <2>. QED  BY <2>1 DEF Target, Chain!Clamp
<1>2. /\ drv.MAXCHAIN \in Nat /\ drv.dists \in Seq(Nat)
      /\ di \in Nat \ {0} /\ Len(drv.dists) \in Nat
      /\ walk \in Nat /\ at \in Int /\ at < drv.MAXCHAIN
  BY DriversAssumption DEF WalkInv
<1>3. CASE Chain!NextDistance
  <2>1. /\ links = drv.MAXCHAIN /\ di <= Len(drv.dists) /\ di' = di
        /\ msgsig' = Chain!Key(at') /\ rpc' = "walk"
    BY <1>3 DEF Chain!NextDistance
  <2>. QED  BY <1>1, <2>1 DEF CertInv
<1>4. CASE Chain!WalkCert
  <2>1. rpc = "walk" /\ walk <= at /\ UNCHANGED <<di, at, msgsig>>
    BY <1>4 DEF Chain!WalkCert
  <2>2. walk \in 0..links-1
    BY <1>2, <2>1 DEF CertInv
  <2>3. cert[walk] = [of |-> Chain!Key(walk), by |-> Chain!Key(walk - 1)]
    BY <2>2 DEF CertInv
  <2>4. rpc' = rpc
    BY <1>4, <2>3 DEF Chain!WalkCert
  <2>. QED  BY <1>1, <2>1, <2>4 DEF CertInv
<1>5. CASE Chain!WalkDone
  <2>1. /\ rpc = "walk" /\ UNCHANGED <<at, msgsig>>
        /\ msgsig = Chain!Key(at) /\ di <= Len(drv.dists)
        /\ at = Target(drv.dists[di])
    BY <1>5 DEF Chain!WalkDone, CertInv, WalkInv
  <2>2. CASE UNCHANGED <<di, rpc>>
    BY <1>1, <2>1, <2>2 DEF CertInv
  <2>3. CASE di' = di + 1 /\ rpc' = "setup"
    <3>1. di' - 1 = di /\ di' <= Len(drv.dists) + 1
      <4>1. PICK x \in Nat, n \in Nat : x = di /\ n = Len(drv.dists)
        BY <1>2
      <4>2. x <= n /\ di' = x + 1
        BY <2>1, <2>3, <4>1
      <4>3. (x + 1) - 1 = x /\ x + 1 <= n + 1
        BY <4>2
      <4>. QED  BY <4>1, <4>2, <4>3
    <3>2. LastLine' = Target(drv.dists[di])
      BY <1>1, <3>1 DEF LastLine
    <3>3. msgsig' = Chain!Key(LastLine)'
      BY <2>1, <3>2 DEF Chain!Key
    <3>. QED  BY <1>1, <2>1, <2>3, <3>1, <3>3 DEF CertInv
  <2>. QED  BY <1>5, <2>1, <2>2, <2>3 DEF Chain!WalkDone
<1>. QED  BY <1>3, <1>4, <1>5

(* The buffer is left as the last line has signed it.                      *)
LEMMA CertPlain ==
    ASSUME LastIsWhole, WalkInv, CertInv, Chain!PlainVerify
    PROVE  CertInv'
<1>1. /\ rpc = "setup" /\ links = drv.MAXCHAIN /\ di > Len(drv.dists)
      /\ plain' = (drv.rest \/ msgsig = Chain!Key(drv.MAXCHAIN - 1))
      /\ rpc' = "done"
      /\ UNCHANGED <<drv, links, cert, di>>
  BY DEF Chain!PlainVerify, Chain!chainlocals
<1>2. /\ drv \in Drivers /\ drv.MAXCHAIN \in Nat \ {0}
      /\ drv.dists \in Seq(Nat) /\ Len(drv.dists) \in Nat
      /\ di \in Nat \ {0} /\ di <= Len(drv.dists) + 1
  BY DriversAssumption DEF WalkInv, CertInv
<1>3. di - 1 = Len(drv.dists)
  BY <1>1, <1>2
<1>4. ASSUME ~drv.rest PROVE msgsig = Chain!Key(drv.MAXCHAIN - 1)
  <2>1. PICK n \in Nat, m \in Nat : n = Len(drv.dists) /\ m = drv.MAXCHAIN
    BY <1>2
  <2>2. /\ ~drv.rootAtZero /\ n > 0
        /\ drv.dists[n] >= m - 1 /\ drv.dists[n] \in Nat
    <3>1. /\ ~drv.rootAtZero /\ n > 0 /\ drv.dists[n] >= m - 1
      BY <1>2, <1>4, <2>1 DEF LastIsWhole
    <3>2. \A q \in Seq(Nat) : \A x \in 1..Len(q) : q[x] \in Nat
      OBVIOUS
    <3>3. n \in 1..Len(drv.dists)
      BY <2>1, <3>1
    <3>4. drv.dists[n] \in Nat
      BY <1>2, <3>2, <3>3
    <3>. QED  BY <3>1, <3>4
  <2>3. Target(drv.dists[n]) = drv.MAXCHAIN - 1
    <3>1. PICK d \in Nat : d = drv.dists[n]
      BY <2>2
    <3>2. Target(d) = IF d >= m THEN m - 1 ELSE d
      BY <2>1, <2>2, <3>1 DEF Target, Chain!Clamp
    <3>3. d >= m - 1
      BY <2>2, <3>1
    <3>4. (IF d >= m THEN m - 1 ELSE d) = m - 1
      BY <3>3
    <3>. QED  BY <2>1, <3>1, <3>2, <3>4
  <2>4. di # 1 /\ LastLine = drv.MAXCHAIN - 1
    BY <1>2, <1>3, <2>1, <2>2, <2>3 DEF LastLine
  <2>. QED  BY <1>1, <2>4 DEF CertInv
<1>. QED  BY <1>1, <1>4 DEF CertInv

LEMMA QuietCert ==
    ASSUME CertInv, UNCHANGED <<drv, links, cert, msgsig, di, at, rpc, plain>>
    PROVE  CertInv'
<1>1. LastLine' = LastLine
  BY DEF LastLine, Target, Chain!Clamp
<1>. QED  BY <1>1 DEF CertInv, Chain!Key

LEMMA CertInvariant ==
    ASSUME LastIsWhole
    PROVE  WorkSpec => []CertInv
<1>1. WalkInv /\ CertInv /\ [WorkNext]_wvars => CertInv'
  <2> SUFFICES ASSUME WalkInv, CertInv, [WorkNext]_wvars PROVE CertInv'
    OBVIOUS
  <2>1. CASE Chaining /\ Chain!ChainNext
    BY <2>1, CertSetup, CertLines, CertPlain DEF Chain!ChainNext
  <2>2. CASE ~(Chaining /\ Chain!ChainNext)
    <3>1. UNCHANGED <<drv, links, cert, msgsig, di, at, rpc, plain>>
      BY <2>2 DEF WorkNext, Running, Archiving, Testing, Working, wvars, chain
    <3>. QED  BY <3>1, QuietCert
  <2>. QED  BY <2>1, <2>2
<1>. QED  BY <1>1, InitCert, WalkInvariant, PTL DEF WorkSpec

(* Every certificate and every signature of a chain is accepted at every   *)
(* distance, so that no driver ends with "verify fail", and the plain      *)
(* verification that bench_rechain.c times last, without a look at its     *)
(* result, is of a signature of the last key.                              *)
ChainVerifies == rpc # "exit" /\ (rpc = "done" => plain)

THEOREM ChainsVerify ==
    ASSUME LastIsWhole
    PROVE  WorkSpec => []ChainVerifies
<1>1. CertInv => ChainVerifies
  BY DEF CertInv, ChainVerifies
<1>. QED  BY <1>1, CertInvariant, PTL

-----------------------------------------------------------------------------
(* The self test of ev_c4_selftest.c.  Its periods do not exist in a tree  *)
(* of one leaf.                                                            *)
LEMMA TestPeriods ==
    ASSUME Depth # 0
    PROVE  /\ \A v \in 1..4 : periods[v] \in Periods
           /\ Len(periods) = 4 /\ periods[1] = 0 /\ periods[4] = T - 1
           /\ \A v \in 1..3 : periods[v] <= periods[v+1]
<1>1. Depth - 1 \in Edges /\ Depth - 1 \in Levels
  BY DepthAssumption DEF Edges, Levels
<1>2. PICK h \in Nat \ {0} : T = 2 * h
  <2>1. (Depth - 1) + 1 = Depth /\ Pow2[(Depth - 1) + 1] = 2 * Pow2[Depth - 1]
    BY <1>1, Pow2Doubles, DepthAssumption
  <2>2. Pow2[Depth - 1] \in Nat \ {0}
    BY <1>1, Pow2Type
  <2>. QED  BY <2>1, <2>2 DEF T
<1>3. T \div 2 = h
  BY <1>2, DivUnique
<1>. QED  BY <1>2, <1>3 DEF periods, Periods

(* What it has in its buffer after it signed in period t.                  *)
TestKey(t) == KeyOf(legacy, pk.rho, 1, t)

SignedIn(t) ==
    /\ siglen = SigBytes
    /\ sig = [p    |-> t,
              fswa |-> crypto_sign_signature(<<t, TestMessage>>, TestKey(t)),
              t1   |-> TestKey(t),
              path |-> OwnPathOf(sk.mt, t)]

(* The key is never behind the loop, and no check has failed.              *)
TestInv ==
    /\ failed = FALSE
    /\ mode = "selftest" =>
         /\ step \in {"start", "loop", "check", "free", "end"}
         /\ visit \in 1..5
         /\ step = "start" => visit = 1
         /\ step = "loop" =>
              \E t \in Periods : /\ KeyAt(1, t)
                                 /\ visit <= 4 => t <= periods[visit]
                                 /\ visit = 5 => t = T - 1
         /\ step = "check" => /\ visit <= 4
                              /\ KeyAt(1, periods[visit])
                              /\ SignedIn(periods[visit])

-----------------------------------------------------------------------------
(* Whatever is accepted leads to the root and was signed in its period.    *)
LEMMA AcceptedMeans ==
    ASSUME NEW s, ev_verify(pk, TestMessage, s, siglen, "none") = 0
    PROVE  /\ PathRoot(s.p, <<"leaf", s.t1>>, s.path) = pk.root
           /\ s.fswa = crypto_sign_signature(<<s.p, TestMessage>>, s.t1)
<1>1. ev_merkle_leafdigest(s.t1, "none" = "digest") = <<"leaf", s.t1>>
  BY DEF ev_merkle_leafdigest
<1>2. /\ PathRoot(s.p, ev_merkle_leafdigest(s.t1, "none" = "digest"), s.path)
           = pk.root
      /\ crypto_sign_verify(s.fswa, Composite(s.p, TestMessage),
                            ev_matrix_seed(pk.rho, s.p), s.t1)
  BY DEF ev_verify
<1>. QED  BY <1>1, <1>2 DEF crypto_sign_verify, Composite

(* The last entry of an authentication path is a leaf digest.              *)
LEMMA LastEntry ==
    ASSUME Depth # 0, NEW b, NEW rho, NEW root, NEW t \in Periods
    PROVE  AuthEntry(Committed(b, rho, root, {}), t, Depth) # ZeroDigest
<1>1. PICK d : d = Digests(b, rho, root, {})
  OBVIOUS
<1>2. PICK j : j = sibling(t)
  OBVIOUS
<1>3. j \in Periods /\ j \in 0..Pow2[Depth]-1
  <2>1. Depth - 1 \in Edges /\ (Depth - 1) + 1 = Depth
    BY DepthAssumption DEF Edges
  <2>2. t \in 0..Pow2[Depth]-1
    BY DEF Periods, T
  <2>3. j \in 0..Pow2[Depth]-1
    BY <1>2, <2>1, <2>2, SiblingBound
  <2>. QED  BY <2>3 DEF Periods, T
<1>4. level_index(t, Depth) = t
  BY IndexEnds
<1>5. AuthEntry(TreeOf(d), t, Depth) = d[j]
  BY <1>2, <1>3, <1>4, TreeNode DEF AuthEntry
<1>6. d[j] = <<"leaf", KeyOf(b, rho, root, j)>>
  BY <1>1, <1>3, DigestTells
<1>. QED  BY <1>1, <1>5, <1>6 DEF Committed, ZeroDigest

(* No signature that was spoilt in one of the four places is accepted.     *)
LEMMA SpoiltRefused ==
    ASSUME Depth # 0, NEW t \in Periods, KeyAt(1, t), SignedIn(t),
           NEW s \in Spoilt
    PROVE  ev_verify(pk, TestMessage, s, siglen, "none") # 0
<1> SUFFICES ASSUME ev_verify(pk, TestMessage, s, siglen, "none") = 0
             PROVE  FALSE
  OBVIOUS
<1>1. /\ PathRoot(s.p, <<"leaf", s.t1>>, s.path) = pk.root
      /\ s.fswa = crypto_sign_signature(<<s.p, TestMessage>>, s.t1)
  BY AcceptedMeans
<1>2. PICK key, fswa, path :
        /\ key = LeafKey(MatrixSeed(legacy, pk.rho, t), NodeOf(1, Depth, t))
        /\ fswa = [key |-> key, cm |-> <<t, TestMessage>>]
        /\ path = OwnPathOf(sk.mt, t)
        /\ sig = [p |-> t, fswa |-> fswa, t1 |-> key, path |-> path]
  BY DEF SignedIn, TestKey, KeyOf, crypto_sign_signature
<1>3. s.fswa = [key |-> s.t1, cm |-> <<s.p, TestMessage>>]
  BY <1>1 DEF crypto_sign_signature
<1>4. key.seed # Zero /\ DOMAIN key = {"mat", "seed"}
  BY <1>2 DEF LeafKey, NodeOf, Zero
<1>5. CASE s = [sig EXCEPT !.p = IF @ % 2 = 0 THEN @ + 1 ELSE @ - 1]
  <2>1. s.p # t /\ s.fswa = fswa
    BY <1>2, <1>5 DEF Periods
  <2>2. <<s.p, TestMessage>> = <<t, TestMessage>>
    BY <1>2, <1>3, <2>1
  <2>. QED  BY <2>1, <2>2
<1>6. CASE s = [sig EXCEPT !.t1.seed = Zero]
  <2>1. s.t1 = [key EXCEPT !.seed = Zero] /\ s.fswa = fswa
    BY <1>2, <1>6
  <2>2. s.t1 = key
    BY <1>2, <1>3, <2>1
  <2>. QED  BY <1>4, <2>1, <2>2
<1>7. CASE s = [sig EXCEPT !.path[Depth-1] = ZeroDigest]
  <2>1. PICK digs : /\ digs = Digests(legacy, pk.rho, 1, {})
                    /\ sk.mt = TreeOf(digs) /\ pk.root = TreeOf(digs)[0][0]
    BY DEF KeyAt, InStep, Committed
  <2>2. Depth - 1 \in Edges /\ (Depth - 1) + 1 = Depth
    BY DepthAssumption DEF Edges
  <2>3. DOMAIN path = Edges
    BY <1>2 DEF OwnPathOf
  <2>4. s.p = t /\ s.path[Depth-1] = ZeroDigest
    BY <1>2, <1>7, <2>2, <2>3
  <2>5. OwnPath(digs, t, s.path, 0)
    <3>1. PICK leaf, own : leaf = <<"leaf", s.t1>> /\ own = s.path
      OBVIOUS
    <3>2. PathRoot(t, leaf, own) = TreeOf(digs)[0][0]
      BY <1>1, <2>1, <2>4, <3>1
    <3>. QED  BY <3>1, <3>2, PathToRoot
  <2>6. ZeroDigest = AuthEntry(TreeOf(digs), t, Depth)
    BY <2>2, <2>4, <2>5 DEF OwnPath, Edges
  <2>7. AuthEntry(TreeOf(digs), t, Depth) # ZeroDigest
    BY <2>1, LastEntry DEF Committed
  <2>. QED  BY <2>6, <2>7
<1>8. CASE s = [sig EXCEPT !.fswa.key.seed = Zero]
  <2>1. s.t1 = key /\ s.fswa.key = [key EXCEPT !.seed = Zero]
    BY <1>2, <1>8
  <2>2. s.fswa.key = key
    BY <1>3, <2>1
  <2>. QED  BY <1>4, <2>1, <2>2
<1>. QED  BY <1>5, <1>6, <1>7, <1>8 DEF Spoilt

(* The search for seeds of the past (no_past_ancestor).  The ancestors     *)
(* that the test derives are the nodes on the path to their leaf.          *)
LEMMA ChildOnPath ==
    ASSUME NEW q \in Nat, NEW l \in Edges
    PROVE  ev_derive_child(NodeOf(1, l, level_index(q, l)),
                           IF level_index(q, l+1) % 2 = 1 THEN EV_DOM_RIGHT
                                                          ELSE EV_DOM_LEFT)
             = NodeOf(1, l+1, level_index(q, l+1))
<1>1. l+1 \in Levels /\ Pow2[Depth - (l+1)] \in Nat \ {0}
  BY Pow2Assumption, DepthAssumption DEF Edges, Levels
<1>2. PICK j \in Nat : j = level_index(q, l+1)
  BY <1>1, DivMod DEF level_index
<1>3. level_index(q, l) = j \div 2
  BY <1>2, IndexHalves
<1>4. j = 2 * (j \div 2) + (IF j % 2 = 1 THEN 1 ELSE 0)
  OBVIOUS
<1>. QED  BY <1>2, <1>3, <1>4
          DEF ev_derive_child, NodeOf, EV_DOM_LEFT, EV_DOM_RIGHT

LEMMA AncestorsAre ==
    ASSUME NEW q \in Periods, NEW l \in Levels
    PROVE  Ancestors(q)[l] = NodeOf(1, l, level_index(q, l))
<1>1. q \in Nat
  BY DEF Periods
<1> DEFINE Derived(g, a) ==
             IF a = 0 THEN RootSeed(1)
             ELSE ev_derive_child(g[a-1], IF level_index(q, a) % 2 = 1
                                            THEN EV_DOM_RIGHT
                                            ELSE EV_DOM_LEFT)
<1>2. PICK M : M = [a \in Levels |-> NodeOf(1, a, level_index(q, a))]
  OBVIOUS
<1>3. M[0] = RootSeed(1)
  <2>1. 0 \in Levels /\ level_index(q, 0) = 0
    BY IndexEnds, DepthAssumption DEF Levels
  <2>2. M[0] = NodeOf(1, 0, 0)
    BY <1>2, <2>1
  <2>3. NodeOf(1, 0, 0) = RootSeed(1)
    BY DEF NodeOf, RootSeed, Zero
  <2>. QED  BY <2>2, <2>3
<1>4. ASSUME NEW a \in Levels
      PROVE  M[a] = Derived(M, a)
  <2>1. CASE a = 0
    BY <1>3, <2>1
  <2>2. CASE a # 0
    <3>1. a - 1 \in Edges /\ a - 1 \in Levels /\ (a - 1) + 1 = a
      BY <2>2, DepthAssumption DEF Edges, Levels
    <3>2. PICK c \in Edges : c = a - 1 /\ c + 1 = a /\ c \in Levels
      BY <3>1
    <3>3. ev_derive_child(NodeOf(1, c, level_index(q, c)),
                          IF level_index(q, c+1) % 2 = 1 THEN EV_DOM_RIGHT
                                                         ELSE EV_DOM_LEFT)
            = NodeOf(1, c+1, level_index(q, c+1))
      BY <1>1, ChildOnPath
    <3>4. M[a] = NodeOf(1, c+1, level_index(q, c+1))
          /\ M[a-1] = NodeOf(1, c, level_index(q, c))
      BY <1>2, <3>2
    <3>. QED  BY <2>2, <3>2, <3>3, <3>4
  <2>. QED  BY <2>1, <2>2
<1>5. \E g : g = [a \in Levels |-> Derived(g, a)]
  <2>1. M = [a \in Levels |-> Derived(M, a)]
    <3>. HIDE DEF Derived
    <3>. QED  BY <1>2, <1>4, Zenon
  <2>. QED  BY <2>1
<1>6. PICK g : g = [a \in Levels |-> Derived(g, a)] /\ g = Ancestors(q)
  <2>1. PICK g : g = CHOOSE f : f = [a \in Levels |-> Derived(f, a)]
    OBVIOUS
  <2>2. g = [a \in Levels |-> Derived(g, a)]
    <3>. HIDE DEF Derived
    <3>. QED  BY <1>5, <2>1, Zenon
  <2>3. g = Ancestors(q)
    BY <2>1, Zenon DEF Ancestors
  <2>. QED  BY <2>2, <2>3
<1>7. PICK S : S = {a \in Levels : g[a] = M[a]}
  OBVIOUS
<1>8. 0 \in S
  <2>1. 0 \in Levels
    BY DepthAssumption DEF Levels
  <2>2. g[0] = Derived(g, 0)
    <3>. HIDE DEF Derived
    <3>. QED  BY <1>6, <2>1, Zenon
  <2>3. g[0] = RootSeed(1)
    BY <2>2
  <2>. QED  BY <1>3, <1>7, <2>1, <2>3
<1>9. ASSUME NEW a \in Edges, a \in S
      PROVE  a+1 \in S
  <2>1. a+1 \in Levels /\ a+1 # 0 /\ (a+1)-1 = a
    BY DepthAssumption DEF Edges, Levels
  <2>2. g[a+1] = Derived(g, a+1) /\ M[a+1] = Derived(M, a+1)
    BY <1>4, <1>6, <2>1
  <2>3. g[a] = M[a]
    BY <1>7, <1>9
  <2>. QED  BY <1>7, <2>1, <2>2, <2>3
<1>10. Levels \subseteq S
  BY <1>8, <1>9, LevelsDown
<1>. QED  BY <1>2, <1>6, <1>7, <1>10

(* In period t the tree holds no seed on the way to an earlier leaf, and   *)
(* no inner one on the way to its own.                                     *)
LEMMA PastNotFound ==
    ASSUME NEW t \in Periods
    PROVE  no_past_ancestor(TreeIn(1, t), t)
<1>0. t \in Nat /\ 0..t \subseteq Periods
  BY TPositive DEF Periods
<1> SUFFICES ASSUME NEW q \in 0..t, NEW l \in Levels, l < Depth \/ q < t
             PROVE  ~state_has(TreeIn(1, t), Ancestors(q)[l])
  BY DEF no_past_ancestor
<1>1. q \in Periods /\ q \in Nat /\ t \in Nat /\ q <= t
  BY TPositive DEF Periods
<1>2. PICK a \in Nat : a = level_index(q, l)
  BY <1>1, IndexEnds
<1>3. Ancestors(q)[l] = NodeOf(1, l, a)
  BY <1>1, <1>2, AncestorsAre
<1>4. ASSUME NEW j \in Levels, TreeIn(1, t).path[j] = NodeOf(1, l, a)
      PROVE  FALSE
  <2>1. TreeIn(1, t).path[j] = IF j = Depth
                                 THEN NodeOf(1, Depth, t) ELSE Zero
    BY IndexEnds DEF TreeIn, Descent, DescentPath
  <2>2. NodeOf(1, l, a) # Zero
    BY DEF NodeOf, Zero
  <2>3. NodeOf(1, l, a) = NodeOf(1, Depth, t)
    BY <1>4, <2>1, <2>2
  <2>4. l = Depth /\ a = t
    BY <2>3 DEF NodeOf
  <2>5. level_index(q, Depth) = q
    BY <1>1, IndexEnds
  <2>6. q = t /\ ~(l < Depth)
    BY <1>2, <2>4, <2>5, DepthAssumption
  <2>. QED  BY <1>1, <2>6
<1>5. ASSUME NEW j \in Edges, TreeIn(1, t).future_valid[j] = 1,
             TreeIn(1, t).future[j] = NodeOf(1, l, a)
      PROVE  FALSE
  <2>1. j < Depth /\ j+1 \in Levels
    BY DepthAssumption DEF Edges, Levels
  <2>2. /\ TreeIn(1, t).future_valid[j] = FutureFlag(t, j)
        /\ TreeIn(1, t).future[j] = FutureSeed(1, t, j)
    BY <2>1 DEF TreeIn, Descent, DescentFuture, DescentFlags
  <2>3. TurnsLeft(t, j)
    BY <1>5, <2>2 DEF FutureFlag
  <2>4. NodeOf(1, l, a) = NodeOf(1, j+1, level_index(t, j+1) + 1)
    BY <1>5, <2>2, <2>3 DEF FutureSeed
  <2>5. l = j+1 /\ a = level_index(t, j+1) + 1
    BY <2>4 DEF NodeOf
  <2>6. a <= level_index(t, l) /\ level_index(t, l) \in Nat
    BY <1>1, <1>2, IndexMono, IndexEnds
  <2>. QED  BY <2>5, <2>6
<1>. QED  BY <1>3, <1>4, <1>5 DEF state_has

(* The steps of the self test.                                             *)
LEMMA TestStarts ==
    ASSUME Values, Depth # 0, IInv, TestInv, mode = "selftest", mode' = mode,
           TestKeygen
    PROVE  TestInv'
<1>1. KeyAt(1, 0)' /\ rc' = 0
  <2>1. 1 \in Roots /\ Keygen(1, {})
    BY DEF TestKeygen, Values
  <2>2. rc' = 0
    BY <2>1 DEF Keygen
  <2>. QED  BY <2>1, <2>2, KeygenKeyAt
<1>2. failed' = FALSE /\ step' = "loop" /\ visit' = 1
  BY <1>1 DEF TestKeygen, CHECK, TestInv
<1>3. 0 \in Periods /\ 0 <= periods[1]
  BY TestPeriods, TPositive DEF Periods
<1>. QED  BY <1>1, <1>2, <1>3 DEF TestInv

LEMMA TestEvolves ==
    ASSUME Values, Depth # 0, IInv, TestInv, mode = "selftest", mode' = mode,
           EvolveTo
    PROVE  TestInv'
<1>1. /\ visit \in 1..4 /\ step = "loop"
      /\ sk.tree.current < periods[visit]
      /\ Evolve /\ CHECK(rc' = 0) /\ UNCHANGED <<step, visit>>
  <2>1. visit \in 1..5 /\ visit <= Len(periods) /\ Len(periods) = 4
    BY TestPeriods DEF EvolveTo, TestInv
  <2>2. visit \in 1..4
    BY <2>1
  <2>. QED  BY <2>2 DEF EvolveTo
<1>2. PICK t \in Periods : KeyAt(1, t)
  BY <1>1 DEF TestInv
<1>3. sk.tree.current = t
  BY <1>2, PeriodAt DEF Values
<1>4. t < periods[visit] /\ periods[visit] \in Periods
  BY <1>1, <1>3, TestPeriods
<1>5. t + 1 < T /\ t + 1 <= periods[visit] /\ t \in Nat
  BY <1>4, TPositive DEF Periods
<1>6. t + 1 \in Periods /\ KeyAt(1, t + 1)' /\ rc' = 0
  BY <1>1, <1>2, <1>5, EvolveKeyAt DEF Values
<1>7. failed' = FALSE
  BY <1>1, <1>6 DEF CHECK, TestInv
<1>. QED  BY <1>1, <1>5, <1>6, <1>7 DEF TestInv, periods

LEMMA TestSigns ==
    ASSUME Values, Depth # 0, TestInv, mode = "selftest", mode' = mode,
           TestSign
    PROVE  TestInv'
<1>1. /\ visit \in 1..4 /\ step = "loop"
      /\ ~(sk.tree.current < periods[visit])
      /\ Sign(TestMessage) /\ CHECK(rc' = 0)
      /\ step' = "check" /\ visit' = visit
  <2>1. visit \in 1..5 /\ visit <= Len(periods) /\ Len(periods) = 4
    BY TestPeriods DEF TestSign, TestInv
  <2>2. visit \in 1..4
    BY <2>1
  <2>. QED  BY <2>2 DEF TestSign
<1>2. PICK t \in Periods : KeyAt(1, t) /\ t <= periods[visit]
  BY <1>1 DEF TestInv
<1>3. sk.tree.current = t /\ sk.mt # NULL
  BY <1>2, PeriodAt DEF Values, KeyAt
<1>4. t = periods[visit]
  BY <1>1, <1>2, <1>3, TestPeriods, TPositive DEF Periods
<1>5. KeyAt(1, t)' /\ UNCHANGED <<legacy, pk, sk>>
  BY <1>1, <1>2, SignKeyAt DEF Values
<1>6. rc' = 0 /\ siglen' = SigBytes
  BY <1>1, <1>3 DEF Sign
<1>7. failed' = FALSE
  BY <1>1, <1>6 DEF CHECK, TestInv
<1>8. sk.leaf.sk = TestKey(t) /\ sk.leaf.t1 = TestKey(t)
  BY <1>2 DEF KeyAt, InStep, PairOf, KeyOf, ev_leaf_keypair, TestKey
<1>9. sig' = [p    |-> t,
              fswa |-> crypto_sign_signature(<<t, TestMessage>>, TestKey(t)),
              t1   |-> TestKey(t),
              path |-> OwnPathOf(sk.mt, t)]
  BY <1>1, <1>3, <1>8, SignSigns DEF Signs
<1>10. TestKey(t)' = TestKey(t)
  BY <1>5 DEF TestKey, KeyOf, LeafKey
<1>11. SignedIn(t)'
  BY <1>5, <1>6, <1>9, <1>10 DEF SignedIn
<1>12. t = periods[visit]'
  BY <1>1, <1>4 DEF periods
<1>. QED  BY <1>1, <1>5, <1>7, <1>11, <1>12 DEF TestInv

LEMMA TestAccepts ==
    ASSUME NEW t \in Periods, KeyAt(1, t), SignedIn(t), Values
    PROVE  ev_verify(pk, TestMessage, sig, siglen, "none") = 0
<1>1. sk.leaf.sk = TestKey(t) /\ sk.leaf.t1 = TestKey(t)
  BY DEF KeyAt, InStep, PairOf, KeyOf, ev_leaf_keypair, TestKey
<1>2. /\ sig.p = t /\ siglen = SigBytes
      /\ sig.fswa = crypto_sign_signature(<<t, TestMessage>>, sk.leaf.sk)
      /\ sig.t1 = sk.leaf.t1 /\ sig.path = OwnPathOf(sk.mt, t)
  BY <1>1 DEF SignedIn
<1>3. Accepts(legacy, pk, TestMessage, sig)
  BY <1>2, SignedIsAccepted DEF KeyAt, Values
<1>. QED  BY <1>2, <1>3, VerifyIs

LEMMA TestChecksPass ==
    ASSUME Values, Depth # 0, TestInv, mode = "selftest", mode' = mode,
           TestChecks
    PROVE  TestInv'
<1>1. /\ visit \in 1..4 /\ failed = FALSE
      /\ visit' = visit + 1 /\ step' = "loop"
      /\ UNCHANGED <<legacy, phase, pk, sk>>
  BY DEF TestChecks, TestInv, vars, caller
<1>2. PICK t : t = periods[visit]
  OBVIOUS
<1>3. t \in Periods /\ KeyAt(1, t) /\ SignedIn(t)
  BY <1>1, <1>2, TestPeriods DEF TestChecks, TestInv
<1>4. ev_verify(pk, TestMessage, sig, siglen, "none") = 0
  BY <1>3, TestAccepts
<1>5. \A s \in Spoilt : ev_verify(pk, TestMessage, s, siglen, "none") # 0
  BY <1>3, SpoiltRefused
<1>6. sk.tree = TreeIn(1, t)
  BY <1>3, PeriodAt DEF Values
<1>7. no_past_ancestor(sk.tree, periods[visit])
  BY <1>2, <1>3, <1>6, PastNotFound
<1>8. failed' = FALSE
  BY <1>1, <1>4, <1>5, <1>7 DEF TestChecks, CHECK
<1>9. KeyAt(1, t)'
  BY <1>1, <1>3, QuietKeyAt
<1>10. visit <= 3 => t <= periods[visit + 1]
  BY <1>1, <1>2, TestPeriods
<1>11. visit = 4 => t = T - 1
  BY <1>2, TestPeriods
<1>. QED  BY <1>1, <1>3, <1>8, <1>9, <1>10, <1>11 DEF TestInv, periods

LEMMA TestEnds ==
    ASSUME Values, Depth # 0, IInv, TestInv, mode = "selftest", mode' = mode,
           TestLastEvolve
    PROVE  TestInv'
<1>1. /\ visit = 5 /\ step = "loop" /\ Evolve /\ CHECK(rc' # 0)
      /\ step' = "free" /\ visit' = visit
  <2>1. visit \in 1..5 /\ visit > Len(periods) /\ Len(periods) = 4
    BY TestPeriods DEF TestLastEvolve, TestInv
  <2>2. visit = 5
    BY <2>1
  <2>. QED  BY <2>2 DEF TestLastEvolve
<1>2. KeyAt(1, T - 1) /\ T - 1 \in Periods
  BY <1>1 DEF TestInv
<1>3. sk.tree.current = T - 1
  BY <1>2, PeriodAt DEF Values
<1>4. ev_tree_advance(sk.tree).rc = -1
  BY <1>3, TPositive DEF ev_tree_advance
<1>5. failed' = FALSE
  <2>1. ev_tree_advance(sk.tree).rc # 0
    BY <1>4
  <2>2. rc' = -1
    BY <1>1, <2>1 DEF Evolve
  <2>3. rc' # 0
    BY <2>2
  <2>. QED  BY <1>1, <2>3 DEF CHECK, TestInv
<1>. QED  BY <1>1, <1>5 DEF TestInv

LEMMA TestStays ==
    ASSUME TestInv, mode' = mode, UNCHANGED tvars,
           mode = "selftest" => UNCHANGED vars
    PROVE  TestInv'
<1>1. UNCHANGED <<step, visit, failed>>
  BY DEF tvars
<1>2. CASE mode # "selftest"
  BY <1>1, <1>2 DEF TestInv
<1>3. CASE mode = "selftest"
  <2>1. UNCHANGED <<legacy, phase, pk, sk, sig, siglen>>
    BY <1>3 DEF vars, caller
  <2>2. \A t : KeyAt(1, t) => KeyAt(1, t)'
    BY <2>1, QuietKeyAt
  <2>3. \A t : SignedIn(t) => SignedIn(t)'
    BY <2>1 DEF SignedIn, TestKey, KeyOf, LeafKey
  <2>. QED  BY <1>1, <1>3, <2>2, <2>3 DEF TestInv, periods
<1>. QED  BY <1>2, <1>3

LEMMA NextTest ==
    ASSUME Values, Depth # 0, IInv, WInv, TestInv, [WorkNext]_wvars
    PROVE  TestInv'
<1>1. CASE UNCHANGED wvars
  <2>1. mode' = mode /\ UNCHANGED tvars /\ UNCHANGED vars
    BY <1>1 DEF wvars, avars
  <2>. QED  BY <2>1, TestStays
<1>2. CASE ArchiveStep \/ StabilityStep \/ DistanceStep
  <2>1. mode' = mode /\ mode # "selftest"
    BY <1>2, ModeStays
  <2>2. UNCHANGED tvars
    BY <1>2 DEF ArchiveStep, StabilityStep, DistanceStep, Archiving, Working,
                Chaining
  <2>. QED  BY <2>1, <2>2, TestStays
<1>3. CASE TestStep
  <2>1. mode = "selftest" /\ mode' = mode /\ (TestKeygen \/ TestSteps)
    BY <1>3 DEF TestStep, Testing, Fixed
  <2>2. CASE TestFree
    <3>1. failed' = failed /\ step' = "end" /\ visit' = visit
      BY <2>2 DEF TestFree
    <3>. QED  BY <2>1, <3>1 DEF TestInv
  <2>. QED  BY <2>1, <2>2, TestStarts, TestEvolves, TestSigns,
               TestChecksPass, TestEnds DEF TestSteps
<1>. QED  BY <1>1, <1>2, <1>3, StepsOf DEF WInv

(* The self test reports no failure ("C4 SELFTEST: ALL PASS"), whatever    *)
(* the number of periods: with enough memory ev_keygen, ev_evolve and      *)
(* ev_sign return 0, each signature verifies and none of the spoilt ones   *)
(* does, the tree holds no seed of the past, and the last period refuses   *)
(* (ev_c4_selftest.c, run_one).                                            *)
THEOREM SelfTestPasses ==
    ASSUME Values, Depth # 0
    PROVE  WorkSpec => []AllPass
<1>1. WorkInit => TestInv
  BY DEF WorkInit, TestInit, TestInv
<1>2. IInv /\ WInv /\ TestInv /\ [WorkNext]_wvars => TestInv'
  BY NextTest
<1>3. TestInv => AllPass
  BY DEF TestInv, AllPass
<1>. QED  BY <1>1, <1>2, <1>3, WorkInvariant, PTL DEF WorkSpec

-----------------------------------------------------------------------------
(* How many steps a program has left at most, Scans passes over an archive *)
(* and Reps repetitions of a line.                                         *)
Repeats == Scans \in Nat \ {0} /\ Reps \in Nat \ {0}

Passes(n) == n * (n_rec + 1)

ArchiveLeft ==
    CASE pc = "keygen" -> n_rec + T + Passes(Scans) + 2
      [] pc = "fill"   -> (n_rec - made) + (T - p) + Passes(Scans) + 1
      [] pc = "scan"   -> Passes(Scans - rep) - k
      [] OTHER         -> 0

RoundsLeft ==
    CASE wpc = "start"  -> 2 * T + 1
      [] wpc = "sign"   -> 2 * (T - round)
      [] wpc = "verify" -> 2 * (T - round) - 1
      [] OTHER          -> 0

TestLeft ==
    LET evolutions == T - 1 - sk.tree.current
    IN  CASE step = "start" -> T + 10
          [] step = "loop"  -> 2 * (5 - visit) + evolutions + 2
          [] step = "check" -> 2 * (5 - visit) + evolutions + 1
          [] step = "free"  -> 1
          [] OTHER          -> 0

(* A line is set up, and in each repetition the chain is walked.           *)
Lines(n) == n * (Reps * (drv.MAXCHAIN + 1) + 1)

Walks(n) == n * (drv.MAXCHAIN + 1)

ChainLeft ==
    CASE rpc = "setup" -> (drv.MAXCHAIN - links)
                            + Lines(Len(drv.dists) + 1 - di) + 1
      [] rpc = "walk"  -> Lines(Len(drv.dists) - di) + Walks(Reps - r)
                            - walk + 1
      [] OTHER         -> 0

RestLeft ==
    CASE wpc = "start"  -> IF drv.rest /\ rpc # "exit" THEN Reps + 2 ELSE 0
      [] wpc = "sign"   -> Reps + 1
      [] wpc = "verify" -> Reps - round
      [] OTHER          -> 0

StepsLeft ==
    CASE mode = "archive"   -> ArchiveLeft
      [] mode = "stability" -> RoundsLeft
      [] mode = "selftest"  -> TestLeft
      [] mode = "distance"  -> ChainLeft + RestLeft

RestOver == \/ wpc \in {"done", "exit"}
            \/ wpc = "start" /\ (~drv.rest \/ rpc = "exit")

Ended ==
    CASE mode = "archive"   -> pc \in {"done", "exit"}
      [] mode = "stability" -> wpc \in {"done", "exit"}
      [] mode = "selftest"  -> step = "end"
      [] mode = "distance"  ->
           rpc \in {"done", "exit"} /\ RestOver

(* The counters of the loops stay within them.                             *)
ScansInv ==
    mode = "archive" =>
      /\ pc \in {"keygen", "fill", "scan", "done", "exit"}
      /\ k \in 0..made /\ rep \in Nat
      /\ pc \in {"keygen", "fill"} => k = 0 /\ rep = 0
      /\ pc = "scan" => rep < Scans
      /\ p = T => i = 0

LinesInv ==
    mode = "distance" =>
      /\ rpc \in {"setup", "walk", "done", "exit"}
      /\ links \in 0..drv.MAXCHAIN
      /\ rpc = "walk" \/ di # 1 => links = drv.MAXCHAIN
      /\ di <= Len(drv.dists) + 1
      /\ rpc = "walk" => di <= Len(drv.dists) /\ r \in 0..Reps-1

RestInv ==
    mode = "distance" =>
      /\ wpc \in {"start", "sign", "verify", "done", "exit"}
      /\ wpc # "start" => rpc = "done"
      /\ wpc = "sign" => KeyIn(0)
      /\ wpc = "verify" => round \in 0..Reps-1

FreeInv == mode = "selftest" /\ step = "free" => Usable

LoopsInv == ScansInv /\ LinesInv /\ RestInv /\ FreeInv

-----------------------------------------------------------------------------
LEMMA InitLoops == ASSUME Values, Repeats, WorkInit PROVE LoopsInv
<1>1. ScansInv
  <2>1. pc = "keygen" /\ k = 0 /\ made = 0 /\ rep = 0 /\ i = 0
    BY DEF WorkInit, ArchiveInit
  <2>. QED  BY <2>1 DEF ScansInv
<1>2. LinesInv
  <2>1. rpc = "setup" /\ links = 0 /\ di = 1 /\ drv \in Drivers
    BY DEF WorkInit, Chain!ChainInit
  <2>2. drv.MAXCHAIN \in Nat /\ Len(drv.dists) \in Nat
    BY <2>1, DriversAssumption
  <2>. QED  BY <2>1, <2>2 DEF LinesInv
<1>3. RestInv /\ FreeInv
  BY DEF WorkInit, TestInit, RestInv, FreeInv
<1>. QED  BY <1>1, <1>2, <1>3 DEF LoopsInv

LEMMA NextScans ==
    ASSUME Values, Repeats, WInv, ScansInv, [WorkNext]_wvars
    PROVE  ScansInv'
<1>1. CASE UNCHANGED wvars
  <2>1. UNCHANGED <<mode, pc, p, i, made, k, rep>>
    BY <1>1 DEF wvars, avars, fill, scan
  <2>. QED  BY <2>1 DEF ScansInv
<1>2. CASE ArchiveStep
  <2>1. mode = "archive" /\ mode' = mode
    BY <1>2, ModeStays
  <2>2. /\ p \in 0..T /\ i \in 0..per /\ made \in 0..n_rec
        /\ T \in Nat /\ n_rec \in Nat /\ per \in Nat
    BY <2>1, FillLocals, PerIs DEF WInv
  <2>3. /\ k \in 0..made /\ rep \in Nat
        /\ pc \in {"keygen", "fill"} => k = 0 /\ rep = 0
        /\ pc = "scan" => rep < Scans
        /\ p = T => i = 0
    BY <2>1 DEF ScansInv
  <2>4. CASE Generate
    <3>1. pc = "keygen" /\ pc' = "fill" /\ UNCHANGED <<p, i, made, k, rep>>
      BY <2>4 DEF Generate, fill, scan
    <3>. QED  BY <2>3, <3>1 DEF ScansInv
  <2>5. CASE SignRecord
    <3>1. /\ pc = "fill" /\ p < T /\ made' = made + 1
          /\ UNCHANGED <<pc, p, k, rep>>
      BY <2>5 DEF SignRecord, scan
    <3>2. p # T /\ k \in 0..made'
      BY <2>2, <2>3, <3>1
    <3>. QED  BY <2>3, <3>1, <3>2 DEF ScansInv
  <2>6. CASE PeriodDone
    BY <2>3, <2>6 DEF PeriodDone, scan, ScansInv
  <2>7. CASE SignExit \/ FillDone
    <3>1. /\ pc = "fill" /\ pc' \in {"exit", "scan"}
          /\ UNCHANGED <<p, i, made, k, rep>>
      BY <2>7 DEF SignExit, FillDone, fill, scan
    <3>2. rep < Scans
      BY <2>3, <3>1 DEF Repeats
    <3>. QED  BY <2>3, <3>1, <3>2 DEF ScansInv
  <2>8. CASE \E oom \in VerifierOutOfMemory : VerifyRecord(oom)
    <3>1. /\ pc = "scan" /\ k < made /\ k' = k + 1
          /\ UNCHANGED <<pc, p, i, made, rep>>
      BY <2>8 DEF VerifyRecord, fill
    <3>2. k' \in 0..made
      BY <2>2, <2>3, <3>1
    <3>. QED  BY <2>3, <3>1, <3>2 DEF ScansInv
  <2>9. CASE ScanDone
    <3>1. /\ pc = "scan" /\ k' = 0 /\ rep' = rep + 1
          /\ pc' \in {"scan", "done", "exit"}
          /\ pc' = "scan" => rep + 1 < Scans
          /\ UNCHANGED <<p, i, made>>
      BY <2>9 DEF ScanDone, fill
    <3>2. k' \in 0..made /\ rep' \in Nat
      BY <2>2, <2>3, <3>1
    <3>. QED  BY <2>3, <3>1, <3>2 DEF ScansInv
  <2>. QED  BY <1>2, <2>4, <2>5, <2>6, <2>7, <2>8, <2>9
            DEF ArchiveStep, Loops
<1>3. CASE StabilityStep \/ DistanceStep \/ TestStep
  BY <1>3, ModeStays DEF ScansInv
<1>. QED  BY <1>1, <1>2, <1>3, StepsOf DEF WInv

LEMMA NextLines ==
    ASSUME Repeats, WInv, WalkInv, LinesInv, [WorkNext]_wvars
    PROVE  LinesInv'
<1>1. mode' = mode
  BY StepsOf, ModeStays DEF WInv, wvars
<1>2. CASE mode = "distance" /\ Chain!ChainNext
  <2>1. /\ drv.MAXCHAIN \in Nat /\ Len(drv.dists) \in Nat
        /\ di \in Nat \ {0} /\ Reps \in Nat \ {0}
    BY DriversAssumption DEF WalkInv, Repeats
  <2>2. /\ rpc \in {"setup", "walk", "done", "exit"}
        /\ links \in 0..drv.MAXCHAIN
        /\ rpc = "walk" \/ di # 1 => links = drv.MAXCHAIN
        /\ di <= Len(drv.dists) + 1
        /\ rpc = "walk" => di <= Len(drv.dists) /\ r \in 0..Reps-1
    BY <1>2 DEF LinesInv
  <2>3. CASE Chain!Setup
    <3>1. /\ rpc = "setup" /\ links < drv.MAXCHAIN /\ links' = links + 1
          /\ UNCHANGED <<drv, di, r, rpc>>
      BY <2>3 DEF Chain!Setup, Chain!chainlocals
    <3>2. links' \in 0..drv.MAXCHAIN /\ di = 1
      BY <2>1, <2>2, <3>1
    <3>. QED  BY <2>2, <3>1, <3>2 DEF LinesInv
  <2>4. CASE Chain!NextDistance
    <3>1. /\ links = drv.MAXCHAIN /\ di <= Len(drv.dists)
          /\ r' = 0 /\ rpc' = "walk" /\ UNCHANGED <<drv, links, di>>
      BY <2>4 DEF Chain!NextDistance
    <3>2. 0 \in 0..Reps-1
      BY <2>1
    <3>. QED  BY <2>2, <3>1, <3>2 DEF LinesInv
  <2>5. CASE Chain!WalkCert
    <3>1. /\ rpc = "walk" /\ rpc' \in {"walk", "exit"}
          /\ UNCHANGED <<drv, links, di, r>>
      BY <2>5 DEF Chain!WalkCert
    <3>. QED  BY <2>2, <3>1 DEF LinesInv
  <2>6. CASE Chain!WalkDone
    <3>1. /\ rpc = "walk" /\ UNCHANGED <<drv, links>>
          /\ \/ r' = r + 1 /\ r' < Reps /\ UNCHANGED <<di, rpc>>
             \/ di' = di + 1 /\ rpc' = "setup"
             \/ UNCHANGED <<di, r>> /\ rpc' = "exit"
      BY <2>6 DEF Chain!WalkDone
    <3>2. CASE r' = r + 1 /\ r' < Reps /\ UNCHANGED <<di, rpc>>
      <4>1. r' \in 0..Reps-1
        BY <2>1, <2>2, <3>1, <3>2
      <4>. QED  BY <2>2, <3>1, <3>2, <4>1 DEF LinesInv
    <3>3. CASE di' = di + 1 /\ rpc' = "setup"
      <4>1. di' <= Len(drv.dists) + 1
        BY <2>1, <2>2, <3>1, <3>3
      <4>. QED  BY <2>2, <3>1, <3>3, <4>1 DEF LinesInv
    <3>4. CASE UNCHANGED <<di, r>> /\ rpc' = "exit"
      BY <2>2, <3>1, <3>4 DEF LinesInv
    <3>. QED  BY <3>1, <3>2, <3>3, <3>4
  <2>7. CASE Chain!PlainVerify
    <3>1. rpc' = "done" /\ UNCHANGED <<drv, links, di>>
      BY <2>7 DEF Chain!PlainVerify, Chain!chainlocals
    <3>. QED  BY <2>2, <3>1 DEF LinesInv
  <2>. QED  BY <1>2, <2>3, <2>4, <2>5, <2>6, <2>7 DEF Chain!ChainNext
<1>3. CASE ~(mode = "distance" /\ Chain!ChainNext)
  <2>1. mode = "distance" => UNCHANGED <<drv, links, di, r, rpc>>
    BY <1>3 DEF WorkNext, Running, Archiving, Testing, Working, Chaining,
                wvars, chain
  <2>. QED  BY <1>1, <2>1 DEF LinesInv
<1>. QED  BY <1>2, <1>3

LEMMA NextRest ==
    ASSUME Values, Repeats, IInv, WInv, RestInv, [WorkNext]_wvars
    PROVE  RestInv'
<1>1. CASE UNCHANGED wvars
  <2>1. UNCHANGED <<legacy, phase, pk, sk, mode, rpc, round, wpc>>
    BY <1>1 DEF wvars, avars, vars, chain, wlocals
  <2>. QED  BY <2>1, QuietKeyIn DEF RestInv
<1>2. CASE DistanceStep
  <2>1. mode = "distance" /\ mode' = mode
    BY <1>2, ModeStays
  <2>2. CASE Working
    <3>1. rpc' = rpc
      BY <2>2 DEF Working, chain
    <3>2. CASE Start
      <4>1. PICK root \in Roots : Keygen(root, {})
        BY <3>2 DEF Start
      <4>2. KeyIn(0)'
        BY <4>1, KeygenKeyIn
      <4>3. wpc' = "sign" /\ rpc = "done"
        BY <2>1, <3>2 DEF Start
      <4>. QED  BY <3>1, <4>2, <4>3 DEF RestInv
    <3>3. CASE SignOne
      <4>1. wpc = "sign" /\ wpc' = "verify" /\ round' = round
        BY <3>3 DEF SignOne
      <4>2. round' \in 0..Reps-1 /\ rpc = "done"
        BY <2>1, <4>1 DEF WInv, ModesInv, RestInv, Repeats
      <4>. QED  BY <3>1, <4>1, <4>2 DEF RestInv
    <3>4. CASE DistanceUnsigned
      BY <2>1, <3>1, <3>4 DEF DistanceUnsigned, RestInv
    <3>5. CASE \E oom \in VerifierOutOfMemory : DistanceVerify(oom)
      <4>1. /\ wpc = "verify"
            /\ \/ wpc' = "verify" /\ round + 1 < Reps /\ round' = round + 1
               \/ wpc' \in {"done", "exit"}
        BY <3>5 DEF DistanceVerify
      <4>2. wpc' = "verify" => round' \in 0..Reps-1
        BY <2>1, <4>1 DEF RestInv, Repeats
      <4>. QED  BY <2>1, <3>1, <4>1, <4>2 DEF RestInv
    <3>6. CASE Chaining
      <4>1. UNCHANGED <<legacy, phase, pk, sk, mode, round, wpc>>
        BY <3>6 DEF Chaining, Fixed, avars, vars, wlocals
      <4>. QED  BY <3>1, <4>1, QuietKeyIn DEF RestInv
    <3>. QED  BY <1>2, <3>2, <3>3, <3>4, <3>5, <3>6 DEF DistanceStep
  <2>3. CASE Chaining /\ Chain!ChainNext
    <3>1. UNCHANGED <<legacy, phase, pk, sk, mode, round, wpc>>
      BY <2>3 DEF Chaining, Fixed, avars, vars, wlocals
    <3>2. rpc # "done"
      BY <2>3 DEF Chain!ChainNext, Chain!Setup, Chain!NextDistance,
                  Chain!WalkCert, Chain!WalkDone, Chain!PlainVerify
    <3>. QED  BY <2>1, <3>1, <3>2 DEF RestInv
  <2>. QED  BY <1>2, <2>2, <2>3 DEF DistanceStep
<1>3. CASE ArchiveStep \/ StabilityStep \/ TestStep
  BY <1>3, ModeStays DEF RestInv
<1>. QED  BY <1>1, <1>2, <1>3, StepsOf DEF WInv

LEMMA NextFree ==
    ASSUME Values, Depth # 0, WInv, TestInv, FreeInv, [WorkNext]_wvars
    PROVE  FreeInv'
<1>1. CASE UNCHANGED wvars
  <2>1. UNCHANGED <<mode, step, phase, sk>>
    BY <1>1 DEF wvars, avars, vars, tvars
  <2>. QED  BY <2>1 DEF FreeInv, Usable
<1>2. CASE TestStep
  <2>1. CASE TestLastEvolve
    <3>1. Usable /\ phase' = phase
      BY <2>1 DEF TestLastEvolve, Evolve
    <3>2. visit = 5 /\ step = "loop" /\ mode = "selftest"
      <4>1. visit \in 1..5 /\ visit > Len(periods) /\ Len(periods) = 4
        BY <1>2, <2>1, TestPeriods DEF TestLastEvolve, TestInv, TestStep,
                                      Testing
      <4>. QED  BY <1>2, <2>1, <4>1 DEF TestLastEvolve, TestStep, Testing
    <3>3. KeyAt(1, T - 1) /\ T - 1 \in Periods
      BY <3>2 DEF TestInv
    <3>4. sk.tree.current = T - 1
      BY <3>3, PeriodAt DEF Values
    <3>5. ev_tree_advance(sk.tree).rc = -1
      BY <3>4, TPositive DEF ev_tree_advance
    <3>6. sk' = sk
      <4>1. ev_tree_advance(sk.tree).rc # 0
        BY <3>5
      <4>. QED  BY <2>1, <4>1 DEF TestLastEvolve, Evolve
    <3>. QED  BY <3>1, <3>6 DEF FreeInv, Usable
  <2>2. CASE TestKeygen \/ EvolveTo \/ TestSign \/ TestChecks \/ TestFree
    <3>1. step' # "free"
      BY <2>2 DEF TestKeygen, EvolveTo, TestSign, TestChecks, TestFree
    <3>. QED  BY <3>1 DEF FreeInv
  <2>. QED  BY <1>2, <2>1, <2>2 DEF TestStep, TestSteps
<1>3. CASE ArchiveStep \/ StabilityStep \/ DistanceStep
  BY <1>3, ModeStays DEF FreeInv
<1>. QED  BY <1>1, <1>2, <1>3, StepsOf DEF WInv

ProgramInv == IInv /\ WInv /\ WalkInv /\ TestInv /\ LoopsInv

LEMMA ProgramInvariant ==
    ASSUME Values, Repeats, Depth # 0
    PROVE  WorkSpec => []ProgramInv
<1>1. WorkInit => TestInv /\ LoopsInv
  <2>1. WorkInit => TestInv
    BY DEF WorkInit, TestInit, TestInv
  <2>. QED  BY <2>1, InitLoops
<1>2. IInv /\ WInv /\ WalkInv /\ TestInv /\ LoopsInv /\ [WorkNext]_wvars
        => TestInv' /\ LoopsInv'
  BY NextTest, NextScans, NextLines, NextRest, NextFree DEF LoopsInv
<1>3. ProgramInv <=> IInv /\ WInv /\ WalkInv /\ TestInv /\ LoopsInv
  BY DEF ProgramInv
<1>. QED  BY <1>1, <1>2, <1>3, WorkInvariant, WalkInvariant, PTL DEF WorkSpec

-----------------------------------------------------------------------------
(* The passes over an archive.                                             *)
LEMMA PassesAre ==
    ASSUME n_rec \in Nat, NEW n \in Nat
    PROVE  /\ Passes(n) \in Nat
           /\ n # 0 => /\ Passes(n - 1) \in Nat
                       /\ Passes(n) = Passes(n - 1) + n_rec + 1
  BY DEF Passes

LEMMA ArchiveFacts ==
    ASSUME Values, Repeats, WInv, LoopsInv, mode = "archive"
    PROVE  /\ n_rec \in Nat /\ T \in Nat \ {0} /\ Scans \in Nat \ {0}
           /\ p \in 0..T /\ made \in 0..n_rec /\ k \in 0..made /\ rep \in Nat
           /\ pc \in {"keygen", "fill", "scan", "done", "exit"}
           /\ pc = "keygen" => made = 0 /\ p = 0
           /\ pc \in {"keygen", "fill"} => k = 0 /\ rep = 0
           /\ pc = "scan" => rep < Scans
<1>1. /\ p \in 0..T /\ made \in 0..n_rec /\ T \in Nat \ {0} /\ n_rec \in Nat
      /\ pc = "keygen" => made = 0 /\ p = 0
  BY FillLocals, PerIs DEF WInv, FillInv
<1>. QED  BY <1>1 DEF LoopsInv, ScansInv, Repeats

LEMMA ArchiveBound ==
    ASSUME Values, Repeats, WInv, LoopsInv, mode = "archive"
    PROVE  /\ ArchiveLeft \in Nat
           /\ ArchiveLeft = 0 <=> pc \in {"done", "exit"}
<1>1. /\ n_rec \in Nat /\ T \in Nat /\ Scans \in Nat
      /\ p \in 0..T /\ made \in 0..n_rec /\ k \in 0..made /\ rep \in Nat
      /\ pc \in {"keygen", "fill", "scan", "done", "exit"}
      /\ pc = "scan" => rep < Scans
  BY ArchiveFacts
<1>2. Passes(Scans) \in Nat
  BY <1>1, PassesAre
<1>3. CASE pc \in {"keygen", "fill"}
  BY <1>1, <1>2, <1>3 DEF ArchiveLeft
<1>4. CASE pc = "scan"
  <2>1. PICK n \in Nat \ {0} : n = Scans - rep
    BY <1>1, <1>4
  <2>2. Passes(n) = Passes(n - 1) + n_rec + 1 /\ Passes(n - 1) \in Nat
    BY <1>1, <2>1, PassesAre
  <2>3. ArchiveLeft = Passes(n) - k
    BY <1>4, <2>1 DEF ArchiveLeft
  <2>. QED  BY <1>1, <1>4, <2>2, <2>3
<1>5. CASE pc \in {"done", "exit"}
  BY <1>5 DEF ArchiveLeft
<1>. QED  BY <1>1, <1>3, <1>4, <1>5

LEMMA ArchiveDescends ==
    ASSUME Values, Repeats, WInv, LoopsInv, WInv', LoopsInv', ArchiveStep
    PROVE  ArchiveLeft' < ArchiveLeft
<1>1. mode = "archive" /\ mode' = mode
  BY ModeStays
<1>2. /\ n_rec \in Nat /\ T \in Nat /\ Scans \in Nat \ {0}
      /\ p \in 0..T /\ made \in 0..n_rec /\ k \in 0..made /\ rep \in Nat
      /\ pc \in {"keygen", "fill"} => k = 0 /\ rep = 0
      /\ pc = "keygen" => made = 0 /\ p = 0
      /\ pc = "scan" => rep < Scans
  BY <1>1, ArchiveFacts
<1>3. PICK all \in Nat : all = Passes(Scans)
  BY <1>2, PassesAre
<1>4. n_rec' = n_rec /\ Passes(Scans)' = all
  <2>1. n_rec' = n_rec
    BY DEF ArchiveStep, Generate, Loops, SignRecord, SignExit, PeriodDone,
           FillDone, VerifyRecord, ScanDone
  <2>. QED  BY <1>3, <2>1 DEF Passes
<1>5. ArchiveLeft \in Nat /\ (pc \notin {"done", "exit"} => ArchiveLeft > 0)
  BY <1>1, ArchiveBound
<1>6. CASE Generate
  <2>1. pc = "keygen" /\ pc' = "fill" /\ UNCHANGED <<made, p>>
    BY <1>6 DEF Generate, fill
  <2>2. ArchiveLeft = n_rec + T + all + 2
    BY <1>3, <2>1 DEF ArchiveLeft
  <2>3. ArchiveLeft' = (n_rec - 0) + (T - 0) + all + 1
    BY <1>2, <1>4, <2>1 DEF ArchiveLeft
  <2>. QED  BY <1>2, <2>2, <2>3
<1>7. CASE SignRecord
  <2>1. pc = "fill" /\ made' = made + 1 /\ UNCHANGED <<pc, p>>
    BY <1>7 DEF SignRecord
  <2>2. ArchiveLeft = (n_rec - made) + (T - p) + all + 1
    BY <1>3, <2>1 DEF ArchiveLeft
  <2>3. ArchiveLeft' = (n_rec - (made + 1)) + (T - p) + all + 1
    BY <1>4, <2>1 DEF ArchiveLeft
  <2>. QED  BY <1>2, <2>2, <2>3
<1>8. CASE PeriodDone
  <2>1. pc = "fill" /\ p' = p + 1 /\ UNCHANGED <<pc, made>>
    BY <1>8 DEF PeriodDone
  <2>2. ArchiveLeft = (n_rec - made) + (T - p) + all + 1
    BY <1>3, <2>1 DEF ArchiveLeft
  <2>3. ArchiveLeft' = (n_rec - made) + (T - (p + 1)) + all + 1
    BY <1>4, <2>1 DEF ArchiveLeft
  <2>. QED  BY <1>2, <2>2, <2>3
<1>9. CASE SignExit
  <2>1. pc = "fill" /\ pc' = "exit"
    BY <1>9 DEF SignExit
  <2>2. ArchiveLeft' = 0
    BY <2>1 DEF ArchiveLeft
  <2>. QED  BY <1>5, <2>1, <2>2
<1>10. CASE FillDone
  <2>1. pc = "fill" /\ pc' = "scan" /\ UNCHANGED <<k, rep>>
    BY <1>10 DEF FillDone, scan
  <2>2. ArchiveLeft = (n_rec - made) + (T - p) + all + 1
    BY <1>3, <2>1 DEF ArchiveLeft
  <2>3. ArchiveLeft' = all - 0
    <3>1. Scans - rep = Scans /\ rep' = rep /\ k' = 0
      BY <1>2, <2>1
    <3>2. ArchiveLeft' = Passes(Scans)' - 0
      BY <2>1, <3>1 DEF ArchiveLeft
    <3>. QED  BY <1>4, <3>2
  <2>. QED  BY <1>2, <2>2, <2>3
<1>11. CASE \E oom \in VerifierOutOfMemory : VerifyRecord(oom)
  <2>1. pc = "scan" /\ k' = k + 1 /\ UNCHANGED <<pc, rep>>
    BY <1>11 DEF VerifyRecord
  <2>2. PICK n \in Nat : n = Scans - rep
    BY <1>2, <2>1
  <2>3. PICK x \in Nat : x = Passes(n) /\ Passes(n)' = x
    BY <1>2, <1>4, <2>2, PassesAre DEF Passes
  <2>4. ArchiveLeft = x - k
    BY <2>1, <2>2, <2>3 DEF ArchiveLeft
  <2>5. ArchiveLeft' = x - (k + 1)
    BY <2>1, <2>2, <2>3 DEF ArchiveLeft
  <2>. QED  BY <1>2, <2>4, <2>5
<1>12. CASE ScanDone
  <2>1. /\ pc = "scan" /\ k = made /\ k' = 0 /\ rep' = rep + 1
        /\ pc' \in {"scan", "done", "exit"}
    BY <1>12 DEF ScanDone
  <2>2. PICK n \in Nat \ {0} : n = Scans - rep
    BY <1>2, <2>1
  <2>3. PICK x \in Nat : /\ x = Passes(n - 1) /\ Passes(n - 1)' = x
                         /\ Passes(n) = x + n_rec + 1
    BY <1>2, <1>4, <2>2, PassesAre DEF Passes
  <2>4. ArchiveLeft = (x + n_rec + 1) - k
    <3>1. ArchiveLeft = Passes(n) - k
      BY <2>1, <2>2 DEF ArchiveLeft
    <3>. QED  BY <2>3, <3>1
  <2>5. CASE pc' = "scan"
    <3>1. Scans - (rep + 1) = n - 1
      BY <1>2, <2>2
    <3>2. ArchiveLeft' = x - 0
      BY <2>1, <2>3, <2>5, <3>1 DEF ArchiveLeft
    <3>. QED  BY <1>2, <2>4, <3>2
  <2>6. CASE pc' # "scan"
    <3>1. ArchiveLeft' = 0
      BY <2>1, <2>6 DEF ArchiveLeft
    <3>. QED  BY <1>5, <2>1, <3>1
  <2>. QED  BY <2>5, <2>6
<1>. QED  BY <1>6, <1>7, <1>8, <1>9, <1>10, <1>11, <1>12
          DEF ArchiveStep, Loops

-----------------------------------------------------------------------------
(* The rounds of E6.                                                       *)
LEMMA RoundsBound ==
    ASSUME WInv, mode = "stability"
    PROVE  /\ RoundsLeft \in Nat
           /\ RoundsLeft = 0 <=> wpc \in {"done", "exit"}
           /\ round \in 0..T /\ T \in Nat
<1>1. /\ wpc \in {"start", "sign", "verify", "done"}
      /\ round \in 0..T /\ T \in Nat \ {0}
      /\ wpc \in {"sign", "verify"} => round < T
  BY TPositive DEF WInv, StabilityInv
<1>2. CASE wpc = "start"
  BY <1>1, <1>2 DEF RoundsLeft
<1>3. CASE wpc \in {"sign", "verify"}
  <2>1. PICK n \in Nat \ {0} : n = T - round
    BY <1>1, <1>3
  <2>2. RoundsLeft \in {2 * n, 2 * n - 1}
    BY <1>3, <2>1 DEF RoundsLeft
  <2>. QED  BY <1>1, <1>3, <2>2
<1>4. CASE wpc = "done"
  BY <1>1, <1>4 DEF RoundsLeft
<1>. QED  BY <1>1, <1>2, <1>3, <1>4

LEMMA RoundsDescend ==
    ASSUME WInv, WInv', StabilityStep
    PROVE  RoundsLeft' < RoundsLeft
<1>1. mode = "stability"
  BY ModeStays
<1>2. /\ RoundsLeft \in Nat /\ round \in 0..T /\ T \in Nat
      /\ wpc \notin {"done", "exit"} => RoundsLeft > 0
  BY <1>1, RoundsBound
<1>3. CASE Start
  <2>1. wpc = "start" /\ wpc' = "sign" /\ round' = round /\ round = 0
    BY <1>1, <1>3 DEF Start, WInv, StabilityInv
  <2>2. RoundsLeft = 2 * T + 1 /\ RoundsLeft' = 2 * (T - 0)
    BY <2>1 DEF RoundsLeft
  <2>. QED  BY <1>2, <2>2
<1>4. CASE SignOne
  <2>1. wpc = "sign" /\ wpc' = "verify" /\ round' = round
    BY <1>4 DEF SignOne
  <2>2. RoundsLeft = 2 * (T - round) /\ RoundsLeft' = 2 * (T - round) - 1
    BY <2>1 DEF RoundsLeft
  <2>. QED  BY <1>2, <2>2
<1>5. CASE SignSkipped \/ \E oom \in VerifierOutOfMemory : Stable(oom)
  <2>1. /\ wpc \in {"sign", "verify"} /\ round' = round + 1
        /\ wpc' \in {"sign", "done"}
    BY <1>5 DEF SignSkipped, Stable, NextRound
  <2>2. CASE wpc' = "done"
    <3>1. RoundsLeft' = 0
      BY <2>2 DEF RoundsLeft
    <3>. QED  BY <1>2, <2>1, <3>1
  <2>3. CASE wpc' = "sign"
    <3>1. RoundsLeft' = 2 * (T - (round + 1))
      BY <2>1, <2>3 DEF RoundsLeft
    <3>2. RoundsLeft \in {2 * (T - round), 2 * (T - round) - 1}
      BY <2>1 DEF RoundsLeft
    <3>. QED  BY <1>2, <3>1, <3>2
  <2>. QED  BY <2>1, <2>2, <2>3
<1>. QED  BY <1>3, <1>4, <1>5 DEF StabilityStep

-----------------------------------------------------------------------------
(* The life of the key in the self test.                                   *)
LEMMA TestLife ==
    ASSUME Values, Depth # 0, TestInv, mode = "selftest"
    PROVE  /\ step \in {"start", "loop", "check", "free", "end"}
           /\ visit \in 1..5 /\ T \in Nat \ {0}
           /\ step \in {"loop", "check"} => sk.tree.current \in 0..T-1
           /\ step = "check" => visit <= 4
<1>1. ASSUME step = "loop" PROVE sk.tree.current \in Periods
  <2>1. PICK t \in Periods : KeyAt(1, t)
    BY <1>1 DEF TestInv
  <2>. QED  BY <2>1, PeriodAt DEF Values
<1>2. ASSUME step = "check" PROVE sk.tree.current \in Periods
  <2>1. visit \in 1..4
    BY <1>2 DEF TestInv
  <2>2. periods[visit] \in Periods /\ KeyAt(1, periods[visit])
    BY <1>2, <2>1, TestPeriods DEF TestInv
  <2>. QED  BY <2>2, PeriodAt DEF Values
<1>3. T \in Nat \ {0}
  BY TPositive
<1>. QED  BY <1>1, <1>2, <1>3 DEF TestInv, Periods

LEMMA TestBound ==
    ASSUME Values, Depth # 0, TestInv, mode = "selftest"
    PROVE  TestLeft \in Nat /\ (TestLeft = 0 <=> step = "end")
<1>1. /\ step \in {"start", "loop", "check", "free", "end"}
      /\ visit \in 1..5 /\ T \in Nat \ {0}
      /\ step \in {"loop", "check"} => sk.tree.current \in 0..T-1
  BY TestLife
<1>2. CASE step \in {"start", "free", "end"}
  BY <1>1, <1>2 DEF TestLeft
<1>3. CASE step \in {"loop", "check"}
  <2>1. PICK n \in Nat : n = T - 1 - sk.tree.current
    BY <1>1, <1>3
  <2>2. TestLeft \in {2 * (5 - visit) + n + 2, 2 * (5 - visit) + n + 1}
    BY <1>3, <2>1 DEF TestLeft
  <2>. QED  BY <1>1, <1>3, <2>2
<1>. QED  BY <1>1, <1>2, <1>3

LEMMA TestDescends ==
    ASSUME Values, Depth # 0, IInv, TestInv, TestInv', TestStep
    PROVE  TestLeft' < TestLeft
<1>1. mode = "selftest" /\ mode' = mode
  BY ModeStays
<1>2. /\ visit \in 1..5 /\ T \in Nat \ {0}
      /\ step \in {"loop", "check"} => sk.tree.current \in 0..T-1
  BY <1>1, TestLife
<1>3. CASE TestKeygen
  <2>1. /\ step = "start" /\ step' = "loop" /\ visit = 1 /\ visit' = 1
        /\ Keygen(1, {}) /\ 1 \in Roots
    BY <1>1, <1>3 DEF TestKeygen, TestInv, Values
  <2>2. KeyAt(1, 0)'
    BY <2>1, KeygenKeyAt
  <2>3. sk'.tree.current = 0
    <3>1. InStep(1, 0, {})'
      BY <2>2 DEF KeyAt
    <3>2. 0 \in Periods /\ sk'.tree = TreeIn(1, 0) /\ 1 \in Nat
      BY <3>1, TPositive DEF InStep, Periods
    <3>. QED  BY <2>1, <3>2, TreeFacts
  <2>4. TestLeft = T + 10 /\ TestLeft' = 2 * (5 - 1) + (T - 1 - 0) + 2
    BY <2>1, <2>3 DEF TestLeft
  <2>. QED  BY <1>2, <2>4
<1>4. CASE EvolveTo
  <2>1. /\ step = "loop" /\ step' = step /\ visit' = visit /\ Evolve
        /\ visit \in 1..4 /\ sk.tree.current < periods[visit]
    <3>1. visit <= Len(periods) /\ Len(periods) = 4
      BY <1>4, TestPeriods DEF EvolveTo
    <3>. QED  BY <1>2, <1>4, <3>1 DEF EvolveTo
  <2>2. PICK t \in Periods : KeyAt(1, t)
    BY <1>1, <2>1 DEF TestInv
  <2>3. sk.tree.current = t /\ 1 \in Roots
    BY <2>2, PeriodAt DEF Values
  <2>4. t + 1 < T /\ t \in Nat
    <3>1. periods[visit] \in Periods /\ t < periods[visit]
      BY <2>1, <2>3, TestPeriods
    <3>. QED  BY <1>2, <3>1 DEF Periods
  <2>5. t + 1 \in Periods /\ KeyAt(1, t + 1)'
    BY <2>1, <2>2, <2>3, <2>4, EvolveKeyAt
  <2>6. sk'.tree.current = t + 1
    <3>1. sk'.tree = TreeIn(1, t + 1)
      BY <2>5 DEF KeyAt, InStep
    <3>. QED  BY <2>3, <2>5, <3>1, TreeFacts
  <2>7. /\ TestLeft = 2 * (5 - visit) + (T - 1 - t) + 2
        /\ TestLeft' = 2 * (5 - visit) + (T - 1 - (t + 1)) + 2
    BY <2>1, <2>3, <2>6 DEF TestLeft
  <2>. QED  BY <1>2, <2>4, <2>7
<1>5. CASE TestSign
  <2>1. /\ step = "loop" /\ step' = "check" /\ UNCHANGED <<visit, sk>>
    BY <1>5 DEF TestSign, Sign
  <2>2. PICK n \in Nat : n = T - 1 - sk.tree.current
    BY <1>2, <2>1
  <2>3. /\ TestLeft = 2 * (5 - visit) + n + 2
        /\ TestLeft' = 2 * (5 - visit) + n + 1
    BY <2>1, <2>2 DEF TestLeft
  <2>. QED  BY <1>2, <2>3
<1>6. CASE TestChecks
  <2>1. /\ step = "check" /\ step' = "loop" /\ visit' = visit + 1 /\ sk' = sk
    BY <1>6 DEF TestChecks, vars
  <2>2. PICK n \in Nat : n = T - 1 - sk.tree.current
    BY <1>2, <2>1
  <2>3. /\ TestLeft = 2 * (5 - visit) + n + 1
        /\ TestLeft' = 2 * (5 - (visit + 1)) + n + 2
    BY <2>1, <2>2 DEF TestLeft
  <2>. QED  BY <1>2, <2>3
<1>7. CASE TestLastEvolve
  <2>1. step = "loop" /\ step' = "free"
    BY <1>7 DEF TestLastEvolve
  <2>2. PICK n \in Nat : n = T - 1 - sk.tree.current
    BY <1>2, <2>1
  <2>3. TestLeft = 2 * (5 - visit) + n + 2 /\ TestLeft' = 1
    BY <2>1, <2>2 DEF TestLeft
  <2>. QED  BY <1>2, <2>3
<1>8. CASE TestFree
  BY <1>8 DEF TestFree, TestLeft
<1>. QED  BY <1>3, <1>4, <1>5, <1>6, <1>7, <1>8 DEF TestStep, TestSteps

-----------------------------------------------------------------------------
(* The lines of the mode "distance".                                       *)
LEMMA Products ==
    ASSUME NEW n \in Nat, NEW c \in Nat
    PROVE  n * c \in Nat /\ (n # 0 => /\ (n - 1) * c \in Nat
                                      /\ n * c = (n - 1) * c + c)
  OBVIOUS

LEMMA LinesAre ==
    ASSUME drv.MAXCHAIN \in Nat, Reps \in Nat, NEW n \in Nat
    PROVE  /\ Lines(n) \in Nat /\ Walks(n) \in Nat
           /\ n # 0 => /\ Lines(n - 1) \in Nat /\ Walks(n - 1) \in Nat
                       /\ Lines(n) = Lines(n - 1) + Walks(Reps) + 1
                       /\ Walks(n) = Walks(n - 1) + drv.MAXCHAIN + 1
<1>1. PICK c \in Nat : c = drv.MAXCHAIN + 1
  OBVIOUS
<1>2. PICK w \in Nat : w = Reps * c
  BY <1>1, Products
<1>3. \A x : Lines(x) = x * (w + 1) /\ Walks(x) = x * c
  BY <1>1, <1>2 DEF Lines, Walks
<1>4. w + 1 \in Nat /\ Walks(Reps) = w
  BY <1>2, <1>3
<1>5. /\ Lines(n) \in Nat
      /\ n # 0 => Lines(n - 1) \in Nat /\ Lines(n) = Lines(n - 1) + (w + 1)
  BY <1>3, <1>4, Products
<1>6. /\ Walks(n) \in Nat
      /\ n # 0 => Walks(n - 1) \in Nat /\ Walks(n) = Walks(n - 1) + c
  BY <1>1, <1>3, Products
<1>. QED  BY <1>1, <1>2, <1>4, <1>5, <1>6

LEMMA ChainFacts ==
    ASSUME Repeats, WalkInv, LinesInv, mode = "distance"
    PROVE  \E max \in Nat, len \in Nat :
             /\ max = drv.MAXCHAIN /\ len = Len(drv.dists)
             /\ Reps \in Nat \ {0} /\ di \in Nat \ {0} /\ walk \in Nat
             /\ rpc \in {"setup", "walk", "done", "exit"}
             /\ links \in 0..max
             /\ rpc = "walk" \/ di # 1 => links = max
             /\ di <= len + 1
             /\ rpc = "walk" => /\ di <= len /\ r \in 0..Reps-1
                                /\ walk <= max
<1>1. PICK max \in Nat, len \in Nat :
         /\ max = drv.MAXCHAIN /\ len = Len(drv.dists)
         /\ at \in Int /\ at < max
  BY DriversAssumption DEF WalkInv
<1>2. rpc = "walk" => walk <= at + 1
  BY DEF WalkInv
<1>3. walk \in Nat /\ di \in Nat \ {0} /\ Reps \in Nat \ {0}
  BY DEF WalkInv, Repeats
<1>4. rpc = "walk" => walk <= max
  BY <1>1, <1>2, <1>3
<1>5. /\ rpc \in {"setup", "walk", "done", "exit"}
      /\ links \in 0..max
      /\ rpc = "walk" \/ di # 1 => links = max
      /\ di <= len + 1
      /\ rpc = "walk" => di <= len /\ r \in 0..Reps-1
  BY <1>1 DEF LinesInv
<1>. QED  BY <1>1, <1>3, <1>4, <1>5

LEMMA ChainBound ==
    ASSUME Repeats, WalkInv, LinesInv, mode = "distance"
    PROVE  ChainLeft \in Nat /\ (ChainLeft = 0 <=> rpc \in {"done", "exit"})
<1>1. PICK max \in Nat, len \in Nat :
         /\ max = drv.MAXCHAIN /\ len = Len(drv.dists)
         /\ Reps \in Nat \ {0} /\ di \in Nat \ {0} /\ walk \in Nat
         /\ rpc \in {"setup", "walk", "done", "exit"}
         /\ links \in 0..max
         /\ di <= len + 1
         /\ rpc = "walk" => /\ di <= len /\ r \in 0..Reps-1
                            /\ walk <= max
  BY ChainFacts
<1>2. CASE rpc = "setup"
  <2>1. PICK n \in Nat, l \in Nat : n = len + 1 - di /\ l = max - links
    <3>1. di \in Nat /\ di <= len + 1 /\ links \in 0..max
      BY <1>1
    <3>. QED  BY <3>1
  <2>2. PICK x \in Nat : x = Lines(n)
    BY <1>1, <2>1, LinesAre
  <2>3. ChainLeft = l + x + 1
    BY <1>1, <1>2, <2>1, <2>2 DEF ChainLeft
  <2>. QED  BY <1>2, <2>3
<1>3. CASE rpc = "walk"
  <2>1. PICK n \in Nat, q \in Nat \ {0} : n = len - di /\ q = Reps - r
    <3>1. di \in Nat /\ di <= len /\ r \in 0..Reps-1 /\ Reps \in Nat
      BY <1>1, <1>3
    <3>. QED  BY <3>1
  <2>2. PICK x \in Nat, y \in Nat :
           x = Lines(n) /\ Walks(q) = y + max + 1
    BY <1>1, <2>1, LinesAre
  <2>3. ChainLeft = x + (y + max + 1) - walk + 1
    <3>1. ChainLeft = Lines(n) + Walks(q) - walk + 1
      BY <1>1, <1>3, <2>1 DEF ChainLeft
    <3>. QED  BY <2>2, <3>1
  <2>4. walk \in Nat /\ walk <= max
    BY <1>1, <1>3
  <2>5. x + (y + max + 1) - walk + 1 \in Nat \ {0}
    BY <2>4
  <2>. QED  BY <1>3, <2>3, <2>5
<1>4. CASE rpc \in {"done", "exit"}
  BY <1>4 DEF ChainLeft
<1>. QED  BY <1>1, <1>2, <1>3, <1>4

LEMMA ChainDescends ==
    ASSUME Repeats, WalkInv, LinesInv, mode = "distance", Chain!ChainNext
    PROVE  ChainLeft' < ChainLeft
<1>1. drv' = drv /\ \A n : Lines(n)' = Lines(n) /\ Walks(n)' = Walks(n)
  <2>1. drv' = drv
    BY DEF Chain!ChainNext, Chain!Setup, Chain!NextDistance, Chain!WalkCert,
           Chain!WalkDone, Chain!PlainVerify
  <2>. QED  BY <2>1 DEF Lines, Walks
<1>2. PICK max \in Nat, len \in Nat :
         /\ max = drv.MAXCHAIN /\ len = Len(drv.dists)
         /\ Reps \in Nat \ {0} /\ di \in Nat \ {0} /\ walk \in Nat
         /\ links \in 0..max
         /\ rpc = "walk" \/ di # 1 => links = max
         /\ di <= len + 1
         /\ rpc = "walk" => /\ di <= len /\ r \in 0..Reps-1
                            /\ walk <= max
  BY ChainFacts
<1>3. ChainLeft \in Nat /\ (rpc \in {"setup", "walk"} => ChainLeft > 0)
  BY ChainBound
<1>4. max = drv'.MAXCHAIN /\ len = Len(drv'.dists)
  BY <1>1, <1>2
<1>5. /\ rpc = "setup" =>
           ChainLeft = (max - links) + Lines(len + 1 - di) + 1
      /\ rpc = "walk" =>
           ChainLeft = Lines(len - di) + Walks(Reps - r) - walk + 1
  BY <1>2 DEF ChainLeft
<1>6. /\ rpc' = "setup" =>
           ChainLeft' = (max - links') + Lines(len + 1 - di') + 1
      /\ rpc' = "walk" =>
           ChainLeft' = Lines(len - di') + Walks(Reps - r') - walk' + 1
  <2>1. \A n : /\ n * (Reps * (drv'.MAXCHAIN + 1) + 1) = Lines(n)
               /\ n * (drv'.MAXCHAIN + 1) = Walks(n)
    BY <1>1 DEF Lines, Walks
  <2>. QED  BY <1>4, <2>1 DEF ChainLeft, Lines, Walks
<1>7. rpc' \in {"done", "exit"} => ChainLeft' = 0
  BY DEF ChainLeft
<1>8. CASE Chain!Setup
  <2>1. /\ rpc = "setup" /\ links < max /\ links' = links + 1
        /\ UNCHANGED <<di, rpc>>
    BY <1>2, <1>8 DEF Chain!Setup, Chain!chainlocals
  <2>2. PICK n \in Nat : n = len + 1 - di
    <3>1. di \in Nat /\ di <= len + 1
      BY <1>2
    <3>. QED  BY <3>1
  <2>3. PICK x \in Nat : x = Lines(n)
    BY <1>2, <2>2, LinesAre
  <2>4. /\ ChainLeft = (max - links) + x + 1
        /\ ChainLeft' = (max - (links + 1)) + x + 1
    BY <1>5, <1>6, <2>1, <2>2, <2>3
  <2>5. links \in 0..max
    BY <1>2
  <2>6. (max - (links + 1)) + x + 1 < (max - links) + x + 1
    BY <2>5
  <2>. QED  BY <2>4, <2>6
<1>9. CASE Chain!NextDistance
  <2>1. /\ rpc = "setup" /\ links = max /\ di <= len
        /\ rpc' = "walk" /\ walk' = 0 /\ r' = 0 /\ UNCHANGED di
    BY <1>2, <1>9 DEF Chain!NextDistance
  <2>2. PICK n \in Nat : n = len - di
    <3>1. di \in Nat /\ di <= len
      BY <1>2, <2>1
    <3>. QED  BY <3>1
  <2>3. PICK x \in Nat, w \in Nat :
           /\ x = Lines(n) /\ w = Walks(Reps) /\ Lines(n + 1) = x + w + 1
    <3>1. n + 1 \in Nat \ {0} /\ (n + 1) - 1 = n
      BY <2>2
    <3>2. Lines(n) \in Nat /\ Walks(Reps) \in Nat
      BY <1>2, <2>2, LinesAre
    <3>3. Lines(n + 1) = Lines((n + 1) - 1) + Walks(Reps) + 1
      BY <1>2, <3>1, LinesAre
    <3>. QED  BY <3>1, <3>2, <3>3
  <2>4. len + 1 - di = n + 1 /\ max - links = 0 /\ Reps - 0 = Reps
    BY <1>2, <2>1, <2>2
  <2>5. ChainLeft = 0 + (x + w + 1) + 1 /\ ChainLeft' = x + w - 0 + 1
    BY <1>5, <1>6, <2>1, <2>2, <2>3, <2>4
  <2>6. x + w - 0 + 1 < 0 + (x + w + 1) + 1
    OBVIOUS
  <2>. QED  BY <2>5, <2>6
<1>10. CASE Chain!WalkCert
  <2>1. /\ rpc = "walk" /\ UNCHANGED <<di, r>>
        /\ \/ rpc' = "walk" /\ walk' = walk + 1
           \/ rpc' = "exit"
    BY <1>10 DEF Chain!WalkCert
  <2>2. CASE rpc' = "exit"
    BY <1>3, <1>7, <2>1, <2>2
  <2>3. CASE rpc' = "walk" /\ walk' = walk + 1
    <3>1. PICK n \in Nat, q \in Nat : n = len - di /\ q = Reps - r
      <4>1. di \in Nat /\ di <= len /\ r \in 0..Reps-1 /\ Reps \in Nat
        BY <1>2, <2>1
      <4>. QED  BY <4>1
    <3>2. PICK x \in Nat, y \in Nat : x = Lines(n) /\ y = Walks(q)
      BY <1>2, <3>1, LinesAre
    <3>3. /\ ChainLeft = x + y - walk + 1
          /\ ChainLeft' = x + y - (walk + 1) + 1
      BY <1>5, <1>6, <2>1, <2>3, <3>1, <3>2
    <3>4. \A v \in Nat : x + y - (v + 1) + 1 < x + y - v + 1
      OBVIOUS
    <3>. QED  BY <1>2, <3>3, <3>4
  <2>. QED  BY <2>1, <2>2, <2>3
<1>11. CASE Chain!WalkDone
  <2>1. /\ rpc = "walk"
        /\ \/ rpc' = "walk" /\ walk' = 0 /\ r' = r + 1 /\ UNCHANGED di
           \/ rpc' = "setup" /\ di' = di + 1 /\ UNCHANGED links
           \/ rpc' = "exit"
    BY <1>11 DEF Chain!WalkDone
  <2>2. PICK n \in Nat, q \in Nat \ {0}, v \in Nat :
           n = len - di /\ q = Reps - r /\ v = walk /\ v <= max
    <3>1. /\ di \in Nat /\ di <= len /\ r \in 0..Reps-1 /\ Reps \in Nat
          /\ walk \in Nat /\ walk <= max
      BY <1>2, <2>1
    <3>. QED  BY <3>1
  <2>3. PICK x \in Nat, y \in Nat :
           /\ x = Lines(n) /\ y = Walks(q - 1) /\ Walks(q) = y + max + 1
    BY <1>2, <2>2, LinesAre
  <2>4. ChainLeft = x + (y + max + 1) - v + 1
    BY <1>5, <2>1, <2>2, <2>3
  <2>5. /\ x + y - 0 + 1 < x + (y + max + 1) - v + 1
        /\ 0 + x + 1 < x + (y + max + 1) - v + 1
    BY <2>2
  <2>6. CASE rpc' = "exit"
    BY <1>3, <1>7, <2>1, <2>6
  <2>7. CASE rpc' = "walk" /\ walk' = 0 /\ r' = r + 1 /\ UNCHANGED di
    <3>1. Reps - (r + 1) = q - 1
      BY <1>2, <2>1, <2>2
    <3>2. ChainLeft' = x + y - 0 + 1
      BY <1>6, <2>2, <2>3, <2>7, <3>1
    <3>. QED  BY <2>4, <2>5, <3>2
  <2>8. CASE rpc' = "setup" /\ di' = di + 1 /\ UNCHANGED links
    <3>1. len + 1 - (di + 1) = n /\ max - links = 0
      <4>1. di \in Nat /\ links = max
        BY <1>2, <2>1
      <4>. QED  BY <2>2, <4>1
    <3>2. ChainLeft' = 0 + x + 1
      BY <1>6, <2>3, <2>8, <3>1
    <3>. QED  BY <2>4, <2>5, <3>2
  <2>. QED  BY <2>1, <2>6, <2>7, <2>8
<1>12. CASE Chain!PlainVerify
  <2>1. rpc = "setup" /\ rpc' = "done"
    BY <1>12 DEF Chain!PlainVerify
  <2>. QED  BY <1>3, <1>7, <2>1
<1>. QED  BY <1>8, <1>9, <1>10, <1>11, <1>12 DEF Chain!ChainNext

(* The signature that follows the lines.                                   *)
LEMMA RestBound ==
    ASSUME Repeats, RestInv, mode = "distance"
    PROVE  /\ RestLeft \in Nat
           /\ RestLeft = 0 <=> RestOver
<1>1. /\ wpc \in {"start", "sign", "verify", "done", "exit"}
      /\ wpc = "verify" => round \in 0..Reps-1
      /\ Reps \in Nat \ {0}
  BY DEF RestInv, Repeats
<1>2. CASE wpc \in {"start", "sign"}
  BY <1>1, <1>2 DEF RestLeft, RestOver
<1>3. CASE wpc = "verify"
  BY <1>1, <1>3 DEF RestLeft, RestOver
<1>4. CASE wpc \in {"done", "exit"}
  <2>1. RestLeft = 0
    BY <1>4 DEF RestLeft
  <2>. QED  BY <1>4, <2>1 DEF RestOver
<1>. QED  BY <1>1, <1>2, <1>3, <1>4

LEMMA RestDescends ==
    ASSUME Repeats, WInv, RestInv, RestInv', mode = "distance", mode' = mode,
           UNCHANGED <<drv, rpc>>,
           \/ Start \/ SignOne \/ DistanceUnsigned
           \/ \E oom \in VerifierOutOfMemory : DistanceVerify(oom)
    PROVE  RestLeft' < RestLeft
<1>1. Reps \in Nat \ {0}
  BY DEF Repeats
<1>2. CASE Start
  <2>1. wpc = "start" /\ wpc' = "sign" /\ drv.rest /\ rpc = "done"
    BY <1>2 DEF Start
  <2>2. RestLeft = Reps + 2 /\ RestLeft' = Reps + 1
    BY <2>1 DEF RestLeft
  <2>. QED  BY <1>1, <2>2
<1>3. CASE SignOne
  <2>1. wpc = "sign" /\ wpc' = "verify" /\ round' = round /\ round = 0
    BY <1>3 DEF SignOne, WInv, ModesInv
  <2>2. RestLeft = Reps + 1 /\ RestLeft' = Reps - 0
    BY <2>1 DEF RestLeft
  <2>. QED  BY <1>1, <2>2
<1>4. CASE DistanceUnsigned
  <2>1. wpc = "sign" /\ wpc' = "exit"
    BY <1>4 DEF DistanceUnsigned
  <2>2. RestLeft = Reps + 1 /\ RestLeft' = 0
    BY <2>1 DEF RestLeft
  <2>. QED  BY <1>1, <2>2
<1>5. CASE \E oom \in VerifierOutOfMemory : DistanceVerify(oom)
  <2>1. /\ wpc = "verify" /\ round \in 0..Reps-1
        /\ \/ wpc' = "verify" /\ round' = round + 1
           \/ wpc' \in {"done", "exit"}
    BY <1>5 DEF DistanceVerify, RestInv
  <2>2. RestLeft = Reps - round
    BY <2>1 DEF RestLeft
  <2>3. RestLeft' \in {Reps - (round + 1), 0}
    BY <2>1 DEF RestLeft
  <2>. QED  BY <1>1, <2>1, <2>2, <2>3
<1>. QED  BY <1>2, <1>3, <1>4, <1>5

DistanceBound == mode = "distance" => ChainLeft \in Nat /\ RestLeft \in Nat

LEMMA DistanceDescends ==
    ASSUME Repeats, WInv, WalkInv, LoopsInv, LoopsInv',
           DistanceBound, DistanceBound', DistanceStep
    PROVE  ChainLeft' + RestLeft' < ChainLeft + RestLeft
<1>1. mode = "distance" /\ mode' = mode
  BY ModeStays
<1>2. PICK c \in Nat, x \in Nat, d \in Nat, y \in Nat :
         /\ c = ChainLeft /\ x = RestLeft /\ d = ChainLeft' /\ y = RestLeft'
  BY <1>1 DEF DistanceBound
<1>3. CASE Chaining /\ Chain!ChainNext
  <2>1. d < c
    BY <1>1, <1>2, <1>3, ChainDescends DEF LoopsInv
  <2>2. y <= x
    <3>1. UNCHANGED <<wpc, round>> /\ drv' = drv
      BY <1>3 DEF Chaining, wlocals, Chain!ChainNext, Chain!Setup,
                  Chain!NextDistance, Chain!WalkCert, Chain!WalkDone,
                  Chain!PlainVerify
    <3>2. CASE wpc = "start"
      <4>1. rpc # "exit"
        BY <1>3 DEF Chain!ChainNext, Chain!Setup, Chain!NextDistance,
                    Chain!WalkCert, Chain!WalkDone, Chain!PlainVerify
      <4>2. /\ x = IF drv.rest THEN Reps + 2 ELSE 0
            /\ y = IF drv.rest /\ rpc' # "exit" THEN Reps + 2 ELSE 0
        BY <1>2, <3>1, <3>2, <4>1 DEF RestLeft
      <4>. QED  BY <1>2, <4>2 DEF Repeats
    <3>3. CASE wpc # "start"
      <4>1. y = x
        BY <1>2, <3>1, <3>3 DEF RestLeft
      <4>. QED  BY <4>1
    <3>. QED  BY <3>2, <3>3
  <2>3. d + y < c + x
    BY <2>1, <2>2
  <2>. QED  BY <1>2, <2>3
<1>4. CASE /\ Working
           /\ \/ Start \/ SignOne \/ DistanceUnsigned
              \/ \E oom \in VerifierOutOfMemory : DistanceVerify(oom)
  <2>1. UNCHANGED <<drv, links, di, walk, r, rpc>>
    BY <1>4 DEF Working, chain
  <2>2. d = c
    BY <1>2, <2>1 DEF ChainLeft, Lines, Walks
  <2>3. RestLeft' < RestLeft
    BY <1>1, <1>4, <2>1, RestDescends DEF LoopsInv
  <2>4. y < x
    BY <1>2, <2>3
  <2>5. d + y < c + x
    BY <2>2, <2>4
  <2>. QED  BY <1>2, <2>5
<1>. QED  BY <1>3, <1>4 DEF DistanceStep

-----------------------------------------------------------------------------
(* Any program.                                                            *)
StepsBound == /\ StepsLeft \in Nat
              /\ StepsLeft = 0 <=> Ended
              /\ DistanceBound

LEMMA StepsAre ==
    ASSUME Values, Repeats, Depth # 0, ProgramInv
    PROVE  StepsBound
<1> USE DEF ProgramInv
<1>1. mode \in {"archive", "stability", "distance", "selftest"}
  BY DEF WInv, ModesInv, Modes
<1>2. DistanceBound
  BY ChainBound, RestBound DEF DistanceBound, LoopsInv
<1>3. CASE mode = "archive"
  BY <1>2, <1>3, ArchiveBound DEF StepsBound, StepsLeft, Ended
<1>4. CASE mode = "stability"
  BY <1>2, <1>4, RoundsBound DEF StepsBound, StepsLeft, Ended
<1>5. CASE mode = "selftest"
  BY <1>2, <1>5, TestBound DEF StepsBound, StepsLeft, Ended
<1>6. CASE mode = "distance"
  <2>1. PICK c \in Nat, x \in Nat :
           /\ c = ChainLeft /\ x = RestLeft
           /\ c = 0 <=> rpc \in {"done", "exit"}
           /\ x = 0 <=> RestOver
    BY <1>6, ChainBound, RestBound DEF LoopsInv
  <2>2. StepsLeft = c + x
    BY <1>6, <2>1 DEF StepsLeft
  <2>3. Ended <=> c = 0 /\ x = 0
    BY <1>6, <2>1 DEF Ended
  <2>. QED  BY <1>2, <2>2, <2>3 DEF StepsBound
<1>. QED  BY <1>1, <1>3, <1>4, <1>5, <1>6

LEMMA StepsDescend ==
    ASSUME Values, Repeats, Depth # 0, ProgramInv, ProgramInv',
           StepsBound, StepsBound', [WorkNext]_wvars
    PROVE  [StepsLeft' < StepsLeft]_wvars
<1> USE DEF ProgramInv
<1>1. CASE ArchiveStep
  <2>1. mode = "archive" /\ mode' = mode
    BY <1>1, ModeStays
  <2>2. ArchiveLeft' < ArchiveLeft
    BY <1>1, ArchiveDescends
  <2>. QED  BY <2>1, <2>2 DEF StepsLeft
<1>2. CASE StabilityStep
  <2>1. mode = "stability" /\ mode' = mode
    BY <1>2, ModeStays
  <2>2. RoundsLeft' < RoundsLeft
    BY <1>2, RoundsDescend
  <2>. QED  BY <2>1, <2>2 DEF StepsLeft
<1>3. CASE TestStep
  <2>1. mode = "selftest" /\ mode' = mode
    BY <1>3, ModeStays
  <2>2. TestLeft' < TestLeft
    BY <1>3, TestDescends
  <2>. QED  BY <2>1, <2>2 DEF StepsLeft
<1>4. CASE DistanceStep
  <2>1. mode = "distance" /\ mode' = mode
    BY <1>4, ModeStays
  <2>2. ChainLeft' + RestLeft' < ChainLeft + RestLeft
    BY <1>4, DistanceDescends DEF StepsBound
  <2>. QED  BY <2>1, <2>2 DEF StepsLeft
<1>. QED  BY <1>1, <1>2, <1>3, <1>4, StepsOf DEF WInv

(* A program that has not ended can go on: its key is whole and its tree   *)
(* is there whenever it signs or evolves, and in the loops over records,   *)
(* certificates and slots one of the guards holds.                         *)
KeyAtHand == Usable /\ sk.mt # NULL

GoesOn ==
    /\ mode = "archive" /\ pc = "fill" =>
         \/ p < T /\ QuotaLeft /\ KeyAtHand
         \/ p < T /\ (i > 0 \/ made < n_rec) /\ ~QuotaLeft /\ KeyAtHand
         \/ i = 0 /\ ~(p < T /\ made < n_rec)
    /\ mode = "archive" /\ pc = "scan" => k < made \/ k = made
    /\ mode = "distance" /\ rpc = "setup" =>
         links < drv.MAXCHAIN \/ links = drv.MAXCHAIN
    /\ wpc = "sign" => KeyAtHand
    /\ mode = "stability" /\ wpc = "verify" => KeyAtHand
    /\ mode = "selftest" /\ step = "loop" => KeyAtHand
    /\ mode = "selftest" /\ step = "free" => Usable

(* No leaf key pair is the null pointer.                                   *)
NullIsNoLeaf ==
    \A rho_p, t1, s : [rho |-> rho_p, t1 |-> t1, sk |-> s] # NULL

LEMMA HandOf == ASSUME NullIsNoLeaf, NEW root, NEW t, KeyAt(root, t)
                PROVE  KeyAtHand
<1>1. /\ phase = "ready" /\ sk.mt # NULL
      /\ sk.leaf = PairOf(legacy, pk.rho, root, t)
  BY DEF KeyAt, InStep
<1>2. sk.leaf # NULL
  BY <1>1 DEF PairOf, ev_leaf_keypair, NullIsNoLeaf
<1>. QED  BY <1>1, <1>2 DEF KeyAtHand, Usable

LEMMA NeverStuck ==
    ASSUME Values, Repeats, Depth # 0, NullIsNoLeaf, ProgramInv
    PROVE  GoesOn
<1> USE DEF ProgramInv
<1>1. \A t : KeyIn(t) => KeyAtHand
  BY HandOf DEF KeyIn
<1>2. ASSUME mode = "archive", pc = "fill"
      PROVE  \/ p < T /\ QuotaLeft /\ KeyAtHand
             \/ p < T /\ (i > 0 \/ made < n_rec) /\ ~QuotaLeft /\ KeyAtHand
             \/ i = 0 /\ ~(p < T /\ made < n_rec)
  <2>1. KeyAtHand
    BY <1>1, <1>2 DEF WInv, FillInv
  <2>2. p \in 0..T /\ T \in Nat /\ i \in Nat /\ (p = T => i = 0)
    <3>1. p \in 0..T /\ i \in 0..per /\ per \in Nat /\ T \in Nat
      BY <1>2, FillLocals, PerIs DEF WInv
    <3>2. p = T => i = 0
      BY <1>2 DEF LoopsInv, ScansInv
    <3>. QED  BY <3>1, <3>2
  <2>3. p < T \/ p = T
    BY <2>2
  <2>4. i = 0 \/ i > 0
    BY <2>2
  <2>. QED  BY <2>1, <2>2, <2>3, <2>4
<1>3. ASSUME mode = "archive" PROVE k < made \/ k = made
  BY <1>3, ArchiveFacts
<1>4. ASSUME mode = "distance", rpc = "setup"
      PROVE  links < drv.MAXCHAIN \/ links = drv.MAXCHAIN
  <2>1. PICK max \in Nat : max = drv.MAXCHAIN /\ links \in 0..max
    BY <1>4, ChainFacts DEF LoopsInv
  <2>. QED  BY <2>1
<1>5. /\ wpc = "sign" => KeyAtHand
      /\ mode = "stability" /\ wpc = "verify" => KeyAtHand
  <2>1. wpc = "sign" => mode \in {"stability", "distance"}
    BY DEF WInv, ModesInv, Modes
  <2>2. mode = "stability" /\ wpc \in {"sign", "verify"} => \E t : KeyIn(t)
    BY DEF WInv, StabilityInv, LagsAt
  <2>3. mode = "distance" /\ wpc = "sign" => KeyIn(0)
    BY DEF LoopsInv, RestInv
  <2>. QED  BY <1>1, <2>1, <2>2, <2>3
<1>6. ASSUME mode = "selftest", step = "loop" PROVE KeyAtHand
  BY <1>6, HandOf DEF TestInv
<1>7. mode = "selftest" /\ step = "free" => Usable
  BY DEF LoopsInv, FreeInv
<1>. QED  BY <1>2, <1>3, <1>4, <1>5, <1>6, <1>7 DEF GoesOn

(* The number of steps of a program is bounded when it starts, whatever    *)
(* fails on the way, and each step leaves fewer, none just at the end:     *)
(* fills and scans of an archive, rounds of E6, walks along a chain and    *)
(* the life of a key in the self test are all short (bench_workload.c,     *)
(* extended_bench.c, figdata_bench.c, bench_rechain.c, ev_c4_selftest.c).  *)
(* With a single period, the loop of ev_c4_selftest.c that waits for       *)
(* period 1 would never be left.                                           *)
THEOREM ProgramsAreBounded ==
    ASSUME Values, Repeats, Depth # 0
    PROVE  WorkSpec => /\ []StepsBound
                       /\ [][StepsLeft' < StepsLeft]_wvars
<1>1. ProgramInv => StepsBound
  BY StepsAre
<1>2. ProgramInv /\ ProgramInv' /\ StepsBound /\ StepsBound'
        /\ [WorkNext]_wvars => [StepsLeft' < StepsLeft]_wvars
  BY StepsDescend
<1>. QED  BY <1>1, <1>2, ProgramInvariant, PTL DEF WorkSpec

(* And none of them stops before its end: wherever a program of those      *)
(* files loops, a guard of the loop holds, and whenever it signs, evolves  *)
(* or frees, its key is whole and the tree that ev_sign needs is there.    *)
THEOREM ProgramsGoOn ==
    ASSUME Values, Repeats, Depth # 0, NullIsNoLeaf
    PROVE  WorkSpec => []GoesOn
<1>1. ProgramInv => GoesOn
  BY NeverStuck
<1>. QED  BY <1>1, ProgramInvariant, PTL

-----------------------------------------------------------------------------
(* breakdown_bench.c, which has the structs to itself: the copy of ev_sign *)
(* leaves structs, buffer and archive as the original does, so that the    *)
(* two of them together are still the abstract scheme, and the copy of     *)
(* ev_verify accepts the same in the build that it was written for.        *)
LEMMA StagedSigns == ASSUME NEW m, StagedSign(m) PROVE Signs(m)
  BY DEF StagedSign, StagedParts, Signs, Composite, OwnPathOf

LEMMA StagedSigners == StagedSpec => SignersSpec
<1>1. [StagedNext]_vars => [AnySigner]_vars
  BY StagedSigns DEF StagedNext, AnySigner
<1>. QED  BY <1>1, PTL DEF StagedSpec, SignersSpec

(* In the default build the two verifiers accept the same, whichever       *)
(* signer filled the buffer and however archived parts are put together    *)
(* (staged_verify, ev_verify).  In the other build they do not.            *)
THEOREM VerifiersAgree ==
    ASSUME Builds = {TRUE}
    PROVE  StagedSpec => []StagedAgrees
<1>1. ASSUME IInv, legacy, NEW m \in Messages, NEW s \in Candidates
      PROVE  staged_verify(pk, m, s) = 0
               <=> ev_verify(pk, m, s, SigBytes, "none") = 0
  <2>1. s.p \in Periods
    <3>1. CASE s = sig
      BY <1>1, <3>1 DEF IInv, TypeOK
    <3>2. CASE s # sig
      BY <1>1, <3>2 DEF Candidates
    <3>. QED  BY <3>1, <3>2
  <2>2. s.p \in Nat /\ s.p < T /\ ~(s.p >= T)
    BY <2>1, TPositive DEF Periods
  <2>3. ev_matrix_seed(pk.rho, s.p) = pk.rho
    BY <1>1 DEF ev_matrix_seed
  <2>4. PICK c, root : /\ c = crypto_sign_verify(s.fswa, Composite(s.p, m),
                                                 pk.rho, s.t1)
                       /\ root = PathRoot(s.p, <<"leaf", s.t1>>, s.path)
    OBVIOUS
  <2>5. staged_verify(pk, m, s) = 0 <=> root = pk.root /\ c
    BY <2>2, <2>4 DEF staged_verify, ev_merkle_leafdigest
  <2>6. ev_verify(pk, m, s, SigBytes, "none") = 0 <=> root = pk.root /\ c
    BY <2>2, <2>3, <2>4 DEF ev_verify, ev_merkle_leafdigest
  <2>. QED  BY <2>5, <2>6
<1>2. IInv /\ legacy \in Builds => StagedAgrees
  BY <1>1 DEF StagedAgrees
<1>. QED  BY <1>2, StagedSigners, SignersInvariance, BuildStays, PTL

(* What either signer archived under a whole key verifies for ever, if the *)
(* malloc of ev_merkle_leafdigest does not fail.                           *)
THEOREM ArchiveVerifiesStaged ==
    ASSUME "digest" \notin OutOfMemory
    PROVE  StagedSpec => []IssuedVerifies
  BY ArchiveStands, StagedSigners, SignersInvariance, PTL

(* Also when the staged signer reports a length without a path, the buffer *)
(* is accepted only for what the leaf key of its period signed.            *)
THEOREM AuthenticStaged ==
    ASSUME "digest" \notin OutOfMemory
    PROVE  StagedSpec => []BufferAuthentic
  BY BufferIsAuthentic, StagedSigners, SignersInvariance, PTL

(* Two signers in the same structs and buffer implement the abstract       *)
(* scheme under the conditions under which ev_sign alone does.             *)
THEOREM RefinementStaged ==
    ASSUME NullIsNoKey
    PROVE  StagedSpec /\ RootServesOneKey => ImplementsKeyEvolving
<1>1. RootServesOneKey => [][Serves]_vars
  BY DEF RootServesOneKey, Serves
<1>. QED  BY <1>1, StagedSigners, SignersRefine, PTL

(* The instance that the run checks is one of these.                       *)
THEOREM RefinementStagedFewFailures ==
    ASSUME NullIsNoKey, FewFailures
    PROVE  StagedSpec => ImplementsKeyEvolving
  BY StagedSigners, SignersRefineFewFailures, PTL
=============================================================================
