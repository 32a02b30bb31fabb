------------------------------ MODULE LmsProofs ------------------------------
(***************************************************************************)
(* Proofs about the LMS baseline, for every number of keys and of one-time *)
(* keys: the stored index stays ahead of the signatures, none is wasted    *)
(* outside of a call, the one-time keys are used once and in order, and    *)
(* the benchmark runs to its end with every signature valid.               *)
(***************************************************************************)
EXTENDS Lms, FiniteSetTheorems, SequenceTheorems, TLAPS

Signature == [m : Nat, key : Keys, q : Nat]

TypeOK == /\ build \in Builds
          /\ privkey \in [index : Nat, body : Keys \cup {NULL, PARM_SET_END}]
          /\ privkey_len \in 0..PRIVATE_KEY_LEN
          /\ w = NULL \/ w \in WorkingKey
          /\ call \in {"none", "sign"}
          /\ keygens \in Nat
          /\ lost \in [Keys -> Int]
          /\ i \in Nat
          /\ all_sig \in Seq(Signature)

(* Seeds are drawn in order, so that one above keygens is new.  A stored   *)
(* key can be read whole.                                                  *)
FreshInv == /\ privkey.body \in Keys => /\ privkey.body <= keygens
                                        /\ privkey_len = PRIVATE_KEY_LEN
            /\ w # NULL => w.key <= keygens
            /\ \A k \in Keys : k > keygens => lost[k] = 0

(* The working key and the stored one: the stored index is the reserved    *)
(* one until the last one-time key erases it.  A signature in the making   *)
(* has its index reserved.                                                 *)
WorkingInv ==
    /\ call = "sign" => w # NULL
    /\ w # NULL =>
         /\ \/ privkey.body = w.key /\ privkey.index = w.reserve
            \/ privkey.body = PARM_SET_END /\ w.status = "expired"
         /\ w.status = "none" =>
              /\ w.reserve \in {w.count, w.count + 1}
              /\ w.reserve <= build.max_count
              /\ call = "sign" => w.reserve = w.count + 1
         /\ call = "sign" =>
              /\ w.count <= build.max_count
              /\ w.status = "expired" => privkey.body = PARM_SET_END

(* Whoever signs next goes on behind every signature of the same key.      *)
SignedInv ==
    \A j \in DOMAIN all_sig :
        /\ all_sig[j].key <= keygens
        /\ privkey.body = all_sig[j].key => all_sig[j].q < privkey.index
        /\ (w # NULL /\ w.key = all_sig[j].key) => all_sig[j].q < w.count

(* The benchmark generates before it loads, and whenever it is not in the  *)
(* middle of a signature it has used what it has reserved.                 *)
BenchInv ==
    IF demo THEN pc = "demo"
    ELSE /\ pc # "demo"
         /\ pc \in {"keygen", "load"} => w = NULL
         /\ call = "sign" => pc = "sign" /\ i < build.N_SIGN
         /\ (/\ w # NULL /\ call = "none" /\ pc # "failed"
             /\ privkey.body \in Keys) => w.reserve = w.count

IInv == /\ TypeOK
        /\ FreshInv
        /\ WorkingInv
        /\ SignedInv
        /\ BenchInv
        /\ LossOnlyMidCall

-----------------------------------------------------------------------------
(* What the expansion of a write gives: a long one replaces the stored     *)
(* key, the index of eight bytes leaves its body alone                     *)
(* (write_private_key_cb).                                                 *)
LEMMA LongWrite ==
    ASSUME TypeOK, NEW index \in Nat, NEW body,
           write_private_key_cb(index, body, PRIVATE_KEY_LEN)
    PROVE  /\ privkey' = [index |-> index, body |-> body]
           /\ privkey_len' = PRIVATE_KEY_LEN
  BY DEF TypeOK, write_private_key_cb, PRIVATE_KEY_LEN, PRIVATE_KEY_INDEX_LEN

LEMMA ShortWrite ==
    ASSUME TypeOK, NEW index \in Nat, NEW body,
           write_private_key_cb(index, body, PRIVATE_KEY_INDEX_LEN)
    PROVE  /\ privkey' = [index |-> index, body |-> privkey.body]
           /\ privkey_len' \in 0..PRIVATE_KEY_LEN
           /\ privkey_len = PRIVATE_KEY_LEN => privkey_len' = privkey_len
  BY DEF TypeOK, write_private_key_cb, PRIVATE_KEY_LEN, PRIVATE_KEY_INDEX_LEN

(* The erased key is a number like any other to the storage.               *)
LEMMA ErasedIsNat == PARM_SET_END \in Nat
  BY DEF PARM_SET_END

-----------------------------------------------------------------------------
(* Nothing is signed, stored or loaded at the start.                       *)
LEMMA InitIInv == Init => IInv
<1> SUFFICES ASSUME Init PROVE IInv
  OBVIOUS
<1>1. TypeOK
  BY DEF Init, TypeOK, PRIVATE_KEY_LEN
<1>2. all_sig = <<>> /\ DOMAIN all_sig = {} /\ privkey.body \notin Keys
  BY KeysAssumption DEF Init
<1>. QED  BY <1>1, <1>2, BuildsAssumption
          DEF Init, IInv, FreshInv, WorkingInv, SignedInv, BenchInv,
              LossOnlyMidCall, demo

(* What every proof below takes from the types of the signatures and of    *)
(* the stored key.                                                         *)
LEMMA Typing ==
    ASSUME IInv
    PROVE  /\ privkey.index \in Nat
           /\ privkey.body \in Keys \cup {NULL, PARM_SET_END}
           /\ privkey = [index |-> privkey.index, body |-> privkey.body]
           /\ privkey_len \in 0..PRIVATE_KEY_LEN
           /\ PRIVATE_KEY_LEN \in 0..PRIVATE_KEY_LEN
           /\ keygens \in Nat
           /\ \A k \in Keys : k \in Nat
           /\ \A j \in DOMAIN all_sig : /\ all_sig[j].key \in Keys
                                        /\ all_sig[j].q \in Nat
                                        /\ all_sig[j].key <= keygens
<1>1. \A j \in DOMAIN all_sig : all_sig[j] \in Signature
  BY DEF IInv, TypeOK
<1>2. \A j \in DOMAIN all_sig : /\ all_sig[j].key \in Keys
                                /\ all_sig[j].q \in Nat
  BY <1>1 DEF Signature
<1>3. \A k \in Keys : k \in Nat
  BY KeysAssumption
<1>4. \A j \in DOMAIN all_sig : all_sig[j].key <= keygens
  BY DEF IInv, SignedInv
<1>5. /\ privkey.index \in Nat
      /\ privkey.body \in Keys \cup {NULL, PARM_SET_END}
      /\ privkey = [index |-> privkey.index, body |-> privkey.body]
  BY DEF IInv, TypeOK
<1>6. PRIVATE_KEY_LEN \in 0..PRIVATE_KEY_LEN
  BY DEF PRIVATE_KEY_LEN
<1>. QED  BY <1>2, <1>3, <1>4, <1>5, <1>6 DEF IInv, TypeOK

(* The signatures of a key can be counted.                                 *)
LEMMA SignedFinite ==
    ASSUME IInv, NEW k
    PROVE  IsFiniteSet(SignedBy(k)) /\ Cardinality(SignedBy(k)) \in Nat
<1>1. DOMAIN all_sig = 1..Len(all_sig) /\ Len(all_sig) \in Nat
  BY DEF IInv, TypeOK
<1>2. IsFiniteSet(1..Len(all_sig)) /\ SignedBy(k) \subseteq 1..Len(all_sig)
  BY <1>1, FS_Interval DEF SignedBy
<1>. QED  BY <1>2, FS_Subset, FS_CardinalityType

(* A step that leaves the keys and the signatures alone.                   *)
LEMMA Unchanged ==
    ASSUME IInv,
           UNCHANGED <<build, privkey, privkey_len, w, call, keygens, lost,
                       pc, i, all_sig>>
    PROVE  IInv'
<1>1. TypeOK'
  BY DEF IInv, TypeOK
<1>2. FreshInv'
  BY DEF IInv, FreshInv
<1>3. WorkingInv'
  BY DEF IInv, WorkingInv
<1>4. SignedInv'
  BY DEF IInv, SignedInv
<1>5. BenchInv'
  BY DEF IInv, BenchInv, demo
<1>6. LossOnlyMidCall'
  BY DEF IInv, LossOnlyMidCall, SignedBy
<1>. QED  BY <1>1, <1>2, <1>3, <1>4, <1>5, <1>6 DEF IInv

(* A new key is stored under a seed that has signed nothing yet, while no  *)
(* working key is loaded (hss_generate_private_key).                       *)
LEMMA KeygenIInv == IInv /\ Keygen => IInv'
<1>a. SUFFICES ASSUME IInv, Keygen PROVE IInv'
  OBVIOUS
<1>0. PICK k \in Keys : k = keygens + 1
  BY <1>a DEF Keygen
<1>1. /\ w = NULL /\ call = "none" /\ k \in Nat
      /\ keygens' = k /\ pc' = (IF demo THEN pc ELSE "load")
      /\ UNCHANGED <<build, w, call, lost, i, all_sig, n_valid>>
  BY <1>a, <1>0, KeysAssumption
     DEF IInv, TypeOK, WorkingInv, BenchInv, Keygen
<1>2. \/ /\ privkey' = [index |-> 0, body |-> k]
         /\ privkey_len' = PRIVATE_KEY_LEN
      \/ privkey' = privkey /\ privkey_len' = privkey_len
  BY <1>a, <1>0, LongWrite DEF IInv, Keygen, Refused, store
<1>3. TypeOK'
  <2>1. privkey' \in [index : Nat, body : Keys \cup {NULL, PARM_SET_END}]
    BY <1>a, <1>2 DEF IInv, TypeOK
  <2>2. privkey_len' \in 0..PRIVATE_KEY_LEN
    BY <1>a, <1>2, Typing
  <2>. QED  BY <1>a, <1>1, <2>1, <2>2 DEF IInv, TypeOK
<1>4. FreshInv'
  <2>1. privkey'.body \in Keys => /\ privkey'.body <= k
                                  /\ privkey_len' = PRIVATE_KEY_LEN
    BY <1>a, <1>0, <1>1, <1>2, Typing DEF IInv, FreshInv
  <2>2. \A key \in Keys : key > k => lost[key] = 0
    BY <1>a, <1>0, Typing DEF IInv, FreshInv
  <2>. QED  BY <1>1, <2>1, <2>2 DEF FreshInv
<1>5. WorkingInv'
  BY <1>1 DEF WorkingInv
<1>6. SignedInv'
  <2>1. \A j \in DOMAIN all_sig : /\ all_sig[j].key <= k
                                  /\ all_sig[j].key # k
    BY <1>a, <1>0, <1>1, Typing
  <2>2. \A j \in DOMAIN all_sig :
           privkey'.body = all_sig[j].key => all_sig[j].q < privkey'.index
    BY <1>a, <1>2, <2>1 DEF IInv, SignedInv
  <2>. QED  BY <1>1, <2>1, <2>2 DEF SignedInv
<1>7. BenchInv'
  BY <1>a, <1>1 DEF IInv, BenchInv, demo
<1>8. LossOnlyMidCall'
  <2>1. CASE privkey' = [index |-> 0, body |-> k]
    <3>1. SignedBy(k) = {}
      BY <1>a, <1>0, Typing DEF SignedBy
    <3>2. SignedBy(k)' = {} /\ Cardinality({}) = 0
      BY <1>1, <3>1, FS_EmptySet DEF SignedBy
    <3>3. lost'[k] = 0
      BY <1>a, <1>0, <1>1, Typing DEF IInv, FreshInv
    <3>. QED  BY <1>1, <2>1, <3>2, <3>3 DEF LossOnlyMidCall
  <2>2. CASE privkey' = privkey
    BY <1>a, <1>1, <2>2 DEF IInv, LossOnlyMidCall, SignedBy
  <2>. QED  BY <1>2, <2>1, <2>2
<1>. QED  BY <1>3, <1>4, <1>5, <1>6, <1>7, <1>8 DEF IInv

(* A key that is loaded goes on at the stored index                        *)
(* (hss_load_private_key).                                                 *)
LEMMA LoadIInv == IInv /\ Load => IInv'
<1> SUFFICES ASSUME IInv, Load PROVE IInv'
  OBVIOUS
<1>1. /\ w = NULL /\ call = "none" /\ privkey.index \in Nat
      /\ privkey.body \in Keys /\ privkey.index <= build.max_count
      /\ w' = [count |-> privkey.index, reserve |-> privkey.index,
               status |-> "none", key |-> privkey.body]
      /\ pc' = (IF demo THEN pc ELSE "sign")
      /\ UNCHANGED <<build, store, call, keygens, lost, i, all_sig, n_valid>>
  BY DEF IInv, TypeOK, WorkingInv, BenchInv, Load, Loadable
<1>2. w' \in WorkingKey /\ w'.reserve - w'.count = 0
  BY <1>1 DEF WorkingKey
<1>3. TypeOK'
  BY <1>1, <1>2 DEF IInv, TypeOK, store
<1>4. FreshInv'
  BY <1>1 DEF IInv, FreshInv, store
<1>5. WorkingInv'
  BY <1>1, <1>2 DEF WorkingInv, store, TypeOK, WorkingKey
<1>6. SignedInv'
  BY <1>1 DEF IInv, SignedInv, store
<1>7. BenchInv'
  BY <1>1 DEF IInv, BenchInv, demo
<1>8. LossOnlyMidCall'
  BY <1>1, <1>2 DEF IInv, LossOnlyMidCall, store, SignedBy
<1>. QED  BY <1>3, <1>4, <1>5, <1>6, <1>7, <1>8 DEF IInv

-----------------------------------------------------------------------------
(* What holds of a working key: it is the stored one, as long as that has  *)
(* not been erased, and a key that can still sign has been stored.         *)
LEMMA Working ==
    ASSUME IInv, w # NULL
    PROVE  /\ w \in WorkingKey
           /\ w.count \in Nat /\ w.reserve \in Nat /\ w.key \in Keys
           /\ w.status \in {"none", "expired"}
           /\ w.key <= keygens
           /\ privkey.body \in Keys => /\ privkey.body = w.key
                                       /\ privkey.index = w.reserve
           /\ w.status = "none" => /\ privkey.body = w.key
                                   /\ privkey.index = w.reserve
                                   /\ privkey_len = PRIVATE_KEY_LEN
                                   /\ w.reserve \in {w.count, w.count + 1}
                                   /\ w.reserve <= build.max_count
           /\ build.max_count \in Nat /\ build.N_SIGN \in Nat
<1>1. w \in WorkingKey
  BY DEF IInv, TypeOK
<1>2. /\ w.count \in Nat /\ w.reserve \in Nat /\ w.key \in Keys
      /\ w.status \in {"none", "expired"}
  BY <1>1 DEF WorkingKey
<1>3. build.max_count \in Nat /\ build.N_SIGN \in Nat
  BY BuildsAssumption DEF IInv, TypeOK
<1>4. privkey.body \in Keys => /\ privkey.body = w.key
                               /\ privkey.index = w.reserve
  BY KeysAssumption DEF IInv, WorkingInv
<1>5. w.status = "none" => /\ privkey.body = w.key
                           /\ privkey.index = w.reserve
                           /\ w.reserve \in {w.count, w.count + 1}
                           /\ w.reserve <= build.max_count
  BY DEF IInv, WorkingInv
<1>6. w.status = "none" => privkey_len = PRIVATE_KEY_LEN
  BY <1>2, <1>5 DEF IInv, FreshInv
<1>. QED  BY <1>1, <1>2, <1>3, <1>4, <1>5, <1>6 DEF IInv, FreshInv

(* The last one-time key: the stored key is erased before the signature is *)
(* made, or the write is refused and only the working key is expired       *)
(* (hss_advance_count).                                                    *)
LEMMA AdvanceLastIInv == IInv /\ AdvanceLast => IInv'
<1>a. SUFFICES ASSUME IInv, AdvanceLast PROVE IInv'
  OBVIOUS
<1>1. /\ w # NULL /\ call = "none" /\ w.status = "none"
      /\ demo \/ (pc = "sign" /\ i < build.N_SIGN)
      /\ w.count = build.max_count
      /\ w' = [w EXCEPT !.status = "expired"]
      /\ UNCHANGED <<build, keygens, lost, pc, i, all_sig, n_valid>>
  BY <1>a DEF AdvanceLast, CanSign
<1>2. /\ w' \in WorkingKey /\ w' # NULL
      /\ w'.count = w.count /\ w'.reserve = w.reserve /\ w'.key = w.key
      /\ w'.status = "expired"
  BY <1>a, <1>1, Working, KeysAssumption DEF WorkingKey
<1>3. CASE /\ privkey' = [index |-> PARM_SET_END, body |-> PARM_SET_END]
           /\ privkey_len' = PRIVATE_KEY_LEN
           /\ call' = "sign"
  <2>1. privkey'.body = PARM_SET_END /\ privkey'.body \notin Keys
    BY <1>3, KeysAssumption
  <2>2. TypeOK'
    <3>1. privkey' \in [index : Nat, body : Keys \cup {NULL, PARM_SET_END}]
      BY <1>3, ErasedIsNat
    <3>2. privkey_len' \in 0..PRIVATE_KEY_LEN
      BY <1>a, <1>3, Typing
    <3>. QED  BY <1>a, <1>1, <1>2, <1>3, <3>1, <3>2 DEF IInv, TypeOK
  <2>3. FreshInv'
    BY <1>a, <1>1, <1>2, <2>1, Working DEF IInv, FreshInv
  <2>4. WorkingInv'
    BY <1>a, <1>1, <1>2, <2>1, Working DEF WorkingInv
  <2>5. SignedInv'
    BY <1>a, <1>1, <1>2, <2>1, Typing DEF IInv, SignedInv
  <2>6. BenchInv'
    BY <1>a, <1>1, <2>1 DEF IInv, BenchInv, demo
  <2>7. LossOnlyMidCall'
    BY <2>1 DEF LossOnlyMidCall
  <2>. QED  BY <2>2, <2>3, <2>4, <2>5, <2>6, <2>7 DEF IInv
<1>4. CASE demo /\ UNCHANGED <<privkey, privkey_len, call>>
  <2>2. TypeOK'
    BY <1>a, <1>1, <1>2, <1>4 DEF IInv, TypeOK
  <2>3. FreshInv'
    BY <1>a, <1>1, <1>2, <1>4 DEF IInv, FreshInv
  <2>4. WorkingInv'
    BY <1>a, <1>1, <1>2, <1>4, Working DEF WorkingInv
  <2>5. SignedInv'
    BY <1>a, <1>1, <1>2, <1>4 DEF IInv, SignedInv
  <2>6. BenchInv'
    BY <1>a, <1>1, <1>4 DEF IInv, BenchInv, demo
  <2>7. LossOnlyMidCall'
    BY <1>a, <1>1, <1>2, <1>4 DEF IInv, LossOnlyMidCall, SignedBy
  <2>. QED  BY <2>2, <2>3, <2>4, <2>5, <2>6, <2>7 DEF IInv
<1>5. \/ /\ privkey' = [index |-> PARM_SET_END, body |-> PARM_SET_END]
         /\ privkey_len' = PRIVATE_KEY_LEN
         /\ call' = "sign"
      \/ demo /\ UNCHANGED <<privkey, privkey_len, call>>
  BY <1>a, LongWrite, ErasedIsNat DEF IInv, AdvanceLast, Refused, store
<1>. QED  BY <1>3, <1>4, <1>5

(* Any other one-time key: its index is stored, or was reserved already,   *)
(* before the signature is made; or the write is refused and nothing       *)
(* changes (hss_advance_count).                                            *)
LEMMA AdvanceIInv == IInv /\ Advance => IInv'
<1>a. SUFFICES ASSUME IInv, Advance PROVE IInv'
  OBVIOUS
<1>1. /\ w # NULL /\ call = "none" /\ w.status = "none"
      /\ demo \/ (pc = "sign" /\ i < build.N_SIGN)
      /\ w.count # build.max_count
      /\ UNCHANGED <<build, keygens, lost, pc, i, all_sig, n_valid>>
  BY <1>a DEF Advance, CanSign
<1>2. CASE /\ privkey' = [index |-> w.count + 1, body |-> w.key]
           /\ privkey_len' = privkey_len
           /\ w' = [w EXCEPT !.reserve = w.count + 1]
           /\ call' = "sign"
  <2>1. /\ w' \in WorkingKey /\ w' # NULL
        /\ w'.count = w.count /\ w'.reserve = w.count + 1 /\ w'.key = w.key
        /\ w'.status = "none"
    BY <1>a, <1>1, <1>2, Working, KeysAssumption DEF WorkingKey
  <2>2. /\ privkey'.body = privkey.body /\ privkey'.body = w.key
        /\ privkey'.index = w.count + 1
        /\ privkey.index <= w.count + 1
        /\ w.count < build.max_count
    BY <1>a, <1>1, <1>2, Working
  <2>3. TypeOK'
    <3>1. privkey' \in [index : Nat, body : Keys \cup {NULL, PARM_SET_END}]
      BY <1>a, <1>1, <1>2, Working
    <3>. QED  BY <1>a, <1>1, <1>2, <2>1, <3>1 DEF IInv, TypeOK
  <2>4. FreshInv'
    BY <1>a, <1>1, <1>2, <2>1, <2>2, Working DEF IInv, FreshInv
  <2>5. WorkingInv'
    BY <1>a, <1>1, <2>1, <2>2, Working DEF WorkingInv
  <2>6. SignedInv'
    <3>1. \A j \in DOMAIN all_sig :
             w.key = all_sig[j].key => all_sig[j].q < w.count + 1
      BY <1>a, <1>1, Typing, Working DEF IInv, SignedInv
    <3>. QED  BY <1>a, <1>1, <2>1, <2>2, <3>1 DEF IInv, SignedInv
  <2>7. BenchInv'
    BY <1>a, <1>1, <1>2 DEF IInv, BenchInv, demo
  <2>8. LossOnlyMidCall'
    <3>1. /\ w.reserve = Cardinality(SignedBy(w.key)) + lost[w.key]
                           + (w.reserve - w.count)
          /\ lost[w.key] \in Int
      BY <1>a, <1>1, Working DEF IInv, LossOnlyMidCall, TypeOK
    <3>2. Cardinality(SignedBy(w.key)) \in Int
      BY FS_CardinalityType, SignedFinite, <1>a
    <3>. QED  BY <1>a, <1>1, <2>1, <2>2, <3>1, <3>2, Working
              DEF LossOnlyMidCall, SignedBy
  <2>. QED  BY <2>3, <2>4, <2>5, <2>6, <2>7, <2>8 DEF IInv
<1>3. CASE UNCHANGED <<privkey, privkey_len, w, call>>
  BY <1>a, <1>1, <1>3, Unchanged
<1>4. \/ /\ privkey' = [index |-> w.count + 1, body |-> w.key]
         /\ privkey_len' = privkey_len
         /\ w' = [w EXCEPT !.reserve = w.count + 1]
         /\ call' = "sign"
      \/ UNCHANGED <<privkey, privkey_len, w, call>>
  <2>1. CASE w.count + 1 > w.reserve
    <3>1. CASE write_private_key_cb(w.count + 1, w.key, PRIVATE_KEY_INDEX_LEN)
      <4>1. /\ privkey' = [index |-> w.count + 1, body |-> privkey.body]
            /\ privkey_len = PRIVATE_KEY_LEN => privkey_len' = privkey_len
        BY <1>a, <1>1, <3>1, ShortWrite, Working DEF IInv
      <4>2. privkey' = [index |-> w.count + 1, body |-> w.key]
            /\ privkey_len' = privkey_len
        BY <1>a, <1>1, <4>1, Working
      <4>3. \/ w' = [w EXCEPT !.reserve = w.count + 1] /\ call' = "sign"
            \/ UNCHANGED <<privkey, privkey_len, w, call>>
        BY <1>a, <2>1 DEF Advance, store, Refused
      <4>. QED  BY <4>2, <4>3
    <3>2. CASE Refused /\ UNCHANGED <<w, call>>
      BY <3>2 DEF Refused, store
    <3>. QED  BY <1>a, <2>1, <3>1, <3>2 DEF Advance
  <2>2. CASE ~(w.count + 1 > w.reserve)
    <3>1. w.reserve = w.count + 1
      BY <1>a, <1>1, <2>2, Working
    <3>2. w = [w EXCEPT !.reserve = w.count + 1]
      BY <1>a, <1>1, <3>1, Working DEF WorkingKey
    <3>3. privkey = [index |-> w.count + 1, body |-> w.key]
      BY <1>a, <1>1, <3>1, Working, Typing
    <3>. QED  BY <1>a, <2>2, <3>2, <3>3 DEF Advance, store
  <2>. QED  BY <2>1, <2>2
<1>. QED  BY <1>2, <1>3, <1>4

(* The signature is made with the index that was stored for it, and the    *)
(* working key goes on to the next (hss_generate_signature).               *)
LEMMA ReleaseIInv == IInv /\ Release => IInv'
<1>a. SUFFICES ASSUME IInv, Release PROVE IInv'
  OBVIOUS
<1> DEFINE n == Len(all_sig)
           s == [m |-> i, key |-> w.key, q |-> w.count]
<1>1. /\ call = "sign" /\ w # NULL /\ call' = "none"
      /\ all_sig' = Append(all_sig, s)
      /\ w' = [w EXCEPT !.count = @ + 1]
      /\ i' = (IF demo THEN i ELSE i + 1)
      /\ UNCHANGED <<build, privkey, privkey_len, keygens, lost, pc, n_valid>>
  BY <1>a DEF IInv, WorkingInv, Release, store
<1>2. /\ w' \in WorkingKey /\ w' # NULL
      /\ w'.count = w.count + 1 /\ w'.reserve = w.reserve /\ w'.key = w.key
      /\ w'.status = w.status
  BY <1>a, <1>1, Working, KeysAssumption DEF WorkingKey
<1>3. /\ n \in Nat /\ all_sig \in Seq(Signature) /\ s \in Signature
      /\ DOMAIN all_sig = 1..n
  BY <1>a, <1>1, Working DEF IInv, TypeOK, Signature
<1>4. /\ all_sig' \in Seq(Signature)
      /\ DOMAIN all_sig' = 1..(n+1)
      /\ \A j \in 1..n : all_sig'[j] = all_sig[j]
      /\ all_sig'[n+1] = s
  BY <1>1, <1>3
<1>5. w.status = "none" => w.reserve = w.count + 1
  BY <1>a, <1>1 DEF IInv, WorkingInv
<1>6. w.status # "none" => privkey.body \notin Keys
  BY <1>a, <1>1, Working, KeysAssumption DEF IInv, WorkingInv
<1>7. TypeOK'
  <2>1. i' \in Nat
    BY <1>a, <1>1 DEF IInv, TypeOK
  <2>. QED  BY <1>a, <1>1, <1>2, <1>4, <2>1 DEF IInv, TypeOK
<1>8. FreshInv'
  BY <1>a, <1>1, <1>2 DEF IInv, FreshInv
<1>9. WorkingInv'
  BY <1>a, <1>1, <1>2, <1>5 DEF IInv, WorkingInv
<1>10. SignedInv'
  <2>1. \A j \in 1..n :
          /\ all_sig[j].key <= keygens
          /\ privkey.body = all_sig[j].key => all_sig[j].q < privkey.index
          /\ w.key = all_sig[j].key => all_sig[j].q < w.count + 1
    <3>1. \A j \in 1..n : all_sig[j].q \in Nat
      BY <1>a, <1>3, Typing
    <3>2. \A j \in 1..n : w.key = all_sig[j].key => all_sig[j].q < w.count
      BY <1>a, <1>1, <1>3 DEF IInv, SignedInv
    <3>3. w.count \in Nat
      BY <1>a, <1>1, Working
    <3>4. \A j \in 1..n :
             w.key = all_sig[j].key => all_sig[j].q < w.count + 1
      BY <3>1, <3>2, <3>3
    <3>. QED  BY <1>a, <1>3, <3>4 DEF IInv, SignedInv
  <2>2. /\ w.key <= keygens /\ w.count < w.count + 1
        /\ privkey.body = w.key => w.count < privkey.index
    BY <1>a, <1>1, <1>5, <1>6, Working
  <2>. QED  BY <1>1, <1>2, <1>4, <1>3, <2>1, <2>2 DEF SignedInv
<1>11. BenchInv'
  <2>1. privkey.body \in Keys => w'.reserve = w'.count
    BY <1>2, <1>5, <1>6, <1>a, <1>1, Working
  <2>. QED  BY <1>a, <1>1, <1>2, <2>1 DEF IInv, BenchInv, demo
<1>12. LossOnlyMidCall'
  <2>. SUFFICES ASSUME privkey.body \in Keys PROVE LossOnlyMidCall'
    BY <1>1 DEF LossOnlyMidCall
  <2>1. privkey.body = w.key /\ w.key \in Keys /\ lost[w.key] \in Int
    BY <1>a, <1>1, Working DEF IInv, TypeOK
  <2>2. SignedBy(w.key)' = SignedBy(w.key) \cup {n+1}
    BY <1>3, <1>4, <1>1, <1>2 DEF SignedBy
  <2>3. n+1 \notin SignedBy(w.key)
    BY <1>3 DEF SignedBy
  <2>4. Cardinality(SignedBy(w.key)') = Cardinality(SignedBy(w.key)) + 1
    BY <1>a, <2>2, <2>3, SignedFinite, FS_AddElement
  <2>5. /\ privkey.index = Cardinality(SignedBy(w.key)) + lost[w.key]
                              + (w.reserve - w.count)
        /\ Cardinality(SignedBy(w.key)) \in Nat
    BY <1>a, <1>1, <2>1, SignedFinite DEF IInv, LossOnlyMidCall
  <2>6. SignedBy(w.key)' = {j \in DOMAIN all_sig' : all_sig'[j].key = w.key}
    BY <1>2 DEF SignedBy
  <2>7. privkey.index = Cardinality(SignedBy(w.key)') + lost[w.key]
                           + (w.reserve - (w.count + 1))
    <3>1. w.count \in Nat /\ w.reserve \in Nat
      BY <1>a, <1>1, Working
    <3>. QED  BY <2>1, <2>4, <2>5, <3>1
  <2>. QED  BY <1>1, <1>2, <2>1, <2>6, <2>7 DEF LossOnlyMidCall, SignedBy
<1>. QED  BY <1>7, <1>8, <1>9, <1>10, <1>11, <1>12 DEF IInv

(* A signature that fails costs its index if the one-time key has already  *)
(* been moved on, and nothing otherwise (hss_generate_signature).          *)
LEMMA SigningFailsIInv == IInv /\ SigningFails => IInv'
<1>a. SUFFICES ASSUME IInv, SigningFails PROVE IInv'
  OBVIOUS
<1>1. /\ call = "sign" /\ w # NULL /\ call' = "none"
      /\ pc' = (IF demo THEN pc ELSE "failed")
      /\ UNCHANGED <<build, privkey, privkey_len, keygens, i, all_sig,
                     n_valid>>
  BY <1>a DEF IInv, WorkingInv, SigningFails, store
<1>2. \/ w' = w /\ lost' = lost
      \/ /\ w' = [w EXCEPT !.count = @ + 1]
         /\ lost' = [lost EXCEPT ![w.key] = @ + 1]
  BY <1>a DEF SigningFails
<1>3. /\ w' \in WorkingKey /\ w' # NULL
      /\ w'.count \in {w.count, w.count + 1}
      /\ w'.reserve = w.reserve /\ w'.key = w.key
      /\ w'.status = w.status
  BY <1>a, <1>1, <1>2, Working, KeysAssumption DEF WorkingKey
<1>4. /\ lost' \in [Keys -> Int]
      /\ \A k \in Keys : k # w.key => lost'[k] = lost[k]
      /\ lost'[w.key] - w'.count = lost[w.key] - w.count
      /\ lost[w.key] \in Int /\ lost'[w.key] \in Int
  <2>1. /\ w.count \in Nat /\ w.key \in Keys /\ lost \in [Keys -> Int]
        /\ w \in [count : Nat, reserve : Nat, status : {"none", "expired"},
                 key : Keys]
    BY <1>a, <1>1, Working DEF IInv, TypeOK, WorkingKey
  <2>2. CASE w' = w /\ lost' = lost
    BY <2>1, <2>2
  <2>3. CASE /\ w' = [w EXCEPT !.count = @ + 1]
             /\ lost' = [lost EXCEPT ![w.key] = @ + 1]
    <3>1. w'.count = w.count + 1
      BY <2>1, <2>3
    <3>2. /\ lost' \in [Keys -> Int] /\ lost[w.key] \in Int
          /\ lost'[w.key] = lost[w.key] + 1
          /\ \A k \in Keys : k # w.key => lost'[k] = lost[k]
      BY <2>1, <2>3
    <3>. QED  BY <2>1, <3>1, <3>2
  <2>. QED  BY <1>2, <2>2, <2>3
<1>5. w.status = "none" => w.reserve = w.count + 1
  BY <1>a, <1>1 DEF IInv, WorkingInv
<1>6. TypeOK'
  BY <1>a, <1>1, <1>3, <1>4 DEF IInv, TypeOK
<1>7. FreshInv'
  <2>1. \A k \in Keys : k > keygens => lost'[k] = 0
    BY <1>a, <1>1, <1>4, Working, Typing DEF IInv, FreshInv
  <2>. QED  BY <1>a, <1>1, <1>3, <2>1 DEF IInv, FreshInv
<1>8. WorkingInv'
  BY <1>a, <1>1, <1>3, <1>5, Working DEF IInv, WorkingInv
<1>9. SignedInv'
  <2>1. \A j \in DOMAIN all_sig :
           w.key = all_sig[j].key => all_sig[j].q < w'.count
    BY <1>a, <1>1, <1>3, Typing, Working DEF IInv, SignedInv
  <2>. QED  BY <1>a, <1>1, <1>3, <2>1 DEF IInv, SignedInv
<1>10. BenchInv'
  BY <1>a, <1>1, <1>3 DEF IInv, BenchInv, demo
<1>11. LossOnlyMidCall'
  <2>. SUFFICES ASSUME privkey.body \in Keys PROVE LossOnlyMidCall'
    BY <1>1 DEF LossOnlyMidCall
  <2>1. privkey.body = w.key /\ w.key \in Keys
    BY <1>a, <1>1, Working
  <2>2. /\ privkey.index = Cardinality(SignedBy(w.key)) + lost[w.key]
                              + (w.reserve - w.count)
        /\ Cardinality(SignedBy(w.key)) \in Nat
    BY <1>a, <1>1, <2>1, SignedFinite DEF IInv, LossOnlyMidCall
  <2>3. w'.count \in Nat
    BY <1>3 DEF WorkingKey
  <2>4. privkey.index = Cardinality(SignedBy(w.key)) + lost'[w.key]
                           + (w.reserve - w'.count)
    BY <1>a, <1>1, <1>4, <2>2, <2>3, Working, Typing
  <2>. QED  BY <1>1, <1>3, <2>1, <2>4 DEF LossOnlyMidCall, SignedBy
<1>. QED  BY <1>6, <1>7, <1>8, <1>9, <1>10, <1>11 DEF IInv

(* A restart loses the working key, and with it the index that was stored  *)
(* for a signature in the making.                                          *)
LEMMA RestartIInv == IInv /\ Restart => IInv'
<1>a. SUFFICES ASSUME IInv, Restart PROVE IInv'
  OBVIOUS
<1>1. /\ demo /\ w # NULL /\ w' = NULL /\ call' = "none"
      /\ lost' = [lost EXCEPT ![w.key] = @ + (w.reserve - w.count)]
      /\ UNCHANGED <<build, privkey, privkey_len, keygens, pc, i, all_sig,
                     n_valid>>
  BY <1>a DEF Restart, store
<1>2. /\ lost' \in [Keys -> Int]
      /\ \A k \in Keys : k # w.key => lost'[k] = lost[k]
      /\ lost'[w.key] = lost[w.key] + (w.reserve - w.count)
      /\ lost[w.key] \in Int
  BY <1>a, <1>1, Working DEF IInv, TypeOK
<1>3. TypeOK'
  BY <1>a, <1>1, <1>2 DEF IInv, TypeOK
<1>4. FreshInv'
  <2>1. \A k \in Keys : k > keygens => lost'[k] = 0
    BY <1>a, <1>1, <1>2, Working, Typing DEF IInv, FreshInv
  <2>. QED  BY <1>a, <1>1, <2>1 DEF IInv, FreshInv
<1>5. WorkingInv'
  BY <1>1 DEF WorkingInv
<1>6. SignedInv'
  BY <1>a, <1>1 DEF IInv, SignedInv
<1>7. BenchInv'
  BY <1>a, <1>1 DEF IInv, BenchInv, demo
<1>8. LossOnlyMidCall'
  <2>. SUFFICES ASSUME privkey.body \in Keys PROVE LossOnlyMidCall'
    BY <1>1 DEF LossOnlyMidCall
  <2>1. privkey.body = w.key /\ w.key \in Keys
    BY <1>a, <1>1, Working
  <2>2. /\ privkey.index = Cardinality(SignedBy(w.key)) + lost[w.key]
                              + (w.reserve - w.count)
        /\ Cardinality(SignedBy(w.key)) \in Nat
    BY <1>a, <1>1, <2>1, SignedFinite DEF IInv, LossOnlyMidCall
  <2>3. privkey.index = Cardinality(SignedBy(w.key)) + lost'[w.key] + 0
    BY <1>a, <1>1, <1>2, <2>2, Working, Typing
  <2>. QED  BY <1>1, <2>1, <2>3 DEF LossOnlyMidCall, SignedBy
<1>. QED  BY <1>3, <1>4, <1>5, <1>6, <1>7, <1>8 DEF IInv

(* The loops of main sign nothing themselves: at their end the benchmark   *)
(* has used what it had reserved (main of bench_lms.c).                    *)
LEMMA MainIInv == IInv /\ Main => IInv'
<1>a. SUFFICES ASSUME IInv, Main PROVE IInv'
  OBVIOUS
<1>1. /\ ~demo /\ pc' # "demo" /\ pc' \notin {"keygen", "load"} /\ i' \in Nat
      /\ call = "none"
      /\ w' = w \/ (w' = NULL /\ pc \notin {"failed"})
      /\ pc' = "failed" \/ pc # "failed" \/ pc' = pc
      /\ UNCHANGED <<build, privkey, privkey_len, call, keygens, lost,
                     all_sig>>
  <2>1. CASE KeygenFails \/ LoadFails
    BY <1>a, <2>1 DEF KeygenFails, LoadFails, IInv, BenchInv, TypeOK, store,
                      WorkingInv
  <2>2. build.N_SIGN \in Nat /\ i \in Nat
    BY <1>a, BuildsAssumption DEF IInv, TypeOK
  <2>3. CASE AllSigned
    BY <1>a, <2>2, <2>3 DEF AllSigned, IInv, BenchInv, TypeOK, store
  <2>4. CASE Verify
    BY <1>a, <2>2, <2>4 DEF Verify, IInv, BenchInv, TypeOK, store
  <2>5. CASE Return
    BY <1>a, <2>2, <2>5 DEF Return, IInv, BenchInv, TypeOK, store
  <2>. QED  BY <1>a, <2>1, <2>3, <2>4, <2>5 DEF Main
<1>2. TypeOK'
  BY <1>a, <1>1 DEF IInv, TypeOK
<1>3. FreshInv'
  BY <1>a, <1>1 DEF IInv, FreshInv
<1>4. WorkingInv'
  BY <1>a, <1>1 DEF IInv, WorkingInv
<1>5. SignedInv'
  BY <1>a, <1>1 DEF IInv, SignedInv
<1>6. BenchInv'
  BY <1>a, <1>1 DEF IInv, BenchInv, demo
<1>7. LossOnlyMidCall'
  <2>1. CASE w' = w
    BY <1>a, <1>1, <2>1 DEF IInv, LossOnlyMidCall, SignedBy
  <2>2. CASE w # NULL /\ w' = NULL /\ pc # "failed"
    <3>1. privkey.body \in Keys => w.reserve = w.count /\ w.reserve \in Nat
                                   /\ privkey.body = w.key
      BY <1>a, <1>1, <2>2, Working DEF IInv, BenchInv
    <3>2. privkey.body \in Keys => w.reserve - w.count = 0
      BY <3>1
    <3>. QED  BY <1>a, <1>1, <2>2, <3>1, <3>2
              DEF IInv, LossOnlyMidCall, SignedBy
  <2>. QED  BY <1>1, <2>1, <2>2
<1>. QED  BY <1>2, <1>3, <1>4, <1>5, <1>6, <1>7 DEF IInv

(* The invariant holds in every state that the code reaches.               *)
THEOREM Invariance == Spec => []IInv
<1>1. IInv /\ [Next]_vars => IInv'
  <2>1. IInv /\ UNCHANGED vars => IInv'
    BY Unchanged DEF vars, store
  <2>. QED  BY <2>1, KeygenIInv, LoadIInv, AdvanceLastIInv, AdvanceIInv,
               ReleaseIInv, SigningFailsIInv, RestartIInv, MainIInv DEF Next
<1>. QED  BY <1>1, InitIInv, PTL DEF Spec

-----------------------------------------------------------------------------
(* The stored key is ahead of every signature that has been given out, and *)
(* can be loaded until the last (bench_lms.c:68).                          *)
THEOREM AlwaysAhead == Spec => []StoredAhead
<1>1. IInv => StoredAhead
  <2>. SUFFICES ASSUME IInv PROVE StoredAhead
    OBVIOUS
  <2>1. privkey.body \in Keys => /\ PRIVATE_KEY_SEED <= privkey_len
                                 /\ PRIVATE_KEY_LEN <= privkey_len
    BY DEF IInv, FreshInv, PRIVATE_KEY_SEED, PRIVATE_KEY_LEN
  <2>. QED  BY <2>1 DEF IInv, SignedInv, StoredAhead, Loadable,
                        read_private_key_cb
<1>. QED  BY <1>1, Invariance, PTL

(* No one-time key is wasted, except by a restart or an error in the       *)
(* middle of a call (hss_advance_count, hss_generate_signature), if a      *)
(* write that the storage refuses has stored nothing.                      *)
THEOREM NoneWasted == Spec => []LossOnlyMidCall
<1>1. IInv => LossOnlyMidCall
  BY DEF IInv
<1>. QED  BY <1>1, Invariance, PTL

-----------------------------------------------------------------------------
(* A function on 1..n is a sequence.                                       *)
LEMMA IsSequence ==
    ASSUME NEW S, NEW n \in Nat, NEW g, g = [j \in 1..n |-> g[j]],
           \A j \in 1..n : g[j] \in S
    PROVE  g \in Seq(S) /\ Len(g) = n
  OBVIOUS

(* A sequence that is one longer than another is what Append makes of it.  *)
LEMMA Extended ==
    ASSUME NEW S, NEW f \in Seq(S), NEW e \in S, NEW n \in Nat, n = Len(f),
           NEW g \in Seq(S), Len(g) = n+1,
           \A j \in 1..n : g[j] = f[j],
           g[n+1] = e
    PROVE  g = Append(f, e) /\ g[Len(g)] = e /\ g # <<>>
<1>1. \A j \in 1..(n+1) : g[j] = Append(f, e)[j]
  BY AppendProperties
<1>2. Append(f, e) \in Seq(S) /\ Len(Append(f, e)) = n+1
  BY AppendProperties
<1>3. g = Append(f, e)
  BY <1>1, <1>2, SeqEqual
<1>4. n+1 # 0
  OBVIOUS
<1>. QED  BY <1>3, <1>4

(* The list of one-time keys grows by the one of the new signature.        *)
LEMMA SpentGrows ==
    ASSUME IInv, Release
    PROVE  /\ w # NULL
           /\ Spent' = Append(Spent, <<w.key, w.count>>)
           /\ Spent'[Len(Spent')] = <<w.key, w.count>>
           /\ Spent' # <<>>
<1>0. PICK n \in Nat : n = Len(all_sig)
  BY DEF IInv, TypeOK
<1> DEFINE s == [m |-> i, key |-> w.key, q |-> w.count]
           e == <<w.key, w.count>>
<1>1. w # NULL /\ all_sig' = Append(all_sig, s)
  BY DEF IInv, WorkingInv, Release
<1>2. all_sig \in Seq(Signature) /\ Len(all_sig) = n /\ DOMAIN all_sig = 1..n
  BY <1>0 DEF IInv, TypeOK
<1>3. s \in Signature /\ e \in Keys \X Nat
  BY <1>1, Working DEF IInv, TypeOK, Signature
<1>4. PICK a : a = all_sig'
  OBVIOUS
<1>5. /\ DOMAIN a = 1..(n+1)
      /\ \A j \in 1..n : a[j] = all_sig[j]
      /\ a[n+1] = s
  BY <1>1, <1>2, <1>3, <1>4
<1>6. PICK f, g : f = Spent /\ g = Spent'
  OBVIOUS
<1>7. f = [j \in 1..n |-> <<all_sig[j].key, all_sig[j].q>>]
  BY <1>2, <1>6 DEF Spent
<1>8. g = [j \in 1..(n+1) |-> <<a[j].key, a[j].q>>]
  BY <1>4, <1>5, <1>6 DEF Spent
<1>9. f \in Seq(Keys \X Nat) /\ Len(f) = n
  <2>1. \A j \in 1..n : <<all_sig[j].key, all_sig[j].q>> \in Keys \X Nat
    BY <1>2, Typing
  <2>. QED  BY <1>7, <2>1
<1>10. \A j \in 1..n : <<a[j].key, a[j].q>> = f[j]
  BY <1>5, <1>7
<1>11. <<a[n+1].key, a[n+1].q>> = e
  BY <1>5
<1>12. \A j \in 1..n : g[j] = f[j]
  <2>1. \A j \in 1..(n+1) : g[j] = <<a[j].key, a[j].q>>
    BY <1>8, Zenon
  <2>2. \A j \in 1..n : j \in 1..(n+1)
    OBVIOUS
  <2>. QED  BY <1>10, <2>1, <2>2, Zenon
<1>13. g[n+1] = e
  <2>1. n+1 \in 1..(n+1)
    OBVIOUS
  <2>. QED  BY <1>8, <1>11, <2>1, Zenon
<1>14. g \in Seq(Keys \X Nat) /\ Len(g) = n+1
  <2>1. \A j \in 1..(n+1) : g[j] \in Keys \X Nat
    <3>. HIDE DEF e
    <3>1. \A j \in 1..(n+1) : j \in 1..n \/ j = n+1
      OBVIOUS
    <3>2. \A j \in 1..n : f[j] \in Keys \X Nat
      BY <1>9
    <3>. QED  BY <1>3, <1>12, <1>13, <3>1, <3>2, Zenon
  <2>2. g = [j \in 1..(n+1) |-> g[j]]
    BY <1>8, Zenon
  <2>3. n+1 \in Nat
    OBVIOUS
  <2>. QED  BY <2>1, <2>2, <2>3, IsSequence
<1>15. g = Append(f, e) /\ g[Len(g)] = e /\ g # <<>>
  <2>. HIDE DEF e
  <2>1. n = Len(f)
    BY <1>9
  <2>. QED  BY <1>3, <1>9, <1>12, <1>13, <1>14, <2>1, Extended
<1>. QED  BY <1>1, <1>6, <1>15

(* The library implements the abstract one-time keys: the signatures of a  *)
(* key use increasing indices up to max_count and each once, over refused  *)
(* writes, restarts and reloads (hss_generate_signature).                  *)
THEOREM Refinement == Spec => ImplementsOneTimeKeys
<1>1. Init => Abstract!Init
  BY DEF Init, Abstract!Init, Spent
<1>2. IInv /\ [Next]_vars => [Abstract!Next]_Abstract!vars
  <2>. SUFFICES ASSUME IInv, [Next]_vars
                PROVE  [Abstract!Next]_Abstract!vars
    OBVIOUS
  <2>1. CASE Release
    <3>1. /\ w # NULL
          /\ Spent' = Append(Spent, <<w.key, w.count>>)
          /\ Spent'[Len(Spent')] = <<w.key, w.count>>
          /\ Spent' # <<>>
      BY <2>1, SpentGrows
    <3>2. w.key \in Keys /\ w.count \in 0..build.max_count
      BY <2>1, <3>1, Working DEF IInv, WorkingInv, Release
    <3>3. \A j \in DOMAIN Spent : Spent[j][1] = w.key => Spent[j][2] < w.count
      <4>1. \A j \in DOMAIN all_sig :
               all_sig[j].key = w.key => all_sig[j].q < w.count
        BY <3>1 DEF IInv, SignedInv
      <4>. QED  BY <4>1 DEF Spent
    <3>4. UNCHANGED build.max_count
      BY <2>1 DEF Release
    <3>5. Abstract!Sign(w.key, w.count)
      BY <3>1, <3>2, <3>3, <3>4 DEF Abstract!Sign
    <3>. QED  BY <3>1, <3>2, <3>5 DEF Abstract!Next
  <2>2. CASE UNCHANGED <<build, all_sig>>
    BY <2>2 DEF Abstract!vars, Spent
  <2>3. Release \/ UNCHANGED <<build, all_sig>>
    BY DEF Next, vars, Keygen, Load, AdvanceLast, Advance, SigningFails,
           Restart, Main, KeygenFails, LoadFails, AllSigned, Verify, Return
  <2>. QED  BY <2>1, <2>2, <2>3
<1>. QED  BY <1>1, <1>2, Invariance, PTL
          DEF Spec, ImplementsOneTimeKeys, Abstract!Spec

-----------------------------------------------------------------------------
(* The loops of the benchmark's main in step with its key: one key is      *)
(* drawn, the loop counter is the working key's count, and what is on the  *)
(* list is the signature of each counter value so far, in order.           *)
SigningLoop ==
    pc = "sign" =>
        /\ i <= build.N_SIGN /\ i <= build.max_count + 1
        /\ Len(all_sig) = i /\ n_valid = 0
        /\ w # NULL /\ w.key = 1 /\ w.count = i
        /\ w.status = "expired" =>
             i = IF call = "sign" THEN build.max_count ELSE build.max_count + 1

VerifyingLoop ==
    pc = "verify" =>
        /\ i <= build.N_SIGN /\ build.N_SIGN <= build.max_count + 1
        /\ Len(all_sig) = build.N_SIGN /\ n_valid = i /\ call = "none"

LoopInv ==
    ~demo =>
        /\ pc \in {"keygen", "load", "sign", "verify", "ok", "failed"}
        /\ pc = "keygen" => keygens = 0
        /\ pc = "load" => privkey = [index |-> 0, body |-> 1]
        /\ pc \in {"keygen", "load"} => /\ i = 0 /\ n_valid = 0
                                        /\ call = "none" /\ all_sig = <<>>
        /\ \A j \in DOMAIN all_sig : /\ all_sig[j].m = j - 1
                                     /\ all_sig[j].key = 1
                                     /\ all_sig[j].q = j - 1
        /\ SigningLoop /\ VerifyingLoop

(* The steps the benchmark has left at most: two to sign and one to verify *)
(* for each signature, and one from each phase to the next.                *)
StepsLeft ==
    LET n == build.N_SIGN IN
    CASE pc = "keygen" -> 3 * n + 4
      [] pc = "load"   -> 3 * n + 3
      [] pc = "sign"   -> 3 * n + 2 - 2 * i - (IF call = "sign" THEN 1 ELSE 0)
      [] pc = "verify" -> n + 1 - i
      [] OTHER         -> 0

(* Where the benchmark's loops are, one of their actions can be taken, as  *)
(* long as there are one-time keys for all signatures.                     *)
GoesOn ==
    ~demo /\ build.N_SIGN <= build.max_count + 1 =>
        /\ pc = "sign" => call = "sign" \/ CanSign \/ i = build.N_SIGN
        /\ pc = "verify" => i <= build.N_SIGN
        /\ StepsLeft \in Nat
        /\ StepsLeft = 0 <=> pc \in {"ok", "failed"}

(* The build of the run and the numbers in it.                             *)
LEMMA Numbers ==
    ASSUME IInv
    PROVE  /\ build.N_SIGN \in Nat /\ build.max_count \in Nat
           /\ i \in Nat /\ keygens \in Nat
           /\ call \in {"none", "sign"}
  BY BuildsAssumption DEF IInv, TypeOK

(* The key is drawn and loaded.                                            *)
LEMMA StartSteps ==
    ASSUME IInv, LoopInv, ~demo, Keygen \/ Load
    PROVE  LoopInv' /\ StepsLeft' < StepsLeft
<1>1. PICK n \in Nat, max \in Nat : n = build.N_SIGN /\ max = build.max_count
  BY Numbers
<1>2. CASE Keygen
  <2>1. /\ pc = "keygen" /\ pc' = "load" /\ keygens = 0 /\ 0 + 1 = 1
        /\ write_private_key_cb(0, keygens + 1, PRIVATE_KEY_LEN)
        /\ UNCHANGED <<build, w, call, i, all_sig, n_valid>>
    BY <1>2 DEF Keygen, Refused, LoopInv
  <2>2. privkey' = [index |-> 0, body |-> 1]
    BY <2>1, LongWrite DEF IInv
  <2>3. LoopInv'
    BY <2>1, <2>2 DEF LoopInv, SigningLoop, VerifyingLoop, demo
  <2>4. StepsLeft = 3 * n + 4 /\ StepsLeft' = 3 * n + 3
    BY <1>1, <2>1 DEF StepsLeft
  <2>5. 3 * n + 3 < 3 * n + 4
    OBVIOUS
  <2>. QED  BY <2>3, <2>4, <2>5
<1>3. CASE Load
  <2>1. /\ pc = "load" /\ pc' = "sign" /\ i = 0 /\ i' = 0 /\ call' = "none"
        /\ w' = [count |-> 0, reserve |-> 0, status |-> "none", key |-> 1]
        /\ all_sig = <<>> /\ all_sig' = <<>> /\ n_valid' = 0
        /\ build' = build
    BY <1>3 DEF Load, LoopInv
  <2>2. w' # NULL
    <3>1. 1 \in Keys
      BY <1>3 DEF Load, Loadable, LoopInv
    <3>2. w' \in WorkingKey
      BY <2>1, <3>1 DEF WorkingKey
    <3>. QED  BY <3>2, KeysAssumption
  <2>3. w'.key = 1 /\ w'.count = 0 /\ w'.status = "none"
    BY <2>1
  <2>4. 0 <= n /\ 0 <= max + 1 /\ Len(<<>>) = 0 /\ DOMAIN <<>> = {}
    OBVIOUS
  <2>5. SigningLoop'
    BY <1>1, <2>1, <2>2, <2>3, <2>4 DEF SigningLoop
  <2>6. LoopInv'
    BY <2>1, <2>4, <2>5 DEF LoopInv, VerifyingLoop, demo
  <2>7. StepsLeft = 3 * n + 3 /\ StepsLeft' = 3 * n + 2 - 2 * 0 - 0
    BY <1>1, <2>1 DEF StepsLeft
  <2>8. 3 * n + 2 - 2 * 0 - 0 < 3 * n + 3
    OBVIOUS
  <2>. QED  BY <2>6, <2>7, <2>8
<1>. QED  BY <1>2, <1>3

(* The first half of a signature: the key's counter stays, and only its    *)
(* last value expires it.                                                  *)
LEMMA AdvanceSteps ==
    ASSUME IInv, LoopInv, ~demo, AdvanceLast \/ Advance
    PROVE  LoopInv' /\ StepsLeft' < StepsLeft
<1>1. PICK n \in Nat, max \in Nat, k \in Nat :
        n = build.N_SIGN /\ max = build.max_count /\ k = i
  BY Numbers
<1>2. /\ pc = "sign" /\ pc' = pc /\ w # NULL /\ w.status = "none"
      /\ call = "none" /\ call' = "sign" /\ k < n
      /\ UNCHANGED <<build, keygens, i, all_sig, n_valid>>
  BY <1>1 DEF AdvanceLast, Advance, CanSign, Refused, demo, IInv, BenchInv
<1>3. /\ k <= max + 1 /\ Len(all_sig) = k /\ n_valid = 0
      /\ w.key = 1 /\ w.count = k
  BY <1>1, <1>2 DEF LoopInv, SigningLoop
<1>4. /\ w' # NULL /\ w'.key = 1 /\ w'.count = k
      /\ w'.status = "expired" => k = max
  <2>1. w \in WorkingKey /\ w.reserve \in Nat
    BY <1>2, Working
  <2>2. CASE AdvanceLast
    <3>1. w' = [w EXCEPT !.status = "expired"] /\ w.count = max
      BY <1>1, <2>2 DEF AdvanceLast
    <3>2. w' \in WorkingKey /\ w'.key = 1 /\ w'.count = k
      BY <1>3, <2>1, <3>1 DEF WorkingKey
    <3>. QED  BY <1>3, <3>1, <3>2, KeysAssumption
  <2>3. CASE Advance
    <3>1. w' = w \/ w' = [w EXCEPT !.reserve = k + 1]
      BY <1>3, <2>3 DEF Advance
    <3>2. /\ w' \in WorkingKey /\ w'.key = 1 /\ w'.count = k
          /\ w'.status = "none"
      BY <1>2, <1>3, <2>1, <3>1 DEF WorkingKey
    <3>. QED  BY <3>2, KeysAssumption
  <2>. QED  BY <2>2, <2>3
<1>5. LoopInv'
  <2>1. SigningLoop'
    BY <1>1, <1>2, <1>3, <1>4 DEF SigningLoop
  <2>. QED  BY <1>2, <2>1 DEF LoopInv, VerifyingLoop, demo
<1>6. /\ StepsLeft = 3 * n + 2 - 2 * k - 0
      /\ StepsLeft' = 3 * n + 2 - 2 * k - 1
  BY <1>1, <1>2 DEF StepsLeft
<1>7. 3 * n + 2 - 2 * k - 1 < 3 * n + 2 - 2 * k - 0
  OBVIOUS
<1>. QED  BY <1>5, <1>6, <1>7

(* The second half: the signature of this counter value joins the list.    *)
LEMMA ReleaseSteps ==
    ASSUME IInv, LoopInv, ~demo, Release
    PROVE  LoopInv' /\ StepsLeft' < StepsLeft
<1>1. PICK n \in Nat, max \in Nat, k \in Nat :
        n = build.N_SIGN /\ max = build.max_count /\ k = i
  BY Numbers
<1>2. /\ pc = "sign" /\ pc' = pc /\ w # NULL /\ k < n
      /\ call = "sign" /\ call' = "none" /\ i' = k + 1
      /\ all_sig' = Append(all_sig, [m |-> k, key |-> w.key, q |-> w.count])
      /\ w' = [w EXCEPT !.count = @ + 1]
      /\ UNCHANGED <<build, keygens, n_valid>>
  BY <1>1 DEF Release, IInv, BenchInv, WorkingInv
<1>3. /\ Len(all_sig) = k /\ n_valid = 0 /\ w.key = 1 /\ w.count = k
      /\ w.status = "expired" => k = max
  BY <1>1, <1>2 DEF LoopInv, SigningLoop
<1>4. k <= max
  BY <1>1, <1>2, <1>3 DEF IInv, WorkingInv
<1>5. /\ w' # NULL /\ w'.key = 1 /\ w'.count = k + 1
      /\ w'.status = w.status
  <2>1. w \in WorkingKey
    BY <1>2, Working
  <2>2. /\ w' \in WorkingKey /\ w'.key = 1 /\ w'.count = k + 1
        /\ w'.status = w.status
    BY <1>2, <1>3, <2>1 DEF WorkingKey
  <2>. QED  BY <2>2, KeysAssumption
<1>6. all_sig \in Seq(Signature) /\ DOMAIN all_sig = 1..k
  BY <1>3 DEF IInv, TypeOK
<1>7. /\ Len(all_sig') = k + 1 /\ DOMAIN all_sig' = 1..(k+1)
      /\ \A j \in 1..k : all_sig'[j] = all_sig[j]
      /\ all_sig'[k+1] = [m |-> k, key |-> 1, q |-> k]
  BY <1>2, <1>3, <1>6
<1>8. \A j \in DOMAIN all_sig' : /\ all_sig'[j].m = j - 1
                                 /\ all_sig'[j].key = 1
                                 /\ all_sig'[j].q = j - 1
  <2>1. \A j \in 1..(k+1) : j \in 1..k \/ j = k + 1
    OBVIOUS
  <2>2. /\ all_sig'[k+1].m = k /\ all_sig'[k+1].key = 1
        /\ all_sig'[k+1].q = k /\ (k + 1) - 1 = k
    BY <1>7
  <2>3. \A j \in 1..k : /\ all_sig[j].m = j - 1
                        /\ all_sig[j].key = 1
                        /\ all_sig[j].q = j - 1
    BY <1>6 DEF LoopInv
  <2>. QED  BY <1>7, <2>1, <2>2, <2>3
<1>9. SigningLoop'
  BY <1>1, <1>2, <1>3, <1>4, <1>5, <1>7 DEF SigningLoop
<1>10. LoopInv'
  BY <1>2, <1>8, <1>9 DEF LoopInv, VerifyingLoop, demo
<1>11. /\ StepsLeft = 3 * n + 2 - 2 * k - 1
       /\ StepsLeft' = 3 * n + 2 - 2 * (k + 1) - 0
  BY <1>1, <1>2 DEF StepsLeft
<1>12. 3 * n + 2 - 2 * (k + 1) - 0 < 3 * n + 2 - 2 * k - 1
  OBVIOUS
<1>. QED  BY <1>10, <1>11, <1>12

(* The steps of main: an error ends it, and the loop that verifies finds   *)
(* every signature of the list valid.                                      *)
LEMMA MainSteps ==
    ASSUME IInv, LoopInv, ~demo, Main \/ SigningFails
    PROVE  LoopInv' /\ StepsLeft' < StepsLeft
<1>1. PICK n \in Nat, max \in Nat, k \in Nat :
        n = build.N_SIGN /\ max = build.max_count /\ k = i
  BY Numbers
<1>2. CASE KeygenFails \/ LoadFails \/ SigningFails
  <2>1. /\ pc \in {"keygen", "load", "sign"} /\ pc' = "failed"
        /\ build' = build /\ all_sig' = all_sig
        /\ pc = "sign" => k < n
    BY <1>1, <1>2 DEF KeygenFails, LoadFails, SigningFails, IInv, BenchInv
  <2>2. LoopInv'
    BY <2>1 DEF LoopInv, SigningLoop, VerifyingLoop, demo
  <2>3. StepsLeft' = 0
    BY <2>1 DEF StepsLeft
  <2>4. \/ StepsLeft = 3 * n + 4 \/ StepsLeft = 3 * n + 3
        \/ k < n /\ \E c \in {0, 1} : StepsLeft = 3 * n + 2 - 2 * k - c
    BY <1>1, <2>1 DEF StepsLeft
  <2>5. 0 < 3 * n + 4 /\ 0 < 3 * n + 3
    OBVIOUS
  <2>6. ASSUME k < n
        PROVE  0 < 3 * n + 2 - 2 * k - 0 /\ 0 < 3 * n + 2 - 2 * k - 1
    BY <2>6
  <2>. QED  BY <2>2, <2>3, <2>4, <2>5, <2>6
<1>3. CASE AllSigned
  <2>1. /\ pc = "sign" /\ pc' = "verify" /\ k = n /\ i' = 0
        /\ call = "none" /\ n <= max + 1 /\ Len(all_sig) = n /\ n_valid = 0
        /\ UNCHANGED <<build, call, all_sig, n_valid>>
    BY <1>1, <1>3, Numbers
       DEF AllSigned, LoopInv, SigningLoop, IInv, BenchInv
  <2>2. VerifyingLoop'
    BY <1>1, <2>1 DEF VerifyingLoop
  <2>3. LoopInv'
    BY <2>1, <2>2 DEF LoopInv, SigningLoop, demo
  <2>4. StepsLeft = 3 * n + 2 - 2 * n - 0 /\ StepsLeft' = n + 1 - 0
    BY <1>1, <2>1 DEF StepsLeft
  <2>5. n + 1 - 0 < 3 * n + 2 - 2 * n - 0
    OBVIOUS
  <2>. QED  BY <2>3, <2>4, <2>5
<1>4. CASE Verify
  <2>1. /\ pc = "verify" /\ pc' = "verify" /\ k < n /\ i' = k + 1
        /\ n <= max + 1 /\ Len(all_sig) = n /\ n_valid = k /\ call = "none"
        /\ n_valid' = IF hss_validate_signature(k, all_sig[k+1])
                         THEN k + 1 ELSE k
        /\ UNCHANGED <<build, call, all_sig>>
    BY <1>1, <1>4 DEF Verify, LoopInv, VerifyingLoop
  <2>2. k + 1 \in DOMAIN all_sig
    BY <2>1 DEF IInv, TypeOK
  <2>3. /\ all_sig[k+1].m = k /\ all_sig[k+1].key = 1
        /\ all_sig[k+1].q = k
    <3>1. (k + 1) - 1 = k
      OBVIOUS
    <3>. QED  BY <2>2, <3>1 DEF LoopInv
  <2>4. n_valid' = k + 1
    BY <1>1, <2>1, <2>3 DEF hss_validate_signature
  <2>5. VerifyingLoop'
    BY <1>1, <2>1, <2>4 DEF VerifyingLoop
  <2>6. LoopInv'
    BY <2>1, <2>5 DEF LoopInv, SigningLoop, demo
  <2>7. StepsLeft = n + 1 - k /\ StepsLeft' = n + 1 - (k + 1)
    BY <1>1, <2>1 DEF StepsLeft
  <2>8. n + 1 - (k + 1) < n + 1 - k
    OBVIOUS
  <2>. QED  BY <2>6, <2>7, <2>8
<1>5. CASE Return
  <2>1. /\ pc = "verify" /\ k = n /\ n_valid = n /\ pc' = "ok"
        /\ UNCHANGED <<build, all_sig>>
    BY <1>1, <1>5 DEF Return, LoopInv, VerifyingLoop
  <2>2. LoopInv'
    BY <2>1 DEF LoopInv, SigningLoop, VerifyingLoop, demo
  <2>3. StepsLeft = n + 1 - n /\ StepsLeft' = 0
    BY <1>1, <2>1 DEF StepsLeft
  <2>4. 0 < n + 1 - n
    OBVIOUS
  <2>. QED  BY <2>2, <2>3, <2>4
<1>. QED  BY <1>2, <1>3, <1>4, <1>5 DEF Main

(* What every step of the benchmark does.                                  *)
LEMMA BenchSteps ==
    ASSUME IInv, LoopInv, ~demo, Next
    PROVE  LoopInv' /\ StepsLeft' < StepsLeft
<1>1. ~Restart
  BY DEF Restart
<1>. QED  BY <1>1, StartSteps, AdvanceSteps, ReleaseSteps, MainSteps DEF Next

(* The loops stay in step with the key in every reachable state.           *)
LEMMA LoopInvariance == Spec => []LoopInv
<1>1. Init => LoopInv
  <2>. SUFFICES ASSUME Init, ~demo PROVE LoopInv
    BY DEF LoopInv
  <2>1. DOMAIN all_sig = {} /\ pc = "keygen"
    BY DEF Init, demo
  <2>. QED  BY <2>1 DEF Init, LoopInv, SigningLoop, VerifyingLoop
<1>2. IInv /\ LoopInv /\ [Next]_vars => LoopInv'
  <2>. SUFFICES ASSUME IInv, LoopInv, [Next]_vars PROVE LoopInv'
    OBVIOUS
  <2>1. CASE UNCHANGED vars
    BY <2>1 DEF vars, store, LoopInv, SigningLoop, VerifyingLoop, demo
  <2>2. CASE Next /\ ~demo
    BY <2>2, BenchSteps
  <2>3. CASE Next /\ demo
    <3>1. build' = build
      BY <2>3 DEF Next, Keygen, Load, AdvanceLast, Advance, Release,
                  SigningFails, Restart, Main, KeygenFails, LoadFails,
                  AllSigned, Verify, Return
    <3>2. demo'
      BY <2>3, <3>1 DEF demo
    <3>. QED  BY <3>2 DEF LoopInv
  <2>. QED  BY <2>1, <2>2, <2>3
<1>. QED  BY <1>1, <1>2, Invariance, PTL DEF Spec

(* The number of steps left is one, and with one-time keys enough no loop  *)
(* of the benchmark is stuck.                                              *)
LEMMA BenchGoesOn == ASSUME IInv, LoopInv PROVE GoesOn
<1>. SUFFICES ASSUME ~demo, build.N_SIGN <= build.max_count + 1
              PROVE  GoesOn
  BY DEF GoesOn
<1>1. PICK n \in Nat, max \in Nat, k \in Nat :
        n = build.N_SIGN /\ max = build.max_count /\ k = i
  BY Numbers
<1>2. pc \in {"keygen", "load", "sign", "verify", "ok", "failed"}
  BY DEF LoopInv
<1>3. pc = "sign" => call = "sign" \/ CanSign \/ k = n
  <2>. SUFFICES ASSUME pc = "sign", call # "sign", k # n
                PROVE  CanSign
    OBVIOUS
  <2>1. /\ k <= n /\ w # NULL
        /\ w.status = "expired" => k = max + 1
    BY <1>1 DEF LoopInv, SigningLoop
  <2>2. w.status = "none"
    BY <1>1, <2>1, Working
  <2>3. call = "none"
    BY Numbers
  <2>. QED  BY <1>1, <2>1, <2>2, <2>3 DEF CanSign
<1>4. pc \in {"sign", "verify"} => k <= n
  BY <1>1 DEF LoopInv, SigningLoop, VerifyingLoop
<1>5. pc = "sign" /\ call = "sign" => k < n
  BY <1>1 DEF IInv, BenchInv
<1>6. StepsLeft \in Nat /\ (StepsLeft = 0 <=> pc \in {"ok", "failed"})
  <2>1. CASE pc \in {"keygen", "load"}
    BY <1>1, <2>1 DEF StepsLeft
  <2>2. CASE pc = "sign"
    BY <1>1, <1>4, <1>5, <2>2 DEF StepsLeft
  <2>3. CASE pc = "verify"
    BY <1>1, <1>4, <2>3 DEF StepsLeft
  <2>4. CASE pc \in {"ok", "failed"}
    BY <2>4 DEF StepsLeft
  <2>. QED  BY <1>2, <2>1, <2>2, <2>3, <2>4
<1>. QED  BY <1>1, <1>3, <1>4, <1>6 DEF GoesOn

(* The benchmark never finds one of its signatures invalid: the list holds *)
(* one of each message and one-time key in order, and main ends with the   *)
(* count it compares with or before it has verified any.                   *)
THEOREM NoneIsInvalid == Spec => [](pc # "invalid")
<1>1. IInv /\ LoopInv => pc # "invalid"
  BY DEF IInv, BenchInv, LoopInv
<1>. QED  BY <1>1, Invariance, LoopInvariance, PTL

(* The benchmark's main runs to its end, at most 3 * N_SIGN + 4 steps of   *)
(* this model away: each step leaves fewer, and while there are one-time   *)
(* keys enough one of them can be taken in every state but the last.       *)
THEOREM BenchIsBounded ==
    Spec => []GoesOn /\ [][~demo => StepsLeft' < StepsLeft]_vars
<1>1. IInv /\ LoopInv => GoesOn
  BY BenchGoesOn
<1>2. IInv /\ LoopInv /\ [Next]_vars
        => [~demo => StepsLeft' < StepsLeft]_vars
  BY BenchSteps
<1>. QED  BY <1>1, <1>2, Invariance, LoopInvariance, PTL DEF Spec
=============================================================================
