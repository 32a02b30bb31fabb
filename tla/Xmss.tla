-------------------------------- MODULE Xmss --------------------------------
(***************************************************************************)
(* The XMSS baseline src/baselines/bench_xmss.c over xmss-reference, built *)
(* with xmss_core.c: one tree (d = 1), and a secret key that carries the   *)
(* index of its next one-time key.  Signing with the last index deletes    *)
(* the key in memory.  A second driver, the library's own test             *)
(* xmss_max_signatures.c, goes on until the key is used up and twice more. *)
(*                                                                         *)
(* A signature holds the index bytes it carries (field), the one-time key  *)
(* that made it (q), and the seeds and root that were in the key.          *)
(***************************************************************************)
EXTENDS Integers, Sequences

CONSTANT Builds     \* [driver, full_height, index_bits, N_SIGN]

ASSUME BuildsAssumption ==
    \A b \in Builds : /\ b.driver \in {"bench", "test"}
                      /\ b.full_height \in Nat
                      /\ b.index_bits \in Nat
                      /\ b.full_height < b.index_bits
                      /\ b.N_SIGN \in Nat

VARIABLES build,
          sk,               \* [idx, seeds]
          i,                \* the loop counter of main
          all_sm,           \* the signatures that xmss_sign returned 0 for
          ret, n_valid, pc

vars == <<build, sk, i, all_sm, ret, n_valid, pc>>

Seeds == {"key", "zero"}    \* what randombytes gave, and what memset leaves
Last == 2^build.full_height - 1

Init == /\ build \in Builds
        /\ sk = [idx |-> 0, seeds |-> "zero"]
        /\ i = 0
        /\ all_sm = <<>>
        /\ ret = 0
        /\ n_valid = 0
        /\ pc = "keypair"

xmss_keypair == /\ pc = "keypair"
                /\ sk' = [idx |-> 0, seeds |-> "key"]
                /\ pc' = "sign"
                /\ UNCHANGED <<build, i, all_sm, ret, n_valid>>

-----------------------------------------------------------------------------
(* memset: ones in the index, zeros in the rest.                           *)
Deleted == [idx |-> 2^build.index_bits - 1, seeds |-> "zero"]

(* Mutant: a key is deleted only once it is asked for too many.            *)
xmssmt_core_sign_Late(m) ==
    IF sk.idx > Last
      THEN [ret |-> -2, sk |-> Deleted]
      ELSE [ret |-> 0,
            sk  |-> [sk EXCEPT !.idx = (@ + 1) % 2^build.index_bits],
            sm  |-> [m |-> m, q |-> sk.idx, field |-> sk.idx,
                     seeds |-> sk.seeds]]

(* Mutant: zeros in the index too, and it is not written back after that.  *)
xmssmt_core_sign_Zeroed(m) ==
    IF sk.idx > Last
      THEN [ret |-> -2, sk |-> Deleted]
      ELSE LET left == IF sk.idx = Last THEN [Deleted EXCEPT !.idx = 0]
                       ELSE [sk EXCEPT !.idx = @ + 1]
           IN  [ret |-> 0,
                sk  |-> left,
                sm  |-> [m |-> m, q |-> sk.idx, field |-> sk.idx,
                         seeds |-> left.seeds]]

(* idx is read before the key is deleted, everything else after.           *)
xmssmt_core_sign(m) ==
    LET left == IF sk.idx >= Last THEN Deleted ELSE sk
    IN  IF sk.idx > Last
          THEN [ret |-> -2, sk |-> left]
          ELSE [ret |-> 0,
                sk  |-> [left EXCEPT !.idx = (sk.idx + 1) % 2^build.index_bits],
                sm  |-> [m |-> m, q |-> sk.idx, field |-> left.idx,
                         seeds |-> left.seeds]]

(* The public key is of the seeds that keypair drew; a one-time signature  *)
(* verifies at the leaf that made it.                                      *)
xmssmt_core_sign_open(sm) == sm.seeds = "key" /\ sm.field = sm.q

-----------------------------------------------------------------------------
(* One signature of the benchmark, which gives up at the first refusal.    *)
BenchSign == /\ build.driver = "bench" /\ pc = "sign" /\ i < build.N_SIGN
             /\ LET r == xmssmt_core_sign(i)
                IN  /\ sk' = r.sk
                    /\ IF r.ret = 0
                         THEN /\ all_sm' = Append(all_sm, r.sm)
                              /\ i' = i + 1
                              /\ UNCHANGED pc
                         ELSE /\ pc' = "failed"
                              /\ UNCHANGED <<all_sm, i>>
             /\ UNCHANGED <<build, ret, n_valid>>

(* One of the test, which expects the first 2^h to be made and no other.   *)
TestSign == /\ build.driver = "test" /\ pc = "sign" /\ i < Last + 3
            /\ LET r == xmssmt_core_sign(0)
               IN  /\ sk' = r.sk
                   /\ all_sm' = IF r.ret = 0 THEN Append(all_sm, r.sm)
                                ELSE all_sm
                   /\ ret' = IF (i <= Last) # (r.ret = 0) THEN -1 ELSE ret
            /\ i' = i + 1
            /\ UNCHANGED <<build, n_valid, pc>>

AllSigned == /\ build.driver = "bench" /\ pc = "sign" /\ i = build.N_SIGN
             /\ pc' = "verify"
             /\ i' = 0
             /\ UNCHANGED <<build, sk, all_sm, ret, n_valid>>

Verify == /\ pc = "verify" /\ i < build.N_SIGN
          /\ n_valid' = IF xmssmt_core_sign_open(all_sm[i+1])
                          THEN n_valid + 1 ELSE n_valid
          /\ i' = i + 1
          /\ UNCHANGED <<build, sk, all_sm, ret, pc>>

Return == /\ \/ pc = "verify" /\ i = build.N_SIGN
             \/ build.driver = "test" /\ pc = "sign" /\ i = Last + 3
          /\ pc' = IF ret = 0 /\ (pc = "verify" => n_valid = build.N_SIGN)
                     THEN "ok" ELSE "failed"
          /\ UNCHANGED <<build, sk, i, all_sm, ret, n_valid>>

Next == xmss_keypair \/ BenchSign \/ TestSign \/ AllSigned \/ Verify \/ Return

(* Sequential programs, with nothing to wait for.                          *)
Spec == Init /\ [][Next]_vars /\ WF_vars(Next)

-----------------------------------------------------------------------------
(* No index signs twice under the same seeds, the deleted key's zeros      *)
(* included: the index is moved on before the signature is computed, and   *)
(* neither ones in the index nor its increment leads back to a used one.   *)
Spent == [j \in DOMAIN all_sm |-> <<all_sm[j].seeds, all_sm[j].q>>]

Abstract == INSTANCE OneTimeKeys WITH Keys    <- Seeds,
                                      highest <- Last,
                                      spent   <- Spent
ImplementsOneTimeKeys == Abstract!Spec

(* "should delete the secret key to prevent accidental further use"        *)
(* (xmss_core.c:215): a key with no index left holds no seeds either.      *)
UsedUpKeyIsDeleted == sk.idx > Last => sk.seeds = "zero"

(* Both drivers return 0: the benchmark's signatures are made and verify,  *)
(* and the test gets 2^h signatures and then a refusal each time.          *)
DriversSucceed == <>(pc = "ok")

(* "sequential signatures (max for h=10 is 1024)" (bench_xmss.c:33): each  *)
(* signature that xmss_sign returns 0 for can be verified.                 *)
SignaturesVerify ==
    \A j \in DOMAIN all_sm : xmssmt_core_sign_open(all_sm[j])
=============================================================================
