-------------------------------- MODULE Lms --------------------------------
(***************************************************************************)
(* The LMS baseline src/baselines/bench_lms.c: its two private-key         *)
(* callbacks, the part of hash-sigs that it runs (one level, nothing       *)
(* reserved ahead), and its main.  A signature is two steps, because the   *)
(* library stores the next index before it computes anything.              *)
(*                                                                         *)
(* The benchmark keeps the key in memory and never fails to store it.  The *)
(* library is written for a storage that survives the process and may      *)
(* refuse a write, which is how its demo.c uses it; that caller is here    *)
(* too, as "demo": it may stop between any two steps and load the key      *)
(* again.  A write that it reports as refused has stored nothing.          *)
(***************************************************************************)
EXTENDS Integers, Sequences, FiniteSets

CONSTANTS Keys,     \* the seeds that do_rand may return, as 1..n
          Builds,   \* [caller, max_count, N_SIGN] to choose from
          NULL

VARIABLES build,
          privkey,      \* the buffer of the callbacks: [index, body]
          privkey_len,
          w,            \* the working key, or NULL
          call,         \* "sign" between hss_advance_count and the end of
                        \* hss_generate_signature, else "none"
          keygens, lost,     \* history: keys made; key -> indices lost
          pc, i, all_sig, n_valid

store == <<privkey, privkey_len>>
vars == <<build, store, w, call, keygens, lost, pc, i, all_sig, n_valid>>

PRIVATE_KEY_INDEX_LEN == 8
PRIVATE_KEY_SEED == 16
PRIVATE_KEY_LEN == 64

(* 0xff everywhere: no parameter set, and an index beyond every count.     *)
PARM_SET_END == 2^30

WorkingKey == [count : Nat, reserve : Nat, status : {"none", "expired"},
               key : Keys]

ASSUME KeysAssumption == /\ Keys \subseteq Nat
                         /\ PARM_SET_END \notin Keys
                         /\ NULL \notin Keys \cup WorkingKey

ASSUME BuildsAssumption == \A b \in Builds : /\ b.caller \in {"bench", "demo"}
                                             /\ b.max_count \in Nat
                                             /\ b.N_SIGN \in Nat

demo == build.caller = "demo"

-----------------------------------------------------------------------------
(* Mutant: the length of the last write.                                   *)
write_private_key_cb_LastLength(index, body, len) ==
    /\ len <= PRIVATE_KEY_LEN
    /\ privkey' = [index |-> index,
                   body  |-> IF len > PRIVATE_KEY_INDEX_LEN THEN body
                             ELSE privkey.body]
    /\ privkey_len' = len

(* The callback copies a prefix; its static buffer has 64 bytes.           *)
write_private_key_cb(index, body, len) ==
    /\ len <= PRIVATE_KEY_LEN
    /\ privkey' = [index |-> index,
                   body  |-> IF len > PRIVATE_KEY_INDEX_LEN THEN body
                             ELSE privkey.body]
    /\ privkey_len' = IF len > privkey_len THEN len ELSE privkey_len

read_private_key_cb(len) == len <= privkey_len

(* The storage of demo refuses; the library is told and nothing is stored. *)
Refused == demo /\ UNCHANGED store

Init == /\ build \in Builds
        /\ privkey = [index |-> 0, body |-> NULL]
        /\ privkey_len = 0
        /\ w = NULL
        /\ call = "none"
        /\ keygens = 0
        /\ lost = [k \in Keys |-> 0]
        /\ pc = IF build.caller = "demo" THEN "demo" ELSE "keygen"
        /\ i = 0
        /\ all_sig = <<>>
        /\ n_valid = 0

-----------------------------------------------------------------------------
(* hss_generate_private_key: the key is stored with index 0, or there was  *)
(* no randomness, or the storage refused it.                               *)
Keygen == /\ pc = "keygen" \/ (demo /\ w = NULL)
          /\ keygens + 1 \in Keys
          /\ \/ write_private_key_cb(0, keygens + 1, PRIVATE_KEY_LEN)
             \/ Refused
          /\ keygens' = keygens + 1
          /\ pc' = IF demo THEN pc ELSE "load"
          /\ UNCHANGED <<build, w, call, lost, i, all_sig, n_valid>>

KeygenFails == /\ pc = "keygen"
               /\ pc' = "failed"
               /\ UNCHANGED <<build, store, w, call, keygens, lost, i,
                              all_sig, n_valid>>

(* hss_load_private_key reads the parameter sets first, checks the index,  *)
(* and then reads the whole key.                                           *)
Loadable == /\ read_private_key_cb(PRIVATE_KEY_SEED)
            /\ privkey.body \in Keys
            /\ privkey.index <= build.max_count
            /\ read_private_key_cb(PRIVATE_KEY_LEN)

Load == /\ pc = "load" \/ (demo /\ w = NULL)
        /\ Loadable
        /\ w' = [count   |-> privkey.index, reserve |-> privkey.index,
                 status |-> "none", key |-> privkey.body]
        /\ pc' = IF demo THEN pc ELSE "sign"
        /\ UNCHANGED <<build, store, call, keygens, lost, i, all_sig,
                       n_valid>>

(* It cannot, or there is no memory for the working key.                   *)
LoadFails == /\ pc = "load"
             /\ pc' = "failed"
             /\ UNCHANGED <<build, store, w, call, keygens, lost, i,
                            all_sig, n_valid>>

-----------------------------------------------------------------------------
CanSign == /\ w # NULL /\ call = "none" /\ w.status = "none"
           /\ demo \/ (pc = "sign" /\ i < build.N_SIGN)

(* hss_advance_count, the last one-time key: no signature after this one,  *)
(* and the stored key is erased.  A refused write fails the call, with the *)
(* working key already marked.                                             *)
AdvanceLast ==
    /\ CanSign
    /\ w.count = build.max_count
    /\ w' = [w EXCEPT !.status = "expired"]
    /\ \/ /\ write_private_key_cb(PARM_SET_END, PARM_SET_END, PRIVATE_KEY_LEN)
          /\ call' = "sign"
       \/ /\ Refused
          /\ UNCHANGED call
    /\ UNCHANGED <<build, keygens, lost, pc, i, all_sig, n_valid>>

(* Mutant: the write is left to the next signature.                        *)
Advance_Lazy ==
    /\ CanSign
    /\ w.count # build.max_count
    /\ call' = "sign"
    /\ write_private_key_cb(w.count, w.key, PRIVATE_KEY_INDEX_LEN)
    /\ w' = [w EXCEPT !.reserve = w.count]
    /\ UNCHANGED <<build, keygens, lost, pc, i, all_sig, n_valid>>

(* Mutant: a refused write uses up the one-time key all the same.          *)
Advance_BurnsIndex ==
    /\ CanSign
    /\ w.count # build.max_count
    /\ \/ /\ write_private_key_cb(w.count + 1, w.key, PRIVATE_KEY_INDEX_LEN)
          /\ call' = "sign"
          /\ w' = [w EXCEPT !.reserve = w.count + 1]
       \/ /\ Refused
          /\ w' = [w EXCEPT !.count = @ + 1]
          /\ UNCHANGED call
    /\ UNCHANGED <<build, keygens, lost, pc, i, all_sig, n_valid>>

(* Any other: the next index is stored, eight bytes, unless it has been    *)
(* reserved already.                                                       *)
Advance ==
    /\ CanSign
    /\ w.count # build.max_count
    /\ IF w.count + 1 > w.reserve
         THEN \/ /\ write_private_key_cb(w.count + 1, w.key,
                                         PRIVATE_KEY_INDEX_LEN)
                 /\ w' = [w EXCEPT !.reserve = w.count + 1]
                 /\ call' = "sign"
              \/ /\ Refused
                 /\ UNCHANGED <<w, call>>
         ELSE call' = "sign" /\ UNCHANGED <<store, w>>
    /\ UNCHANGED <<build, keygens, lost, pc, i, all_sig, n_valid>>

(* The rest of hss_generate_signature; the caller keeps the signature.     *)
Release == /\ call = "sign"
           /\ all_sig' = Append(all_sig,
                               [m |-> i, key |-> w.key, q |-> w.count])
           /\ w' = [w EXCEPT !.count = @ + 1]
           /\ call' = "none"
           /\ i' = IF demo THEN i ELSE i + 1
           /\ UNCHANGED <<build, store, keygens, lost, pc, n_valid>>

(* One of the parts of the work reports an error, before or after the one- *)
(* time signature has moved the working key on; the signature is erased.   *)
(* The benchmark ends there.                                               *)
SigningFails ==
    /\ call = "sign"
    /\ call' = "none"
    /\ \/ UNCHANGED <<w, lost>>
       \/ /\ w' = [w EXCEPT !.count = @ + 1]
          /\ lost' = [lost EXCEPT ![w.key] = @ + 1]
    /\ pc' = IF demo THEN pc ELSE "failed"
    /\ UNCHANGED <<build, store, keygens, i, all_sig, n_valid>>

(* Only the storage survives.                                              *)
Restart == /\ demo /\ w # NULL
           /\ w' = NULL
           /\ call' = "none"
           /\ lost' = [lost EXCEPT ![w.key] = @ + (w.reserve - w.count)]
           /\ UNCHANGED <<build, store, keygens, pc, i, all_sig, n_valid>>

-----------------------------------------------------------------------------
(* The loops of main.                                                      *)
AllSigned == /\ pc = "sign" /\ i = build.N_SIGN
             /\ pc' = "verify"
             /\ i' = 0
             /\ UNCHANGED <<build, store, w, call, keygens, lost, all_sig,
                            n_valid>>

(* Mutant: the message of the next signature.                              *)
hss_validate_signature_Next(m, s) == s.key = 1 /\ s.m = m + 1

hss_validate_signature(m, s) ==
    s.key = 1 /\ s.m = m /\ s.q <= build.max_count

Verify == /\ pc = "verify" /\ i < build.N_SIGN
          /\ n_valid' = IF hss_validate_signature(i, all_sig[i+1])
                          THEN n_valid + 1 ELSE n_valid
          /\ i' = i + 1
          /\ UNCHANGED <<build, store, w, call, keygens, lost, pc, all_sig>>

Return == /\ pc = "verify" /\ i = build.N_SIGN
          /\ pc' = IF n_valid = build.N_SIGN THEN "ok" ELSE "invalid"
          /\ w' = NULL
          /\ UNCHANGED <<build, store, call, keygens, lost, i, all_sig,
                         n_valid>>

Main == KeygenFails \/ LoadFails \/ AllSigned \/ Verify \/ Return

Next == \/ Keygen \/ Load \/ AdvanceLast \/ Advance \/ Release
        \/ SigningFails \/ Restart \/ Main

(* The benchmark is a sequential program; demo owes nobody a call.         *)
Spec == Init /\ [][Next]_vars /\ WF_vars(~demo /\ Next)

-----------------------------------------------------------------------------
(* The signatures that have been given out, all of them and those of k.    *)
Spent == [j \in DOMAIN all_sig |-> <<all_sig[j].key, all_sig[j].q>>]

SignedBy(k) == {j \in DOMAIN all_sig : all_sig[j].key = k}

(* At every instant, in the middle of a call too, the stored key is ahead  *)
(* of every signature that has been given out, so that whoever loads it    *)
(* goes on behind them; after the last one it cannot be loaded.  Until     *)
(* then it can: "buffer always holds the full key" (bench_lms.c:68),       *)
(* through updates of eight bytes.                                         *)
StoredAhead ==
    /\ \A j \in DOMAIN all_sig :
          privkey.body = all_sig[j].key => all_sig[j].q < privkey.index
    /\ (privkey.body \in Keys /\ privkey.index <= build.max_count) => Loadable

(* The library implements the abstract one-time keys, over refused writes, *)
(* restarts between the write and the signature, and reloads.              *)
Abstract == INSTANCE OneTimeKeys WITH highest <- build.max_count,
                                      spent   <- Spent
ImplementsOneTimeKeys == Abstract!Spec

(* Nor is any wasted: the stored index counts the signatures given out,    *)
(* the one in the making, and those that a restart or an error in the      *)
(* middle of a call has cost.  A refused write, one that has stored        *)
(* nothing, costs none.                                                    *)
LossOnlyMidCall ==
    privkey.body \in Keys =>
        privkey.index = Cardinality(SignedBy(privkey.body))
                          + lost[privkey.body]
                          + IF w # NULL /\ w.key = privkey.body
                            THEN w.reserve - w.count ELSE 0

(* Both builds of the benchmark have one-time keys enough: once the key is *)
(* loaded, all N_SIGN signatures are made and verify, and main returns 0,  *)
(* unless the library has reported an error of its own.                    *)
BenchSucceeds == pc = "sign" ~> pc \in {"ok", "failed"}
=============================================================================
