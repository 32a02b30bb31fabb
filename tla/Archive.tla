------------------------------ MODULE Archive ------------------------------
(***************************************************************************)
(* The archive drivers: E5b of src/evmldsa/bench_workload.c and the mode   *)
(* "archive" of extended_bench.c and figdata_bench.c.  One key signs n_rec *)
(* records, a quota in each of the T periods, into one slot of the store   *)
(* after the other, and then the whole archive is verified, several times. *)
(* The calls are the actions of EvMlDsa.  The drivers ignore the return    *)
(* codes of ev_keygen and ev_evolve; a first key generation that fails     *)
(* leaves uninitialised structs, so here it succeeds.                      *)
(***************************************************************************)
EXTENDS EvMlDsa

CONSTANTS Sizes,   \* the numbers of records to choose from (Ns[])
          Scans    \* how often the archive is verified

VARIABLES pc,            \* "keygen", "fill", "scan", "done" or "exit"
          n_rec,
          p, i, made,    \* locals of the loops that fill the archive
          store,         \* slot -> message and signature
          k, bad, rep    \* locals of the loops that verify it

fill == <<p, i, made, store>>
scan == <<k, bad, rep>>
avars == <<vars, pc, n_rec, fill, scan>>

per == Max({n_rec \div T, 1})

Slots == 0..n_rec-1

ArchiveInit == /\ Init
               /\ pc = "keygen"
               /\ n_rec \in Sizes
               /\ p = 0 /\ i = 0 /\ made = 0
               /\ store = [s \in Slots |-> [m |-> NULL, sig |-> NULL]]
               /\ k = 0 /\ bad = 0 /\ rep = 0

Generate == /\ pc = "keygen"
            /\ \E r \in Roots : Keygen(r, {})
            /\ pc' = "fill"
            /\ UNCHANGED <<n_rec, fill, scan>>

-----------------------------------------------------------------------------
(* Mutant: one record too many in each period.                             *)
QuotaLeft_OneMore == i <= per /\ made < n_rec

QuotaLeft == i < per /\ made < n_rec

(* Mutant: the label is written for the next record.                       *)
SignRecord_LabelsNext ==
    /\ pc = "fill"
    /\ p < T
    /\ QuotaLeft
    /\ Sign(<<p, i>>)
    /\ store' = [store EXCEPT ![made] = [m |-> <<p, i + 1>>, sig |-> sig']]
    /\ made' = made + 1
    /\ i' = i + 1
    /\ UNCHANGED <<pc, n_rec, p, scan>>

(* The record is labelled with the loop counters and signed into its slot. *)
SignRecord ==
    /\ pc = "fill"
    /\ p < T
    /\ QuotaLeft
    /\ Sign(<<p, i>>)
    /\ store' = [store EXCEPT ![made] = [m |-> <<p, i>>, sig |-> sig']]
    /\ made' = made + 1
    /\ i' = i + 1
    /\ UNCHANGED <<pc, n_rec, p, scan>>

(* ev_sign ran out of memory: the driver exits.                            *)
SignExit == /\ pc = "fill"
            /\ p < T
            /\ QuotaLeft
            /\ SignFails
            /\ pc' = "exit"
            /\ UNCHANGED <<n_rec, fill, scan>>

(* The quota is used up (i > 0: the body of the outer loop was entered).   *)
PeriodDone ==
    /\ pc = "fill"
    /\ p < T /\ (i > 0 \/ made < n_rec)
    /\ ~QuotaLeft
    /\ IF p + 1 < T THEN Evolve ELSE UNCHANGED vars
    /\ p' = p + 1
    /\ i' = 0
    /\ UNCHANGED <<pc, n_rec, made, store, scan>>

FillDone == /\ pc = "fill"
            /\ i = 0
            /\ ~(p < T /\ made < n_rec)
            /\ pc' = "scan"
            /\ UNCHANGED <<vars, n_rec, fill, scan>>

-----------------------------------------------------------------------------
(* Mutant: the slot is not counted.                                        *)
VerifyRecord_SameSlot(oom) ==
    /\ pc = "scan"
    /\ k < made
    /\ bad' = bad
    /\ UNCHANGED <<vars, pc, n_rec, fill, k, rep>>

(* A record that is refused is counted; the verifier may be out of memory. *)
VerifyRecord(oom) ==
    /\ pc = "scan"
    /\ k < made
    /\ bad' = IF ev_verify(pk, store[k].m, store[k].sig, SigBytes, oom) # 0
                THEN bad + 1 ELSE bad
    /\ k' = k + 1
    /\ UNCHANGED <<vars, pc, n_rec, fill, rep>>

ScanDone == /\ pc = "scan"
            /\ k = made
            /\ rep' = rep + 1
            /\ k' = 0
            /\ bad' = 0
            /\ pc' = IF bad > 0 THEN "exit"
                     ELSE IF rep + 1 < Scans THEN "scan" ELSE "done"
            /\ UNCHANGED <<vars, n_rec, fill>>

VerifierOutOfMemory == {"none"} \cup (OutOfMemory \cap {"message"})

Loops == \/ SignRecord \/ SignExit \/ PeriodDone \/ FillDone
         \/ (\E oom \in VerifierOutOfMemory : VerifyRecord(oom))
         \/ ScanDone

-----------------------------------------------------------------------------
(* Every record in the archive verifies, from the moment it is stored and  *)
(* through all later evolutions.                                           *)
RecordsVerify ==
    \A s \in 0..made-1 :
        ev_verify(pk, store[s].m, store[s].sig, SigBytes, "none") = 0

(* "ARCHIVE sigs spread over all T periods" (bench_workload.c:53): once    *)
(* filled, no slot is empty and each period has its quota; fewer records   *)
(* than periods go to the first periods, one each.                         *)
EvenlySpread ==
    pc \in {"scan", "done"} =>
        /\ made = n_rec
        /\ \A q \in Periods :
             Cardinality({s \in Slots : store[s].sig.p = q}) =
               IF n_rec < T THEN (IF q < n_rec THEN 1 ELSE 0)
                            ELSE n_rec \div T

(* The loops come to an end.                                               *)
DriverEnds == pc = "fill" ~> pc \in {"done", "exit"}
=============================================================================
