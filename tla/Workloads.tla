----------------------------- MODULE Workloads -----------------------------
(***************************************************************************)
(* The programs that exercise the scheme, one per behaviour: filling and   *)
(* scanning an archive, the stability experiment E6 of bench_workload.c,   *)
(* the mode "distance" of extended_bench.c and figdata_bench.c (first the  *)
(* certificate chain, then one signature of the scheme) and of             *)
(* bench_rechain.c (the chain alone), and the self test.  An sk of one     *)
(* program is never seen by another, so mode never changes.                *)
(***************************************************************************)
EXTENDS Archive, SelfTest

CONSTANTS Drivers, Reps    \* of Rechain

ASSUME DriversAssumption ==
    \A d \in Drivers : d.MAXCHAIN \in Nat \ {0} /\ d.dists \in Seq(Nat)

VARIABLES mode,
          drv, links, cert, msgsig, di, at, walk, r, walked, rows, plain, rpc,
          round,       \* p of E6; r of the last loop of "distance"
          failures,    \* fail of E6
          stable,      \* history: the periods signed and verified in E6
          wpc          \* "start", "sign", "verify", "done" or "exit"

Chain == INSTANCE Rechain

chain == <<drv, links, cert, msgsig, di, at, walk, r, walked, rows, plain, rpc>>
wlocals == <<round, failures, stable, wpc>>
archive == <<pc, n_rec, fill, scan>>
wvars == <<avars, tvars, mode, chain, wlocals>>

Modes == {"archive", "stability", "distance", "selftest"}

WorkInit == /\ mode \in Modes
            /\ ArchiveInit
            /\ TestInit
            /\ Chain!ChainInit
            /\ mode # "archive" => n_rec = T
            /\ mode # "distance" => drv = CHOOSE d \in Drivers : TRUE
            /\ round = 0 /\ failures = 0 /\ stable = {}
            /\ wpc = "start"

(* In E6 any key, in "distance" once the chain is done; bench_rechain.c    *)
(* has no such part.  The return code is ignored, the first key generation *)
(* succeeds.                                                               *)
Start == /\ \/ mode = "stability"
            \/ mode = "distance" /\ rpc = "done" /\ drv.rest
         /\ wpc = "start"
         /\ \E root \in Roots : Keygen(root, {})
         /\ wpc' = "sign"
         /\ UNCHANGED <<round, failures, stable>>

SignOne == /\ wpc = "sign"
           /\ Sign(<<round, 0>>)
           /\ wpc' = "verify"
           /\ UNCHANGED <<round, failures, stable>>

-----------------------------------------------------------------------------
NextRound == /\ round' = round + 1
             /\ wpc' = IF round + 1 < T THEN "sign" ELSE "done"

(* fail++, continue: the evolution at the end of the body is skipped too.  *)
SignSkipped == /\ mode = "stability" /\ wpc = "sign"
               /\ SignFails
               /\ failures' = failures + 1
               /\ NextRound
               /\ UNCHANGED stable

(* Mutant: the period is left only if its signature was accepted.          *)
Stable_EvolvesIfAccepted(oom) ==
    LET ok == ev_verify(pk, <<round, 0>>, sig, siglen, oom) = 0
    IN  /\ mode = "stability" /\ wpc = "verify"
        /\ failures' = failures
        /\ stable' = IF ok THEN stable \cup {sig.p} ELSE stable
        /\ IF round + 1 < T /\ ok THEN Evolve ELSE UNCHANGED vars
        /\ NextRound

Stable(oom) ==
    LET ok == ev_verify(pk, <<round, 0>>, sig, siglen, oom) = 0
    IN  /\ mode = "stability" /\ wpc = "verify"
        /\ failures' = IF ok THEN failures ELSE failures + 1
        /\ stable' = IF ok THEN stable \cup {sig.p} ELSE stable
        /\ IF round + 1 < T THEN Evolve ELSE UNCHANGED vars
        /\ NextRound

(* A failed ev_sign goes unnoticed; its buffer and length are not set, and *)
(* the first verification ends the program.                                *)
DistanceUnsigned == /\ mode = "distance" /\ wpc = "sign"
                    /\ SignFails
                    /\ wpc' = "exit"
                    /\ UNCHANGED <<round, failures, stable>>

DistanceVerify(oom) ==
    /\ mode = "distance" /\ wpc = "verify"
    /\ IF ev_verify(pk, <<0, 0>>, sig, siglen, oom) = 0
         THEN /\ round' = round + 1
              /\ wpc' = IF round + 1 < Reps THEN "verify" ELSE "done"
         ELSE wpc' = "exit" /\ UNCHANGED round
    /\ UNCHANGED <<vars, failures, stable>>

WorkSteps == \/ SignOne \/ SignSkipped \/ DistanceUnsigned
             \/ \E oom \in VerifierOutOfMemory :
                    Stable(oom) \/ DistanceVerify(oom)

-----------------------------------------------------------------------------
Fixed == UNCHANGED <<mode>>

Archiving == mode = "archive" /\ Fixed /\ UNCHANGED <<tvars, chain, wlocals>>
Testing == mode = "selftest" /\ Fixed /\ UNCHANGED <<archive, chain, wlocals>>
Chaining == mode = "distance" /\ Fixed /\ UNCHANGED <<avars, tvars, wlocals>>
Working == Fixed /\ UNCHANGED <<archive, tvars, chain>>

(* A loop that has been entered goes on.                                   *)
Running == \/ Archiving /\ Loops
           \/ Testing /\ TestSteps
           \/ Chaining /\ Chain!ChainNext
           \/ Working /\ WorkSteps

WorkNext == \/ Archiving /\ Generate
            \/ Testing /\ TestKeygen
            \/ Working /\ Start
            \/ Running

(* Sequential programs, with nothing to wait for.                          *)
WorkSpec == WorkInit /\ [][WorkNext]_wvars /\ WF_wvars(Running)

-----------------------------------------------------------------------------
EveryLineReachesRoot == Chain!EveryLineReachesRoot

(* "sign+verify at 256 distinct periods, count failures (expect 0)"        *)
(* (bench_workload.c:6): the count covers all that is missing.  Each round *)
(* either adds a period that no round before had, or is counted, although  *)
(* after a failed signature the key lags behind the loop.                  *)
StabilityCounts ==
    mode = "stability" /\ wpc = "done" => Cardinality(stable) + failures = T

(* Every program that has a key comes to an end, and the chain to a good   *)
(* one.                                                                    *)
ProgramsEnd == /\ DriverEnds
               /\ step = "loop" ~> step = "end"
               /\ wpc = "sign" ~> wpc \in {"done", "exit"}
               /\ Chain!ChainAccepted
=============================================================================
