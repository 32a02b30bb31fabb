------------------------------ MODULE Rechain ------------------------------
(***************************************************************************)
(* The composition that evML-DSA is measured against: every period has an  *)
(* ML-DSA key of its own, certified by the key of the period before, back  *)
(* to a root key.  Three programs build such a chain and time its          *)
(* verification at some distances: bench_rechain.c and the mode "distance" *)
(* of extended_bench.c and of figdata_bench.c.                             *)
(*                                                                         *)
(* Key(i) stands for the key pair pkc[i], skc[i], and Key(-1) is the root  *)
(* key pair.  A signature is known by what signed it and what it is of.    *)
(***************************************************************************)
EXTENDS Integers, Sequences

CONSTANTS Drivers,   \* [MAXCHAIN, dists, rootAtZero, rest] to choose from
          Reps       \* how often each distance is timed (100)

VARIABLES drv,
          links, cert,    \* i of the first loop, and the certificates
          msgsig,         \* what the one buffer sig was last signed with
          di, at, walk, r,    \* locals of the loops over the distances
          walked,         \* history: the certificates of this repetition
          rows,           \* history: what each printed line has verified
          plain,          \* no plain verification, or it accepts
          rpc

chainlocals == <<di, at, walk, r, walked>>
rvars == <<drv, links, cert, msgsig, chainlocals, rows, plain, rpc>>

Key(i) == i + 1

ChainInit == /\ drv \in Drivers
             /\ links = 0
             /\ cert = [i \in 0..drv.MAXCHAIN-1 |-> [of |-> 0, by |-> 0]]
             /\ msgsig = 0
             /\ di = 1 /\ at = 0 /\ walk = 0 /\ r = 0 /\ walked = {}
             /\ rows = {}
             /\ plain = FALSE
             /\ rpc = "setup"

Setup == /\ rpc = "setup" /\ links < drv.MAXCHAIN
         /\ cert' = [cert EXCEPT ![links] =
                        [of |-> Key(links), by |-> Key(links - 1)]]
         /\ links' = links + 1
         /\ UNCHANGED <<drv, msgsig, chainlocals, rows, plain, rpc>>

(* bench_rechain.c does without, and has no label that needs it.           *)
Clamp(d) == IF d >= drv.MAXCHAIN THEN drv.MAXCHAIN - 1 ELSE d

(* The message is signed by the key at the distance, over the signature of *)
(* the distance before.                                                    *)
NextDistance ==
    /\ rpc = "setup" /\ links = drv.MAXCHAIN
    /\ di <= Len(drv.dists)
    /\ LET d == drv.dists[di]
       IN  at' = IF drv.rootAtZero /\ d = 0 THEN -1 ELSE Clamp(d)
    /\ msgsig' = Key(at')
    /\ walk' = 0 /\ r' = 0 /\ walked' = {}
    /\ rpc' = "walk"
    /\ UNCHANGED <<drv, links, cert, di, rows, plain>>

WalkCert == /\ rpc = "walk" /\ walk <= at
            /\ IF cert[walk] = [of |-> Key(walk), by |-> Key(walk - 1)]
                 THEN walk' = walk + 1 /\ walked' = walked \cup {walk}
                      /\ UNCHANGED rpc
                 ELSE rpc' = "exit" /\ UNCHANGED <<walk, walked>>
            /\ UNCHANGED <<drv, links, cert, msgsig, di, at, r, rows, plain>>

(* Mutant: the next repetition goes on where this one ended.               *)
WalkDone_NoReset ==
    /\ rpc = "walk" /\ walk > at
    /\ msgsig = Key(at)
    /\ rows' = rows \cup {[d |-> drv.dists[di], at |-> at, walked |-> walked]}
    /\ walked' = {}
    /\ r' = r + 1
    /\ IF r' < Reps THEN UNCHANGED <<di, rpc>>
                    ELSE di' = di + 1 /\ rpc' = "setup"
    /\ UNCHANGED <<drv, links, cert, msgsig, at, walk, plain>>

(* The signature under the key that the chain has led to; the line is      *)
(* printed, or the program ends with "verify fail".                        *)
WalkDone ==
    /\ rpc = "walk" /\ walk > at
    /\ IF msgsig = Key(at)
         THEN /\ rows' = rows \cup {[d |-> drv.dists[di], at |-> at,
                                     walked |-> walked]}
              /\ walk' = 0 /\ walked' = {}
              /\ r' = r + 1
              /\ IF r' < Reps THEN UNCHANGED <<di, rpc>>
                              ELSE di' = di + 1 /\ rpc' = "setup"
         ELSE rpc' = "exit" /\ UNCHANGED <<rows, walk, walked, r, di>>
    /\ UNCHANGED <<drv, links, cert, msgsig, at, plain>>

(* bench_rechain.c verifies the buffer once more, plainly, under the last  *)
(* key of the chain, and does not look at the result; the other two go on  *)
(* to a signature of the scheme.                                           *)
PlainVerify == /\ rpc = "setup" /\ links = drv.MAXCHAIN
               /\ di > Len(drv.dists)
               /\ plain' = (drv.rest \/ msgsig = Key(drv.MAXCHAIN - 1))
               /\ rpc' = "done"
               /\ UNCHANGED <<drv, links, cert, msgsig, chainlocals, rows>>

ChainNext == Setup \/ NextDistance \/ WalkCert \/ WalkDone \/ PlainVerify

-----------------------------------------------------------------------------
(* Each printed line stands for a complete verification: the certificates  *)
(* of all keys from the root key to the one that signed, in the repetition *)
(* that was timed, and none of another; a greater distance is never less   *)
(* work than a smaller one, and none reaches behind the last key (the      *)
(* label 64 of figdata_bench.c has a chain of 64 keys, with indices to 63).*)
EveryLineReachesRoot ==
    /\ at < drv.MAXCHAIN
    /\ \A x \in rows : x.walked = 0..x.at
    /\ \A x, y \in rows : x.d < y.d => x.at < y.at

(* Every chain verifies at every distance, and the plain verification that *)
(* it is compared with is of a signature that is accepted.                 *)
ChainAccepted == rpc = "walk" ~> (rpc = "done" /\ plain)
=============================================================================
