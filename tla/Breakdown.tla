----------------------------- MODULE Breakdown -----------------------------
(***************************************************************************)
(* src/evmldsa/breakdown_bench.c holds a second signer and a second        *)
(* verifier, copies of ev_sign and ev_verify that put clocks between the   *)
(* stages.  Here both signers write into the same buffer, in any order,    *)
(* and both verifiers read it.  The copies check less than the originals:  *)
(* no malloc, no return code of ev_merkle_path, no length.                 *)
(***************************************************************************)
EXTENDS EvMlDsa

(* Mutant: the result of the Merkle stage is not used.                     *)
staged_verify_IgnoresMerkle(key, m, s) ==
    IF s.p >= T THEN -2
    ELSE IF crypto_sign_verify(s.fswa, Composite(s.p, m), key.rho, s.t1)
      THEN 0 ELSE -5

(* The leaf key is put together from the rho of the public key.            *)
staged_verify(key, m, s) ==
    IF s.p >= T THEN -2
    ELSE IF /\ PathRoot(s.p, ev_merkle_leafdigest(s.t1, FALSE), s.path)
                 = key.root
            /\ crypto_sign_verify(s.fswa, Composite(s.p, m), key.rho, s.t1)
      THEN 0 ELSE -5

StagedParts(m) ==
    LET p == sk.tree.current
    IN  [p    |-> p,
         fswa |-> crypto_sign_signature(Composite(p, m), sk.leaf.sk),
         t1   |-> sk.leaf.t1,
         path |-> IF sk.mt = NULL THEN sig.path
                  ELSE [k \in Edges |-> AuthEntry(sk.mt, p, k+1)]]

(* Mutant: the key in the buffer is left as it was.                        *)
StagedSign_KeepsKey(m) ==
    /\ Usable
    /\ sig.t1 # NULL
    /\ sig' = [StagedParts(m) EXCEPT !.t1 = sig.t1]
    /\ siglen' = SigBytes
    /\ attempts' = attempts \cup {<<sk.leaf.sk, sig'.p, m>>}
    /\ issued' = issued \cup {Issue(m, sig')}
    /\ Cardinality(issued') <= MaxIssued
    /\ UNCHANGED <<legacy, phase, pk, sk, rc, published, keygens>>

(* The length is written whether or not there was a path.                  *)
StagedSign(m) ==
    /\ Usable
    /\ sig' = StagedParts(m)
    /\ siglen' = SigBytes
    /\ attempts' = attempts \cup {<<sk.leaf.sk, sig'.p, m>>}
    /\ issued' = IF sk.mt = NULL THEN issued
                 ELSE issued \cup {Issue(m, sig')}
    /\ Cardinality(issued') <= MaxIssued
    /\ UNCHANGED <<legacy, phase, pk, sk, rc, published, keygens>>

StagedNext == Next \/ (\E m \in Messages : StagedSign(m))

StagedSpec == Init /\ [][StagedNext]_vars

-----------------------------------------------------------------------------
(* The buffer, and all that can be put together from archived signatures.  *)
Candidates ==
    {s \in {sig} : s.path # NULL}
      \cup {[p |-> q, fswa |-> f.sig.fswa, t1 |-> g.sig.t1,
             path |-> h.sig.path] :
               q \in Periods, f \in issued, g \in issued, h \in issued}

(* "staged verify: mirrors ev_verify() stage-by-stage"                     *)
(* (breakdown_bench.c:54): the two verifiers accept the same signatures of *)
(* full length for the same messages, whichever signer made them and       *)
(* however their parts are exchanged.                                      *)
StagedAgrees ==
    \A m \in Messages, s \in Candidates :
        staged_verify(pk, m, s) = 0
            <=> ev_verify(pk, m, s, SigBytes, "none") = 0
=============================================================================
