---------------------------- MODULE KeyEvolving ----------------------------
(***************************************************************************)
(* What a key-evolving signature scheme promises to those who use it.  A   *)
(* key is in one period at a time; signing adds one (key, period, message) *)
(* triple to those that verify, always for the key and period of the       *)
(* moment; evolving goes to the next period; and nothing that verifies     *)
(* ever stops verifying, whatever happens to the signer.                   *)
(***************************************************************************)
EXTENDS Integers

CONSTANTS LastPeriod, Messages, NoKey

VARIABLES key,      \* the public key of the signer, or NoKey
          period,   \* its current period
          signed    \* the triples <<key, period, message>> that verify

vars == <<key, period, signed>>

Init == /\ key = NoKey
        /\ period = 0
        /\ signed = {}

(* A key generation gives another key, or fails and leaves the old one or  *)
(* none; in each case the signer is in period 0 afterwards.                *)
NewKey == /\ period' = 0
          /\ UNCHANGED signed

Sign(m) == /\ key # NoKey
           /\ signed' = signed \cup {<<key, period, m>>}
           /\ UNCHANGED <<key, period>>

Evolve == /\ key # NoKey
          /\ period < LastPeriod
          /\ period' = period + 1
          /\ UNCHANGED <<key, signed>>

Next == NewKey \/ (\E m \in Messages : Sign(m)) \/ Evolve

Spec == Init /\ [][Next]_vars
=============================================================================
