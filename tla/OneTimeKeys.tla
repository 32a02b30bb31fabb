---------------------------- MODULE OneTimeKeys ----------------------------
(***************************************************************************)
(* What a stateful hash-based signature promises, and what its security    *)
(* rests on: a key has one-time keys numbered from 0, they are used in    *)
(* increasing order, and none is ever used twice, whatever happens to the  *)
(* process or to its storage in between.                                   *)
(***************************************************************************)
EXTENDS Integers, Sequences

CONSTANT Keys

VARIABLES highest, \* the number of the last one-time key; it does not change
          spent    \* the one-time keys that have signed, as <<key, number>>

vars == <<highest, spent>>

Init == spent = <<>>

Sign(k, i) == /\ i \in 0..highest
              /\ \A j \in DOMAIN spent : spent[j][1] = k => spent[j][2] < i
              /\ spent' = Append(spent, <<k, i>>)
              /\ UNCHANGED highest

(* The one-time key that a step uses is the newest of the list.            *)
Next == LET new == spent'[Len(spent')] IN
        /\ spent' # <<>>
        /\ new[1] \in Keys
        /\ Sign(new[1], new[2])

Spec == Init /\ [][Next]_vars
=============================================================================
