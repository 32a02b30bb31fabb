----------------------------- MODULE ForwardKey -----------------------------
(***************************************************************************)
(* What the seed tree promises, without the tree: a key for a sequence of  *)
(* periods that is in one period at a time and only ever loses periods.    *)
(* The key of the current period is forgotten first and the period moves   *)
(* on after that, so no state is in period p+1 while period p can still be *)
(* derived.                                                                *)
(***************************************************************************)
EXTENDS Integers

CONSTANT LastPeriod   \* a natural number: the periods are 0..LastPeriod

VARIABLES period,   \* the current period
          usable    \* the periods whose seed can be derived from the state

vars == <<period, usable>>

Init == /\ period = 0
        /\ usable = 0..LastPeriod

(* The seed of the current period is gone; later periods are untouched.    *)
Forget == /\ period \in usable
          /\ period < LastPeriod
          /\ usable' = usable \ {period}
          /\ UNCHANGED period

(* The key enters the next period.                                         *)
Move == /\ period \notin usable
        /\ period' = period + 1
        /\ UNCHANGED usable

Next == Forget \/ Move

Spec == Init /\ [][Next]_vars /\ WF_vars(Move)
=============================================================================
