----------------------------- MODULE FixedWindows ------------------------------
(***************************************************************************)
(* What a limiter of requests promises: from the first request on, a key   *)
(* lets a number of requests pass and no more until its window is over;    *)
(* every key has windows of its own.  Time is told by what is left of a    *)
(* window.                                                                 *)
(***************************************************************************)
EXTENDS Naturals

CONSTANTS
    Keys, Limit, Window         \* requests per window, and ticks of a window, by key
VARIABLES
    passed,             \* requests that passed in the window of a key
    left                \* what is left of it, 0 outside of a window

fwVars == <<passed, left>>

Pass(k) ==
    /\ IF left[k] = 0
       THEN passed' = [passed EXCEPT ![k] = 1] /\ left' = [left EXCEPT ![k] = Window[k]]
       ELSE passed[k] < Limit[k] /\ passed' = [passed EXCEPT ![k] = @ + 1] /\ UNCHANGED left

Tick ==
    /\ left' = [k \in Keys |-> IF left[k] = 0 THEN 0 ELSE left[k] - 1]
    /\ passed' = [k \in Keys |-> IF left'[k] = 0 THEN 0 ELSE passed[k]]

FWInit == passed = [k \in Keys |-> 0] /\ left = [k \in Keys |-> 0]
FWNext == Tick \/ \E k \in Keys : Pass(k)
FWSpec == FWInit /\ [][FWNext]_fwVars
=============================================================================
