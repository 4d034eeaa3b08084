---------------------------- MODULE HalfOpenRange ----------------------------
(****************************************************************************)
(* What a for loop over first..last promises, over the integers: both       *)
(* bounds are fixed once, before the first iteration, and the body then     *)
(* sees first, first + 1, ..., last - 1 in that order and no other value,   *)
(* unless the body returns.                                                 *)
(****************************************************************************)
EXTENDS Integers

VARIABLES
    state,   \* "before", "between" two iterations, "inBody", "finished", "left"
    at,      \* the value the next or the current iteration sees
    upTo     \* the bound it stays below

vars == <<state, at, upTo>>

Init == state = "before" /\ at = 0 /\ upTo = 0

Begin ==
    /\ state = "before"
    /\ state' = "between"
    /\ at' \in Int
    /\ upTo' \in Int

Iterate ==
    /\ state = "between" /\ at < upTo
    /\ state' = "inBody"
    /\ UNCHANGED <<at, upTo>>

Advance ==
    /\ state = "inBody"
    /\ state' = "between"
    /\ at' = at + 1
    /\ UNCHANGED upTo

Leave ==
    /\ state = "inBody"
    /\ state' = "left"
    /\ UNCHANGED <<at, upTo>>

Finish ==
    /\ state = "between" /\ ~(at < upTo)
    /\ state' = "finished"
    /\ UNCHANGED <<at, upTo>>

Next == Begin \/ Iterate \/ Advance \/ Leave \/ Finish

Spec == Init /\ [][Next]_vars
=============================================================================
