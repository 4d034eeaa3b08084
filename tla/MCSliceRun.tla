------------------------------ MODULE MCSliceRun ------------------------------
(* Values for the constants of SliceRun. *)
EXTENDS SliceRun

CONSTANTS x, s, t

MCParams == {x}
OneLocal == {s}
TwoLocals == {s, t}

\* The walk is followed up to and including the first error.
NotYetRejected == ~rejected

\* Statements that follow a return of the function's own list are never run: the
\* walk stops there.
NoDeadTail ==
    \A i \in 1..(Len(code) - 1) : ~(code[i].op = "return" /\ code[i].level = 0)
=============================================================================
