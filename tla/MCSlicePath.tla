----------------------------- MODULE MCSlicePath -----------------------------
(* Values for the constants of SlicePath. *)
EXTENDS SlicePath, TLC

CONSTANTS x, s, t

MCParams == {x}
OneLocal == {s}
TwoLocals == {s, t}
Symmetry == Permutations(TwoLocals)

\* A rejected function is not run, so nothing but types is claimed of it: the
\* walk is followed up to and including the first error.
NotYetRejected == ~rejected
=============================================================================
