----------------------------- MODULE MCRangeLoop -----------------------------
(* Four-bit element types, signed and unsigned, and the one-bit ones at the *)
(* edge, for TLC.                                                           *)
EXTENDS RangeLoop

MCTypes == {[half |-> h, signed |-> s] : h \in {1, 8}, s \in BOOLEAN}
=============================================================================
