---------------------------- MODULE MCIndexAccess ----------------------------
(* Widths for TLC: two-bit and three-bit types under a four-bit word, and   *)
(* types as wide as the word; literals have three bits.                     *)
EXTENDS IndexAccess

MCTypes == {[half |-> h, signed |-> s] : h \in {2, 4, 8}, s \in BOOLEAN}

MCLiteralType == [half |-> 4, signed |-> TRUE]
=============================================================================
