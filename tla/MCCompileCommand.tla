--------------------------- MODULE MCCompileCommand ---------------------------
(* Output paths for TLC: two invocations that share one or have one each. *)
EXTENDS CompileCommand, TLC

CONSTANTS p1, p2, a, b

SharedOrOwn == {(p1 :> a) @@ (p2 :> a), (p1 :> a) @@ (p2 :> b)}
=============================================================================
