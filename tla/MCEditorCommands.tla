--------------------------- MODULE MCEditorCommands ---------------------------
EXTENDS EditorCommands, TLC

CONSTANTS p1, p2, a

OneFile == {(p1 :> a) @@ (p2 :> a)}

\* The two commands may be exchanged.
Exchange == Permutations(Process)
=============================================================================
