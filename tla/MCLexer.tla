------------------------------- MODULE MCLexer -------------------------------
(****************************************************************************)
(* The texts the lexer is run on: every text of up to three characters of   *)
(* all the kinds nextToken tells apart, and longer ones over the characters *)
(* that matter together: brackets and line breaks, the inside of literals,  *)
(* numbers, comments.                                                       *)
(****************************************************************************)
EXTENDS Lexer, SequencesExt

MCLetters == {"f", "n"}

MCDigits == {"0"}

MCKeywords == [k \in {<<"f", "n">>} |-> "KwFn"]

Every == {"f", "n", "0", " ", "CR", "LF", "/", "\"", "'", "\\", ".", "-", ">", "(", ")", "[", "]", "|"}

MCSources ==
    BoundedSeq(Every, 3)
    \cup BoundedSeq({"(", ")", "[", "]", "LF"}, 5)
    \cup BoundedSeq({"\"", "\\", "n", "LF", "CR"}, 5)
    \cup BoundedSeq({"'", "\\", "n", "LF"}, 5)
    \cup BoundedSeq({"0", ".", "n", "-"}, 5)
    \cup BoundedSeq({"/", "CR", "LF", "n", "("}, 5)
=============================================================================
