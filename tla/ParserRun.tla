------------------------------ MODULE ParserRun ------------------------------
(****************************************************************************)
(* The files the parser is run on, token by token as somebody types them.   *)
(* A file grows from a start, over an alphabet of tokens, while the parser  *)
(* still asks for more; and at any point it may be finished off with one of *)
(* a few endings, whatever the parser says of it.                           *)
(****************************************************************************)
EXTENDS Grammar

CONSTANT
    Families   \* records: how the files start, the alphabet, how many tokens of it, how they end

\* The end of the file is the lexer's last token, and only that.
IsText(kinds) == kinds \in Seq(STRING) /\ \A k \in DOMAIN kinds : kinds[k] # "EndOfFile"

ASSUME ParserRunAssumption ==
    \A f \in Families :
        /\ f.length \in Nat
        /\ IsText(f.start)
        /\ \A token \in f.alphabet : token \in STRING /\ token # "EndOfFile"
        /\ \A ending \in f.endings : IsText(ending)

VARIABLES family, finished

vars == <<tokens, family, finished>>

Init ==
    /\ family \in Families
    /\ tokens = family.start
    /\ finished = FALSE

Result == parseSourceFile

Open(kind) == Cardinality({k \in DOMAIN tokens : tokens[k] = kind})

\* No Newline token comes from inside parentheses or brackets: what
\* Lexer!LineBreaksEndStatements says of the lexer, while the brackets match.
InsideBrackets == Open("LeftParen") > Open("RightParen") \/ Open("LeftBracket") > Open("RightBracket")

Type ==
    /\ ~finished
    /\ Len(tokens) < Len(family.start) + family.length
    /\ reached(Result) > Len(tokens)
    /\ \E token \in family.alphabet :
          /\ token = "Newline" => ~InsideBrackets
          /\ tokens' = Append(tokens, token)
    /\ UNCHANGED <<family, finished>>

Finish ==
    /\ ~finished
    /\ \E ending \in family.endings : tokens' = tokens \o ending
    /\ finished' = TRUE
    /\ UNCHANGED family

Next == Type \/ Finish

Spec == Init /\ [][Next]_vars

----------------------------------------------------------------------------

\* A block is a statement by itself: before its brace is another brace or a
\* separator, and what may follow those is a statement.
HasBareBlock ==
    \E k \in 2 .. Len(tokens) :
        At(k) = "LeftBrace" /\ At(k - 1) \in Separators \cup {"LeftBrace", "RightBrace"}

\* The parser accepts nothing but what GRAMMAR.md derives, and it reports an
\* error in none of that, except where a block is a statement by itself: for
\* that one production of section 20 parseStatement has no case.
AcceptsTheGrammar ==
    /\ Accepted(Result) => IsProgram
    /\ IsProgram /\ ~HasBareBlock => Accepted(Result)

=============================================================================
