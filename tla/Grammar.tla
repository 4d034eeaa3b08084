-------------------------------- MODULE Grammar --------------------------------
(****************************************************************************)
(* GRAMMAR.md, with no notion of reading a token ahead, of the longest      *)
(* match or of an error: from each position, all the positions behind a     *)
(* type, an expression, a statement ... that starts there.                  *)
(*                                                                          *)
(* Left out is what the source announces for later: struct, enum and use    *)
(* declarations (Parser.cpp:66, :69) and struct literals (Expr.hpp:23).     *)
(****************************************************************************)
EXTENDS Parser

Separators == {"Newline", "Semicolon"}

\* The positions behind a token of these kinds that stands at one of starts.
Token(starts, kinds) == {p + 1 : p \in {q \in starts : At(q) \in kinds}}

\* The positions behind a nonterminal, named as the parser's routine for it,
\* that starts at one of starts.
Behind(self, starts, nonterminal) == UNION {call(self, nonterminal, p) : p \in starts}

\* The positions behind any number of line breaks.
Breaks(starts) == {q \in Positions :
    \E p \in starts : p <= q /\ \A k \in p .. q - 1 : tokens[k] = "Newline"}

\* { part separator } part
Separated(self, one, list) == one \cup Behind(self, Token(one, {"Comma"}), list)

----------------------------------------------------------------------------
(* Sections 11 to 18.  Line breaks may surround the arguments of a generic. *)

typeEnds(self, i) ==
    LET amp  == Token({i}, {"&"})
        item == Behind(self, Token({i}, {"LeftBracket"}), TypeSyntax)
    IN  Token({i}, {"Identifier"})
        \cup Behind(self, amp \cup Token(amp, {"mut"}), TypeSyntax)
        \cup Token(Token({i}, {"LeftParen"}), {"RightParen"})
        \cup Token(item \cup Token(Token(item, {"Semicolon"}), {"IntegerLiteral"}), {"RightBracket"})
        \cup Token(Behind(self, Token(Token({i}, {"Identifier"}), {"<"}), TypeList), {">"})

typeListEnds(self, i) ==
    Separated(self, Breaks(Behind(self, Breaks({i}), TypeSyntax)), TypeList)

----------------------------------------------------------------------------
(* Sections 26 to 42 *)

expressionEnds(self, i) ==
    call(self, 1, i) \cup Behind(self, Token(call(self, 1, i), {"="}), Expression)

\* Sections 28 to 34; only a range does not repeat.
BinaryOperators == [tier \in 1..7 |->
    CASE tier = 1 -> {"||"}
      [] tier = 2 -> {"&&"}
      [] tier = 3 -> {"==", "!="}
      [] tier = 4 -> {"<", "<=", ">", ">="}
      [] tier = 5 -> {".."}
      [] tier = 6 -> {"+", "-"}
      [] tier = 7 -> {"*", "/", "%"}]

tierEnds(self, tier, i) == Behind(self, call(self, tier + 1, i), Rest(tier))

restEnds(self, tier, i) ==
    LET right == Behind(self, Token({i}, BinaryOperators[tier]), tier + 1)
    IN  {i} \cup (IF tier = 5 THEN right ELSE Behind(self, right, Rest(tier)))

primaryEnds(self, i) ==
    LET paren   == Token({i}, {"LeftParen"})
        bracket == Token({i}, {"LeftBracket"})
    IN  Token({i}, {"Identifier", "IntegerLiteral", "FloatLiteral", "StringLiteral", "CharLiteral",
                    "true", "false"})
        \cup Token(paren \cup Behind(self, paren, Expression), {"RightParen"})
        \cup Token(bracket \cup Behind(self, bracket, ExpressionList), {"RightBracket"})

suffixEnds(self, i) ==
    LET open == Token({i}, {"LeftParen"})
    IN  Token(open \cup Behind(self, open, ExpressionList), {"RightParen"})
        \cup Token(Behind(self, Token({i}, {"LeftBracket"}), Expression), {"RightBracket"})
        \cup Token(Token({i}, {"Dot"}), {"Identifier"})
        \cup Token({i}, {"?"})

unaryEnds(self, i) ==
    Behind(self, Token({i}, {"!", "-", "&"}) \cup Token(Token({i}, {"&"}), {"mut"}), UnaryTier)
    \cup Behind(self, primaryEnds(self, i), SuffixList)

----------------------------------------------------------------------------
(* Sections 6 and 19 to 25 *)

blockEnds(self, starts) ==
    Token(Behind(self, Token(starts, {"LeftBrace"}), StatementList), {"RightBrace"})

\* expression block
branchEnds(self, starts) == blockEnds(self, Behind(self, starts, Expression))

\* The statements without a block of their own.
simpleEnds(self, i) ==
    LET name   == Token(Token({i}, {"let", "mut"}), {"Identifier"})
        typed  == name \cup Behind(self, Token(name, {"Colon"}), TypeSyntax)
        return == Token({i}, {"return"})
    IN  call(self, Expression, i)
        \cup Behind(self, Token(typed, {"="}), Expression)
        \cup return \cup Behind(self, return, Expression)

\* The statements that end with a block, a block by itself among them.
compoundEnds(self, i) ==
    blockEnds(self, {i})
    \cup Behind(self, branchEnds(self, Token({i}, {"if"})), ElseList)
    \cup branchEnds(self, Token({i}, {"while"}))
    \cup branchEnds(self, Token(Token(Token({i}, {"for"}), {"Identifier"}), {"in"}))

\* { "else" "if" expression block } [ "else" block ], with line breaks
\* permitted before an "else" only.
elsesEnds(self, i) ==
    LET else == Token(Breaks({i}), {"else"})
    IN  {i} \cup blockEnds(self, else)
            \cup Behind(self, branchEnds(self, Token(else, {"if"})), ElseList)

\* A simple statement ends before a separator or the block's end.
statementsEnds(self, i) ==
    LET ended == {p \in simpleEnds(self, i) : At(p) \in Separators \cup {"RightBrace", "EndOfFile"}}
    IN  {i} \cup Behind(self, Token({i}, Separators) \cup ended \cup compoundEnds(self, i), StatementList)

----------------------------------------------------------------------------
(* Sections 7 to 10 *)

paramsEnds(self, i) ==
    Separated(self, Behind(self, Token(Token({i}, {"Identifier"}), {"Colon"}), TypeSyntax), ParamList)

declarationEnds(self, i) ==
    LET fn    == Token({i} \cup Token({i}, {"pub"}), {"fn"})
        open  == Token(Token(fn, {"Identifier"}), {"LeftParen"})
        close == Token(open \cup Behind(self, open, ParamList), {"RightParen"})
    IN  blockEnds(self, close \cup Behind(self, Token(close, {"->"}), TypeSyntax))

programEnds(self, i) ==
    {i} \cup Behind(self, Token({i}, Separators) \cup declarationEnds(self, i), DeclarationList)

----------------------------------------------------------------------------

produce(self, nonterminal, i) ==
    CASE nonterminal = Expression -> expressionEnds(self, i)
      [] nonterminal \in 1..7 -> tierEnds(self, nonterminal, i)
      [] nonterminal = UnaryTier -> unaryEnds(self, i)
      [] nonterminal = SuffixList -> {i} \cup Behind(self, suffixEnds(self, i), SuffixList)
      [] nonterminal = ExpressionList -> Separated(self, call(self, Expression, i), ExpressionList)
      [] nonterminal \in 11..17 -> restEnds(self, nonterminal - 10, i)
      [] nonterminal = TypeSyntax -> typeEnds(self, i)
      [] nonterminal = TypeList -> typeListEnds(self, i)
      [] nonterminal = StatementList -> statementsEnds(self, i)
      [] nonterminal = ElseList -> elsesEnds(self, i)
      [] nonterminal = ParamList -> paramsEnds(self, i)
      [] nonterminal = DeclarationList -> programEnds(self, i)

\* From a nonterminal and a position, the positions behind it.
derive[x \in Routines \X Positions] == produce(derive, x[1], x[2])

IsProgram == Len(tokens) + 1 \in call(derive, DeclarationList, 1)

=============================================================================
