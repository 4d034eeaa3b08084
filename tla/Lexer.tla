-------------------------------- MODULE Lexer --------------------------------
(****************************************************************************)
(* The lexer of one source file: every call of nextToken is one step.       *)
(*                                                                          *)
(* Positions count from 1, where the C++ offset counts from 0; a token has  *)
(* the positions of its first character and of the one after its last.      *)
(* CR and LF stand for the two control characters.                          *)
(****************************************************************************)
EXTENDS Integers, Sequences, FiniteSetsExt

CONSTANTS
    Sources,   \* the texts a file may hold
    Letters,   \* the letters and the underscore
    Digits,
    Keywords   \* function: the spelling of each keyword to its kind

CR == "CR"
LF == "LF"

Blank == {" ", "TAB"}

\* What scanOperatorOrPunctuation makes of one character and of two.
SingleKind ==
    [c \in {"+", "-", "*", "/", "%", "=", "!", "<", ">", "&", ".", "?",
            "(", ")", "{", "}", "[", "]", ",", ":", ";"} |-> c]

DoubleKind ==
    [p \in {<<"-", ">">>, <<"=", "=">>, <<"!", "=">>, <<"<", "=">>,
            <<">", "=">>, <<"&", "&">>, <<"|", "|">>, <<".", ".">>} |->
        CASE p[1] = "-" -> "->"
          [] p[1] = "=" -> "=="
          [] p[1] = "!" -> "!="
          [] p[1] = "<" -> "<="
          [] p[1] = ">" -> ">="
          [] p[1] = "&" -> "&&"
          [] p[1] = "|" -> "||"
          [] p[1] = "." -> ".."]

StringEscapes == {"n", "r", "t", "\\", "\"", "0"}
CharEscapes   == {"n", "r", "t", "\\", "'", "0"}

\* No letter or digit has another use, and a keyword's kind is its own.
ASSUME LexerAssumption ==
    /\ Sources \subseteq Seq(STRING)
    /\ Letters \cap Digits = {}
    /\ (Letters \cup Digits)
       \cap (DOMAIN SingleKind \cup Blank \cup {CR, LF, "\"", "'", "\\", "|", "NUL"}) = {}
    /\ \A k \in DOMAIN Keywords :
          /\ k \in Seq(Letters) /\ k # <<>>
          /\ Keywords[k] \notin DOMAIN SingleKind \cup {"Newline", "Invalid", "EndOfFile"}

VARIABLES
    buffer,
    offset,
    parenDepth,
    bracketDepth,
    tokens        \* history: the tokens handed to the parser

vars == <<buffer, offset, parenDepth, bracketDepth, tokens>>

Positions == 1 .. Len(buffer) + 1

isAtEnd(i) == i > Len(buffer)

CharAt(i) == IF isAtEnd(i) THEN "NUL" ELSE buffer[i]

peekNext(i) == CharAt(i + 1)

Lexeme(from, to) == SubSeq(buffer, from, to - 1)

Token(kind, from, to) == [kind |-> kind, from |-> from, to |-> to]

----------------------------------------------------------------------------
(* The scans inside a token *)

\* Where a run ends that is at i, or would be: a run is a set of positions.
EndOf(i, run) == Min({p \in i .. Len(buffer) + 1 : p \notin run})

isIdentifierContinue == {p \in DOMAIN buffer : buffer[p] \in Letters \cup Digits}

isDigit == {p \in DOMAIN buffer : buffer[p] \in Digits}

Malformed == isIdentifierContinue
             \cup {p \in DOMAIN buffer : buffer[p] \in {"+", "-"} /\ peekNext(p) \in Digits}

\* Fault: only a bare line feed ends a comment.
CommentToLineFeed == {p \in DOMAIN buffer : buffer[p] # LF}

Comment == {p \in DOMAIN buffer : buffer[p] # LF /\ ~(buffer[p] = CR /\ peekNext(p) = LF)}

Significant == parenDepth = 0 /\ bracketDepth = 0

Content(i) == [newline |-> FALSE, from |-> i, to |-> i]

NewlineAt(i, j) == [newline |-> TRUE, from |-> i, to |-> j]

skipTriviaAndMaybeNewline[i \in Positions] ==
    CASE isAtEnd(i) -> Content(i)
      [] CharAt(i) \in Blank -> skipTriviaAndMaybeNewline[i + 1]
      [] CharAt(i) = CR /\ peekNext(i) = LF ->
            IF Significant THEN NewlineAt(i, i + 2) ELSE skipTriviaAndMaybeNewline[i + 2]
      [] CharAt(i) = LF ->
            IF Significant THEN NewlineAt(i, i + 1) ELSE skipTriviaAndMaybeNewline[i + 1]
      [] CharAt(i) = CR /\ peekNext(i) # LF -> skipTriviaAndMaybeNewline[i + 1]
      [] CharAt(i) = "/" /\ peekNext(i) = "/" -> skipTriviaAndMaybeNewline[EndOf(i + 2, Comment)]
      [] OTHER -> Content(i)

\* One character or escape more, which is sound or not.
WithUnit(rest, ok) == [to |-> rest.to, valid |-> rest.valid /\ ok, units |-> rest.units + 1]

\* The body of a literal: where the scan stops, whether it was closed with
\* nothing wrong inside, and how many characters or escapes it held.
LiteralFrom(quote, escapes) ==
    LET from[i \in Positions] ==
          CASE isAtEnd(i) \/ CharAt(i) \in {LF, CR} -> [to |-> i, valid |-> FALSE, units |-> 0]
            [] CharAt(i) = quote -> [to |-> i + 1, valid |-> TRUE, units |-> 0]
            [] CharAt(i) = "\\" /\ isAtEnd(i + 1) -> [to |-> i + 1, valid |-> FALSE, units |-> 0]
            [] CharAt(i) = "\\" /\ ~isAtEnd(i + 1) ->
                  WithUnit(from[i + 2], peekNext(i) \in escapes)
            [] OTHER -> WithUnit(from[i + 1], TRUE)
    IN  from

----------------------------------------------------------------------------

Init ==
    /\ buffer \in Sources
    /\ offset = 1
    /\ parenDepth = 0
    /\ bracketDepth = 0
    /\ tokens = <<>>

AtEndOfFile == tokens # <<>> /\ tokens[Len(tokens)].kind = "EndOfFile"

\* A call hands out one token and leaves the cursor behind it.
Emit(kind, from, to) ==
    /\ tokens' = Append(tokens, Token(kind, from, to))
    /\ offset' = to
    /\ UNCHANGED buffer

Trivia == skipTriviaAndMaybeNewline[offset]

Start == Trivia.from

\* Fault: the end of the text is not looked for again behind the blanks.
eofTokenWithoutRecheck ==
    /\ ~AtEndOfFile
    /\ ~Trivia.newline
    /\ isAtEnd(offset)
    /\ Emit("EndOfFile", Len(buffer) + 1, Len(buffer) + 1)
    /\ UNCHANGED <<parenDepth, bracketDepth>>

\* The parser asks for no more tokens after the end of the file.
eofToken ==
    /\ ~AtEndOfFile
    /\ ~Trivia.newline
    /\ isAtEnd(Start)
    /\ Emit("EndOfFile", Len(buffer) + 1, Len(buffer) + 1)
    /\ UNCHANGED <<parenDepth, bracketDepth>>

Newline ==
    /\ Trivia.newline
    /\ Emit("Newline", Trivia.from, Trivia.to)
    /\ UNCHANGED <<parenDepth, bracketDepth>>

Scanning == ~Trivia.newline /\ ~isAtEnd(Start)

scanIdentifierOrKeyword ==
    /\ Scanning
    /\ CharAt(Start) \in Letters
    /\ LET to   == EndOf(Start, isIdentifierContinue)
           text == Lexeme(Start, to)
       IN  Emit(IF text \in DOMAIN Keywords THEN Keywords[text] ELSE "Identifier", Start, to)
    /\ UNCHANGED <<parenDepth, bracketDepth>>

\* Fault: a dot makes a float whatever follows it.
scanNumberTakingAnyDot ==
    /\ Scanning
    /\ CharAt(Start) \in Digits
    /\ LET whole   == EndOf(Start, isDigit)
           isFloat == CharAt(whole) = "."
           to      == IF isFloat THEN EndOf(whole + 1, isDigit) ELSE whole
       IN  IF CharAt(to) \in Letters
           THEN Emit("Invalid", Start, EndOf(to, Malformed))
           ELSE Emit(IF isFloat THEN "FloatLiteral" ELSE "IntegerLiteral", Start, to)
    /\ UNCHANGED <<parenDepth, bracketDepth>>

scanNumber ==
    /\ Scanning
    /\ CharAt(Start) \in Digits
    /\ LET whole   == EndOf(Start, isDigit)
           isFloat == CharAt(whole) = "." /\ peekNext(whole) \in Digits
           to      == IF isFloat THEN EndOf(whole + 1, isDigit) ELSE whole
       IN  IF CharAt(to) \in Letters
           THEN Emit("Invalid", Start, EndOf(to, Malformed))
           ELSE Emit(IF isFloat THEN "FloatLiteral" ELSE "IntegerLiteral", Start, to)
    /\ UNCHANGED <<parenDepth, bracketDepth>>

scanString ==
    /\ Scanning
    /\ CharAt(Start) = "\""
    /\ LET literal == LiteralFrom("\"", StringEscapes)[Start + 1]
       IN  Emit(IF literal.valid THEN "StringLiteral" ELSE "Invalid", Start, literal.to)
    /\ UNCHANGED <<parenDepth, bracketDepth>>

scanChar ==
    /\ Scanning
    /\ CharAt(Start) = "'"
    /\ LET literal == LiteralFrom("'", CharEscapes)[Start + 1]
       IN  Emit(IF literal.valid /\ literal.units = 1 THEN "CharLiteral" ELSE "Invalid",
                Start, literal.to)
    /\ UNCHANGED <<parenDepth, bracketDepth>>

\* Fault: a closing bracket is counted whether or not one is open.
DeeperUnclamped(depth, open, close) ==
    CASE CharAt(Start) = open -> depth + 1
      [] CharAt(Start) = close -> depth - 1
      [] OTHER -> depth

Deeper(depth, open, close) ==
    CASE CharAt(Start) = open -> depth + 1
      [] CharAt(Start) = close /\ depth > 0 -> depth - 1
      [] OTHER -> depth

scanOperatorOrPunctuation ==
    /\ Scanning
    /\ CharAt(Start) \notin Letters \cup Digits \cup {"\"", "'"}
    /\ LET pair == <<CharAt(Start), peekNext(Start)>>
       IN  IF pair \in DOMAIN DoubleKind
           THEN Emit(DoubleKind[pair], Start, Start + 2)
           ELSE Emit(IF CharAt(Start) \in DOMAIN SingleKind THEN SingleKind[CharAt(Start)] ELSE "Invalid",
                     Start, Start + 1)
    /\ parenDepth' = Deeper(parenDepth, "(", ")")
    /\ bracketDepth' = Deeper(bracketDepth, "[", "]")

nextToken ==
    \/ eofToken
    \/ Newline
    \/ scanIdentifierOrKeyword
    \/ scanNumber
    \/ scanString
    \/ scanChar
    \/ scanOperatorOrPunctuation

\* The parser is the only caller and calls until it has the end of the file.
Spec == Init /\ [][nextToken]_vars /\ WF_vars(nextToken)

----------------------------------------------------------------------------
(* What GRAMMAR.md says of the lexemes, stated on whole texts *)

Interior(s) == 2 .. Len(s) - 1

AllIn(s, chars) == \A i \in DOMAIN s : s[i] \in chars

\* Some of the interior's characters start an escape; the rest stand for themselves.
Escaped(s, quote, escapes) == {starts \in SUBSET Interior(s) :
    /\ \A i \in starts : s[i] = "\\" /\ i + 1 \in Interior(s) \ starts /\ s[i + 1] \in escapes
    /\ \A i \in Interior(s) : i \notin starts /\ i - 1 \notin starts
          => s[i] \notin {quote, "\\", CR, LF}}

Quoted(s, quote) == Len(s) >= 2 /\ s[1] = quote /\ s[Len(s)] = quote

IsIdentifier(s) == s # <<>> /\ s[1] \in Letters /\ AllIn(s, Letters \cup Digits)

IsInteger(s) == s # <<>> /\ AllIn(s, Digits)

IsFloat(s) == \E dot \in Interior(s) :
    /\ s[dot] = "."
    /\ \A i \in DOMAIN s : i # dot => s[i] \in Digits

IsString(s) == Quoted(s, "\"") /\ Escaped(s, "\"", StringEscapes) # {}

IsChar(s) == Quoted(s, "'") /\ \E starts \in Escaped(s, "'", CharEscapes) : Len(s) - 2 - Cardinality(starts) = 1

Grammatical(s, kind) ==
    \/ s \in DOMAIN Keywords /\ kind = Keywords[s]
    \/ IsIdentifier(s) /\ s \notin DOMAIN Keywords /\ kind = "Identifier"
    \/ IsInteger(s) /\ kind = "IntegerLiteral"
    \/ IsFloat(s) /\ kind = "FloatLiteral"
    \/ IsString(s) /\ kind = "StringLiteral"
    \/ IsChar(s) /\ kind = "CharLiteral"
    \/ s \in DOMAIN DoubleKind /\ kind = DoubleKind[s]
    \/ Len(s) = 1 /\ s[1] \in DOMAIN SingleKind /\ kind = SingleKind[s[1]]

Kinds ==
    {"Identifier", "IntegerLiteral", "FloatLiteral", "StringLiteral", "CharLiteral"}
    \cup {Keywords[k] : k \in DOMAIN Keywords}
    \cup {SingleKind[c] : c \in DOMAIN SingleKind} \cup {DoubleKind[p] : p \in DOMAIN DoubleKind}

\* Where the lexemes that begin at a position end.
LexemeEnds(from) ==
    {to \in from + 1 .. Len(buffer) + 1 : \E kind \in Kinds : Grammatical(Lexeme(from, to), kind)}

----------------------------------------------------------------------------
(* Properties *)

Read == {n \in DOMAIN tokens : tokens[n].kind # "EndOfFile"}

TokenEnd(n) == IF n = 0 THEN 1 ELSE tokens[n].to

\* The brackets open after the first n tokens: the most that some run of
\* tokens ending there opens and does not close.
Unclosed(open, close, n) ==
    LET Excess(k) == Cardinality({i \in k .. n : tokens[i].kind = open})
                     - Cardinality({i \in k .. n : tokens[i].kind = close})
    IN  Max({Excess(k) : k \in 1 .. n + 1})

InsideBrackets(n) == Unclosed("(", ")", n) > 0 \/ Unclosed("[", "]", n) > 0

Before(p) == IF p > 1 THEN buffer[p - 1] ELSE "NUL"

InLineComment(p, from) == \E q \in from .. p :
    /\ buffer[q] = "/" /\ peekNext(q) = "/"
    /\ \A i \in q .. p : buffer[i] # LF

\* The tokens follow each other through the text, none is empty but the end
\* of the file, and what lies between two of them is blanks, comments and
\* the line breaks inside brackets: no character is lost and none is read
\* twice (Lexer.hpp:19, "advanced the cursor by at least one byte").
TokensTileTheText == \A n \in DOMAIN tokens :
    /\ TokenEnd(n - 1) <= tokens[n].from
    /\ tokens[n].kind = "EndOfFile" \/ tokens[n].from < tokens[n].to
    /\ \A p \in TokenEnd(n - 1) .. tokens[n].from - 1 :
          \/ buffer[p] \in Blank \cup {CR}
          \/ buffer[p] = LF /\ InsideBrackets(n - 1)
          \/ InLineComment(p, TokenEnd(n - 1))

\* Every valid token is the longest lexeme of GRAMMAR.md that begins where it
\* does, and has that lexeme's kind; a text is Invalid only when no lexeme
\* begins there or a number runs into a letter.
LexemesOfTheGrammar == \A n \in Read :
    LET token == tokens[n]
        ends  == LexemeEnds(token.from)
    IN  CASE token.kind = "Newline" -> Lexeme(token.from, token.to) \in {<<LF>>, <<CR, LF>>}
          [] token.kind = "Invalid" ->
                ends = {} \/ (CharAt(token.from) \in Digits /\ CharAt(Max(ends)) \in Letters)
          [] OTHER -> /\ token.to = Max(ends)
                      /\ Grammatical(Lexeme(token.from, token.to), token.kind)

\* A line break that has been read is the end of a Newline token exactly when
\* no parenthesis or bracket is open; one is lost only behind a backslash in a
\* literal that is then Invalid.  A CR is separated from its LF only there.
LineBreaksEndStatements == \A p \in 1 .. offset - 1 : buffer[p] = LF =>
    \/ \E n \in Read :
          /\ tokens[n].kind = "Newline"
          /\ tokens[n].to = p + 1
          /\ ~InsideBrackets(n - 1)
          /\ Before(p) = CR => \/ tokens[n].from = p - 1
                               \/ /\ n > 1
                                  /\ tokens[n - 1].kind = "Invalid"
                                  /\ tokens[n - 1].to = p
                                  /\ Before(p - 1) = "\\"
    \/ \E n \in DOMAIN tokens :
          /\ TokenEnd(n - 1) <= p /\ p < tokens[n].from
          /\ InsideBrackets(n - 1)
    \/ \E n \in Read :
          /\ tokens[n].kind = "Invalid"
          /\ tokens[n].from < p /\ p < tokens[n].to
          /\ Before(p) = "\\"

\* Whatever the text, the calls reach the end of the file.
ReachesEndOfFile == <>AtEndOfFile

=============================================================================
