-------------------------------- MODULE Parser --------------------------------
(****************************************************************************)
(* The recursive-descent parser, one operator per function.  Each takes the *)
(* position of the current token and gives back either what it built and    *)
(* the position after it, or the first error and where it is: there is one  *)
(* token of lookahead, no backtracking and no recovery.                     *)
(*                                                                          *)
(* A token is its kind: a keyword or an operator as it is spelled, anything *)
(* else by its TokenKind.  A node has the positions of its first and its    *)
(* last token, which are the span the parser gives it.                      *)
(*                                                                          *)
(* The functions call each other, so they are one function in the end:      *)
(* parse, from a routine and a position to what the routine gives back.     *)
(* Every operator that calls a routine takes that function, as self.  Where *)
(* the code loops and appends to what it has, the rest of the loop is a     *)
(* routine that gives back the rest of the list.                            *)
(****************************************************************************)
EXTENDS Integers, Sequences, FiniteSetsExt, SequencesExt

VARIABLE tokens   \* what the lexer hands out before the end of the file

Positions == 1 .. Len(tokens) + 1

At(p) == IF p > Len(tokens) THEN "EndOfFile" ELSE tokens[p]

Parsed(value, p) == [error |-> "none", value |-> value, at |-> p]

fail(kind, p) == [error |-> IF At(p) = "Invalid" THEN "InvalidToken" ELSE kind, at |-> p]

Accepted(result) == result.error = "none"

built(result) == result.value

reached(result) == result.at

\* `if (!result) return std::unexpected(result.error())`, and on.
Then(result, Continue(_, _)) ==
    IF Accepted(result) THEN Continue(built(result), reached(result)) ELSE result

call(self, routine, p) == self[<<routine, p>>]

\* The value of a token is its position.
expect(kind, p) == IF At(p) = kind THEN Parsed(p, p + 1) ELSE fail("UnexpectedToken", p)

Skip(kinds, p) == Min({q \in p .. Len(tokens) + 1 : At(q) \notin kinds})

skipSeparators(p) == Skip({"Newline", "Semicolon"}, p)

\* Fault: a semicolon is passed over where only line breaks are.
skipNewlinesAndSemicolons(p) == skipSeparators(p)

skipNewlines(p) == Skip({"Newline"}, p)

Terminators == {"Newline", "Semicolon", "RightBrace", "EndOfFile"}

\* The check at the end of a statement that has no block.
terminated(statement, p) ==
    IF At(p) \in Terminators THEN Parsed(statement, p) ELSE fail("UnexpectedToken", p)

----------------------------------------------------------------------------
(* The routines.  1 to 7 are the tiers of the binary operators. *)

Expression     == 0
UnaryTier      == 8
SuffixList     == 9
ExpressionList == 10
Rest(tier)     == 10 + tier   \* the loop of a tier
TypeSyntax     == 18
TypeList       == 19
StatementList  == 20
ElseList       == 21
ParamList      == 22
DeclarationList == 23

Routines == Expression .. DeclarationList

----------------------------------------------------------------------------
(* Types *)

NamedType(name) == [node |-> "NamedType", from |-> name, to |-> name]

UnitType(from, to) == [node |-> "UnitType", from |-> from, to |-> to]

GenericType(name, arguments, to) ==
    [node |-> "GenericType", from |-> name, to |-> to, arguments |-> arguments]

ReferenceType(mutable, from, referent) ==
    [node |-> "ReferenceType", from |-> from, to |-> referent.to, mutable |-> mutable,
     referent |-> referent]

SliceType(from, element, to) == [node |-> "SliceType", from |-> from, to |-> to, element |-> element]

ArrayType(from, element, length, to) ==
    [node |-> "ArrayType", from |-> from, to |-> to, element |-> element, length |-> length]

\* The loop over the arguments of a generic type, from before an argument.
parseTypeList(self, p) ==
    Then(call(self, TypeSyntax, skipNewlines(p)), LAMBDA argument, q :
        LET r == skipNewlines(q)
        IN  IF At(r) = "Comma"
            THEN Then(call(self, TypeList, r + 1), LAMBDA others, s : Parsed(<<argument>> \o others, s))
            ELSE Parsed(<<argument>>, r))

parseGenericTypeSyntax(self, name) ==
    Then(call(self, TypeList, name + 2), LAMBDA arguments, q :
    Then(expect(">", q), LAMBDA greater, r :
        Parsed(GenericType(name, arguments, greater), r)))

parseReferenceTypeSyntax(self, amp) ==
    LET mutable == At(amp + 1) = "mut"
    IN  Then(call(self, TypeSyntax, IF mutable THEN amp + 2 ELSE amp + 1), LAMBDA referent, q :
            Parsed(ReferenceType(mutable, amp, referent), q))

parseBracketTypeSyntax(self, open) ==
    Then(call(self, TypeSyntax, open + 1), LAMBDA element, q :
        IF At(q) = "Semicolon"
        THEN Then(expect("IntegerLiteral", q + 1), LAMBDA length, r :
             Then(expect("RightBracket", r), LAMBDA close, s :
                Parsed(ArrayType(open, element, length, close), s)))
        ELSE Then(expect("RightBracket", q), LAMBDA close, r :
                Parsed(SliceType(open, element, close), r)))

parseTypeSyntax(self, p) ==
    CASE At(p) = "&" -> parseReferenceTypeSyntax(self, p)
      [] At(p) = "LeftBracket" -> parseBracketTypeSyntax(self, p)
      [] At(p) = "LeftParen" ->
            Then(expect("RightParen", p + 1), LAMBDA close, q : Parsed(UnitType(p, close), q))
      [] OTHER -> Then(expect("Identifier", p), LAMBDA name, q :
                    IF At(q) = "<"
                    THEN parseGenericTypeSyntax(self, name)
                    ELSE Parsed(NamedType(name), q))

----------------------------------------------------------------------------
(* Expressions *)

\* The binary operators, loosest first; the range operator does not repeat.
Tiers == <<{"||"}, {"&&"}, {"==", "!="}, {"<", "<=", ">", ">="}, {".."}, {"+", "-"}, {"*", "/", "%"}>>

RangeTier == 5

Literals == {"IntegerLiteral", "FloatLiteral", "StringLiteral", "CharLiteral", "true", "false"}

Atom(node, p) == [node |-> node, from |-> p, to |-> p]

UnitExpr(from, to) == [node |-> "Unit", from |-> from, to |-> to]

Paren(from, inner, to) == [node |-> "Paren", from |-> from, to |-> to, inner |-> inner]

ArrayLiteral(from, elements, to) ==
    [node |-> "ArrayLiteral", from |-> from, to |-> to, elements |-> elements]

Call(callee, arguments, to) ==
    [node |-> "Call", from |-> callee.from, to |-> to, callee |-> callee, arguments |-> arguments]

Index(object, index, to) ==
    [node |-> "Index", from |-> object.from, to |-> to, object |-> object, index |-> index]

Member(object, name) == [node |-> "Member", from |-> object.from, to |-> name, object |-> object]

ErrorPropagation(operand, to) ==
    [node |-> "ErrorPropagation", from |-> operand.from, to |-> to, operand |-> operand]

Unary(op, from, operand) ==
    [node |-> "Unary", op |-> op, from |-> from, to |-> operand.to, operand |-> operand]

Binary(op, left, right) ==
    [node |-> "Binary", op |-> op, from |-> left.from, to |-> right.to, left |-> left, right |-> right]

Assignment(target, value) ==
    [node |-> "Assignment", from |-> target.from, to |-> value.to, target |-> target, value |-> value]

\* The loop of parseArgumentList and of parseArrayLiteral.
parseExpressionList(self, p) ==
    Then(call(self, Expression, p), LAMBDA expr, q :
        IF At(q) = "Comma"
        THEN Then(call(self, ExpressionList, q + 1), LAMBDA others, r : Parsed(<<expr>> \o others, r))
        ELSE Parsed(<<expr>>, q))

parseUnlessClosed(self, close, p) ==
    IF At(p) = close THEN Parsed(<<>>, p) ELSE call(self, ExpressionList, p)

parseParenExpression(self, open) ==
    IF At(open + 1) = "RightParen"
    THEN Parsed(UnitExpr(open, open + 1), open + 2)
    ELSE Then(call(self, Expression, open + 1), LAMBDA inner, q :
         Then(expect("RightParen", q), LAMBDA close, r : Parsed(Paren(open, inner, close), r)))

parseArrayLiteral(self, open) ==
    Then(parseUnlessClosed(self, "RightBracket", open + 1), LAMBDA elements, q :
    Then(expect("RightBracket", q), LAMBDA close, r : Parsed(ArrayLiteral(open, elements, close), r)))

parsePrimary(self, p) ==
    CASE At(p) = "Identifier" -> Parsed(Atom("Identifier", p), p + 1)
      [] At(p) \in Literals -> Parsed(Atom("Literal", p), p + 1)
      [] At(p) = "LeftParen" -> parseParenExpression(self, p)
      [] At(p) = "LeftBracket" -> parseArrayLiteral(self, p)
      [] OTHER -> fail("UnexpectedToken", p)

\* A suffix is what it makes of the expression before it.
parseCallSuffix(self, open) ==
    Then(parseUnlessClosed(self, "RightParen", open + 1), LAMBDA arguments, q :
    Then(expect("RightParen", q), LAMBDA close, r :
        Parsed([node |-> "Call", arguments |-> arguments, to |-> close], r)))

parseIndexSuffix(self, open) ==
    Then(call(self, Expression, open + 1), LAMBDA index, q :
    Then(expect("RightBracket", q), LAMBDA close, r :
        Parsed([node |-> "Index", index |-> index, to |-> close], r)))

parseMemberSuffix(dot) ==
    Then(expect("Identifier", dot + 1), LAMBDA name, q : Parsed([node |-> "Member", to |-> name], q))

Suffixed(expr, suffix) ==
    CASE suffix.node = "Call" -> Call(expr, suffix.arguments, suffix.to)
      [] suffix.node = "Index" -> Index(expr, suffix.index, suffix.to)
      [] suffix.node = "Member" -> Member(expr, suffix.to)
      [] suffix.node = "ErrorPropagation" -> ErrorPropagation(expr, suffix.to)

SuffixStarts == {"LeftParen", "LeftBracket", "Dot", "?"}

parseSuffix(self, p) ==
    CASE At(p) = "LeftParen" -> parseCallSuffix(self, p)
      [] At(p) = "LeftBracket" -> parseIndexSuffix(self, p)
      [] At(p) = "Dot" -> parseMemberSuffix(p)
      [] At(p) = "?" -> Parsed([node |-> "ErrorPropagation", to |-> p], p + 1)

\* The loop of parsePostfixExpression.
parsePostfix(self, p) ==
    IF At(p) \notin SuffixStarts
    THEN Parsed(<<>>, p)
    ELSE Then(parseSuffix(self, p), LAMBDA suffix, q :
         Then(call(self, SuffixList, q), LAMBDA others, r : Parsed(<<suffix>> \o others, r)))

parseUnary(self, p) ==
    IF At(p) \notin {"!", "-", "&"}
    THEN Then(parsePrimary(self, p), LAMBDA primary, q :
         Then(call(self, SuffixList, q), LAMBDA suffixes, r :
            Parsed(FoldLeft(Suffixed, primary, suffixes), r)))
    ELSE LET refMut == At(p) = "&" /\ At(p + 1) = "mut"
             op     == IF refMut THEN "&mut" ELSE At(p)
         IN  Then(call(self, UnaryTier, IF refMut THEN p + 2 ELSE p + 1), LAMBDA operand, q :
                Parsed(Unary(op, p, operand), q))

Extended(left, operation) == Binary(operation.op, left, operation.right)

\* parseLogicalOr and the functions below it, down to parseMultiplicative.
parseTier(self, tier, p) ==
    Then(call(self, tier + 1, p), LAMBDA left, q :
    Then(call(self, Rest(tier), q), LAMBDA operations, r :
        Parsed(FoldLeft(Extended, left, operations), r)))

\* Fault: the right operand is read at the operator's own tier.
continueTierToTheRight(self, tier, p) ==
    IF At(p) \notin Tiers[tier]
    THEN Parsed(<<>>, p)
    ELSE Then(call(self, tier, p + 1), LAMBDA right, q : Parsed(<<[op |-> At(p), right |-> right]>>, q))

continueTier(self, tier, p) ==
    IF At(p) \notin Tiers[tier]
    THEN Parsed(<<>>, p)
    ELSE Then(call(self, tier + 1, p + 1), LAMBDA right, q :
            LET operation == [op |-> At(p), right |-> right]
            IN  IF tier = RangeTier
                THEN Parsed(<<operation>>, q)
                ELSE Then(call(self, Rest(tier), q), LAMBDA others, r :
                        Parsed(<<operation>> \o others, r)))

\* parseAssignment
parseExpression(self, p) ==
    Then(call(self, 1, p), LAMBDA left, q :
        IF At(q) = "="
        THEN Then(call(self, Expression, q + 1), LAMBDA value, r : Parsed(Assignment(left, value), r))
        ELSE Parsed(left, q))

----------------------------------------------------------------------------
(* Statements *)

Block(from, statements, to) ==
    [node |-> "Block", from |-> from, to |-> to, statements |-> statements]

ExprStmt(expr) == [node |-> "ExprStmt", from |-> expr.from, to |-> expr.to, expr |-> expr]

\* An optional part is a sequence of at most one.
VarDecl(from, mutable, type, initializer) ==
    [node |-> "VarDecl", from |-> from, to |-> initializer.to, mutable |-> mutable, type |-> type,
     initializer |-> initializer]

Return(from, value) ==
    [node |-> "Return", from |-> from, to |-> IF value = <<>> THEN from ELSE value[1].to,
     value |-> value]

Branch(from, condition, body) ==
    [node |-> "Branch", from |-> from, to |-> body.to, condition |-> condition, body |-> body]

Else(from, body) == [node |-> "Else", from |-> from, to |-> body.to, body |-> body]

If(branches, final) ==
    [node |-> "If", from |-> branches[1].from,
     to |-> IF final = <<>> THEN branches[Len(branches)].to ELSE final[1].to,
     branches |-> branches, final |-> final]

While(from, condition, body) ==
    [node |-> "While", from |-> from, to |-> body.to, condition |-> condition, body |-> body]

For(from, iterable, body) ==
    [node |-> "For", from |-> from, to |-> body.to, iterable |-> iterable, body |-> body]

\* A function without a type annotation or a return type: nothing is parsed.
parseTypeAfter(self, kind, p) ==
    IF At(p) = kind
    THEN Then(call(self, TypeSyntax, p + 1), LAMBDA type, q : Parsed(<<type>>, q))
    ELSE Parsed(<<>>, p)

parseBlock(self, p) ==
    Then(expect("LeftBrace", p), LAMBDA open, q :
    Then(call(self, StatementList, q), LAMBDA statements, r :
    Then(expect("RightBrace", r), LAMBDA close, s : Parsed(Block(open, statements, close), s))))

parseVarDeclStmt(self, keyword) ==
    Then(expect("Identifier", keyword + 1), LAMBDA name, q :
    Then(parseTypeAfter(self, "Colon", q), LAMBDA type, r :
    Then(expect("=", r), LAMBDA equal, s :
    Then(call(self, Expression, s), LAMBDA initializer, t :
        terminated(VarDecl(keyword, At(keyword) = "mut", type, initializer), t)))))

parseReturnStmt(self, keyword) ==
    IF At(keyword + 1) \in Terminators
    THEN Parsed(Return(keyword, <<>>), keyword + 1)
    ELSE Then(call(self, Expression, keyword + 1), LAMBDA value, q :
            terminated(Return(keyword, <<value>>), q))

\* The loop of parseIfStmt, from behind a branch: the other branches.
parseElses(self, p) ==
    LET else == skipNewlines(p)
    IN  CASE At(else) # "else" -> Parsed([branches |-> <<>>, final |-> <<>>], else)
          [] At(else) = "else" /\ At(else + 1) = "if" ->
                Then(call(self, Expression, else + 2), LAMBDA condition, q :
                Then(parseBlock(self, q), LAMBDA body, r :
                Then(call(self, ElseList, r), LAMBDA others, s :
                    Parsed([others EXCEPT !.branches = <<Branch(else, condition, body)>> \o @], s))))
          [] OTHER ->
                Then(parseBlock(self, else + 1), LAMBDA body, q :
                    Parsed([branches |-> <<>>, final |-> <<Else(else, body)>>], q))

parseIfStmt(self, keyword) ==
    Then(call(self, Expression, keyword + 1), LAMBDA condition, q :
    Then(parseBlock(self, q), LAMBDA body, r :
    Then(call(self, ElseList, r), LAMBDA others, s :
        Parsed(If(<<Branch(keyword, condition, body)>> \o others.branches, others.final), s))))

parseWhileStmt(self, keyword) ==
    Then(call(self, Expression, keyword + 1), LAMBDA condition, q :
    Then(parseBlock(self, q), LAMBDA body, r : Parsed(While(keyword, condition, body), r)))

parseForStmt(self, keyword) ==
    Then(expect("Identifier", keyword + 1), LAMBDA variable, q :
    Then(expect("in", q), LAMBDA in, r :
    Then(call(self, Expression, r), LAMBDA iterable, s :
    Then(parseBlock(self, s), LAMBDA body, t : Parsed(For(keyword, iterable, body), t)))))

parseStatement(self, p) ==
    CASE At(p) \in {"let", "mut"} -> parseVarDeclStmt(self, p)
      [] At(p) = "return" -> parseReturnStmt(self, p)
      [] At(p) = "if" -> parseIfStmt(self, p)
      [] At(p) = "while" -> parseWhileStmt(self, p)
      [] At(p) = "for" -> parseForStmt(self, p)
      [] OTHER -> Then(call(self, Expression, p), LAMBDA expr, q : terminated(ExprStmt(expr), q))

\* The loop of parseBlock, from before the separators.
parseStatements(self, p) ==
    LET first == skipSeparators(p)
    IN  CASE At(first) = "RightBrace" -> Parsed(<<>>, first)
          [] At(first) = "EndOfFile" -> fail("UnexpectedToken", first)
          [] OTHER -> Then(parseStatement(self, first), LAMBDA statement, q :
                      Then(call(self, StatementList, q), LAMBDA others, r :
                        Parsed(<<statement>> \o others, r)))

----------------------------------------------------------------------------
(* Declarations *)

Param(name, type) == [node |-> "Param", from |-> name, to |-> type.to, type |-> type]

FunctionDecl(from, public, params, returnType, body) ==
    [node |-> "FunctionDecl", from |-> from, to |-> body.to, public |-> public, params |-> params,
     returnType |-> returnType, body |-> body]

SourceFile(declarations) == [node |-> "SourceFile", declarations |-> declarations]

parseParams(self, p) ==
    Then(expect("Identifier", p), LAMBDA name, q :
    Then(expect("Colon", q), LAMBDA colon, r :
    Then(call(self, TypeSyntax, r), LAMBDA type, s :
        IF At(s) = "Comma"
        THEN Then(call(self, ParamList, s + 1), LAMBDA others, t :
                Parsed(<<Param(name, type)>> \o others, t))
        ELSE Parsed(<<Param(name, type)>>, s))))

parseParamList(self, p) == IF At(p) = "RightParen" THEN Parsed(<<>>, p) ELSE call(self, ParamList, p)

\* parseFunctionDecl, up to the parenthesis behind the parameters.
parseSignature(self, p) ==
    Then(expect("fn", p), LAMBDA fn, q :
    Then(expect("Identifier", q), LAMBDA name, r :
    Then(expect("LeftParen", r), LAMBDA open, s :
    Then(parseParamList(self, s), LAMBDA params, t :
    Then(expect("RightParen", t), LAMBDA close, u : Parsed(params, u))))))

parseFunctionDecl(self, public, begin, p) ==
    Then(parseSignature(self, p), LAMBDA params, q :
    Then(parseTypeAfter(self, "->", q), LAMBDA returnType, r :
    Then(parseBlock(self, r), LAMBDA body, s :
        Parsed(FunctionDecl(begin, public, params, returnType, body), s))))

parseDeclaration(self, p) ==
    LET public == At(p) = "pub"
        q      == IF public THEN p + 1 ELSE p
    IN  CASE At(q) = "fn" -> parseFunctionDecl(self, public, p, q)
          [] At(q) \in {"struct", "enum", "use"} -> fail("UnsupportedSyntax", q)
          [] OTHER -> fail("UnexpectedToken", q)

\* The loop of parseSourceFile, from before the separators.
parseDeclarations(self, p) ==
    LET first == skipSeparators(p)
    IN  IF At(first) = "EndOfFile"
        THEN Parsed(<<>>, first)
        ELSE Then(parseDeclaration(self, first), LAMBDA declaration, q :
             Then(call(self, DeclarationList, q), LAMBDA others, r : Parsed(<<declaration>> \o others, r)))

----------------------------------------------------------------------------

run(self, routine, p) ==
    CASE routine = Expression -> parseExpression(self, p)
      [] routine \in DOMAIN Tiers -> parseTier(self, routine, p)
      [] routine = UnaryTier -> parseUnary(self, p)
      [] routine = SuffixList -> parsePostfix(self, p)
      [] routine = ExpressionList -> parseExpressionList(self, p)
      [] routine - 10 \in DOMAIN Tiers -> continueTier(self, routine - 10, p)
      [] routine = TypeSyntax -> parseTypeSyntax(self, p)
      [] routine = TypeList -> parseTypeList(self, p)
      [] routine = StatementList -> parseStatements(self, p)
      [] routine = ElseList -> parseElses(self, p)
      [] routine = ParamList -> parseParams(self, p)
      [] routine = DeclarationList -> parseDeclarations(self, p)

parse[task \in Routines \X Positions] == run(parse, task[1], task[2])

parseSourceFile ==
    Then(call(parse, DeclarationList, 1), LAMBDA declarations, p : Parsed(SourceFile(declarations), p))

=============================================================================
