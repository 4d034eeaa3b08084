----------------------------- MODULE ParserProofs -----------------------------
(****************************************************************************)
(* The parser for every file, whatever its tokens and however many.         *)
(*                                                                          *)
(* Its functions and the grammar's productions call each other at a later   *)
(* position, or at the same one in a fixed order of the routines (Before):  *)
(* so both are total, and each is what its body says (ParseUnfolds,         *)
(* DeriveUnfolds).  Along the same order, every routine of the parser reads *)
(* what its production derives (ParserReadsTheGrammar).                     *)
(*                                                                          *)
(* A production may end in several places, and the parser stops at one of   *)
(* them without having tried the others.  What makes that right is stated   *)
(* per routine: it stops at an end of the production, and at each end that  *)
(* is not followed by a token that could continue the production (Reads).   *)
(* What may follow a routine where it is called is never such a token,      *)
(* which is what one token of lookahead comes to.                           *)
(*                                                                          *)
(* Along the same order once more, every routine builds what stands for the *)
(* tokens it read (ParserBuildsTheText): a node over them, a list of nodes  *)
(* that leaves none of them out, or, for the loops of the operators, what   *)
(* makes a longer node of any that ends where the loop began.  Each node it *)
(* builds is as the tree is to be, all the way down (Whole), and no node is *)
(* as long as the one above it twice in a row: so the steps that are taken  *)
(* down a tree come to all its nodes (TreesAreTheText).                     *)
(****************************************************************************)
EXTENDS ParserContracts, FiniteSetTheorems, SequenceTheorems, WellFoundedInduction, TLAPS

----------------------------------------------------------------------------
(* What each function gives back, from what the functions it calls do *)

LEMMA ParsedShape ==
    ASSUME NEW value, NEW p
    PROVE  /\ Accepted(Parsed(value, p))
           /\ built(Parsed(value, p)) = value /\ reached(Parsed(value, p)) = p
  BY DEF Accepted, built, reached, Parsed

LEMMA FailShape ==
    ASSUME NEW p, NEW kind \in {"UnexpectedToken", "UnsupportedSyntax"}
    PROVE  ~Accepted(fail(kind, p))
  BY DEF Accepted, fail

LEMMA ExpectShape ==
    ASSUME NEW kind, NEW p
    PROVE  /\ Accepted(expect(kind, p)) <=> At(p) = kind
           /\ At(p) = kind => expect(kind, p) = Parsed(p, p + 1)
  BY ParsedShape, FailShape DEF expect

LEMMA TerminatedShape ==
    ASSUME NEW statement, NEW p
    PROVE  /\ Accepted(terminated(statement, p)) <=> At(p) \in Terminators
           /\ At(p) \in Terminators => reached(terminated(statement, p)) = p
  BY ParsedShape, FailShape DEF terminated

LEMMA ReferenceShape ==
    ASSUME NEW self, NEW p, NEW r, r = parseReferenceTypeSyntax(self, p)
    PROVE  LET a == call(self, TypeSyntax, IF At(p + 1) = "mut" THEN p + 2 ELSE p + 1)
           IN  /\ Accepted(r) <=> Accepted(a)
               /\ Accepted(r) => reached(r) = reached(a)
  BY ParsedShape DEF parseReferenceTypeSyntax, Then

LEMMA BracketShape ==
    ASSUME NEW self, NEW p, NEW r, r = parseBracketTypeSyntax(self, p)
    PROVE  LET a == call(self, TypeSyntax, p + 1)
           IN  /\ Accepted(r) <=> /\ Accepted(a)
                                  /\ IF At(reached(a)) = "Semicolon"
                                     THEN /\ At(reached(a) + 1) = "IntegerLiteral"
                                          /\ At(reached(a) + 1 + 1) = "RightBracket"
                                     ELSE At(reached(a)) = "RightBracket"
               /\ Accepted(r) =>
                    reached(r) = IF At(reached(a)) = "Semicolon"
                                 THEN reached(a) + 1 + 1 + 1
                                 ELSE reached(a) + 1
<1> DEFINE a == call(self, TypeSyntax, p + 1)
<1>1. CASE At(reached(a)) = "Semicolon"
  BY <1>1, ParsedShape, ExpectShape DEF parseBracketTypeSyntax, Then
<1>2. CASE At(reached(a)) # "Semicolon"
  BY <1>2, ParsedShape, ExpectShape DEF parseBracketTypeSyntax, Then
<1> QED
  BY <1>1, <1>2

LEMMA GenericShape ==
    ASSUME NEW self, NEW name, NEW r, r = parseGenericTypeSyntax(self, name)
    PROVE  LET a == call(self, TypeList, name + 2)
           IN  /\ Accepted(r) <=> Accepted(a) /\ At(reached(a)) = ">"
               /\ Accepted(r) => reached(r) = reached(a) + 1
  BY ParsedShape, ExpectShape DEF parseGenericTypeSyntax, Then

LEMMA TypeShape ==
    ASSUME NEW self, NEW p, NEW r, r = parseTypeSyntax(self, p)
    PROVE  /\ At(p) = "&" => r = parseReferenceTypeSyntax(self, p)
           /\ At(p) = "LeftBracket" => r = parseBracketTypeSyntax(self, p)
           /\ At(p) = "LeftParen" => (Accepted(r) <=> At(p + 1) = "RightParen")
           /\ At(p) = "LeftParen" /\ Accepted(r) => reached(r) = p + 1 + 1
           /\ At(p) = "Identifier" /\ At(p + 1) = "<" => r = parseGenericTypeSyntax(self, p)
           /\ At(p) = "Identifier" /\ At(p + 1) # "<" => Accepted(r) /\ reached(r) = p + 1
           /\ Accepted(r) => At(p) \in {"&", "LeftBracket", "LeftParen", "Identifier"}
<1>1. At(p) = "LeftParen" => /\ Accepted(r) <=> At(p + 1) = "RightParen"
                             /\ Accepted(r) => reached(r) = p + 1 + 1
  BY ParsedShape, ExpectShape DEF parseTypeSyntax, Then
<1>2. /\ At(p) = "Identifier" /\ At(p + 1) = "<" => r = parseGenericTypeSyntax(self, p)
      /\ At(p) = "Identifier" /\ At(p + 1) # "<" => Accepted(r) /\ reached(r) = p + 1
  BY ParsedShape, ExpectShape DEF parseTypeSyntax, Then
<1>3. Accepted(r) => At(p) \in {"&", "LeftBracket", "LeftParen", "Identifier"}
  BY ParsedShape, ExpectShape DEF parseTypeSyntax, Then
<1> QED
  BY <1>1, <1>2, <1>3 DEF parseTypeSyntax

LEMMA TypeListShape ==
    ASSUME NEW self, NEW p, NEW r, r = parseTypeList(self, p)
    PROVE  LET a == call(self, TypeSyntax, skipNewlines(p))
               e == skipNewlines(reached(a))
               b == call(self, TypeList, e + 1)
           IN  /\ Accepted(r) <=> Accepted(a) /\ (At(e) = "Comma" => Accepted(b))
               /\ Accepted(r) => reached(r) = IF At(e) = "Comma" THEN reached(b) ELSE e
<1> DEFINE a == call(self, TypeSyntax, skipNewlines(p))
           e == skipNewlines(reached(a))
           b == call(self, TypeList, e + 1)
<1>1. CASE At(e) = "Comma"
  BY <1>1, ParsedShape DEF parseTypeList, Then
<1>2. CASE At(e) # "Comma"
  BY <1>2, ParsedShape DEF parseTypeList, Then
<1> QED
  BY <1>1, <1>2

LEMMA ExpressionListShape ==
    ASSUME NEW self, NEW p, NEW r, r = parseExpressionList(self, p)
    PROVE  LET a == call(self, Expression, p)
               b == call(self, ExpressionList, reached(a) + 1)
           IN  /\ Accepted(r) <=> Accepted(a) /\ (At(reached(a)) = "Comma" => Accepted(b))
               /\ Accepted(r) => reached(r) = IF At(reached(a)) = "Comma" THEN reached(b) ELSE reached(a)
<1> DEFINE a == call(self, Expression, p)
           b == call(self, ExpressionList, reached(a) + 1)
<1>1. CASE At(reached(a)) = "Comma"
  BY <1>1, ParsedShape DEF parseExpressionList, Then
<1>2. CASE At(reached(a)) # "Comma"
  BY <1>2, ParsedShape DEF parseExpressionList, Then
<1> QED
  BY <1>1, <1>2

LEMMA UnlessClosedShape ==
    ASSUME NEW self, NEW close, NEW p, NEW r, r = parseUnlessClosed(self, close, p)
    PROVE  IF At(p) = close THEN Accepted(r) /\ reached(r) = p ELSE r = call(self, ExpressionList, p)
  BY ParsedShape DEF parseUnlessClosed

LEMMA ParenShape ==
    ASSUME NEW self, NEW p, NEW r, r = parseParenExpression(self, p)
    PROVE  LET a == call(self, Expression, p + 1)
           IN  IF At(p + 1) = "RightParen"
               THEN Accepted(r) /\ reached(r) = p + 2
               ELSE /\ Accepted(r) <=> Accepted(a) /\ At(reached(a)) = "RightParen"
                    /\ Accepted(r) => reached(r) = reached(a) + 1
  BY ParsedShape, ExpectShape DEF parseParenExpression, Then

LEMMA ArrayShape ==
    ASSUME NEW self, NEW p, NEW r, r = parseArrayLiteral(self, p)
    PROVE  LET a == parseUnlessClosed(self, "RightBracket", p + 1)
           IN  /\ Accepted(r) <=> Accepted(a) /\ At(reached(a)) = "RightBracket"
               /\ Accepted(r) => reached(r) = reached(a) + 1
  BY ParsedShape, ExpectShape DEF parseArrayLiteral, Then

LEMMA PrimaryShape ==
    ASSUME NEW self, NEW p, NEW r, r = parsePrimary(self, p)
    PROVE  /\ At(p) \in {"Identifier"} \cup Literals => Accepted(r) /\ reached(r) = p + 1
           /\ At(p) = "LeftParen" => r = parseParenExpression(self, p)
           /\ At(p) = "LeftBracket" => r = parseArrayLiteral(self, p)
           /\ Accepted(r) => At(p) \in {"Identifier", "LeftParen", "LeftBracket"} \cup Literals
  BY ParsedShape, FailShape DEF parsePrimary, Literals

LEMMA CallShape ==
    ASSUME NEW self, NEW p, NEW r, r = parseCallSuffix(self, p)
    PROVE  LET a == parseUnlessClosed(self, "RightParen", p + 1)
           IN  /\ Accepted(r) <=> Accepted(a) /\ At(reached(a)) = "RightParen"
               /\ Accepted(r) => reached(r) = reached(a) + 1
  BY ParsedShape, ExpectShape DEF parseCallSuffix, Then

LEMMA IndexShape ==
    ASSUME NEW self, NEW p, NEW r, r = parseIndexSuffix(self, p)
    PROVE  LET a == call(self, Expression, p + 1)
           IN  /\ Accepted(r) <=> Accepted(a) /\ At(reached(a)) = "RightBracket"
               /\ Accepted(r) => reached(r) = reached(a) + 1
  BY ParsedShape, ExpectShape DEF parseIndexSuffix, Then

LEMMA MemberShape ==
    ASSUME NEW p, NEW r, r = parseMemberSuffix(p)
    PROVE  /\ Accepted(r) <=> At(p + 1) = "Identifier"
           /\ Accepted(r) => reached(r) = p + 1 + 1
  BY ParsedShape, ExpectShape DEF parseMemberSuffix, Then

LEMMA TierShape ==
    ASSUME NEW self, NEW tier, NEW p, NEW r, r = parseTier(self, tier, p)
    PROVE  LET a == call(self, tier + 1, p)
               b == call(self, Rest(tier), reached(a))
           IN  /\ Accepted(r) <=> Accepted(a) /\ Accepted(b)
               /\ Accepted(r) => reached(r) = reached(b)
  BY ParsedShape DEF parseTier, Then

LEMMA RestShape ==
    ASSUME NEW self, NEW tier, NEW p, NEW r, r = continueTier(self, tier, p)
    PROVE  LET a == call(self, tier + 1, p + 1)
               b == call(self, Rest(tier), reached(a))
           IN  /\ At(p) \notin Tiers[tier] => Accepted(r) /\ reached(r) = p
               /\ At(p) \in Tiers[tier] =>
                     /\ Accepted(r) <=> Accepted(a) /\ (tier # RangeTier => Accepted(b))
                     /\ Accepted(r) => reached(r) = IF tier = RangeTier THEN reached(a) ELSE reached(b)
  BY ParsedShape DEF continueTier, Then

LEMMA ExpressionShape ==
    ASSUME NEW self, NEW p, NEW r, r = parseExpression(self, p)
    PROVE  LET a == call(self, 1, p)
               b == call(self, Expression, reached(a) + 1)
           IN  /\ Accepted(r) <=> Accepted(a) /\ (At(reached(a)) = "=" => Accepted(b))
               /\ Accepted(r) => reached(r) = IF At(reached(a)) = "=" THEN reached(b) ELSE reached(a)
  BY ParsedShape DEF parseExpression, Then

LEMMA PostfixShape ==
    ASSUME NEW self, NEW p, NEW r, r = parsePostfix(self, p)
    PROVE  LET a == parseSuffix(self, p)
               b == call(self, SuffixList, reached(a))
           IN  IF At(p) \notin SuffixStarts
               THEN Accepted(r) /\ reached(r) = p
               ELSE /\ Accepted(r) <=> Accepted(a) /\ Accepted(b)
                    /\ Accepted(r) => reached(r) = reached(b)
  BY ParsedShape DEF parsePostfix, Then

LEMMA UnaryShape ==
    ASSUME NEW self, NEW p, NEW r, r = parseUnary(self, p)
    PROVE  LET a == parsePrimary(self, p)
               b == call(self, SuffixList, reached(a))
               c == call(self, UnaryTier, IF At(p) = "&" /\ At(p + 1) = "mut" THEN p + 2 ELSE p + 1)
           IN  IF At(p) \in {"!", "-", "&"}
               THEN /\ Accepted(r) <=> Accepted(c)
                    /\ Accepted(r) => reached(r) = reached(c)
               ELSE /\ Accepted(r) <=> Accepted(a) /\ Accepted(b)
                    /\ Accepted(r) => reached(r) = reached(b)
  BY ParsedShape DEF parseUnary, Then

LEMMA TypeAfterShape ==
    ASSUME NEW self, NEW kind, NEW p, NEW r, r = parseTypeAfter(self, kind, p)
    PROVE  LET a == call(self, TypeSyntax, p + 1)
           IN  IF At(p) = kind
               THEN /\ Accepted(r) <=> Accepted(a)
                    /\ Accepted(r) => reached(r) = reached(a)
               ELSE Accepted(r) /\ reached(r) = p
  BY ParsedShape DEF parseTypeAfter, Then

LEMMA BlockShape ==
    ASSUME NEW self, NEW p, NEW r, r = parseBlock(self, p)
    PROVE  LET a == call(self, StatementList, p + 1)
           IN  /\ Accepted(r) <=> At(p) = "LeftBrace" /\ Accepted(a) /\ At(reached(a)) = "RightBrace"
               /\ Accepted(r) => reached(r) = reached(a) + 1
  BY ParsedShape, ExpectShape DEF parseBlock, Then

LEMMA VarDeclShape ==
    ASSUME NEW self, NEW p, NEW r, r = parseVarDeclStmt(self, p)
    PROVE  LET a == parseTypeAfter(self, "Colon", p + 1 + 1)
               b == call(self, Expression, reached(a) + 1)
           IN  /\ Accepted(r) <=> /\ At(p + 1) = "Identifier" /\ Accepted(a)
                                  /\ At(reached(a)) = "=" /\ Accepted(b) /\ At(reached(b)) \in Terminators
               /\ Accepted(r) => reached(r) = reached(b)
  BY ParsedShape, ExpectShape, TerminatedShape DEF parseVarDeclStmt, Then

LEMMA ReturnShape ==
    ASSUME NEW self, NEW p, NEW r, r = parseReturnStmt(self, p)
    PROVE  LET a == call(self, Expression, p + 1)
           IN  IF At(p + 1) \in Terminators
               THEN Accepted(r) /\ reached(r) = p + 1
               ELSE /\ Accepted(r) <=> Accepted(a) /\ At(reached(a)) \in Terminators
                    /\ Accepted(r) => reached(r) = reached(a)
  BY ParsedShape, TerminatedShape DEF parseReturnStmt, Then

LEMMA ElsesShape ==
    ASSUME NEW self, NEW p, NEW r, r = parseElses(self, p)
    PROVE  LET else == skipNewlines(p)
               a    == call(self, Expression, else + 2)
               b    == parseBlock(self, reached(a))
               c    == call(self, ElseList, reached(b))
               d    == parseBlock(self, else + 1)
           IN  IF At(else) # "else"
               THEN Accepted(r) /\ reached(r) = else
               ELSE IF At(else + 1) = "if"
               THEN /\ Accepted(r) <=> Accepted(a) /\ Accepted(b) /\ Accepted(c)
                    /\ Accepted(r) => reached(r) = reached(c)
               ELSE /\ Accepted(r) <=> Accepted(d)
                    /\ Accepted(r) => reached(r) = reached(d)
<1> DEFINE else == skipNewlines(p)
           a == call(self, Expression, else + 2)
           b == parseBlock(self, reached(a))
           c == call(self, ElseList, reached(b))
           d == parseBlock(self, else + 1)
<1>1. CASE At(else) # "else"
  BY <1>1, ParsedShape DEF parseElses
<1>2. CASE At(else) = "else" /\ At(else + 1) = "if"
  BY <1>2, ParsedShape DEF parseElses, Then
<1>3. CASE At(else) = "else" /\ At(else + 1) # "if"
  BY <1>3, ParsedShape DEF parseElses, Then
<1> QED
  BY <1>1, <1>2, <1>3

LEMMA IfShape ==
    ASSUME NEW self, NEW p, NEW r, r = parseIfStmt(self, p)
    PROVE  LET a == call(self, Expression, p + 1)
               b == parseBlock(self, reached(a))
               c == call(self, ElseList, reached(b))
           IN  /\ Accepted(r) <=> Accepted(a) /\ Accepted(b) /\ Accepted(c)
               /\ Accepted(r) => reached(r) = reached(c)
  BY ParsedShape DEF parseIfStmt, Then

LEMMA WhileShape ==
    ASSUME NEW self, NEW p, NEW r, r = parseWhileStmt(self, p)
    PROVE  LET a == call(self, Expression, p + 1)
               b == parseBlock(self, reached(a))
           IN  /\ Accepted(r) <=> Accepted(a) /\ Accepted(b)
               /\ Accepted(r) => reached(r) = reached(b)
  BY ParsedShape DEF parseWhileStmt, Then

LEMMA ForShape ==
    ASSUME NEW self, NEW p, NEW r, r = parseForStmt(self, p)
    PROVE  LET a == call(self, Expression, p + 1 + 1 + 1)
               b == parseBlock(self, reached(a))
           IN  /\ Accepted(r) <=> /\ At(p + 1) = "Identifier" /\ At(p + 1 + 1) = "in"
                                  /\ Accepted(a) /\ Accepted(b)
               /\ Accepted(r) => reached(r) = reached(b)
  BY ParsedShape, ExpectShape DEF parseForStmt, Then

LEMMA StatementShape ==
    ASSUME NEW self, NEW p, NEW r, r = parseStatement(self, p)
    PROVE  LET a == call(self, Expression, p)
           IN  /\ At(p) \in {"let", "mut"} => r = parseVarDeclStmt(self, p)
               /\ At(p) = "return" => r = parseReturnStmt(self, p)
               /\ At(p) = "if" => r = parseIfStmt(self, p)
               /\ At(p) = "while" => r = parseWhileStmt(self, p)
               /\ At(p) = "for" => r = parseForStmt(self, p)
               /\ At(p) \notin {"let", "mut", "return", "if", "while", "for"} =>
                     /\ Accepted(r) <=> Accepted(a) /\ At(reached(a)) \in Terminators
                     /\ Accepted(r) => reached(r) = reached(a)
<1> DEFINE a == call(self, Expression, p)
<1>1. At(p) \notin {"let", "mut", "return", "if", "while", "for"} =>
         /\ Accepted(r) <=> Accepted(a) /\ At(reached(a)) \in Terminators
         /\ Accepted(r) => reached(r) = reached(a)
  BY TerminatedShape DEF parseStatement, Then
<1> QED
  BY <1>1 DEF parseStatement

LEMMA StatementsShape ==
    ASSUME NEW self, NEW p, NEW r, r = parseStatements(self, p)
    PROVE  LET first == skipSeparators(p)
               a     == parseStatement(self, first)
               b     == call(self, StatementList, reached(a))
           IN  /\ At(first) = "RightBrace" => Accepted(r) /\ reached(r) = first
               /\ At(first) = "EndOfFile" => ~Accepted(r)
               /\ At(first) \notin {"RightBrace", "EndOfFile"} =>
                     /\ Accepted(r) <=> Accepted(a) /\ Accepted(b)
                     /\ Accepted(r) => reached(r) = reached(b)
  BY ParsedShape, FailShape DEF parseStatements, Then

LEMMA ParamsShape ==
    ASSUME NEW self, NEW p, NEW r, r = parseParams(self, p)
    PROVE  LET a == call(self, TypeSyntax, p + 1 + 1)
               b == call(self, ParamList, reached(a) + 1)
           IN  /\ Accepted(r) <=> /\ At(p) = "Identifier" /\ At(p + 1) = "Colon"
                                  /\ Accepted(a) /\ (At(reached(a)) = "Comma" => Accepted(b))
               /\ Accepted(r) => reached(r) = IF At(reached(a)) = "Comma" THEN reached(b) ELSE reached(a)
<1> DEFINE a == call(self, TypeSyntax, p + 1 + 1)
           b == call(self, ParamList, reached(a) + 1)
<1>1. CASE At(reached(a)) = "Comma"
  BY <1>1, ParsedShape, ExpectShape DEF parseParams, Then
<1>2. CASE At(reached(a)) # "Comma"
  BY <1>2, ParsedShape, ExpectShape DEF parseParams, Then
<1> QED
  BY <1>1, <1>2

LEMMA SignatureShape ==
    ASSUME NEW self, NEW p, NEW r, r = parseSignature(self, p)
    PROVE  LET a == parseParamList(self, p + 1 + 1 + 1)
           IN  /\ Accepted(r) <=> /\ At(p) = "fn" /\ At(p + 1) = "Identifier"
                                  /\ At(p + 1 + 1) = "LeftParen" /\ Accepted(a)
                                  /\ At(reached(a)) = "RightParen"
               /\ Accepted(r) => reached(r) = reached(a) + 1
  BY ParsedShape, ExpectShape DEF parseSignature, Then

LEMMA FunctionShape ==
    ASSUME NEW self, NEW public, NEW begin, NEW p, NEW r,
           r = parseFunctionDecl(self, public, begin, p)
    PROVE  LET a == parseSignature(self, p)
               b == parseTypeAfter(self, "->", reached(a))
               c == parseBlock(self, reached(b))
           IN  /\ Accepted(r) <=> Accepted(a) /\ Accepted(b) /\ Accepted(c)
               /\ Accepted(r) => reached(r) = reached(c)
  BY ParsedShape DEF parseFunctionDecl, Then

LEMMA DeclarationShape ==
    ASSUME NEW self, NEW p, NEW r, r = parseDeclaration(self, p)
    PROVE  LET q == IF At(p) = "pub" THEN p + 1 ELSE p
           IN  /\ At(q) = "fn" => r = parseFunctionDecl(self, At(p) = "pub", p, q)
               /\ At(q) # "fn" => ~Accepted(r)
  BY FailShape DEF parseDeclaration

LEMMA DeclarationsShape ==
    ASSUME NEW self, NEW p, NEW r, r = parseDeclarations(self, p)
    PROVE  LET first == skipSeparators(p)
               a     == parseDeclaration(self, first)
               b     == call(self, DeclarationList, reached(a))
           IN  IF At(first) = "EndOfFile"
               THEN Accepted(r) /\ reached(r) = first
               ELSE /\ Accepted(r) <=> Accepted(a) /\ Accepted(b)
                    /\ Accepted(r) => reached(r) = reached(b)
  BY ParsedShape DEF parseDeclarations, Then

(* The tokens of a file, and the positions in it *)

LEMMA PositionFacts ==
    ASSUME IsFile
    PROVE  /\ End \in Nat /\ End >= 1 /\ End \in Positions /\ At(End) = "EndOfFile"
           /\ \A p : p \in Positions <=> p \in Nat /\ 1 <= p /\ p <= End
           /\ \A p \in Positions : At(p) = "EndOfFile" <=> p = End
           /\ \A p \in Positions : At(p) # "EndOfFile" => p + 1 \in Positions
<1>1. Len(tokens) \in Nat /\ DOMAIN tokens = 1 .. Len(tokens)
  BY DEF IsFile, IsText
<1> QED
  BY <1>1 DEF IsFile, IsText, End, Positions, At

\* A step over a token.
LEMMA NextPosition ==
    ASSUME IsFile, NEW p \in Positions, At(p) # "EndOfFile"
    PROVE  p + 1 \in Positions /\ p + 1 > p /\ p \in Nat
  BY PositionFacts

\* A set of numbers has a least one.
LEMMA LeastNumber ==
    ASSUME NEW T \in SUBSET Nat, T # {}
    PROVE  \E m \in T : \A k \in T : m <= k
<1> DEFINE R == {p \in Nat \X Nat : p[1] < p[2]}
<1>1. IsWellFoundedOn(R, Nat)
  BY NatLessThanWellFounded DEF OpToRel
<1>2. \A x, y \in Nat : <<x, y>> \in R <=> x < y
  OBVIOUS
<1> HIDE DEF R
<1>3. PICK m \in T : \A k \in T : <<k, m>> \notin R
  BY <1>1, WFMin
<1>4. \A k \in T : ~(k < m)
  BY <1>2, <1>3
<1> QED
  BY <1>4

\* What the loops over line breaks and separators stop at.
LEMMA SkipFacts ==
    ASSUME IsFile, NEW kinds, "EndOfFile" \notin kinds, NEW p \in Positions,
           NEW s, s = Skip(kinds, p)
    PROVE  /\ s \in Positions /\ s >= p /\ At(s) \notin kinds
           /\ \A k \in Positions : p <= k /\ k < s => At(k) \in kinds
<1> DEFINE T == {q \in p .. Len(tokens) + 1 : At(q) \notin kinds}
<1>1. T \in SUBSET Nat /\ End \in T
  BY PositionFacts DEF End
<1>2. PICK m \in T : \A k \in T : m <= k
  BY <1>1, LeastNumber
<1>3. s = CHOOSE x \in T : \A y \in T : x <= y
  BY DEF Skip, Min
<1>4. s \in T /\ \A y \in T : s <= y
  <2> HIDE DEF T
  <2> QED
    BY <1>2, <1>3
<1>5. s \in Nat /\ p <= s /\ s <= End /\ At(s) \notin kinds
  BY <1>4, PositionFacts DEF End
<1>6. ASSUME NEW k \in Positions, p <= k, k < s PROVE At(k) \in kinds
  <2>1. k \in p .. Len(tokens) + 1
    BY <1>6, <1>5, PositionFacts DEF End
  <2>2. k \in Nat
    BY PositionFacts
  <2> QED
    BY <2>1, <2>2, <1>4, <1>5, <1>6
<1>7. s \in Positions
  BY <1>5, PositionFacts
<1> QED
  BY <1>5, <1>6, <1>7

\* Where they stop is the only such place.
LEMMA SkipIsThere ==
    ASSUME IsFile, NEW kinds, "EndOfFile" \notin kinds, NEW p \in Positions, NEW q \in Positions,
           p <= q, At(q) \notin kinds, \A k \in Positions : p <= k /\ k < q => At(k) \in kinds
    PROVE  Skip(kinds, p) = q
<1> DEFINE s == Skip(kinds, p)
<1>1. /\ s \in Positions /\ s >= p /\ At(s) \notin kinds
      /\ \A k \in Positions : p <= k /\ k < s => At(k) \in kinds
  BY SkipFacts
<1>2. ~(s < q) /\ ~(q < s)
  BY <1>1
<1>3. s \in Nat /\ q \in Nat
  BY <1>1, PositionFacts
<1> QED
  BY <1>2, <1>3

----------------------------------------------------------------------------
(* The order of the calls: a routine calls another one at a later position, *)
(* or one of a lower rank where it is.                                      *)

LEMMA RankFacts ==
    ASSUME NEW r \in Routines
    PROVE  Rank(r) \in 0 .. 9
  BY DEF Rank, Routines, Expression, DeclarationList, UnaryTier, ExpressionList, TypeList, StatementList

LEMMA KeyFacts ==
    ASSUME IsFile, NEW r \in Routines, NEW p \in Positions
    PROVE  /\ Key(r, p) \in Nat /\ Key(r, p) < 10 * End
           /\ \A h \in Routines, q \in Positions : Key(h, q) < Key(r, p) <=> Before(h, q, r, p)
<1>1. Rank(r) \in 0 .. 9 /\ p \in Nat /\ 1 <= p /\ p <= End /\ End \in Nat
  BY RankFacts, PositionFacts
<1>2. ASSUME NEW h \in Routines, NEW q \in Positions
      PROVE  Key(h, q) < Key(r, p) <=> Before(h, q, r, p)
  <2>1. Rank(h) \in 0 .. 9 /\ q \in Nat /\ 1 <= q /\ q <= End
    BY RankFacts, PositionFacts
  <2> QED
    BY <1>1, <2>1 DEF Key, Before
<1> QED
  BY <1>1, <1>2 DEF Key

\* Induction along the calls.
LEMMA AlongTheCalls ==
    ASSUME IsFile, NEW G,
           \A r \in Routines : \A p \in Positions :
              (\A h \in Routines : \A q \in Positions : Before(h, q, r, p) => <<h, q>> \in G)
                 => <<r, p>> \in G
    PROVE  \A r \in Routines : \A p \in Positions : <<r, p>> \in G
<1> SUFFICES ASSUME NEW r \in Routines, NEW p \in Positions, <<r, p>> \notin G PROVE FALSE
  OBVIOUS
<1> DEFINE T == {Key(x[1], x[2]) : x \in {y \in Routines \X Positions : y \notin G}}
<1>1. T \in SUBSET Nat
  BY KeyFacts
<1>2. Key(r, p) \in T
  OBVIOUS
<1>3. PICK m \in T : \A k \in T : m <= k
  <2> HIDE DEF T
  <2> QED
    BY <1>1, <1>2, LeastNumber
<1>4. PICK x \in Routines \X Positions : x \notin G /\ m = Key(x[1], x[2])
  OBVIOUS
<1>5. PICK h \in Routines : \E q \in Positions : Before(h, q, x[1], x[2]) /\ <<h, q>> \notin G
  <2>1. PICK y \in Routines, z \in Positions : x = <<y, z>>
    OBVIOUS
  <2>2. <<y, z>> \notin G /\ x[1] = y /\ x[2] = z
    BY <1>4, <2>1
  <2>3. ~ \A h \in Routines : \A q \in Positions : Before(h, q, y, z) => <<h, q>> \in G
    <3> HIDE DEF T
    <3> QED
      BY <2>2
  <2> QED
    BY <2>2, <2>3, Zenon
<1>6. PICK q \in Positions : Before(h, q, x[1], x[2]) /\ <<h, q>> \notin G
  BY <1>5
<1>7. Key(h, q) < m
  BY <1>4, <1>6, KeyFacts
<1>8. Key(h, q) \in T
  BY <1>6
<1>9. Key(h, q) \in Nat /\ m \in Nat
  BY <1>1, <1>8
<1> QED
  BY <1>3, <1>7, <1>8, <1>9

(* Every accepted routine ends where it began or later, and what a routine  *)
(* gives back depends on what the routines before it in the order do.       *)

\* f and g answer a call alike, and not without progress where there must be some.
Agree(f, g, h, q) ==
    /\ call(f, h, q) = call(g, h, q)
    /\ IF h \in Nullable THEN Stays(call(f, h, q), q) ELSE Moves(call(f, h, q), q)

AgreeBehind(f, g, p) == \A h \in Routines, q \in Positions : q > p => Agree(f, g, h, q)

LEMMA MovesStays ==
    ASSUME IsFile, NEW q \in Positions, NEW r, Moves(r, q)
    PROVE  Stays(r, q)
<1> SUFFICES ASSUME Accepted(r) PROVE reached(r) \in Positions /\ reached(r) >= q
  BY DEF Stays
<1>1. PICK e \in Positions : e = reached(r) /\ e > q
  BY DEF Moves
<1>2. e \in Nat /\ q \in Nat
  BY PositionFacts
<1> QED
  BY <1>1, <1>2

LEMMA RoutineFacts ==
    /\ {Expression, UnaryTier, ExpressionList, TypeSyntax, TypeList, ParamList}
         \subseteq Routines \ Nullable
    /\ {SuffixList, StatementList, ElseList, DeclarationList} \subseteq Routines \cap Nullable
    /\ \A t \in 1 .. 8 : t \in Routines \ Nullable
    /\ \A t \in 1 .. 7 : Rest(t) \in Routines \cap Nullable
  BY DEF Routines, Nullable, Expression, UnaryTier, SuffixList, ExpressionList, TypeSyntax, TypeList,
         StatementList, ElseList, ParamList, DeclarationList, Rest

\* What a call of a routine further on is known to do.
LEMMA Ahead ==
    ASSUME IsFile, NEW f, NEW g, NEW p, AgreeBehind(f, g, p), NEW q \in Positions, q > p,
           NEW h \in Routines
    PROVE  /\ call(f, h, q) = call(g, h, q) /\ Stays(call(f, h, q), q)
           /\ h \notin Nullable => Moves(call(f, h, q), q)
<1>1. Agree(f, g, h, q)
  BY DEF AgreeBehind
<1>2. q \in Nat /\ \A k \in Positions : k \in Nat
  BY PositionFacts
<1>3. \A r : Moves(r, q) => Stays(r, q)
  BY MovesStays
<1> QED
  BY <1>1, <1>3 DEF Agree

LEMMA AgreeLater ==
    ASSUME IsFile, NEW f, NEW g, NEW p \in Positions, NEW q \in Positions, q >= p, AgreeBehind(f, g, p)
    PROVE  AgreeBehind(f, g, q)
<1>1. p \in Nat /\ q \in Nat /\ \A k \in Positions : k \in Nat
  BY PositionFacts
<1> QED
  BY <1>1 DEF AgreeBehind

LEMMA ReferenceAgrees ==
    ASSUME IsFile, NEW f, NEW g, NEW p \in Positions, AgreeBehind(f, g, p), At(p) = "&"
    PROVE  /\ parseReferenceTypeSyntax(f, p) = parseReferenceTypeSyntax(g, p)
           /\ Moves(parseReferenceTypeSyntax(f, p), p)
<1> DEFINE q == IF At(p + 1) = "mut" THEN p + 2 ELSE p + 1
<1>1. q \in Positions /\ q > p /\ p \in Nat
  BY PositionFacts
<1>2. call(f, TypeSyntax, q) = call(g, TypeSyntax, q) /\ Moves(call(f, TypeSyntax, q), q)
  BY <1>1, RoutineFacts, Ahead
<1>3. parseReferenceTypeSyntax(f, p) = parseReferenceTypeSyntax(g, p)
  BY <1>2 DEF parseReferenceTypeSyntax
<1>4. Moves(parseReferenceTypeSyntax(f, p), p)
  BY <1>1, <1>2, ReferenceShape, PositionFacts DEF Moves
<1> QED
  BY <1>3, <1>4

LEMMA BracketAgrees ==
    ASSUME IsFile, NEW f, NEW g, NEW p \in Positions, AgreeBehind(f, g, p), At(p) = "LeftBracket"
    PROVE  /\ parseBracketTypeSyntax(f, p) = parseBracketTypeSyntax(g, p)
           /\ Moves(parseBracketTypeSyntax(f, p), p)
<1>1. p + 1 \in Positions /\ p + 1 > p /\ p \in Nat
  BY NextPosition
<1>2. call(f, TypeSyntax, p + 1) = call(g, TypeSyntax, p + 1) /\ Moves(call(f, TypeSyntax, p + 1), p + 1)
  BY <1>1, RoutineFacts, Ahead
<1>3. parseBracketTypeSyntax(f, p) = parseBracketTypeSyntax(g, p)
  BY <1>2 DEF parseBracketTypeSyntax
<1>4. Moves(parseBracketTypeSyntax(f, p), p)
  BY <1>1, <1>2, BracketShape, PositionFacts DEF Moves
<1> QED
  BY <1>3, <1>4

LEMMA GenericAgrees ==
    ASSUME IsFile, NEW f, NEW g, NEW p \in Positions, AgreeBehind(f, g, p), At(p) = "Identifier",
           At(p + 1) = "<"
    PROVE  /\ parseGenericTypeSyntax(f, p) = parseGenericTypeSyntax(g, p)
           /\ Moves(parseGenericTypeSyntax(f, p), p)
<1>1. p + 2 \in Positions /\ p + 2 > p /\ p \in Nat
  BY PositionFacts
<1>2. call(f, TypeList, p + 2) = call(g, TypeList, p + 2) /\ Moves(call(f, TypeList, p + 2), p + 2)
  BY <1>1, RoutineFacts, Ahead
<1>3. parseGenericTypeSyntax(f, p) = parseGenericTypeSyntax(g, p)
  BY <1>2 DEF parseGenericTypeSyntax
<1>4. Moves(parseGenericTypeSyntax(f, p), p)
  BY <1>1, <1>2, GenericShape, PositionFacts DEF Moves
<1> QED
  BY <1>3, <1>4

LEMMA TypeAgrees ==
    ASSUME IsFile, NEW f, NEW g, NEW p \in Positions, AgreeBehind(f, g, p)
    PROVE  /\ parseTypeSyntax(f, p) = parseTypeSyntax(g, p)
           /\ Moves(parseTypeSyntax(f, p), p)
<1>1. CASE At(p) = "&"
  BY <1>1, ReferenceAgrees, TypeShape
<1>2. CASE At(p) = "LeftBracket"
  BY <1>2, BracketAgrees, TypeShape
<1>3. CASE At(p) = "LeftParen"
  <2>1. parseTypeSyntax(f, p) = parseTypeSyntax(g, p)
    BY <1>3 DEF parseTypeSyntax
  <2>2. p + 1 \in Positions /\ p + 1 \in Nat /\ p \in Nat
    BY <1>3, PositionFacts
  <2>3. At(p + 1) = "RightParen" => p + 1 + 1 \in Positions /\ p + 1 + 1 > p
    BY <2>2, NextPosition
  <2>4. PICK r : r = parseTypeSyntax(f, p)
    OBVIOUS
  <2>5. Accepted(r) => At(p + 1) = "RightParen" /\ reached(r) = p + 1 + 1
    BY <1>3, <2>4, TypeShape
  <2>6. Moves(r, p)
    BY <2>3, <2>5 DEF Moves
  <2> QED
    BY <2>1, <2>4, <2>6
<1>4. CASE At(p) = "Identifier" /\ At(p + 1) = "<"
  BY <1>4, GenericAgrees, TypeShape
<1>5. CASE At(p) = "Identifier" /\ At(p + 1) # "<"
  <2>1. parseTypeSyntax(f, p) = parseTypeSyntax(g, p)
    BY <1>5, ExpectShape, ParsedShape DEF parseTypeSyntax, Then
  <2> QED
    BY <1>5, <2>1, TypeShape, PositionFacts DEF Moves
<1>6. CASE At(p) \notin {"&", "LeftBracket", "LeftParen", "Identifier"}
  <2>1. parseTypeSyntax(f, p) = parseTypeSyntax(g, p)
    BY <1>6, ExpectShape DEF parseTypeSyntax, Then
  <2> QED
    BY <1>6, <2>1, TypeShape DEF Moves
<1> QED
  BY <1>1, <1>2, <1>3, <1>4, <1>5, <1>6

LEMMA NewlineFacts ==
    ASSUME IsFile, NEW p \in Positions, NEW s, s = skipNewlines(p)
    PROVE  /\ s \in Positions /\ s >= p /\ At(s) # "Newline"
           /\ \A k \in Positions : p <= k /\ k < s => At(k) = "Newline"
<1>1. s = Skip({"Newline"}, p) /\ "EndOfFile" \notin {"Newline"}
  BY DEF skipNewlines
<1> QED
  BY <1>1, SkipFacts

LEMMA SeparatorFacts ==
    ASSUME IsFile, NEW p \in Positions, NEW s, s = skipSeparators(p)
    PROVE  /\ s \in Positions /\ s >= p /\ At(s) \notin {"Newline", "Semicolon"}
           /\ \A k \in Positions : p <= k /\ k < s => At(k) \in {"Newline", "Semicolon"}
<1>1. s = Skip({"Newline", "Semicolon"}, p) /\ "EndOfFile" \notin {"Newline", "Semicolon"}
  BY DEF skipSeparators
<1> QED
  BY <1>1, SkipFacts

LEMMA TypeListAgrees ==
    ASSUME IsFile, NEW f, NEW g, NEW p \in Positions, AgreeBehind(f, g, p), Agree(f, g, TypeSyntax, p)
    PROVE  /\ parseTypeList(f, p) = parseTypeList(g, p)
           /\ Moves(parseTypeList(f, p), p)
<1>1. PICK s \in Positions : s = skipNewlines(p) /\ s >= p
  BY NewlineFacts
<1>2. p \in Nat /\ s \in Nat
  BY PositionFacts
<1>3. PICK a : a = call(f, TypeSyntax, s)
  OBVIOUS
<1>4. call(g, TypeSyntax, s) = a /\ Moves(a, s)
  <2>1. CASE s = p
    BY <1>3, <2>1, RoutineFacts DEF Agree
  <2>2. CASE s > p
    BY <1>3, <2>2, RoutineFacts, Ahead
  <2> QED
    BY <1>1, <1>2, <2>1, <2>2
<1>5. PICK r : r = parseTypeList(f, p)
  OBVIOUS
<1>6. CASE ~Accepted(a)
  <2>1. parseTypeList(f, p) = parseTypeList(g, p)
    BY <1>1, <1>3, <1>4, <1>6 DEF parseTypeList, Then
  <2>2. ~Accepted(r)
    BY <1>1, <1>3, <1>5, <1>6, TypeListShape
  <2> QED
    BY <1>5, <2>1, <2>2 DEF Moves
<1>7. CASE Accepted(a)
  <2>1. PICK q \in Positions : q = reached(a) /\ q > s
    BY <1>4, <1>7 DEF Moves
  <2>2. PICK e \in Positions : e = skipNewlines(q) /\ e >= q
    BY NewlineFacts
  <2>3. q \in Nat /\ e \in Nat /\ e > p
    BY <1>1, <1>2, <2>1, <2>2, PositionFacts
  <2>4. CASE At(e) # "Comma"
    <3>1. parseTypeList(f, p) = parseTypeList(g, p)
      BY <1>1, <1>3, <1>4, <2>1, <2>2, <2>4 DEF parseTypeList, Then
    <3>2. Accepted(r) => reached(r) = e
      BY <1>1, <1>3, <2>1, <2>2, <2>4, <1>5, TypeListShape
    <3> QED
      BY <2>3, <3>1, <3>2, <1>5 DEF Moves
  <2>5. CASE At(e) = "Comma"
    <3>1. e + 1 \in Positions /\ e + 1 > p
      BY <2>3, <2>5, NextPosition
    <3>2. PICK b : b = call(f, TypeList, e + 1)
      OBVIOUS
    <3>3. call(g, TypeList, e + 1) = b /\ Moves(b, e + 1)
      BY <3>1, <3>2, RoutineFacts, Ahead
    <3>4. parseTypeList(f, p) = parseTypeList(g, p)
      BY <1>1, <1>3, <1>4, <2>1, <2>2, <3>2, <3>3 DEF parseTypeList, Then
    <3>5. Accepted(r) => Accepted(b) /\ reached(r) = reached(b)
      BY <1>1, <1>3, <2>1, <2>2, <2>5, <3>2, <1>5, TypeListShape
    <3>6. Accepted(b) => reached(b) \in Positions /\ reached(b) \in Nat /\ reached(b) > e + 1
      BY <3>3, PositionFacts DEF Moves
    <3>7. Moves(r, p)
      BY <1>2, <2>3, <3>5, <3>6 DEF Moves
    <3> QED
      BY <1>5, <3>4, <3>7
  <2> QED
    BY <2>4, <2>5
<1> QED
  BY <1>6, <1>7

LEMMA ExpressionAgrees ==
    ASSUME IsFile, NEW f, NEW g, NEW p \in Positions, AgreeBehind(f, g, p), Agree(f, g, 1, p)
    PROVE  parseExpression(f, p) = parseExpression(g, p) /\ Moves(parseExpression(f, p), p)
<1>1. PICK a : a = call(f, 1, p)
  OBVIOUS
<1>2. call(g, 1, p) = a /\ Moves(a, p)
  BY <1>1, RoutineFacts DEF Agree
<1>3. PICK b : b = call(f, Expression, reached(a) + 1)
  OBVIOUS
<1>4. Accepted(a) /\ At(reached(a)) = "=" =>
        reached(a) + 1 \in Positions /\ reached(a) + 1 > p /\ reached(a) \in Nat
  BY <1>2, PositionFacts DEF Moves
<1>5. Accepted(a) /\ At(reached(a)) = "=" =>
        call(g, Expression, reached(a) + 1) = b /\ Moves(b, reached(a) + 1)
  BY <1>3, <1>4, RoutineFacts, Ahead
<1>6. parseExpression(f, p) = parseExpression(g, p)
  BY <1>1, <1>2, <1>3, <1>5 DEF parseExpression, Then
<1>7. PICK r : r = parseExpression(f, p)
  OBVIOUS
<1>8. Accepted(r) => Accepted(a) /\ IF At(reached(a)) = "="
                                    THEN Accepted(b) /\ reached(r) = reached(b)
                                    ELSE reached(r) = reached(a)
  BY <1>1, <1>3, <1>7, ExpressionShape
<1>9. Moves(r, p)
  BY <1>2, <1>4, <1>5, <1>8, PositionFacts DEF Moves
<1> QED
  BY <1>6, <1>7, <1>9

LEMMA ExpressionListAgrees ==
    ASSUME IsFile, NEW f, NEW g, NEW p \in Positions, AgreeBehind(f, g, p), Agree(f, g, Expression, p)
    PROVE  parseExpressionList(f, p) = parseExpressionList(g, p) /\ Moves(parseExpressionList(f, p), p)
<1>1. PICK a : a = call(f, Expression, p)
  OBVIOUS
<1>2. call(g, Expression, p) = a /\ Moves(a, p)
  BY <1>1, RoutineFacts DEF Agree
<1>3. PICK b : b = call(f, ExpressionList, reached(a) + 1)
  OBVIOUS
<1>4. Accepted(a) /\ At(reached(a)) = "Comma" =>
        reached(a) + 1 \in Positions /\ reached(a) + 1 > p /\ reached(a) \in Nat
  BY <1>2, PositionFacts DEF Moves
<1>5. Accepted(a) /\ At(reached(a)) = "Comma" =>
        call(g, ExpressionList, reached(a) + 1) = b /\ Moves(b, reached(a) + 1)
  BY <1>3, <1>4, RoutineFacts, Ahead
<1>6. parseExpressionList(f, p) = parseExpressionList(g, p)
  BY <1>1, <1>2, <1>3, <1>5 DEF parseExpressionList, Then
<1>7. PICK r : r = parseExpressionList(f, p)
  OBVIOUS
<1>8. Accepted(r) => Accepted(a) /\ IF At(reached(a)) = "Comma"
                                    THEN Accepted(b) /\ reached(r) = reached(b)
                                    ELSE reached(r) = reached(a)
  BY <1>1, <1>3, <1>7, ExpressionListShape
<1>9. Moves(r, p)
  BY <1>2, <1>4, <1>5, <1>8, PositionFacts DEF Moves
<1> QED
  BY <1>6, <1>7, <1>9

LEMMA TierAgrees ==
    ASSUME IsFile, NEW f, NEW g, NEW p \in Positions, AgreeBehind(f, g, p), NEW tier \in 1 .. 7,
           Agree(f, g, tier + 1, p)
    PROVE  parseTier(f, tier, p) = parseTier(g, tier, p) /\ Moves(parseTier(f, tier, p), p)
<1>1. PICK a : a = call(f, tier + 1, p)
  OBVIOUS
<1>2. call(g, tier + 1, p) = a /\ Moves(a, p)
  <2>1. tier + 1 \in 1 .. 8
    OBVIOUS
  <2> QED
    BY <1>1, <2>1, RoutineFacts DEF Agree
<1>3. PICK b : b = call(f, Rest(tier), reached(a))
  OBVIOUS
<1>4. Accepted(a) => call(g, Rest(tier), reached(a)) = b /\ Stays(b, reached(a))
  BY <1>2, <1>3, RoutineFacts, Ahead DEF Moves
<1>5. parseTier(f, tier, p) = parseTier(g, tier, p)
  BY <1>1, <1>2, <1>3, <1>4 DEF parseTier, Then
<1>6. PICK r : r = parseTier(f, tier, p)
  OBVIOUS
<1>7. Accepted(r) => Accepted(a) /\ Accepted(b) /\ reached(r) = reached(b)
  BY <1>1, <1>3, <1>6, TierShape
<1>8. Moves(r, p)
  BY <1>2, <1>4, <1>7, PositionFacts DEF Moves, Stays
<1> QED
  BY <1>5, <1>6, <1>8

LEMMA NoEndInTiers ==
    ASSUME NEW tier \in 1 .. 7
    PROVE  "EndOfFile" \notin Tiers[tier]
  BY DEF Tiers

LEMMA RestAgrees ==
    ASSUME IsFile, NEW f, NEW g, NEW p \in Positions, AgreeBehind(f, g, p), NEW tier \in 1 .. 7
    PROVE  continueTier(f, tier, p) = continueTier(g, tier, p) /\ Stays(continueTier(f, tier, p), p)
<1>0. PICK r : r = continueTier(f, tier, p)
  OBVIOUS
<1>1. CASE At(p) \notin Tiers[tier]
  <2>1. continueTier(f, tier, p) = continueTier(g, tier, p)
    BY <1>1 DEF continueTier
  <2>2. Accepted(r) /\ reached(r) = p
    BY <1>0, <1>1, RestShape
  <2>3. Stays(r, p)
    BY <2>2, PositionFacts DEF Stays
  <2> QED
    BY <1>0, <2>1, <2>3
<1>2. CASE At(p) \in Tiers[tier]
  <2>1. p + 1 \in Positions /\ p + 1 > p /\ p \in Nat /\ tier + 1 \in 1 .. 8
    BY <1>2, NoEndInTiers, NextPosition
  <2>2. PICK a : a = call(f, tier + 1, p + 1)
    OBVIOUS
  <2>3. call(g, tier + 1, p + 1) = a /\ Moves(a, p + 1)
    BY <2>1, <2>2, RoutineFacts, Ahead
  <2>4. PICK b : b = call(f, Rest(tier), reached(a))
    OBVIOUS
  <2>5. Accepted(a) => reached(a) \in Positions /\ reached(a) > p
    BY <2>1, <2>3, PositionFacts DEF Moves
  <2>6. Accepted(a) => call(g, Rest(tier), reached(a)) = b /\ Stays(b, reached(a))
    BY <2>4, <2>5, RoutineFacts, Ahead
  <2>7. continueTier(f, tier, p) = continueTier(g, tier, p)
    BY <2>2, <2>3, <2>4, <2>6 DEF continueTier, Then
  <2>8. Accepted(r) => Accepted(a) /\ IF tier = RangeTier
                                      THEN reached(r) = reached(a)
                                      ELSE Accepted(b) /\ reached(r) = reached(b)
    BY <1>0, <1>2, <2>2, <2>4, RestShape
  <2>9. Stays(r, p)
    BY <2>1, <2>5, <2>6, <2>8, PositionFacts DEF Stays
  <2> QED
    BY <1>0, <2>7, <2>9
<1> QED
  BY <1>1, <1>2

LEMMA UnlessClosedAgrees ==
    ASSUME IsFile, NEW f, NEW g, NEW p \in Positions, AgreeBehind(f, g, p), NEW q \in Positions, q > p,
           NEW close
    PROVE  /\ parseUnlessClosed(f, close, q) = parseUnlessClosed(g, close, q)
           /\ Stays(parseUnlessClosed(f, close, q), q)
<1>1. PICK a : a = call(f, ExpressionList, q)
  OBVIOUS
<1>2. call(g, ExpressionList, q) = a /\ Stays(a, q)
  BY <1>1, RoutineFacts, Ahead
<1>3. parseUnlessClosed(f, close, q) = parseUnlessClosed(g, close, q)
  BY <1>1, <1>2 DEF parseUnlessClosed
<1>4. PICK r : r = parseUnlessClosed(f, close, q)
  OBVIOUS
<1>5. r = a \/ (Accepted(r) /\ reached(r) = q)
  BY <1>1, <1>4, UnlessClosedShape
<1>6. Stays(r, q)
  BY <1>2, <1>5, PositionFacts DEF Stays
<1> QED
  BY <1>3, <1>4, <1>6

LEMMA ParenAgrees ==
    ASSUME IsFile, NEW f, NEW g, NEW p \in Positions, AgreeBehind(f, g, p), At(p) = "LeftParen"
    PROVE  parseParenExpression(f, p) = parseParenExpression(g, p) /\ Moves(parseParenExpression(f, p), p)
<1>1. p + 1 \in Positions /\ p + 1 > p /\ p \in Nat
  BY NextPosition
<1>2. PICK a : a = call(f, Expression, p + 1)
  OBVIOUS
<1>3. call(g, Expression, p + 1) = a /\ Moves(a, p + 1)
  BY <1>1, <1>2, RoutineFacts, Ahead
<1>4. parseParenExpression(f, p) = parseParenExpression(g, p)
  BY <1>2, <1>3 DEF parseParenExpression
<1>5. PICK r : r = parseParenExpression(f, p)
  OBVIOUS
<1>6. IF At(p + 1) = "RightParen"
      THEN Accepted(r) /\ reached(r) = p + 2
      ELSE Accepted(r) => Accepted(a) /\ At(reached(a)) = "RightParen" /\ reached(r) = reached(a) + 1
  BY <1>2, <1>5, ParenShape
<1>7. At(p + 1) = "RightParen" => p + 2 \in Positions
  BY <1>1, PositionFacts
<1>8. Accepted(a) /\ At(reached(a)) = "RightParen" => reached(a) + 1 \in Positions /\ reached(a) + 1 > p
  BY <1>1, <1>3, PositionFacts DEF Moves
<1>9. Moves(r, p)
  BY <1>1, <1>6, <1>7, <1>8 DEF Moves
<1> QED
  BY <1>4, <1>5, <1>9

LEMMA ArrayAgrees ==
    ASSUME IsFile, NEW f, NEW g, NEW p \in Positions, AgreeBehind(f, g, p), At(p) = "LeftBracket"
    PROVE  parseArrayLiteral(f, p) = parseArrayLiteral(g, p) /\ Moves(parseArrayLiteral(f, p), p)
<1>1. p + 1 \in Positions /\ p + 1 > p /\ p \in Nat
  BY NextPosition
<1>2. PICK a : a = parseUnlessClosed(f, "RightBracket", p + 1)
  OBVIOUS
<1>3. parseUnlessClosed(g, "RightBracket", p + 1) = a /\ Stays(a, p + 1)
  BY <1>1, <1>2, UnlessClosedAgrees
<1>4. parseArrayLiteral(f, p) = parseArrayLiteral(g, p)
  BY <1>2, <1>3 DEF parseArrayLiteral
<1>5. PICK r : r = parseArrayLiteral(f, p)
  OBVIOUS
<1>6. Accepted(r) => Accepted(a) /\ At(reached(a)) = "RightBracket" /\ reached(r) = reached(a) + 1
  BY <1>2, <1>5, ArrayShape
<1>7. Accepted(a) /\ At(reached(a)) = "RightBracket" => reached(a) + 1 \in Positions /\ reached(a) + 1 > p
  BY <1>1, <1>3, PositionFacts DEF Stays
<1>8. Moves(r, p)
  BY <1>6, <1>7 DEF Moves
<1> QED
  BY <1>4, <1>5, <1>8

LEMMA CallAgrees ==
    ASSUME IsFile, NEW f, NEW g, NEW p \in Positions, AgreeBehind(f, g, p), At(p) = "LeftParen"
    PROVE  parseCallSuffix(f, p) = parseCallSuffix(g, p) /\ Moves(parseCallSuffix(f, p), p)
<1>1. p + 1 \in Positions /\ p + 1 > p /\ p \in Nat
  BY NextPosition
<1>2. PICK a : a = parseUnlessClosed(f, "RightParen", p + 1)
  OBVIOUS
<1>3. parseUnlessClosed(g, "RightParen", p + 1) = a /\ Stays(a, p + 1)
  BY <1>1, <1>2, UnlessClosedAgrees
<1>4. parseCallSuffix(f, p) = parseCallSuffix(g, p)
  BY <1>2, <1>3 DEF parseCallSuffix
<1>5. PICK r : r = parseCallSuffix(f, p)
  OBVIOUS
<1>6. Accepted(r) => Accepted(a) /\ At(reached(a)) = "RightParen" /\ reached(r) = reached(a) + 1
  BY <1>2, <1>5, CallShape
<1>7. Accepted(a) /\ At(reached(a)) = "RightParen" => reached(a) + 1 \in Positions /\ reached(a) + 1 > p
  BY <1>1, <1>3, PositionFacts DEF Stays
<1>8. Moves(r, p)
  BY <1>6, <1>7 DEF Moves
<1> QED
  BY <1>4, <1>5, <1>8

LEMMA IndexAgrees ==
    ASSUME IsFile, NEW f, NEW g, NEW p \in Positions, AgreeBehind(f, g, p), At(p) = "LeftBracket"
    PROVE  parseIndexSuffix(f, p) = parseIndexSuffix(g, p) /\ Moves(parseIndexSuffix(f, p), p)
<1>1. p + 1 \in Positions /\ p + 1 > p /\ p \in Nat
  BY NextPosition
<1>2. PICK a : a = call(f, Expression, p + 1)
  OBVIOUS
<1>3. call(g, Expression, p + 1) = a /\ Moves(a, p + 1)
  BY <1>1, <1>2, RoutineFacts, Ahead
<1>4. parseIndexSuffix(f, p) = parseIndexSuffix(g, p)
  BY <1>2, <1>3 DEF parseIndexSuffix
<1>5. PICK r : r = parseIndexSuffix(f, p)
  OBVIOUS
<1>6. Accepted(r) => Accepted(a) /\ At(reached(a)) = "RightBracket" /\ reached(r) = reached(a) + 1
  BY <1>2, <1>5, IndexShape
<1>7. Accepted(a) /\ At(reached(a)) = "RightBracket" => reached(a) + 1 \in Positions /\ reached(a) + 1 > p
  BY <1>1, <1>3, PositionFacts DEF Moves
<1>8. Moves(r, p)
  BY <1>6, <1>7 DEF Moves
<1> QED
  BY <1>4, <1>5, <1>8

LEMMA MemberMoves ==
    ASSUME IsFile, NEW p \in Positions, At(p) = "Dot"
    PROVE  Moves(parseMemberSuffix(p), p)
<1>1. p + 1 \in Positions /\ p + 1 > p /\ p \in Nat
  BY NextPosition
<1>2. PICK r : r = parseMemberSuffix(p)
  OBVIOUS
<1>3. Accepted(r) => At(p + 1) = "Identifier" /\ reached(r) = p + 1 + 1
  BY <1>2, MemberShape
<1>4. At(p + 1) = "Identifier" => p + 1 + 1 \in Positions /\ p + 1 + 1 > p
  BY <1>1, PositionFacts
<1>5. Moves(r, p)
  BY <1>3, <1>4 DEF Moves
<1> QED
  BY <1>2, <1>5

LEMMA PrimaryAgrees ==
    ASSUME IsFile, NEW f, NEW g, NEW p \in Positions, AgreeBehind(f, g, p)
    PROVE  parsePrimary(f, p) = parsePrimary(g, p) /\ Moves(parsePrimary(f, p), p)
<1>1. CASE At(p) = "LeftParen"
  BY <1>1, ParenAgrees, PrimaryShape
<1>2. CASE At(p) = "LeftBracket"
  BY <1>2, ArrayAgrees, PrimaryShape
<1>3. CASE At(p) \notin {"LeftParen", "LeftBracket"}
  <2>1. parsePrimary(f, p) = parsePrimary(g, p)
    BY <1>3 DEF parsePrimary
  <2>2. PICK r : r = parsePrimary(f, p)
    OBVIOUS
  <2>3. Accepted(r) => At(p) \in {"Identifier"} \cup Literals /\ reached(r) = p + 1
    BY <1>3, <2>2, PrimaryShape
  <2>4. At(p) \in {"Identifier"} \cup Literals => p + 1 \in Positions /\ p + 1 > p
    BY NextPosition DEF Literals
  <2>5. Moves(r, p)
    BY <2>3, <2>4 DEF Moves
  <2> QED
    BY <2>1, <2>2, <2>5
<1> QED
  BY <1>1, <1>2, <1>3

LEMMA SuffixAgrees ==
    ASSUME IsFile, NEW f, NEW g, NEW p \in Positions, AgreeBehind(f, g, p), At(p) \in SuffixStarts
    PROVE  parseSuffix(f, p) = parseSuffix(g, p) /\ Moves(parseSuffix(f, p), p)
<1>1. CASE At(p) = "LeftParen"
  BY <1>1, CallAgrees DEF parseSuffix
<1>2. CASE At(p) = "LeftBracket"
  BY <1>2, IndexAgrees DEF parseSuffix
<1>3. CASE At(p) = "Dot"
  BY <1>3, MemberMoves DEF parseSuffix
<1>4. CASE At(p) = "?"
  <2>1. p + 1 \in Positions /\ p + 1 > p
    BY <1>4, NextPosition
  <2>2. PICK v : v = [node |-> "ErrorPropagation", to |-> p]
    OBVIOUS
  <2>3. parseSuffix(f, p) = Parsed(v, p + 1) /\ parseSuffix(g, p) = Parsed(v, p + 1)
    BY <1>4, <2>2 DEF parseSuffix
  <2>4. Moves(Parsed(v, p + 1), p)
    BY <2>1, ParsedShape DEF Moves
  <2> QED
    BY <2>3, <2>4
<1> QED
  BY <1>1, <1>2, <1>3, <1>4 DEF SuffixStarts

LEMMA PostfixAgrees ==
    ASSUME IsFile, NEW f, NEW g, NEW p \in Positions, AgreeBehind(f, g, p)
    PROVE  parsePostfix(f, p) = parsePostfix(g, p) /\ Stays(parsePostfix(f, p), p)
<1>0. PICK r : r = parsePostfix(f, p)
  OBVIOUS
<1>1. CASE At(p) \notin SuffixStarts
  <2>1. parsePostfix(f, p) = parsePostfix(g, p)
    BY <1>1 DEF parsePostfix
  <2>2. Accepted(r) /\ reached(r) = p
    BY <1>0, <1>1, PostfixShape
  <2>3. Stays(r, p)
    BY <2>2, PositionFacts DEF Stays
  <2> QED
    BY <1>0, <2>1, <2>3
<1>2. CASE At(p) \in SuffixStarts
  <2>1. PICK a : a = parseSuffix(f, p)
    OBVIOUS
  <2>2. parseSuffix(g, p) = a /\ Moves(a, p)
    BY <1>2, <2>1, SuffixAgrees
  <2>3. PICK b : b = call(f, SuffixList, reached(a))
    OBVIOUS
  <2>4. Accepted(a) => call(g, SuffixList, reached(a)) = b /\ Stays(b, reached(a))
    BY <2>2, <2>3, RoutineFacts, Ahead DEF Moves
  <2>5. parsePostfix(f, p) = parsePostfix(g, p)
    BY <1>2, <2>1, <2>2, <2>3, <2>4 DEF parsePostfix, Then
  <2>6. Accepted(r) => Accepted(a) /\ Accepted(b) /\ reached(r) = reached(b)
    BY <1>0, <1>2, <2>1, <2>3, PostfixShape
  <2>7. Stays(r, p)
    BY <2>2, <2>4, <2>6, PositionFacts DEF Stays, Moves
  <2> QED
    BY <1>0, <2>5, <2>7
<1> QED
  BY <1>1, <1>2

LEMMA UnaryAgrees ==
    ASSUME IsFile, NEW f, NEW g, NEW p \in Positions, AgreeBehind(f, g, p)
    PROVE  parseUnary(f, p) = parseUnary(g, p) /\ Moves(parseUnary(f, p), p)
<1>0. PICK r : r = parseUnary(f, p)
  OBVIOUS
<1>1. CASE At(p) \in {"!", "-", "&"}
  <2>1. PICK q : q = IF At(p) = "&" /\ At(p + 1) = "mut" THEN p + 2 ELSE p + 1
    OBVIOUS
  <2>2. q \in Positions /\ q > p /\ p \in Nat
    BY <1>1, <2>1, PositionFacts
  <2>3. PICK a : a = call(f, UnaryTier, q)
    OBVIOUS
  <2>4. call(g, UnaryTier, q) = a /\ Moves(a, q)
    BY <2>2, <2>3, RoutineFacts, Ahead
  <2>5. parseUnary(f, p) = parseUnary(g, p)
    BY <1>1, <2>1, <2>3, <2>4 DEF parseUnary
  <2>6. Accepted(r) => Accepted(a) /\ reached(r) = reached(a)
    BY <1>0, <1>1, <2>1, <2>3, UnaryShape
  <2>7. Moves(r, p)
    BY <2>2, <2>4, <2>6, PositionFacts DEF Moves
  <2> QED
    BY <1>0, <2>5, <2>7
<1>2. CASE At(p) \notin {"!", "-", "&"}
  <2>1. PICK a : a = parsePrimary(f, p)
    OBVIOUS
  <2>2. parsePrimary(g, p) = a /\ Moves(a, p)
    BY <2>1, PrimaryAgrees
  <2>3. PICK b : b = call(f, SuffixList, reached(a))
    OBVIOUS
  <2>4. Accepted(a) => call(g, SuffixList, reached(a)) = b /\ Stays(b, reached(a))
    BY <2>2, <2>3, RoutineFacts, Ahead DEF Moves
  <2>5. parseUnary(f, p) = parseUnary(g, p)
    BY <1>2, <2>1, <2>2, <2>3, <2>4 DEF parseUnary, Then
  <2>6. Accepted(r) => Accepted(a) /\ Accepted(b) /\ reached(r) = reached(b)
    BY <1>0, <1>2, <2>1, <2>3, UnaryShape
  <2>7. Moves(r, p)
    BY <2>2, <2>4, <2>6, PositionFacts DEF Moves, Stays
  <2> QED
    BY <1>0, <2>5, <2>7
<1> QED
  BY <1>1, <1>2

LEMMA TypeAfterAgrees ==
    ASSUME IsFile, NEW f, NEW g, NEW p \in Positions, AgreeBehind(f, g, p), NEW q \in Positions, q > p,
           NEW kind, kind # "EndOfFile"
    PROVE  parseTypeAfter(f, kind, q) = parseTypeAfter(g, kind, q) /\ Stays(parseTypeAfter(f, kind, q), q)
<1>0. PICK r : r = parseTypeAfter(f, kind, q)
  OBVIOUS
<1>1. CASE At(q) = kind
  <2>1. q + 1 \in Positions /\ q + 1 > p /\ q \in Nat
    BY <1>1, PositionFacts
  <2>2. PICK a : a = call(f, TypeSyntax, q + 1)
    OBVIOUS
  <2>3. call(g, TypeSyntax, q + 1) = a /\ Moves(a, q + 1)
    BY <2>1, <2>2, RoutineFacts, Ahead
  <2>4. parseTypeAfter(f, kind, q) = parseTypeAfter(g, kind, q)
    BY <2>2, <2>3 DEF parseTypeAfter
  <2>5. Accepted(r) => Accepted(a) /\ reached(r) = reached(a)
    BY <1>0, <1>1, <2>2, TypeAfterShape
  <2>6. Stays(r, q)
    BY <2>1, <2>3, <2>5, PositionFacts DEF Moves, Stays
  <2> QED
    BY <1>0, <2>4, <2>6
<1>2. CASE At(q) # kind
  <2>1. parseTypeAfter(f, kind, q) = parseTypeAfter(g, kind, q)
    BY <1>2 DEF parseTypeAfter
  <2>2. Accepted(r) /\ reached(r) = q
    BY <1>0, <1>2, TypeAfterShape
  <2>3. Stays(r, q)
    BY <2>2, PositionFacts DEF Stays
  <2> QED
    BY <1>0, <2>1, <2>3
<1> QED
  BY <1>1, <1>2

LEMMA BlockAgrees ==
    ASSUME IsFile, NEW f, NEW g, NEW p \in Positions, AgreeBehind(f, g, p), NEW q \in Positions, q >= p
    PROVE  parseBlock(f, q) = parseBlock(g, q) /\ Moves(parseBlock(f, q), q)
<1>0. PICK r : r = parseBlock(f, q)
  OBVIOUS
<1>1. CASE At(q) # "LeftBrace"
  <2>1. parseBlock(f, q) = parseBlock(g, q)
    BY <1>1, ExpectShape DEF parseBlock, Then
  <2>2. ~Accepted(r)
    BY <1>0, <1>1, BlockShape
  <2> QED
    BY <1>0, <2>1, <2>2 DEF Moves
<1>2. CASE At(q) = "LeftBrace"
  <2>1. q + 1 \in Positions /\ q + 1 > p /\ q \in Nat
    BY <1>2, PositionFacts
  <2>2. PICK a : a = call(f, StatementList, q + 1)
    OBVIOUS
  <2>3. call(g, StatementList, q + 1) = a /\ Stays(a, q + 1)
    BY <2>1, <2>2, RoutineFacts, Ahead
  <2>4. parseBlock(f, q) = parseBlock(g, q)
    BY <1>2, <2>2, <2>3, ExpectShape, ParsedShape DEF parseBlock, Then
  <2>5. Accepted(r) => Accepted(a) /\ At(reached(a)) = "RightBrace" /\ reached(r) = reached(a) + 1
    BY <1>0, <2>2, BlockShape
  <2>6. Accepted(a) /\ At(reached(a)) = "RightBrace" => reached(a) + 1 \in Positions /\ reached(a) + 1 > q
    BY <2>1, <2>3, PositionFacts DEF Stays
  <2>7. Moves(r, q)
    BY <2>5, <2>6 DEF Moves
  <2> QED
    BY <1>0, <2>4, <2>7
<1> QED
  BY <1>1, <1>2

LEMMA VarDeclAgrees ==
    ASSUME IsFile, NEW f, NEW g, NEW p \in Positions, AgreeBehind(f, g, p), At(p) \in {"let", "mut"}
    PROVE  parseVarDeclStmt(f, p) = parseVarDeclStmt(g, p) /\ Moves(parseVarDeclStmt(f, p), p)
<1>0. PICK r : r = parseVarDeclStmt(f, p)
  OBVIOUS
<1>1. p + 1 \in Positions /\ p + 1 > p /\ p \in Nat
  BY NextPosition
<1>2. CASE At(p + 1) # "Identifier"
  <2>1. parseVarDeclStmt(f, p) = parseVarDeclStmt(g, p)
    BY <1>2, ExpectShape DEF parseVarDeclStmt, Then
  <2>2. ~Accepted(r)
    BY <1>0, <1>2, VarDeclShape
  <2> QED
    BY <1>0, <2>1, <2>2 DEF Moves
<1>3. CASE At(p + 1) = "Identifier"
  <2>1. p + 1 + 1 \in Positions /\ p + 1 + 1 > p
    BY <1>1, <1>3, PositionFacts
  <2>2. PICK a : a = parseTypeAfter(f, "Colon", p + 1 + 1)
    OBVIOUS
  <2>3. parseTypeAfter(g, "Colon", p + 1 + 1) = a /\ Stays(a, p + 1 + 1)
    BY <2>1, <2>2, TypeAfterAgrees
  <2>4. Accepted(a) /\ At(reached(a)) = "=" => reached(a) + 1 \in Positions /\ reached(a) + 1 > p
    BY <1>1, <2>1, <2>3, PositionFacts DEF Stays
  <2>5. PICK b : b = call(f, Expression, reached(a) + 1)
    OBVIOUS
  <2>6. Accepted(a) /\ At(reached(a)) = "=" =>
            call(g, Expression, reached(a) + 1) = b /\ Moves(b, reached(a) + 1)
    BY <2>4, <2>5, RoutineFacts, Ahead
  <2>7. parseVarDeclStmt(f, p) = parseVarDeclStmt(g, p)
    BY <1>3, <2>2, <2>3, <2>5, <2>6, ExpectShape, ParsedShape DEF parseVarDeclStmt, Then
  <2>8. Accepted(r) => Accepted(a) /\ At(reached(a)) = "=" /\ Accepted(b) /\ reached(r) = reached(b)
    BY <1>0, <2>2, <2>5, VarDeclShape
  <2>9. Moves(r, p)
    BY <1>1, <2>4, <2>6, <2>8, PositionFacts DEF Moves
  <2> QED
    BY <1>0, <2>7, <2>9
<1> QED
  BY <1>2, <1>3

LEMMA ReturnAgrees ==
    ASSUME IsFile, NEW f, NEW g, NEW p \in Positions, AgreeBehind(f, g, p), At(p) = "return"
    PROVE  parseReturnStmt(f, p) = parseReturnStmt(g, p) /\ Moves(parseReturnStmt(f, p), p)
<1>1. p + 1 \in Positions /\ p + 1 > p /\ p \in Nat
  BY NextPosition
<1>2. PICK a : a = call(f, Expression, p + 1)
  OBVIOUS
<1>3. call(g, Expression, p + 1) = a /\ Moves(a, p + 1)
  BY <1>1, <1>2, RoutineFacts, Ahead
<1>4. parseReturnStmt(f, p) = parseReturnStmt(g, p)
  BY <1>2, <1>3 DEF parseReturnStmt
<1>5. PICK r : r = parseReturnStmt(f, p)
  OBVIOUS
<1>6. Accepted(r) => reached(r) = p + 1 \/ (Accepted(a) /\ reached(r) = reached(a))
  BY <1>2, <1>5, ReturnShape
<1>7. Moves(r, p)
  BY <1>1, <1>3, <1>6, PositionFacts DEF Moves
<1> QED
  BY <1>4, <1>5, <1>7

\* An expression and a block, as behind "if" and "while" and in a "for".
LEMMA BranchAgrees ==
    ASSUME IsFile, NEW f, NEW g, NEW p \in Positions, AgreeBehind(f, g, p), NEW q \in Positions, q > p,
           NEW a, a = call(f, Expression, q), NEW b, b = parseBlock(f, reached(a))
    PROVE  /\ call(g, Expression, q) = a
           /\ Accepted(a) => parseBlock(g, reached(a)) = b
           /\ Accepted(a) /\ Accepted(b) => reached(b) \in Positions /\ reached(b) > p
<1>1. call(g, Expression, q) = a /\ Moves(a, q)
  BY RoutineFacts, Ahead
<1>2. Accepted(a) => reached(a) \in Positions /\ reached(a) > p
  BY <1>1, PositionFacts DEF Moves
<1>3. Accepted(a) => parseBlock(g, reached(a)) = b /\ Moves(b, reached(a))
  <2> SUFFICES ASSUME Accepted(a) PROVE parseBlock(g, reached(a)) = b /\ Moves(b, reached(a))
    OBVIOUS
  <2>1. PICK e \in Positions : e = reached(a) /\ e > p
    BY <1>2
  <2>2. e >= p
    BY <2>1, PositionFacts
  <2> QED
    BY <2>1, <2>2, BlockAgrees
<1> QED
  BY <1>1, <1>2, <1>3, PositionFacts DEF Moves

LEMMA ElsesAgrees ==
    ASSUME IsFile, NEW f, NEW g, NEW p \in Positions, AgreeBehind(f, g, p)
    PROVE  parseElses(f, p) = parseElses(g, p) /\ Stays(parseElses(f, p), p)
<1>0. PICK r : r = parseElses(f, p)
  OBVIOUS
<1>1. PICK s \in Positions : s = skipNewlines(p) /\ s >= p
  BY NewlineFacts
<1>2. s \in Nat /\ p \in Nat
  BY PositionFacts
<1>3. CASE At(s) # "else"
  <2>1. parseElses(f, p) = parseElses(g, p)
    BY <1>1, <1>3 DEF parseElses
  <2>2. Accepted(r) => reached(r) = s
    BY <1>0, <1>1, <1>3, ElsesShape
  <2>3. Stays(r, p)
    BY <1>1, <2>2 DEF Stays
  <2> QED
    BY <1>0, <2>1, <2>3
<1>4. CASE At(s) = "else" /\ At(s + 1) = "if"
  <2>1. s + 2 \in Positions /\ s + 2 > p
    BY <1>1, <1>2, <1>4, PositionFacts
  <2>2. PICK a : a = call(f, Expression, s + 2)
    OBVIOUS
  <2>3. PICK b : b = parseBlock(f, reached(a))
    OBVIOUS
  <2>4. PICK c : c = call(f, ElseList, reached(b))
    OBVIOUS
  <2>5. /\ call(g, Expression, s + 2) = a
        /\ Accepted(a) => parseBlock(g, reached(a)) = b
        /\ Accepted(a) /\ Accepted(b) => reached(b) \in Positions /\ reached(b) > p
    BY <2>1, <2>2, <2>3, BranchAgrees
  <2>6. Accepted(a) /\ Accepted(b) => call(g, ElseList, reached(b)) = c /\ Stays(c, reached(b))
    BY <2>4, <2>5, RoutineFacts, Ahead
  <2>7. parseElses(f, p) = parseElses(g, p)
    BY <1>1, <1>4, <2>2, <2>3, <2>4, <2>5, <2>6 DEF parseElses, Then
  <2>8. Accepted(r) => Accepted(a) /\ Accepted(b) /\ Accepted(c) /\ reached(r) = reached(c)
    BY <1>0, <1>1, <1>4, <2>2, <2>3, <2>4, ElsesShape
  <2>9. Stays(r, p)
    BY <1>2, <2>5, <2>6, <2>8, PositionFacts DEF Stays
  <2> QED
    BY <1>0, <2>7, <2>9
<1>5. CASE At(s) = "else" /\ At(s + 1) # "if"
  <2>1. s + 1 \in Positions /\ s + 1 > p /\ s + 1 >= p
    BY <1>1, <1>2, <1>5, PositionFacts
  <2>2. PICK a : a = parseBlock(f, s + 1)
    OBVIOUS
  <2>3. parseBlock(g, s + 1) = a /\ Moves(a, s + 1)
    BY <2>1, <2>2, BlockAgrees
  <2>4. parseElses(f, p) = parseElses(g, p)
    BY <1>1, <1>5, <2>2, <2>3 DEF parseElses, Then
  <2>5. Accepted(r) => Accepted(a) /\ reached(r) = reached(a)
    BY <1>0, <1>1, <1>5, <2>2, ElsesShape
  <2>6. Stays(r, p)
    BY <1>2, <2>1, <2>3, <2>5, PositionFacts DEF Stays, Moves
  <2> QED
    BY <1>0, <2>4, <2>6
<1> QED
  BY <1>3, <1>4, <1>5

LEMMA IfAgrees ==
    ASSUME IsFile, NEW f, NEW g, NEW p \in Positions, AgreeBehind(f, g, p), At(p) = "if"
    PROVE  parseIfStmt(f, p) = parseIfStmt(g, p) /\ Moves(parseIfStmt(f, p), p)
<1>0. PICK r : r = parseIfStmt(f, p)
  OBVIOUS
<1>1. p + 1 \in Positions /\ p + 1 > p /\ p \in Nat
  BY NextPosition
<1>2. PICK a : a = call(f, Expression, p + 1)
  OBVIOUS
<1>3. PICK b : b = parseBlock(f, reached(a))
  OBVIOUS
<1>4. PICK c : c = call(f, ElseList, reached(b))
  OBVIOUS
<1>5. /\ call(g, Expression, p + 1) = a
      /\ Accepted(a) => parseBlock(g, reached(a)) = b
      /\ Accepted(a) /\ Accepted(b) => reached(b) \in Positions /\ reached(b) > p
  BY <1>1, <1>2, <1>3, BranchAgrees
<1>6. Accepted(a) /\ Accepted(b) => call(g, ElseList, reached(b)) = c /\ Stays(c, reached(b))
  BY <1>4, <1>5, RoutineFacts, Ahead
<1>7. parseIfStmt(f, p) = parseIfStmt(g, p)
  BY <1>2, <1>3, <1>4, <1>5, <1>6 DEF parseIfStmt, Then
<1>8. Accepted(r) => Accepted(a) /\ Accepted(b) /\ Accepted(c) /\ reached(r) = reached(c)
  BY <1>0, <1>2, <1>3, <1>4, IfShape
<1>9. Moves(r, p)
  BY <1>1, <1>5, <1>6, <1>8, PositionFacts DEF Stays, Moves
<1> QED
  BY <1>0, <1>7, <1>9

LEMMA WhileAgrees ==
    ASSUME IsFile, NEW f, NEW g, NEW p \in Positions, AgreeBehind(f, g, p), At(p) = "while"
    PROVE  parseWhileStmt(f, p) = parseWhileStmt(g, p) /\ Moves(parseWhileStmt(f, p), p)
<1>0. PICK r : r = parseWhileStmt(f, p)
  OBVIOUS
<1>1. p + 1 \in Positions /\ p + 1 > p
  BY NextPosition
<1>2. PICK a : a = call(f, Expression, p + 1)
  OBVIOUS
<1>3. PICK b : b = parseBlock(f, reached(a))
  OBVIOUS
<1>4. /\ call(g, Expression, p + 1) = a
      /\ Accepted(a) => parseBlock(g, reached(a)) = b
      /\ Accepted(a) /\ Accepted(b) => reached(b) \in Positions /\ reached(b) > p
  BY <1>1, <1>2, <1>3, BranchAgrees
<1>5. parseWhileStmt(f, p) = parseWhileStmt(g, p)
  BY <1>2, <1>3, <1>4 DEF parseWhileStmt, Then
<1>6. Accepted(r) => Accepted(a) /\ Accepted(b) /\ reached(r) = reached(b)
  BY <1>0, <1>2, <1>3, WhileShape
<1>7. Moves(r, p)
  BY <1>4, <1>6 DEF Moves
<1> QED
  BY <1>0, <1>5, <1>7

LEMMA ForAgrees ==
    ASSUME IsFile, NEW f, NEW g, NEW p \in Positions, AgreeBehind(f, g, p), At(p) = "for"
    PROVE  parseForStmt(f, p) = parseForStmt(g, p) /\ Moves(parseForStmt(f, p), p)
<1>0. PICK r : r = parseForStmt(f, p)
  OBVIOUS
<1>1. p + 1 \in Positions /\ p + 1 > p /\ p \in Nat
  BY NextPosition
<1>2. CASE At(p + 1) # "Identifier" \/ At(p + 1 + 1) # "in"
  <2>1. parseForStmt(f, p) = parseForStmt(g, p)
    BY <1>2, ExpectShape, ParsedShape DEF parseForStmt, Then
  <2>2. ~Accepted(r)
    BY <1>0, <1>2, ForShape
  <2> QED
    BY <1>0, <2>1, <2>2 DEF Moves
<1>3. CASE At(p + 1) = "Identifier" /\ At(p + 1 + 1) = "in"
  <2>1. p + 1 + 1 + 1 \in Positions /\ p + 1 + 1 + 1 > p
    BY <1>1, <1>3, PositionFacts
  <2>2. PICK a : a = call(f, Expression, p + 1 + 1 + 1)
    OBVIOUS
  <2>3. PICK b : b = parseBlock(f, reached(a))
    OBVIOUS
  <2>4. /\ call(g, Expression, p + 1 + 1 + 1) = a
        /\ Accepted(a) => parseBlock(g, reached(a)) = b
        /\ Accepted(a) /\ Accepted(b) => reached(b) \in Positions /\ reached(b) > p
    BY <2>1, <2>2, <2>3, BranchAgrees
  <2>5. parseForStmt(f, p) = parseForStmt(g, p)
    BY <1>3, <2>2, <2>3, <2>4, ExpectShape, ParsedShape DEF parseForStmt, Then
  <2>6. Accepted(r) => Accepted(a) /\ Accepted(b) /\ reached(r) = reached(b)
    BY <1>0, <2>2, <2>3, ForShape
  <2>7. Moves(r, p)
    BY <2>4, <2>6 DEF Moves
  <2> QED
    BY <1>0, <2>5, <2>7
<1> QED
  BY <1>2, <1>3

LEMMA StatementAgrees ==
    ASSUME IsFile, NEW f, NEW g, NEW p \in Positions, AgreeBehind(f, g, p), Agree(f, g, Expression, p)
    PROVE  parseStatement(f, p) = parseStatement(g, p) /\ Moves(parseStatement(f, p), p)
<1>1. CASE At(p) \in {"let", "mut"}
  BY <1>1, VarDeclAgrees, StatementShape
<1>2. CASE At(p) = "return"
  BY <1>2, ReturnAgrees, StatementShape
<1>3. CASE At(p) = "if"
  BY <1>3, IfAgrees, StatementShape
<1>4. CASE At(p) = "while"
  BY <1>4, WhileAgrees, StatementShape
<1>5. CASE At(p) = "for"
  BY <1>5, ForAgrees, StatementShape
<1>6. CASE At(p) \notin {"let", "mut", "return", "if", "while", "for"}
  <2>1. PICK a : a = call(f, Expression, p)
    OBVIOUS
  <2>2. call(g, Expression, p) = a /\ Moves(a, p)
    BY <2>1, RoutineFacts DEF Agree
  <2>3. parseStatement(f, p) = parseStatement(g, p)
    BY <1>6, <2>1, <2>2 DEF parseStatement
  <2>4. PICK r : r = parseStatement(f, p)
    OBVIOUS
  <2>5. Accepted(r) => Accepted(a) /\ reached(r) = reached(a)
    BY <1>6, <2>1, <2>4, StatementShape
  <2>6. Moves(r, p)
    BY <2>2, <2>5 DEF Moves
  <2> QED
    BY <2>3, <2>4, <2>6
<1> QED
  BY <1>1, <1>2, <1>3, <1>4, <1>5, <1>6

LEMMA StatementsAgrees ==
    ASSUME IsFile, NEW f, NEW g, NEW p \in Positions, AgreeBehind(f, g, p), Agree(f, g, Expression, p)
    PROVE  parseStatements(f, p) = parseStatements(g, p) /\ Stays(parseStatements(f, p), p)
<1>0. PICK r : r = parseStatements(f, p)
  OBVIOUS
<1>1. PICK s \in Positions : s = skipSeparators(p) /\ s >= p
  BY SeparatorFacts
<1>2. s \in Nat /\ p \in Nat
  BY PositionFacts
<1>3. CASE At(s) \in {"RightBrace", "EndOfFile"}
  <2>1. parseStatements(f, p) = parseStatements(g, p)
    BY <1>1, <1>3 DEF parseStatements
  <2>2. Accepted(r) => reached(r) = s
    BY <1>0, <1>1, <1>3, StatementsShape
  <2> QED
    BY <1>0, <1>1, <2>1, <2>2 DEF Stays
<1>4. CASE At(s) \notin {"RightBrace", "EndOfFile"}
  <2>1. AgreeBehind(f, g, s) /\ Agree(f, g, Expression, s)
    <3>1. CASE s = p
      BY <3>1
    <3>2. CASE s > p
      BY <3>2, <1>2, AgreeLater, RoutineFacts DEF AgreeBehind
    <3> QED
      BY <1>1, <1>2, <3>1, <3>2
  <2>2. PICK a : a = parseStatement(f, s)
    OBVIOUS
  <2>3. parseStatement(g, s) = a /\ Moves(a, s)
    BY <2>1, <2>2, StatementAgrees
  <2>4. PICK b : b = call(f, StatementList, reached(a))
    OBVIOUS
  <2>5. Accepted(a) => call(g, StatementList, reached(a)) = b /\ Stays(b, reached(a))
    BY <2>1, <2>3, <2>4, RoutineFacts, Ahead DEF Moves
  <2>6. parseStatements(f, p) = parseStatements(g, p)
    BY <1>1, <1>4, <2>2, <2>3, <2>4, <2>5 DEF parseStatements, Then
  <2>7. Accepted(r) => Accepted(a) /\ Accepted(b) /\ reached(r) = reached(b)
    BY <1>0, <1>1, <1>4, <2>2, <2>4, StatementsShape
  <2>8. Stays(r, p)
    BY <1>1, <1>2, <2>3, <2>5, <2>7, PositionFacts DEF Stays, Moves
  <2> QED
    BY <1>0, <2>6, <2>8
<1> QED
  BY <1>3, <1>4

LEMMA ParamsAgrees ==
    ASSUME IsFile, NEW f, NEW g, NEW p \in Positions, AgreeBehind(f, g, p)
    PROVE  parseParams(f, p) = parseParams(g, p) /\ Moves(parseParams(f, p), p)
<1>0. PICK r : r = parseParams(f, p)
  OBVIOUS
<1>1. CASE At(p) # "Identifier" \/ At(p + 1) # "Colon"
  <2>1. parseParams(f, p) = parseParams(g, p)
    BY <1>1, ExpectShape, ParsedShape DEF parseParams, Then
  <2>2. ~Accepted(r)
    BY <1>0, <1>1, ParamsShape
  <2> QED
    BY <1>0, <2>1, <2>2 DEF Moves
<1>2. CASE At(p) = "Identifier" /\ At(p + 1) = "Colon"
  <2>1. p + 1 + 1 \in Positions /\ p + 1 + 1 > p /\ p \in Nat
    BY <1>2, PositionFacts
  <2>2. PICK a : a = call(f, TypeSyntax, p + 1 + 1)
    OBVIOUS
  <2>3. call(g, TypeSyntax, p + 1 + 1) = a /\ Moves(a, p + 1 + 1)
    BY <2>1, <2>2, RoutineFacts, Ahead
  <2>4. Accepted(a) /\ At(reached(a)) = "Comma" =>
            reached(a) + 1 \in Positions /\ reached(a) + 1 > p /\ reached(a) \in Nat
    BY <2>1, <2>3, PositionFacts DEF Moves
  <2>5. PICK b : b = call(f, ParamList, reached(a) + 1)
    OBVIOUS
  <2>6. Accepted(a) /\ At(reached(a)) = "Comma" =>
            call(g, ParamList, reached(a) + 1) = b /\ Moves(b, reached(a) + 1)
    BY <2>4, <2>5, RoutineFacts, Ahead
  <2>7. parseParams(f, p) = parseParams(g, p)
    BY <1>2, <2>2, <2>3, <2>5, <2>6, ExpectShape, ParsedShape DEF parseParams, Then
  <2>8. Accepted(r) => Accepted(a) /\ IF At(reached(a)) = "Comma"
                                      THEN Accepted(b) /\ reached(r) = reached(b)
                                      ELSE reached(r) = reached(a)
    BY <1>0, <2>2, <2>5, ParamsShape
  <2>9. Moves(r, p)
    BY <2>1, <2>3, <2>4, <2>6, <2>8, PositionFacts DEF Moves
  <2> QED
    BY <1>0, <2>7, <2>9
<1> QED
  BY <1>1, <1>2

LEMMA ParamListShape ==
    ASSUME NEW self, NEW p, NEW r, r = parseParamList(self, p)
    PROVE  /\ At(p) = "RightParen" => Accepted(r) /\ reached(r) = p
           /\ At(p) # "RightParen" => r = call(self, ParamList, p)
  BY ParsedShape DEF parseParamList

LEMMA SignatureAgrees ==
    ASSUME IsFile, NEW f, NEW g, NEW p \in Positions, AgreeBehind(f, g, p), NEW q \in Positions, q >= p
    PROVE  parseSignature(f, q) = parseSignature(g, q) /\ Moves(parseSignature(f, q), q)
<1>0. PICK r : r = parseSignature(f, q)
  OBVIOUS
<1> DEFINE head == At(q) = "fn" /\ At(q + 1) = "Identifier" /\ At(q + 1 + 1) = "LeftParen"
<1>1. CASE ~head
  <2>1. parseSignature(f, q) = parseSignature(g, q)
    BY <1>1, ExpectShape, ParsedShape DEF parseSignature, Then
  <2>2. ~Accepted(r)
    BY <1>0, <1>1, SignatureShape
  <2> QED
    BY <1>0, <2>1, <2>2 DEF Moves
<1>2. CASE head
  <2>1. q + 1 + 1 + 1 \in Positions /\ q + 1 + 1 + 1 > p /\ q + 1 + 1 + 1 > q /\ q \in Nat
    BY <1>2, PositionFacts
  <2>2. PICK a : a = parseParamList(f, q + 1 + 1 + 1)
    OBVIOUS
  <2>3. parseParamList(g, q + 1 + 1 + 1) = a /\ Stays(a, q + 1 + 1 + 1)
    <3>1. PICK b : b = call(f, ParamList, q + 1 + 1 + 1)
      OBVIOUS
    <3>2. call(g, ParamList, q + 1 + 1 + 1) = b /\ Stays(b, q + 1 + 1 + 1)
      BY <2>1, <3>1, RoutineFacts, Ahead
    <3>3. parseParamList(g, q + 1 + 1 + 1) = a
      BY <2>2, <3>1, <3>2 DEF parseParamList
    <3>4. a = b \/ (Accepted(a) /\ reached(a) = q + 1 + 1 + 1)
      BY <2>2, <3>1, ParamListShape
    <3>5. Stays(a, q + 1 + 1 + 1)
      BY <2>1, <3>2, <3>4 DEF Stays
    <3> QED
      BY <3>3, <3>5
  <2>4. parseSignature(f, q) = parseSignature(g, q)
    BY <1>2, <2>2, <2>3, ExpectShape, ParsedShape DEF parseSignature, Then
  <2>5. Accepted(r) => Accepted(a) /\ At(reached(a)) = "RightParen" /\ reached(r) = reached(a) + 1
    BY <1>0, <2>2, SignatureShape
  <2>6. Accepted(a) /\ At(reached(a)) = "RightParen" => reached(a) + 1 \in Positions /\ reached(a) + 1 > q
    BY <2>1, <2>3, PositionFacts DEF Stays
  <2>7. Moves(r, q)
    BY <2>5, <2>6 DEF Moves
  <2> QED
    BY <1>0, <2>4, <2>7
<1> QED
  BY <1>1, <1>2

LEMMA FunctionAgrees ==
    ASSUME IsFile, NEW f, NEW g, NEW p \in Positions, AgreeBehind(f, g, p), NEW q \in Positions, q >= p,
           NEW public
    PROVE  /\ parseFunctionDecl(f, public, p, q) = parseFunctionDecl(g, public, p, q)
           /\ Moves(parseFunctionDecl(f, public, p, q), p)
<1>0. PICK r : r = parseFunctionDecl(f, public, p, q)
  OBVIOUS
<1>1. q \in Nat /\ p \in Nat
  BY PositionFacts
<1>2. PICK a : a = parseSignature(f, q)
  OBVIOUS
<1>3. parseSignature(g, q) = a /\ Moves(a, q)
  BY <1>2, SignatureAgrees
<1>4. Accepted(a) => reached(a) \in Positions /\ reached(a) > p
  BY <1>1, <1>3, PositionFacts DEF Moves
<1>5. PICK b : b = parseTypeAfter(f, "->", reached(a))
  OBVIOUS
<1>6. Accepted(a) => parseTypeAfter(g, "->", reached(a)) = b /\ Stays(b, reached(a))
  BY <1>4, <1>5, TypeAfterAgrees
<1>7. Accepted(a) /\ Accepted(b) => reached(b) \in Positions /\ reached(b) >= p /\ reached(b) > p
  BY <1>1, <1>4, <1>6, PositionFacts DEF Stays
<1>8. PICK c : c = parseBlock(f, reached(b))
  OBVIOUS
<1>9. Accepted(a) /\ Accepted(b) => parseBlock(g, reached(b)) = c /\ Moves(c, reached(b))
  BY <1>7, <1>8, BlockAgrees
<1>10. parseFunctionDecl(f, public, p, q) = parseFunctionDecl(g, public, p, q)
  BY <1>2, <1>3, <1>5, <1>6, <1>8, <1>9 DEF parseFunctionDecl, Then
<1>11. Accepted(r) => Accepted(a) /\ Accepted(b) /\ Accepted(c) /\ reached(r) = reached(c)
  BY <1>0, <1>2, <1>5, <1>8, FunctionShape
<1>12. Moves(r, p)
  BY <1>1, <1>7, <1>9, <1>11, PositionFacts DEF Moves
<1> QED
  BY <1>0, <1>10, <1>12

LEMMA DeclarationAgrees ==
    ASSUME IsFile, NEW f, NEW g, NEW p \in Positions, AgreeBehind(f, g, p)
    PROVE  parseDeclaration(f, p) = parseDeclaration(g, p) /\ Moves(parseDeclaration(f, p), p)
<1>1. PICK q : q = IF At(p) = "pub" THEN p + 1 ELSE p
  OBVIOUS
<1>2. q \in Positions /\ q >= p
  BY <1>1, PositionFacts
<1>3. CASE At(q) = "fn"
  BY <1>1, <1>2, <1>3, FunctionAgrees, DeclarationShape
<1>4. CASE At(q) # "fn"
  <2>1. parseDeclaration(f, p) = parseDeclaration(g, p)
    BY <1>1, <1>4 DEF parseDeclaration
  <2>2. ~Accepted(parseDeclaration(f, p))
    BY <1>1, <1>4, DeclarationShape
  <2> QED
    BY <2>1, <2>2 DEF Moves
<1> QED
  BY <1>3, <1>4

LEMMA DeclarationsAgrees ==
    ASSUME IsFile, NEW f, NEW g, NEW p \in Positions, AgreeBehind(f, g, p)
    PROVE  parseDeclarations(f, p) = parseDeclarations(g, p) /\ Stays(parseDeclarations(f, p), p)
<1>0. PICK r : r = parseDeclarations(f, p)
  OBVIOUS
<1>1. PICK s \in Positions : s = skipSeparators(p) /\ s >= p
  BY SeparatorFacts
<1>2. s \in Nat /\ p \in Nat
  BY PositionFacts
<1>3. CASE At(s) = "EndOfFile"
  <2>1. parseDeclarations(f, p) = parseDeclarations(g, p)
    BY <1>1, <1>3 DEF parseDeclarations
  <2>2. Accepted(r) => reached(r) = s
    BY <1>0, <1>1, <1>3, DeclarationsShape
  <2> QED
    BY <1>0, <1>1, <2>1, <2>2 DEF Stays
<1>4. CASE At(s) # "EndOfFile"
  <2>1. AgreeBehind(f, g, s)
    BY <1>1, AgreeLater
  <2>2. PICK a : a = parseDeclaration(f, s)
    OBVIOUS
  <2>3. parseDeclaration(g, s) = a /\ Moves(a, s)
    BY <2>1, <2>2, DeclarationAgrees
  <2>4. PICK b : b = call(f, DeclarationList, reached(a))
    OBVIOUS
  <2>5. Accepted(a) => call(g, DeclarationList, reached(a)) = b /\ Stays(b, reached(a))
    BY <2>1, <2>3, <2>4, RoutineFacts, Ahead DEF Moves
  <2>6. parseDeclarations(f, p) = parseDeclarations(g, p)
    BY <1>1, <1>4, <2>2, <2>3, <2>4, <2>5 DEF parseDeclarations, Then
  <2>7. Accepted(r) => Accepted(a) /\ Accepted(b) /\ reached(r) = reached(b)
    BY <1>0, <1>1, <1>4, <2>2, <2>4, DeclarationsShape
  <2>8. Stays(r, p)
    BY <1>1, <1>2, <2>3, <2>5, <2>7, PositionFacts DEF Stays, Moves
  <2> QED
    BY <1>0, <2>6, <2>8
<1> QED
  BY <1>3, <1>4

----------------------------------------------------------------------------
(* The routines by their numbers *)

LEMMA RunIs ==
    ASSUME NEW self, NEW p
    PROVE  /\ run(self, Expression, p) = parseExpression(self, p)
           /\ \A tier \in 1 .. 7 : run(self, tier, p) = parseTier(self, tier, p)
           /\ run(self, UnaryTier, p) = parseUnary(self, p)
           /\ run(self, SuffixList, p) = parsePostfix(self, p)
           /\ run(self, ExpressionList, p) = parseExpressionList(self, p)
           /\ \A tier \in 1 .. 7 : run(self, Rest(tier), p) = continueTier(self, tier, p)
           /\ run(self, TypeSyntax, p) = parseTypeSyntax(self, p)
           /\ run(self, TypeList, p) = parseTypeList(self, p)
           /\ run(self, StatementList, p) = parseStatements(self, p)
           /\ run(self, ElseList, p) = parseElses(self, p)
           /\ run(self, ParamList, p) = parseParams(self, p)
           /\ run(self, DeclarationList, p) = parseDeclarations(self, p)
<1> USE DEF Expression, UnaryTier, SuffixList, ExpressionList, TypeSyntax, TypeList, StatementList,
        ElseList, ParamList, DeclarationList, Rest
<1>0. DOMAIN Tiers = 1 .. 7
  BY DEF Tiers
<1>1. run(self, Expression, p) = parseExpression(self, p)
  BY <1>0 DEF run
<1>2. ASSUME NEW tier \in 1 .. 7 PROVE run(self, tier, p) = parseTier(self, tier, p)
  BY <1>0 DEF run
<1>3. run(self, UnaryTier, p) = parseUnary(self, p)
  BY <1>0 DEF run
<1>4. run(self, SuffixList, p) = parsePostfix(self, p)
  BY <1>0 DEF run
<1>5. run(self, ExpressionList, p) = parseExpressionList(self, p)
  BY <1>0 DEF run
<1>6. ASSUME NEW tier \in 1 .. 7 PROVE run(self, Rest(tier), p) = continueTier(self, tier, p)
  <2>1. 10 + tier - 10 = tier /\ 10 + tier \notin {0, 8, 9, 10} /\ 10 + tier \notin 1 .. 7
    OBVIOUS
  <2> QED
    BY <1>0, <2>1 DEF run
<1>7. run(self, TypeSyntax, p) = parseTypeSyntax(self, p)
  BY <1>0 DEF run
<1>8. run(self, TypeList, p) = parseTypeList(self, p)
  BY <1>0 DEF run
<1>9. run(self, StatementList, p) = parseStatements(self, p)
  BY <1>0 DEF run
<1>10. run(self, ElseList, p) = parseElses(self, p)
  BY <1>0 DEF run
<1>11. run(self, ParamList, p) = parseParams(self, p)
  BY <1>0 DEF run
<1>12. run(self, DeclarationList, p) = parseDeclarations(self, p)
  BY <1>0 DEF run
<1> QED
  BY <1>1, <1>2, <1>3, <1>4, <1>5, <1>6, <1>7, <1>8, <1>9, <1>10, <1>11, <1>12

LEMMA EveryRoutine ==
    ASSUME NEW r \in Routines
    PROVE  \/ r \in {Expression, UnaryTier, SuffixList, ExpressionList, TypeSyntax, TypeList, StatementList,
                     ElseList, ParamList, DeclarationList}
           \/ r \in 1 .. 7
           \/ \E tier \in 1 .. 7 : r = Rest(tier)
<1> USE DEF Expression, UnaryTier, SuffixList, ExpressionList, TypeSyntax, TypeList, StatementList,
        ElseList, ParamList, DeclarationList, Rest, Routines
<1>1. CASE r \in 11 .. 17
  <2>1. r - 10 \in 1 .. 7 /\ r = Rest(r - 10)
    BY <1>1
  <2> QED
    BY <2>1
<1>2. CASE r \notin 11 .. 17
  BY <1>2
<1> QED
  BY <1>1, <1>2

----------------------------------------------------------------------------

AgreeBefore(f, g, r, p) ==
    \A h \in Routines, q \in Positions : Before(h, q, r, p) => Agree(f, g, h, q)

LEMMA BeforeFacts ==
    ASSUME IsFile, NEW f, NEW g, NEW r \in Routines, NEW p \in Positions, AgreeBefore(f, g, r, p)
    PROVE  /\ AgreeBehind(f, g, p)
           /\ \A h \in Routines : Rank(h) < Rank(r) => Agree(f, g, h, p)
  BY DEF AgreeBefore, AgreeBehind, Before

LEMMA Ranks ==
    /\ Rank(1) < Rank(Expression)
    /\ \A tier \in 1 .. 7 : Rank(tier + 1) < Rank(tier)
    /\ Rank(Expression) < Rank(ExpressionList)
    /\ Rank(TypeSyntax) < Rank(TypeList)
    /\ Rank(Expression) < Rank(StatementList)
  BY DEF Rank, Expression, UnaryTier, SuffixList, ExpressionList, TypeSyntax, TypeList, StatementList

\* What a routine gives back is determined by what those before it do.
LEMMA RunAgrees ==
    ASSUME IsFile, NEW f, NEW g, NEW r \in Routines, NEW p \in Positions, AgreeBefore(f, g, r, p)
    PROVE  /\ run(f, r, p) = run(g, r, p)
           /\ IF r \in Nullable THEN Stays(run(f, r, p), p) ELSE Moves(run(f, r, p), p)
<1>0. AgreeBehind(f, g, p) /\ \A h \in Routines : Rank(h) < Rank(r) => Agree(f, g, h, p)
  BY BeforeFacts
<1>1. CASE r = Expression
  <2>1. Agree(f, g, 1, p)
    BY <1>0, <1>1, Ranks, RoutineFacts
  <2> QED
    BY <1>0, <1>1, <2>1, ExpressionAgrees, RunIs, RoutineFacts
<1>2. CASE r \in 1 .. 7
  <2>1. Agree(f, g, r + 1, p)
    <3>1. r + 1 \in 1 .. 8
      BY <1>2
    <3> QED
      BY <1>0, <1>2, <3>1, Ranks, RoutineFacts
  <2>2. r \notin Nullable
    BY <1>2, RoutineFacts
  <2> QED
    BY <1>0, <1>2, <2>1, <2>2, TierAgrees, RunIs
<1>3. CASE r = UnaryTier
  BY <1>0, <1>3, UnaryAgrees, RunIs, RoutineFacts
<1>4. CASE r = SuffixList
  BY <1>0, <1>4, PostfixAgrees, RunIs, RoutineFacts
<1>5. CASE r = ExpressionList
  <2>1. Agree(f, g, Expression, p)
    BY <1>0, <1>5, Ranks, RoutineFacts
  <2> QED
    BY <1>0, <1>5, <2>1, ExpressionListAgrees, RunIs, RoutineFacts
<1>6. CASE \E tier \in 1 .. 7 : r = Rest(tier)
  <2>1. PICK tier \in 1 .. 7 : r = Rest(tier)
    BY <1>6
  <2> QED
    BY <1>0, <2>1, RestAgrees, RunIs, RoutineFacts
<1>7. CASE r = TypeSyntax
  BY <1>0, <1>7, TypeAgrees, RunIs, RoutineFacts
<1>8. CASE r = TypeList
  <2>1. Agree(f, g, TypeSyntax, p)
    BY <1>0, <1>8, Ranks, RoutineFacts
  <2> QED
    BY <1>0, <1>8, <2>1, TypeListAgrees, RunIs, RoutineFacts
<1>9. CASE r = StatementList
  <2>1. Agree(f, g, Expression, p)
    BY <1>0, <1>9, Ranks, RoutineFacts
  <2> QED
    BY <1>0, <1>9, <2>1, StatementsAgrees, RunIs, RoutineFacts
<1>10. CASE r = ElseList
  BY <1>0, <1>10, ElsesAgrees, RunIs, RoutineFacts
<1>11. CASE r = ParamList
  BY <1>0, <1>11, ParamsAgrees, RunIs, RoutineFacts
<1>12. CASE r = DeclarationList
  BY <1>0, <1>12, DeclarationsAgrees, RunIs, RoutineFacts
<1> QED
  BY <1>1, <1>2, <1>3, <1>4, <1>5, <1>6, <1>7, <1>8, <1>9, <1>10, <1>11, <1>12, EveryRoutine

\* Up to a key, f is what the routines make of it.
Unfolds(f, n) ==
    \A r \in Routines : \A p \in Positions : Key(r, p) < n => call(f, r, p) = run(f, r, p)

LEMMA UnfoldsMoves ==
    ASSUME IsFile, NEW f, NEW n \in Nat, Unfolds(f, n)
    PROVE  \A r \in Routines : \A p \in Positions : Key(r, p) < n => Agree(f, f, r, p)
<1> DEFINE G == {x \in Routines \X Positions : Key(x[1], x[2]) < n => Agree(f, f, x[1], x[2])}
<1>1. ASSUME NEW r \in Routines, NEW p \in Positions,
             \A h \in Routines : \A q \in Positions : Before(h, q, r, p) => <<h, q>> \in G
      PROVE  <<r, p>> \in G
  <2> SUFFICES ASSUME Key(r, p) < n PROVE Agree(f, f, r, p)
    OBVIOUS
  <2>1. AgreeBefore(f, f, r, p)
    <3> SUFFICES ASSUME NEW h \in Routines, NEW q \in Positions, Before(h, q, r, p)
                 PROVE  Agree(f, f, h, q)
      BY DEF AgreeBefore
    <3>1. <<h, q>> \in G
      BY <1>1
    <3>2. Key(h, q) < Key(r, p) /\ Key(h, q) \in Nat /\ Key(r, p) \in Nat
      BY KeyFacts
    <3>3. Key(h, q) < n
      BY <3>2
    <3> QED
      BY <3>1, <3>3
  <2>2. call(f, r, p) = run(f, r, p)
    BY DEF Unfolds
  <2> HIDE DEF G
  <2> QED
    BY <2>1, <2>2, RunAgrees DEF Agree
<1>2. \A r \in Routines : \A p \in Positions : <<r, p>> \in G
  <2> HIDE DEF G
  <2> QED
    BY <1>1, AlongTheCalls
<1> QED
  BY <1>2

LEMMA OneMoreUnfolds ==
    ASSUME IsFile, NEW f, NEW n \in Nat, Unfolds(f, n)
    PROVE  \E g : Unfolds(g, n + 1)
<1> DEFINE g == [x \in Routines \X Positions |->
                    IF Key(x[1], x[2]) < n THEN call(f, x[1], x[2]) ELSE run(f, x[1], x[2])]
<1>1. ASSUME NEW r \in Routines, NEW p \in Positions
      PROVE  /\ call(g, r, p) = run(f, r, p)
             /\ Key(r, p) < n => call(g, r, p) = call(f, r, p)
  <2>1. call(g, r, p) = IF Key(r, p) < n THEN call(f, r, p) ELSE run(f, r, p)
    BY DEF call
  <2> HIDE DEF g
  <2> QED
    BY <2>1 DEF Unfolds
<1> HIDE DEF g
<1>2. ASSUME NEW r \in Routines, NEW p \in Positions, Key(r, p) < n + 1
      PROVE  call(g, r, p) = run(g, r, p)
  <2>1. AgreeBefore(f, g, r, p)
    <3> SUFFICES ASSUME NEW h \in Routines, NEW q \in Positions, Before(h, q, r, p)
                 PROVE  Agree(f, g, h, q)
      BY DEF AgreeBefore
    <3>1. Key(h, q) < Key(r, p) /\ Key(h, q) \in Nat /\ Key(r, p) \in Nat
      BY KeyFacts
    <3>2. Key(h, q) < n
      BY <1>2, <3>1
    <3>3. Agree(f, f, h, q) /\ call(g, h, q) = call(f, h, q)
      BY <1>1, <3>2, UnfoldsMoves
    <3> QED
      BY <3>3 DEF Agree
  <2>2. run(f, r, p) = run(g, r, p)
    BY <2>1, RunAgrees
  <2> QED
    BY <1>1, <2>2
<1> QED
  BY <1>2 DEF Unfolds

LEMMA SomethingUnfolds ==
    ASSUME IsFile, NEW n \in Nat
    PROVE  \E f : Unfolds(f, n)
<1> DEFINE T == {k \in Nat : ~ \E f : Unfolds(f, k)}
<1> SUFFICES ASSUME n \in T PROVE FALSE
  OBVIOUS
<1>1. PICK m \in T : \A k \in T : m <= k
  <2>1. T \in SUBSET Nat
    OBVIOUS
  <2> HIDE DEF T
  <2> QED
    BY <2>1, LeastNumber
<1>2. m \in Nat /\ ~ \E f : Unfolds(f, m)
  OBVIOUS
<1>3. CASE m = 0
  <2>1. \A r \in Routines : \A p \in Positions : ~(Key(r, p) < 0)
    BY KeyFacts
  <2>2. \A f : Unfolds(f, 0)
    BY <2>1 DEF Unfolds
  <2> QED
    BY <1>2, <1>3, <2>2
<1>4. CASE m # 0
  <2>1. m - 1 \in Nat /\ m - 1 < m /\ m - 1 + 1 = m
    BY <1>2, <1>4
  <2>2. m - 1 \notin T
    <3> HIDE DEF T
    <3> QED
      BY <1>1, <2>1
  <2>3. PICK f : Unfolds(f, m - 1)
    BY <2>1, <2>2
  <2>4. \E g : Unfolds(g, m - 1 + 1)
    BY <2>1, <2>3, OneMoreUnfolds
  <2> QED
    BY <1>2, <2>1, <2>4
<1> QED
  BY <1>3, <1>4

LEMMA ParseExists ==
    ASSUME IsFile
    PROVE  \E f : f = [x \in Routines \X Positions |-> run(f, x[1], x[2])]
<1>1. 10 * End \in Nat
  BY PositionFacts
<1>2. PICK f : Unfolds(f, 10 * End)
  BY <1>1, SomethingUnfolds
<1> DEFINE g == [x \in Routines \X Positions |-> call(f, x[1], x[2])]
<1>3. ASSUME NEW r \in Routines, NEW p \in Positions PROVE call(f, r, p) = run(g, r, p)
  <2>1. \A h \in Routines : \A q \in Positions : call(g, h, q) = call(f, h, q)
    BY DEF call
  <2> HIDE DEF g
  <2>2. AgreeBefore(f, g, r, p)
    <3>1. \A h \in Routines : \A q \in Positions : Agree(f, f, h, q)
      BY <1>1, <1>2, UnfoldsMoves, KeyFacts
    <3> QED
      BY <2>1, <3>1 DEF AgreeBefore, Agree
  <2>3. run(f, r, p) = run(g, r, p)
    BY <2>2, RunAgrees
  <2>4. call(f, r, p) = run(f, r, p)
    BY <1>2, KeyFacts DEF Unfolds
  <2> QED
    BY <2>3, <2>4
<1>4. g = [x \in Routines \X Positions |-> run(g, x[1], x[2])]
  <2>1. \A x \in Routines \X Positions : call(f, x[1], x[2]) = run(g, x[1], x[2])
    <3> HIDE DEF g
    <3> TAKE x \in Routines \X Positions
    <3>1. x[1] \in Routines /\ x[2] \in Positions
      OBVIOUS
    <3> QED
      BY <1>3, <3>1
  <2> QED
    BY <2>1, Zenon
<1> HIDE DEF g
<1> QED
  BY <1>4

\* The parser's functions are total and what their bodies say, whatever the
\* tokens: the calls of a call come before it in a well-founded order, so none
\* goes on for ever.
THEOREM ParseUnfolds ==
    ASSUME IsFile, NEW r \in Routines, NEW p \in Positions
    PROVE  call(parse, r, p) = run(parse, r, p)
<1>1. parse = [x \in Routines \X Positions |-> run(parse, x[1], x[2])]
  BY ParseExists DEF parse
<1>2. parse[<<r, p>>] = run(parse, <<r, p>>[1], <<r, p>>[2])
  BY <1>1, Zenon
<1> QED
  BY <1>2 DEF call

LEMMA ParseMoves ==
    ASSUME IsFile, NEW r \in Routines, NEW p \in Positions
    PROVE  Agree(parse, parse, r, p)
<1>1. Unfolds(parse, 10 * End) /\ 10 * End \in Nat
  BY ParseUnfolds, PositionFacts DEF Unfolds
<1> QED
  BY <1>1, UnfoldsMoves, KeyFacts

\* A function of the parser that succeeds has consumed a token, unless it is a
\* loop or a list, which may find nothing to do; and it never goes past the end
\* of the file.
THEOREM ParserAdvances ==
    ASSUME IsFile, NEW r \in Routines, NEW p \in Positions, Accepted(call(parse, r, p))
    PROVE  /\ reached(call(parse, r, p)) \in Positions
           /\ IF r \in Nullable THEN reached(call(parse, r, p)) >= p ELSE reached(call(parse, r, p)) > p
<1>1. CASE r \in Nullable
  BY <1>1, ParseMoves DEF Agree, Stays
<1>2. CASE r \notin Nullable
  BY <1>2, ParseMoves DEF Agree, Moves
<1> QED
  BY <1>1, <1>2

(* The same of the productions of the grammar *)

From(p) == {e \in Positions : e >= p}

Past(p) == {e \in Positions : e > p}

\* f and g answer alike, with positions that are not before the start.
Alike(f, g, h, q) ==
    /\ call(f, h, q) = call(g, h, q)
    /\ call(f, h, q) \subseteq IF h \in Nullable THEN From(q) ELSE Past(q)

AlikeBehind(f, g, p) == \A h \in Routines, q \in Positions : q > p => Alike(f, g, h, q)

LEMMA PastFacts ==
    ASSUME IsFile, NEW p \in Positions
    PROVE  {p} \subseteq From(p) /\ Past(p) \subseteq From(p) /\ From(p) \subseteq Positions
  BY PositionFacts DEF From, Past

LEMMA PastLater ==
    ASSUME IsFile, NEW p \in Positions, NEW q \in Positions, q >= p
    PROVE  Past(q) \subseteq Past(p) /\ From(q) \subseteq From(p)
  BY PositionFacts DEF From, Past

LEMMA FromLater ==
    ASSUME IsFile, NEW p \in Positions, NEW q \in Positions, q > p
    PROVE  From(q) \subseteq Past(p)
  BY PositionFacts DEF From, Past

LEMMA TokenPast ==
    ASSUME IsFile, NEW p \in Positions, NEW S, S \subseteq From(p), NEW K, "EndOfFile" \notin K
    PROVE  Token(S, K) \subseteq Past(p)
<1> SUFFICES ASSUME NEW q \in S, At(q) \in K PROVE q + 1 \in Past(p)
  BY DEF Token
<1>1. q \in Positions /\ q >= p /\ At(q) # "EndOfFile"
  BY DEF From
<1> QED
  BY <1>1, PositionFacts DEF Past

LEMMA BreaksPast ==
    ASSUME IsFile, NEW p \in Positions, NEW S
    PROVE  /\ S \subseteq From(p) => Breaks(S) \subseteq From(p)
           /\ S \subseteq Past(p) => Breaks(S) \subseteq Past(p)
<1>1. ASSUME NEW q \in Breaks(S) PROVE q \in Positions /\ \E s \in S : s <= q
  BY DEF Breaks
<1>2. \A q \in Positions : q \in Nat /\ p \in Nat
  BY PositionFacts
<1>3. ASSUME S \subseteq From(p), NEW q \in Breaks(S) PROVE q \in From(p)
  <2>1. PICK s \in S : s <= q
    BY <1>1, <1>3
  <2>2. s \in Positions /\ s >= p
    BY <1>3 DEF From
  <2> QED
    BY <1>1, <1>2, <1>3, <2>1, <2>2 DEF From
<1>4. ASSUME S \subseteq Past(p), NEW q \in Breaks(S) PROVE q \in Past(p)
  <2>1. PICK s \in S : s <= q
    BY <1>1, <1>4
  <2>2. s \in Positions /\ s > p
    BY <1>4 DEF Past
  <2> QED
    BY <1>1, <1>2, <1>4, <2>1, <2>2 DEF Past
<1> QED
  BY <1>3, <1>4

LEMMA AlikeAt ==
    ASSUME IsFile, NEW f, NEW g, NEW p \in Positions, AlikeBehind(f, g, p), NEW q \in Past(p),
           NEW h \in Routines
    PROVE  call(f, h, q) = call(g, h, q) /\ call(f, h, q) \subseteq Past(p)
<1>1. q \in Positions /\ q > p /\ p \in Nat /\ q \in Nat
  BY PositionFacts DEF Past
<1>2. Alike(f, g, h, q)
  BY <1>1 DEF AlikeBehind
<1>3. From(q) \subseteq Past(p) /\ Past(q) \subseteq Past(p)
  BY <1>1, FromLater, PastLater
<1> QED
  BY <1>2, <1>3 DEF Alike

LEMMA BehindAlike ==
    ASSUME IsFile, NEW f, NEW g, NEW p \in Positions, AlikeBehind(f, g, p), NEW S, S \subseteq Past(p),
           NEW h \in Routines
    PROVE  Behind(f, S, h) = Behind(g, S, h) /\ Behind(f, S, h) \subseteq Past(p)
<1>1. \A q \in S : call(f, h, q) = call(g, h, q) /\ call(f, h, q) \subseteq Past(p)
  BY AlikeAt
<1>2. {call(f, h, q) : q \in S} = {call(g, h, q) : q \in S}
  BY <1>1
<1>3. Behind(f, S, h) = Behind(g, S, h)
  BY <1>2 DEF Behind
<1>4. Behind(f, S, h) \subseteq Past(p)
  BY <1>1 DEF Behind
<1> QED
  BY <1>3, <1>4

LEMMA SeparatedAlike ==
    ASSUME IsFile, NEW f, NEW g, NEW p \in Positions, AlikeBehind(f, g, p), NEW S, S \subseteq Past(p),
           NEW h \in Routines
    PROVE  Separated(f, S, h) = Separated(g, S, h) /\ Separated(f, S, h) \subseteq Past(p)
<1>1. Token(S, {"Comma"}) \subseteq Past(p)
  BY TokenPast, PastFacts
<1>2. /\ Behind(f, Token(S, {"Comma"}), h) = Behind(g, Token(S, {"Comma"}), h)
      /\ Behind(f, Token(S, {"Comma"}), h) \subseteq Past(p)
  BY <1>1, BehindAlike
<1> QED
  BY <1>2 DEF Separated

LEMMA TypeAlike ==
    ASSUME IsFile, NEW f, NEW g, NEW i \in Positions, AlikeBehind(f, g, i)
    PROVE  typeEnds(f, i) = typeEnds(g, i) /\ typeEnds(f, i) \subseteq Past(i)
<1>1. \A S, K : S \subseteq From(i) /\ "EndOfFile" \notin K => Token(S, K) \subseteq Past(i)
  BY TokenPast
<1>2. \A S : S \subseteq Past(i) => S \subseteq From(i)
  BY PastFacts
<1>3. {i} \subseteq From(i)
  BY PastFacts
<1> DEFINE amp == Token({i}, {"&"}) \cup Token(Token({i}, {"&"}), {"mut"})
           open == Token({i}, {"LeftBracket"})
           less == Token(Token({i}, {"Identifier"}), {"<"})
<1>4. amp \subseteq Past(i) /\ open \subseteq Past(i) /\ less \subseteq Past(i)
  BY <1>1, <1>2, <1>3
<1>5. /\ Behind(f, amp, TypeSyntax) = Behind(g, amp, TypeSyntax)
      /\ Behind(f, amp, TypeSyntax) \subseteq Past(i)
  BY <1>4, BehindAlike, RoutineFacts
<1>6. /\ Behind(f, open, TypeSyntax) = Behind(g, open, TypeSyntax)
      /\ Behind(f, open, TypeSyntax) \subseteq Past(i)
  BY <1>4, BehindAlike, RoutineFacts
<1>7. /\ Behind(f, less, TypeList) = Behind(g, less, TypeList)
      /\ Behind(f, less, TypeList) \subseteq Past(i)
  BY <1>4, BehindAlike, RoutineFacts
<1>8. typeEnds(f, i) = typeEnds(g, i)
  BY <1>5, <1>6, <1>7 DEF typeEnds
<1>9. typeEnds(f, i) \subseteq Past(i)
  BY <1>1, <1>2, <1>3, <1>5, <1>6, <1>7 DEF typeEnds
<1> QED
  BY <1>8, <1>9

\* The tokens behind a place, as often as they are needed.
TokensPast(i) ==
    /\ \A S, K : S \subseteq From(i) /\ "EndOfFile" \notin K => Token(S, K) \subseteq Past(i)
    /\ \A S : S \subseteq Past(i) => S \subseteq From(i)
    /\ {i} \subseteq From(i)

LEMMA TokensArePast ==
    ASSUME IsFile, NEW i \in Positions
    PROVE  TokensPast(i)
  BY TokenPast, PastFacts DEF TokensPast

LEMMA BehindHere ==
    ASSUME NEW f, NEW i, NEW h
    PROVE  Behind(f, {i}, h) = call(f, h, i)
  BY DEF Behind

LEMMA TypeListAlike ==
    ASSUME IsFile, NEW f, NEW g, NEW i \in Positions, AlikeBehind(f, g, i), Alike(f, g, TypeSyntax, i)
    PROVE  typeListEnds(f, i) = typeListEnds(g, i) /\ typeListEnds(f, i) \subseteq Past(i)
<1> DEFINE S == Breaks({i})
<1>1. \A q \in S : q \in Positions /\ q >= i
  BY BreaksPast, PastFacts DEF From
<1>2. \A q \in S :
         call(f, TypeSyntax, q) = call(g, TypeSyntax, q) /\ call(f, TypeSyntax, q) \subseteq Past(i)
  <2> TAKE q \in S
  <2>1. CASE q = i
    BY <2>1, RoutineFacts DEF Alike
  <2>2. CASE q # i
    <3>1. q \in Past(i)
      BY <1>1, <2>2, PositionFacts DEF Past
    <3> QED
      BY <3>1, AlikeAt, RoutineFacts
  <2> QED
    BY <2>1, <2>2
<1>3. Behind(f, S, TypeSyntax) = Behind(g, S, TypeSyntax) /\ Behind(f, S, TypeSyntax) \subseteq Past(i)
  <2>1. {call(f, TypeSyntax, q) : q \in S} = {call(g, TypeSyntax, q) : q \in S}
    BY <1>2
  <2> QED
    BY <1>2, <2>1 DEF Behind
<1>4. Breaks(Behind(f, S, TypeSyntax)) \subseteq Past(i)
  BY <1>3, BreaksPast
<1>5. typeListEnds(f, i) = Separated(f, Breaks(Behind(f, S, TypeSyntax)), TypeList)
  BY DEF typeListEnds
<1>6. typeListEnds(g, i) = Separated(g, Breaks(Behind(f, S, TypeSyntax)), TypeList)
  BY <1>3 DEF typeListEnds
<1> QED
  BY <1>4, <1>5, <1>6, SeparatedAlike, RoutineFacts

LEMMA ExpressionAlike ==
    ASSUME IsFile, NEW f, NEW g, NEW i \in Positions, AlikeBehind(f, g, i), Alike(f, g, 1, i)
    PROVE  expressionEnds(f, i) = expressionEnds(g, i) /\ expressionEnds(f, i) \subseteq Past(i)
<1>1. call(f, 1, i) = call(g, 1, i) /\ call(f, 1, i) \subseteq Past(i)
  BY RoutineFacts DEF Alike
<1> DEFINE S == Token(call(f, 1, i), {"="})
<1>2. S \subseteq Past(i)
  BY <1>1, TokensArePast DEF TokensPast
<1>3. Behind(f, S, Expression) = Behind(g, S, Expression) /\ Behind(f, S, Expression) \subseteq Past(i)
  BY <1>2, BehindAlike, RoutineFacts
<1> QED
  BY <1>1, <1>3 DEF expressionEnds

LEMMA TierAlike ==
    ASSUME IsFile, NEW f, NEW g, NEW i \in Positions, AlikeBehind(f, g, i), NEW tier \in 1 .. 7,
           Alike(f, g, tier + 1, i)
    PROVE  tierEnds(f, tier, i) = tierEnds(g, tier, i) /\ tierEnds(f, tier, i) \subseteq Past(i)
<1>1. call(f, tier + 1, i) = call(g, tier + 1, i) /\ call(f, tier + 1, i) \subseteq Past(i)
  <2>1. tier + 1 \in 1 .. 8
    OBVIOUS
  <2> QED
    BY <2>1, RoutineFacts DEF Alike
<1> QED
  BY <1>1, BehindAlike, RoutineFacts DEF tierEnds

LEMMA OperatorFacts ==
    ASSUME NEW tier \in 1 .. 7
    PROVE  BinaryOperators[tier] = Tiers[tier] /\ "EndOfFile" \notin BinaryOperators[tier]
<1>1. CASE tier = 1 BY <1>1 DEF BinaryOperators, Tiers
<1>2. CASE tier = 2 BY <1>2 DEF BinaryOperators, Tiers
<1>3. CASE tier = 3 BY <1>3 DEF BinaryOperators, Tiers
<1>4. CASE tier = 4 BY <1>4 DEF BinaryOperators, Tiers
<1>5. CASE tier = 5 BY <1>5 DEF BinaryOperators, Tiers
<1>6. CASE tier = 6 BY <1>6 DEF BinaryOperators, Tiers
<1>7. CASE tier = 7 BY <1>7 DEF BinaryOperators, Tiers
<1> QED
  BY <1>1, <1>2, <1>3, <1>4, <1>5, <1>6, <1>7

LEMMA RestAlike ==
    ASSUME IsFile, NEW f, NEW g, NEW i \in Positions, AlikeBehind(f, g, i), NEW tier \in 1 .. 7
    PROVE  restEnds(f, tier, i) = restEnds(g, tier, i) /\ restEnds(f, tier, i) \subseteq From(i)
<1> DEFINE S == Token({i}, BinaryOperators[tier])
           R(self) == Behind(self, S, tier + 1)
<1>1. S \subseteq Past(i) /\ tier + 1 \in 1 .. 8
  BY TokensArePast, OperatorFacts DEF TokensPast
<1>2. R(f) = R(g) /\ R(f) \subseteq Past(i)
  BY <1>1, BehindAlike, RoutineFacts
<1>3. /\ Behind(f, R(f), Rest(tier)) = Behind(g, R(f), Rest(tier))
      /\ Behind(f, R(f), Rest(tier)) \subseteq Past(i)
  <2> HIDE DEF R
  <2> QED
    BY <1>2, BehindAlike, RoutineFacts
<1>4. \A self : restEnds(self, tier, i) = {i}
        \cup (IF tier = 5 THEN R(self) ELSE Behind(self, R(self), Rest(tier)))
  BY DEF restEnds
<1> HIDE DEF R
<1> QED
  BY <1>2, <1>3, <1>4, PastFacts

LEMMA PrimaryAlike ==
    ASSUME IsFile, NEW f, NEW g, NEW i \in Positions, AlikeBehind(f, g, i)
    PROVE  primaryEnds(f, i) = primaryEnds(g, i) /\ primaryEnds(f, i) \subseteq Past(i)
<1>1. TokensPast(i)
  BY TokensArePast
<1> DEFINE paren == Token({i}, {"LeftParen"})
           bracket == Token({i}, {"LeftBracket"})
<1>2. paren \subseteq Past(i) /\ bracket \subseteq Past(i)
  BY <1>1 DEF TokensPast
<1>3. /\ Behind(f, paren, Expression) = Behind(g, paren, Expression)
      /\ Behind(f, paren, Expression) \subseteq Past(i)
  BY <1>2, BehindAlike, RoutineFacts
<1>4. /\ Behind(f, bracket, ExpressionList) = Behind(g, bracket, ExpressionList)
      /\ Behind(f, bracket, ExpressionList) \subseteq Past(i)
  BY <1>2, BehindAlike, RoutineFacts
<1>5. primaryEnds(f, i) = primaryEnds(g, i)
  BY <1>3, <1>4 DEF primaryEnds
<1>6. primaryEnds(f, i) \subseteq Past(i)
  BY <1>1, <1>2, <1>3, <1>4 DEF primaryEnds, TokensPast
<1> QED
  BY <1>5, <1>6

LEMMA SuffixAlike ==
    ASSUME IsFile, NEW f, NEW g, NEW i \in Positions, AlikeBehind(f, g, i)
    PROVE  suffixEnds(f, i) = suffixEnds(g, i) /\ suffixEnds(f, i) \subseteq Past(i)
<1>1. TokensPast(i)
  BY TokensArePast
<1> DEFINE paren == Token({i}, {"LeftParen"})
           bracket == Token({i}, {"LeftBracket"})
<1>2. paren \subseteq Past(i) /\ bracket \subseteq Past(i)
  BY <1>1 DEF TokensPast
<1>3. /\ Behind(f, paren, ExpressionList) = Behind(g, paren, ExpressionList)
      /\ Behind(f, paren, ExpressionList) \subseteq Past(i)
  BY <1>2, BehindAlike, RoutineFacts
<1>4. /\ Behind(f, bracket, Expression) = Behind(g, bracket, Expression)
      /\ Behind(f, bracket, Expression) \subseteq Past(i)
  BY <1>2, BehindAlike, RoutineFacts
<1>5. suffixEnds(f, i) = suffixEnds(g, i)
  BY <1>3, <1>4 DEF suffixEnds
<1>6. suffixEnds(f, i) \subseteq Past(i)
  BY <1>1, <1>2, <1>3, <1>4 DEF suffixEnds, TokensPast
<1> QED
  BY <1>5, <1>6

LEMMA SuffixesAlike ==
    ASSUME IsFile, NEW f, NEW g, NEW i \in Positions, AlikeBehind(f, g, i)
    PROVE  /\ Behind(f, suffixEnds(f, i), SuffixList) = Behind(g, suffixEnds(g, i), SuffixList)
           /\ Behind(f, suffixEnds(f, i), SuffixList) \subseteq Past(i)
  BY SuffixAlike, BehindAlike, RoutineFacts

LEMMA UnaryAlike ==
    ASSUME IsFile, NEW f, NEW g, NEW i \in Positions, AlikeBehind(f, g, i)
    PROVE  unaryEnds(f, i) = unaryEnds(g, i) /\ unaryEnds(f, i) \subseteq Past(i)
<1> DEFINE S == Token({i}, {"!", "-", "&"}) \cup Token(Token({i}, {"&"}), {"mut"})
<1>1. S \subseteq Past(i)
  BY TokensArePast DEF TokensPast
<1>2. Behind(f, S, UnaryTier) = Behind(g, S, UnaryTier) /\ Behind(f, S, UnaryTier) \subseteq Past(i)
  BY <1>1, BehindAlike, RoutineFacts
<1>3. primaryEnds(f, i) = primaryEnds(g, i) /\ primaryEnds(f, i) \subseteq Past(i)
  BY PrimaryAlike
<1>4. /\ Behind(f, primaryEnds(f, i), SuffixList) = Behind(g, primaryEnds(f, i), SuffixList)
      /\ Behind(f, primaryEnds(f, i), SuffixList) \subseteq Past(i)
  BY <1>3, BehindAlike, RoutineFacts
<1> QED
  BY <1>2, <1>3, <1>4 DEF unaryEnds

LEMMA BlockAlike ==
    ASSUME IsFile, NEW f, NEW g, NEW i \in Positions, AlikeBehind(f, g, i), NEW S, S \subseteq From(i)
    PROVE  blockEnds(f, S) = blockEnds(g, S) /\ blockEnds(f, S) \subseteq Past(i)
<1>1. TokensPast(i)
  BY TokensArePast
<1> DEFINE open == Token(S, {"LeftBrace"})
<1>2. open \subseteq Past(i)
  BY <1>1 DEF TokensPast
<1>3. /\ Behind(f, open, StatementList) = Behind(g, open, StatementList)
      /\ Behind(f, open, StatementList) \subseteq Past(i)
  BY <1>2, BehindAlike, RoutineFacts
<1> QED
  BY <1>1, <1>3 DEF blockEnds, TokensPast

LEMMA BranchAlike ==
    ASSUME IsFile, NEW f, NEW g, NEW i \in Positions, AlikeBehind(f, g, i), NEW S, S \subseteq Past(i)
    PROVE  branchEnds(f, S) = branchEnds(g, S) /\ branchEnds(f, S) \subseteq Past(i)
<1>1. Behind(f, S, Expression) = Behind(g, S, Expression) /\ Behind(f, S, Expression) \subseteq From(i)
  BY BehindAlike, RoutineFacts, PastFacts
<1> QED
  BY <1>1, BlockAlike DEF branchEnds

LEMMA SimpleAlike ==
    ASSUME IsFile, NEW f, NEW g, NEW i \in Positions, AlikeBehind(f, g, i), Alike(f, g, Expression, i)
    PROVE  simpleEnds(f, i) = simpleEnds(g, i) /\ simpleEnds(f, i) \subseteq Past(i)
<1>1. TokensPast(i)
  BY TokensArePast
<1>2. call(f, Expression, i) = call(g, Expression, i) /\ call(f, Expression, i) \subseteq Past(i)
  BY RoutineFacts DEF Alike
<1> DEFINE name == Token(Token({i}, {"let", "mut"}), {"Identifier"})
           colon == Token(name, {"Colon"})
           return == Token({i}, {"return"})
<1>3. name \subseteq Past(i) /\ colon \subseteq Past(i) /\ return \subseteq Past(i)
  BY <1>1 DEF TokensPast
<1>4. /\ Behind(f, colon, TypeSyntax) = Behind(g, colon, TypeSyntax)
      /\ Behind(f, colon, TypeSyntax) \subseteq Past(i)
  BY <1>3, BehindAlike, RoutineFacts
<1> DEFINE typed == name \cup Behind(f, colon, TypeSyntax)
           value == Token(typed, {"="})
<1>5. typed \subseteq Past(i)
  BY <1>3, <1>4
<1>6. value \subseteq Past(i)
  <2> HIDE DEF typed
  <2> QED
    BY <1>1, <1>5 DEF TokensPast
<1>7. /\ Behind(f, value, Expression) = Behind(g, value, Expression)
      /\ Behind(f, value, Expression) \subseteq Past(i)
  <2> HIDE DEF value
  <2> QED
    BY <1>6, BehindAlike, RoutineFacts
<1>8. /\ Behind(f, return, Expression) = Behind(g, return, Expression)
      /\ Behind(f, return, Expression) \subseteq Past(i)
  BY <1>3, BehindAlike, RoutineFacts
<1>9. simpleEnds(f, i) = call(f, Expression, i) \cup Behind(f, value, Expression)
                            \cup return \cup Behind(f, return, Expression)
  BY DEF simpleEnds
<1>10. simpleEnds(g, i) = call(g, Expression, i) \cup Behind(g, value, Expression)
                            \cup return \cup Behind(g, return, Expression)
  BY <1>4 DEF simpleEnds
<1> HIDE DEF value, return
<1> QED
  BY <1>2, <1>3, <1>7, <1>8, <1>9, <1>10

LEMMA CompoundAlike ==
    ASSUME IsFile, NEW f, NEW g, NEW i \in Positions, AlikeBehind(f, g, i)
    PROVE  compoundEnds(f, i) = compoundEnds(g, i) /\ compoundEnds(f, i) \subseteq Past(i)
<1>1. TokensPast(i)
  BY TokensArePast
<1> DEFINE A == Token({i}, {"if"})
           B == Token({i}, {"while"})
           C == Token(Token(Token({i}, {"for"}), {"Identifier"}), {"in"})
<1>2. A \subseteq Past(i) /\ B \subseteq Past(i) /\ C \subseteq Past(i)
  BY <1>1 DEF TokensPast
<1> HIDE DEF A, B, C
<1>3. branchEnds(f, A) = branchEnds(g, A) /\ branchEnds(f, A) \subseteq Past(i)
  BY <1>2, BranchAlike
<1>4. branchEnds(f, B) = branchEnds(g, B) /\ branchEnds(f, B) \subseteq Past(i)
  BY <1>2, BranchAlike
<1>5. branchEnds(f, C) = branchEnds(g, C) /\ branchEnds(f, C) \subseteq Past(i)
  BY <1>2, BranchAlike
<1>6. /\ Behind(f, branchEnds(f, A), ElseList) = Behind(g, branchEnds(f, A), ElseList)
      /\ Behind(f, branchEnds(f, A), ElseList) \subseteq Past(i)
  BY <1>3, BehindAlike, RoutineFacts
<1>7. blockEnds(f, {i}) = blockEnds(g, {i}) /\ blockEnds(f, {i}) \subseteq Past(i)
  <2>1. {i} \subseteq From(i)
    BY PositionFacts DEF From
  <2> QED
    BY <2>1, BlockAlike
<1>8. \A self : compoundEnds(self, i) = blockEnds(self, {i})
                                        \cup Behind(self, branchEnds(self, A), ElseList)
                                        \cup branchEnds(self, B) \cup branchEnds(self, C)
  BY DEF compoundEnds, A, B, C
<1> QED
  BY <1>3, <1>4, <1>5, <1>6, <1>7, <1>8

LEMMA ElsesAlike ==
    ASSUME IsFile, NEW f, NEW g, NEW i \in Positions, AlikeBehind(f, g, i)
    PROVE  elsesEnds(f, i) = elsesEnds(g, i) /\ elsesEnds(f, i) \subseteq From(i)
<1>1. TokensPast(i)
  BY TokensArePast
<1> DEFINE E == Token(Breaks({i}), {"else"})
           B == Token(E, {"if"})
<1>2. Breaks({i}) \subseteq From(i)
  BY BreaksPast, PastFacts
<1>3. E \subseteq Past(i) /\ E \subseteq From(i)
  BY <1>1, <1>2 DEF TokensPast
<1> HIDE DEF E
<1>4. B \subseteq Past(i)
  BY <1>1, <1>3 DEF TokensPast
<1> HIDE DEF B
<1>5. blockEnds(f, E) = blockEnds(g, E) /\ blockEnds(f, E) \subseteq Past(i)
  BY <1>3, BlockAlike
<1>6. branchEnds(f, B) = branchEnds(g, B) /\ branchEnds(f, B) \subseteq Past(i)
  BY <1>4, BranchAlike
<1>7. /\ Behind(f, branchEnds(f, B), ElseList) = Behind(g, branchEnds(f, B), ElseList)
      /\ Behind(f, branchEnds(f, B), ElseList) \subseteq Past(i)
  BY <1>6, BehindAlike, RoutineFacts
<1>8. \A self : elsesEnds(self, i) = {i} \cup blockEnds(self, E)
        \cup Behind(self, branchEnds(self, B), ElseList)
  BY DEF elsesEnds, B, E
<1> QED
  BY <1>1, <1>5, <1>6, <1>7, <1>8 DEF TokensPast

LEMMA StatementsAlike ==
    ASSUME IsFile, NEW f, NEW g, NEW i \in Positions, AlikeBehind(f, g, i), Alike(f, g, Expression, i)
    PROVE  statementsEnds(f, i) = statementsEnds(g, i) /\ statementsEnds(f, i) \subseteq From(i)
<1>1. simpleEnds(f, i) = simpleEnds(g, i) /\ simpleEnds(f, i) \subseteq Past(i)
  BY SimpleAlike
<1>2. compoundEnds(f, i) = compoundEnds(g, i) /\ compoundEnds(f, i) \subseteq Past(i)
  BY CompoundAlike
<1> DEFINE S == Token({i}, Separators) \cup
                {p \in simpleEnds(f, i) : At(p) \in Separators \cup {"RightBrace", "EndOfFile"}} \cup
                compoundEnds(f, i)
<1>3. Token({i}, Separators) \subseteq Past(i)
  BY TokensArePast DEF TokensPast, Separators
<1>4. S \subseteq Past(i)
  BY <1>1, <1>2, <1>3
<1>5. statementsEnds(f, i) = {i} \cup Behind(f, S, StatementList)
  BY DEF statementsEnds
<1>6. statementsEnds(g, i) = {i} \cup Behind(g, S, StatementList)
  BY <1>1, <1>2 DEF statementsEnds
<1> HIDE DEF S
<1>7. /\ Behind(f, S, StatementList) = Behind(g, S, StatementList)
      /\ Behind(f, S, StatementList) \subseteq Past(i)
  BY <1>4, BehindAlike, RoutineFacts
<1> QED
  BY <1>5, <1>6, <1>7, PastFacts

LEMMA ParamsAlike ==
    ASSUME IsFile, NEW f, NEW g, NEW i \in Positions, AlikeBehind(f, g, i)
    PROVE  paramsEnds(f, i) = paramsEnds(g, i) /\ paramsEnds(f, i) \subseteq Past(i)
<1> DEFINE S == Token(Token({i}, {"Identifier"}), {"Colon"})
<1>1. S \subseteq Past(i)
  BY TokensArePast DEF TokensPast
<1> HIDE DEF S
<1>2. Behind(f, S, TypeSyntax) = Behind(g, S, TypeSyntax) /\ Behind(f, S, TypeSyntax) \subseteq Past(i)
  BY <1>1, BehindAlike, RoutineFacts
<1>3. \A self : paramsEnds(self, i) = Separated(self, Behind(self, S, TypeSyntax), ParamList)
  BY DEF paramsEnds, S
<1> QED
  BY <1>2, <1>3, SeparatedAlike, RoutineFacts

LEMMA DeclarationAlike ==
    ASSUME IsFile, NEW f, NEW g, NEW i \in Positions, AlikeBehind(f, g, i)
    PROVE  declarationEnds(f, i) = declarationEnds(g, i) /\ declarationEnds(f, i) \subseteq Past(i)
<1>1. TokensPast(i)
  BY TokensArePast
<1> DEFINE fn == Token({i} \cup Token({i}, {"pub"}), {"fn"})
           open == Token(Token(fn, {"Identifier"}), {"LeftParen"})
<1>2. {i} \cup Token({i}, {"pub"}) \subseteq From(i)
  BY <1>1 DEF TokensPast
<1>3. fn \subseteq Past(i)
  BY <1>1, <1>2 DEF TokensPast
<1>4. open \subseteq Past(i)
  <2> HIDE DEF fn
  <2> QED
    BY <1>1, <1>3 DEF TokensPast
<1> HIDE DEF open
<1>5. /\ Behind(f, open, ParamList) = Behind(g, open, ParamList)
      /\ Behind(f, open, ParamList) \subseteq Past(i)
  BY <1>4, BehindAlike, RoutineFacts
<1> DEFINE close(self) == Token(open \cup Behind(self, open, ParamList), {"RightParen"})
           arrow(self) == Token(close(self), {"->"})
           typed(self) == close(self) \cup Behind(self, arrow(self), TypeSyntax)
<1>6. close(f) = close(g) /\ close(f) \subseteq Past(i)
  BY <1>1, <1>4, <1>5 DEF TokensPast
<1>7. arrow(f) = arrow(g) /\ arrow(f) \subseteq Past(i)
  <2> HIDE DEF close
  <2> QED
    BY <1>1, <1>6 DEF TokensPast
<1>8. /\ Behind(f, arrow(f), TypeSyntax) = Behind(g, arrow(f), TypeSyntax)
      /\ Behind(f, arrow(f), TypeSyntax) \subseteq Past(i)
  <2> HIDE DEF arrow
  <2> QED
    BY <1>7, BehindAlike, RoutineFacts
<1>9. typed(f) = typed(g) /\ typed(f) \subseteq From(i)
  <2> HIDE DEF close, arrow
  <2> QED
    BY <1>1, <1>6, <1>7, <1>8 DEF TokensPast
<1>10. \A self : declarationEnds(self, i) = blockEnds(self, typed(self))
  BY DEF declarationEnds, open
<1> HIDE DEF typed
<1> QED
  BY <1>9, <1>10, BlockAlike

LEMMA ProgramAlike ==
    ASSUME IsFile, NEW f, NEW g, NEW i \in Positions, AlikeBehind(f, g, i)
    PROVE  programEnds(f, i) = programEnds(g, i) /\ programEnds(f, i) \subseteq From(i)
<1>1. declarationEnds(f, i) = declarationEnds(g, i) /\ declarationEnds(f, i) \subseteq Past(i)
  BY DeclarationAlike
<1> DEFINE S == Token({i}, Separators) \cup declarationEnds(f, i)
<1>2. Token({i}, Separators) \subseteq Past(i)
  BY TokensArePast DEF TokensPast, Separators
<1>3. S \subseteq Past(i)
  BY <1>1, <1>2
<1>4. programEnds(f, i) = {i} \cup Behind(f, S, DeclarationList)
  BY DEF programEnds
<1>5. programEnds(g, i) = {i} \cup Behind(g, S, DeclarationList)
  BY <1>1 DEF programEnds
<1> HIDE DEF S
<1>6. /\ Behind(f, S, DeclarationList) = Behind(g, S, DeclarationList)
      /\ Behind(f, S, DeclarationList) \subseteq Past(i)
  BY <1>3, BehindAlike, RoutineFacts
<1> QED
  BY <1>4, <1>5, <1>6, PastFacts

LEMMA ProduceIs ==
    ASSUME NEW self, NEW i
    PROVE  /\ produce(self, Expression, i) = expressionEnds(self, i)
           /\ \A tier \in 1 .. 7 : produce(self, tier, i) = tierEnds(self, tier, i)
           /\ produce(self, UnaryTier, i) = unaryEnds(self, i)
           /\ produce(self, SuffixList, i) = {i} \cup Behind(self, suffixEnds(self, i), SuffixList)
           /\ produce(self, ExpressionList, i) = Separated(self, call(self, Expression, i), ExpressionList)
           /\ \A tier \in 1 .. 7 : produce(self, Rest(tier), i) = restEnds(self, tier, i)
           /\ produce(self, TypeSyntax, i) = typeEnds(self, i)
           /\ produce(self, TypeList, i) = typeListEnds(self, i)
           /\ produce(self, StatementList, i) = statementsEnds(self, i)
           /\ produce(self, ElseList, i) = elsesEnds(self, i)
           /\ produce(self, ParamList, i) = paramsEnds(self, i)
           /\ produce(self, DeclarationList, i) = programEnds(self, i)
<1> USE DEF Expression, UnaryTier, SuffixList, ExpressionList, TypeSyntax, TypeList, StatementList,
        ElseList, ParamList, DeclarationList, Rest
<1>1. produce(self, Expression, i) = expressionEnds(self, i)
  BY DEF produce
<1>2. ASSUME NEW tier \in 1 .. 7 PROVE produce(self, tier, i) = tierEnds(self, tier, i)
  BY DEF produce
<1>3. produce(self, UnaryTier, i) = unaryEnds(self, i)
  BY DEF produce
<1>4. produce(self, SuffixList, i) = {i} \cup Behind(self, suffixEnds(self, i), SuffixList)
  BY DEF produce
<1>5. produce(self, ExpressionList, i) = Separated(self, call(self, Expression, i), ExpressionList)
  BY DEF produce
<1>6. ASSUME NEW tier \in 1 .. 7 PROVE produce(self, Rest(tier), i) = restEnds(self, tier, i)
  <2>1. /\ 10 + tier - 10 = tier /\ 10 + tier \notin {0, 8, 9, 10} /\ 10 + tier \notin 1 .. 7
        /\ 10 + tier \in 11 .. 17
    OBVIOUS
  <2> QED
    BY <2>1 DEF produce
<1>7. produce(self, TypeSyntax, i) = typeEnds(self, i)
  BY DEF produce
<1>8. produce(self, TypeList, i) = typeListEnds(self, i)
  BY DEF produce
<1>9. produce(self, StatementList, i) = statementsEnds(self, i)
  BY DEF produce
<1>10. produce(self, ElseList, i) = elsesEnds(self, i)
  BY DEF produce
<1>11. produce(self, ParamList, i) = paramsEnds(self, i)
  BY DEF produce
<1>12. produce(self, DeclarationList, i) = programEnds(self, i)
  BY DEF produce
<1> QED
  BY <1>1, <1>2, <1>3, <1>4, <1>5, <1>6, <1>7, <1>8, <1>9, <1>10, <1>11, <1>12

AlikeBefore(f, g, r, p) ==
    \A h \in Routines, q \in Positions : Before(h, q, r, p) => Alike(f, g, h, q)

LEMMA AlikeBeforeFacts ==
    ASSUME IsFile, NEW f, NEW g, NEW r \in Routines, NEW p \in Positions, AlikeBefore(f, g, r, p)
    PROVE  /\ AlikeBehind(f, g, p)
           /\ \A h \in Routines : Rank(h) < Rank(r) => Alike(f, g, h, p)
  BY DEF AlikeBefore, AlikeBehind, Before

\* What a nonterminal derives is determined by what those before it do.
LEMMA ProduceAlike ==
    ASSUME IsFile, NEW f, NEW g, NEW r \in Routines, NEW p \in Positions, AlikeBefore(f, g, r, p)
    PROVE  /\ produce(f, r, p) = produce(g, r, p)
           /\ produce(f, r, p) \subseteq IF r \in Nullable THEN From(p) ELSE Past(p)
<1>0. AlikeBehind(f, g, p) /\ \A h \in Routines : Rank(h) < Rank(r) => Alike(f, g, h, p)
  BY AlikeBeforeFacts
<1>1. CASE r = Expression
  <2>1. Alike(f, g, 1, p)
    BY <1>0, <1>1, Ranks, RoutineFacts
  <2> QED
    BY <1>0, <1>1, <2>1, ExpressionAlike, ProduceIs, RoutineFacts
<1>2. CASE r \in 1 .. 7
  <2>1. Alike(f, g, r + 1, p)
    <3>1. r + 1 \in 1 .. 8
      BY <1>2
    <3> QED
      BY <1>0, <1>2, <3>1, Ranks, RoutineFacts
  <2>2. r \notin Nullable
    BY <1>2, RoutineFacts
  <2> QED
    BY <1>0, <1>2, <2>1, <2>2, TierAlike, ProduceIs
<1>3. CASE r = UnaryTier
  BY <1>0, <1>3, UnaryAlike, ProduceIs, RoutineFacts
<1>4. CASE r = SuffixList
  <2>1. /\ Behind(f, suffixEnds(f, p), SuffixList) = Behind(g, suffixEnds(g, p), SuffixList)
        /\ Behind(f, suffixEnds(f, p), SuffixList) \subseteq Past(p)
    BY <1>0, SuffixesAlike
  <2>2. r \in Nullable
    BY <1>4, RoutineFacts
  <2>3. /\ produce(f, r, p) = {p} \cup Behind(f, suffixEnds(f, p), SuffixList)
        /\ produce(g, r, p) = {p} \cup Behind(g, suffixEnds(g, p), SuffixList)
    BY <1>4, ProduceIs, Zenon
  <2>4. produce(f, r, p) = produce(g, r, p)
    BY <2>1, <2>3, Zenon
  <2>5. produce(f, r, p) \subseteq From(p)
    BY <2>1, <2>3, PastFacts
  <2> QED
    BY <2>2, <2>4, <2>5
<1>5. CASE r = ExpressionList
  <2>1. Alike(f, g, Expression, p)
    BY <1>0, <1>5, Ranks, RoutineFacts
  <2>2. call(f, Expression, p) = call(g, Expression, p) /\ call(f, Expression, p) \subseteq Past(p)
    BY <2>1, RoutineFacts DEF Alike
  <2>3. /\ Separated(f, call(f, Expression, p), ExpressionList)
              = Separated(g, call(f, Expression, p), ExpressionList)
        /\ Separated(f, call(f, Expression, p), ExpressionList) \subseteq Past(p)
    BY <1>0, <2>2, SeparatedAlike, RoutineFacts
  <2> QED
    BY <1>5, <2>2, <2>3, ProduceIs, RoutineFacts
<1>6. CASE \E tier \in 1 .. 7 : r = Rest(tier)
  <2>1. PICK tier \in 1 .. 7 : r = Rest(tier)
    BY <1>6
  <2> QED
    BY <1>0, <2>1, RestAlike, ProduceIs, RoutineFacts
<1>7. CASE r = TypeSyntax
  BY <1>0, <1>7, TypeAlike, ProduceIs, RoutineFacts
<1>8. CASE r = TypeList
  <2>1. Alike(f, g, TypeSyntax, p)
    BY <1>0, <1>8, Ranks, RoutineFacts
  <2> QED
    BY <1>0, <1>8, <2>1, TypeListAlike, ProduceIs, RoutineFacts
<1>9. CASE r = StatementList
  <2>1. Alike(f, g, Expression, p)
    BY <1>0, <1>9, Ranks, RoutineFacts
  <2> QED
    BY <1>0, <1>9, <2>1, StatementsAlike, ProduceIs, RoutineFacts
<1>10. CASE r = ElseList
  BY <1>0, <1>10, ElsesAlike, ProduceIs, RoutineFacts
<1>11. CASE r = ParamList
  BY <1>0, <1>11, ParamsAlike, ProduceIs, RoutineFacts
<1>12. CASE r = DeclarationList
  BY <1>0, <1>12, ProgramAlike, ProduceIs, RoutineFacts
<1> QED
  BY <1>1, <1>2, <1>3, <1>4, <1>5, <1>6, <1>7, <1>8, <1>9, <1>10, <1>11, <1>12, EveryRoutine

\* The same for the grammar's productions.
Derives(f, n) ==
    \A r \in Routines : \A p \in Positions : Key(r, p) < n => call(f, r, p) = produce(f, r, p)

LEMMA DerivesMoves ==
    ASSUME IsFile, NEW f, NEW n \in Nat, Derives(f, n)
    PROVE  \A r \in Routines : \A p \in Positions : Key(r, p) < n => Alike(f, f, r, p)
<1> DEFINE G == {x \in Routines \X Positions : Key(x[1], x[2]) < n => Alike(f, f, x[1], x[2])}
<1>1. ASSUME NEW r \in Routines, NEW p \in Positions,
             \A h \in Routines : \A q \in Positions : Before(h, q, r, p) => <<h, q>> \in G
      PROVE  <<r, p>> \in G
  <2> SUFFICES ASSUME Key(r, p) < n PROVE Alike(f, f, r, p)
    OBVIOUS
  <2>1. AlikeBefore(f, f, r, p)
    <3> SUFFICES ASSUME NEW h \in Routines, NEW q \in Positions, Before(h, q, r, p)
                 PROVE  Alike(f, f, h, q)
      BY DEF AlikeBefore
    <3>1. <<h, q>> \in G
      BY <1>1
    <3>2. Key(h, q) < Key(r, p) /\ Key(h, q) \in Nat /\ Key(r, p) \in Nat
      BY KeyFacts
    <3>3. Key(h, q) < n
      BY <3>2
    <3> QED
      BY <3>1, <3>3
  <2>2. call(f, r, p) = produce(f, r, p)
    BY DEF Derives
  <2> HIDE DEF G
  <2> QED
    BY <2>1, <2>2, ProduceAlike DEF Alike
<1>2. \A r \in Routines : \A p \in Positions : <<r, p>> \in G
  <2> HIDE DEF G
  <2> QED
    BY <1>1, AlongTheCalls
<1> QED
  BY <1>2

LEMMA OneMoreDerives ==
    ASSUME IsFile, NEW f, NEW n \in Nat, Derives(f, n)
    PROVE  \E g : Derives(g, n + 1)
<1> DEFINE g == [x \in Routines \X Positions |->
                    IF Key(x[1], x[2]) < n THEN call(f, x[1], x[2]) ELSE produce(f, x[1], x[2])]
<1>1. ASSUME NEW r \in Routines, NEW p \in Positions
      PROVE  /\ call(g, r, p) = produce(f, r, p)
             /\ Key(r, p) < n => call(g, r, p) = call(f, r, p)
  <2>1. call(g, r, p) = IF Key(r, p) < n THEN call(f, r, p) ELSE produce(f, r, p)
    BY DEF call
  <2> HIDE DEF g
  <2> QED
    BY <2>1 DEF Derives
<1> HIDE DEF g
<1>2. ASSUME NEW r \in Routines, NEW p \in Positions, Key(r, p) < n + 1
      PROVE  call(g, r, p) = produce(g, r, p)
  <2>1. AlikeBefore(f, g, r, p)
    <3> SUFFICES ASSUME NEW h \in Routines, NEW q \in Positions, Before(h, q, r, p)
                 PROVE  Alike(f, g, h, q)
      BY DEF AlikeBefore
    <3>1. Key(h, q) < Key(r, p) /\ Key(h, q) \in Nat /\ Key(r, p) \in Nat
      BY KeyFacts
    <3>2. Key(h, q) < n
      BY <1>2, <3>1
    <3>3. Alike(f, f, h, q) /\ call(g, h, q) = call(f, h, q)
      BY <1>1, <3>2, DerivesMoves
    <3> QED
      BY <3>3 DEF Alike
  <2>2. produce(f, r, p) = produce(g, r, p)
    BY <2>1, ProduceAlike
  <2> QED
    BY <1>1, <2>2
<1> QED
  BY <1>2 DEF Derives

LEMMA SomethingDerives ==
    ASSUME IsFile, NEW n \in Nat
    PROVE  \E f : Derives(f, n)
<1> DEFINE T == {k \in Nat : ~ \E f : Derives(f, k)}
<1> SUFFICES ASSUME n \in T PROVE FALSE
  OBVIOUS
<1>1. PICK m \in T : \A k \in T : m <= k
  <2>1. T \in SUBSET Nat
    OBVIOUS
  <2> HIDE DEF T
  <2> QED
    BY <2>1, LeastNumber
<1>2. m \in Nat /\ ~ \E f : Derives(f, m)
  OBVIOUS
<1>3. CASE m = 0
  <2>1. \A r \in Routines : \A p \in Positions : ~(Key(r, p) < 0)
    BY KeyFacts
  <2>2. \A f : Derives(f, 0)
    BY <2>1 DEF Derives
  <2> QED
    BY <1>2, <1>3, <2>2
<1>4. CASE m # 0
  <2>1. m - 1 \in Nat /\ m - 1 < m /\ m - 1 + 1 = m
    BY <1>2, <1>4
  <2>2. m - 1 \notin T
    <3> HIDE DEF T
    <3> QED
      BY <1>1, <2>1
  <2>3. PICK f : Derives(f, m - 1)
    BY <2>1, <2>2
  <2>4. \E g : Derives(g, m - 1 + 1)
    BY <2>1, <2>3, OneMoreDerives
  <2> QED
    BY <1>2, <2>1, <2>4
<1> QED
  BY <1>3, <1>4

LEMMA DeriveExists ==
    ASSUME IsFile
    PROVE  \E f : f = [x \in Routines \X Positions |-> produce(f, x[1], x[2])]
<1>1. 10 * End \in Nat
  BY PositionFacts
<1>2. PICK f : Derives(f, 10 * End)
  BY <1>1, SomethingDerives
<1> DEFINE g == [x \in Routines \X Positions |-> call(f, x[1], x[2])]
<1>3. ASSUME NEW r \in Routines, NEW p \in Positions PROVE call(f, r, p) = produce(g, r, p)
  <2>1. \A h \in Routines : \A q \in Positions : call(g, h, q) = call(f, h, q)
    BY DEF call
  <2> HIDE DEF g
  <2>2. AlikeBefore(f, g, r, p)
    <3>1. \A h \in Routines : \A q \in Positions : Alike(f, f, h, q)
      BY <1>1, <1>2, DerivesMoves, KeyFacts
    <3> QED
      BY <2>1, <3>1 DEF AlikeBefore, Alike
  <2>3. produce(f, r, p) = produce(g, r, p)
    BY <2>2, ProduceAlike
  <2>4. call(f, r, p) = produce(f, r, p)
    BY <1>2, KeyFacts DEF Derives
  <2> QED
    BY <2>3, <2>4
<1>4. g = [x \in Routines \X Positions |-> produce(g, x[1], x[2])]
  <2>1. \A x \in Routines \X Positions : call(f, x[1], x[2]) = produce(g, x[1], x[2])
    <3> HIDE DEF g
    <3> TAKE x \in Routines \X Positions
    <3>1. x[1] \in Routines /\ x[2] \in Positions
      OBVIOUS
    <3> QED
      BY <1>3, <3>1
  <2> QED
    BY <2>1, Zenon
<1> HIDE DEF g
<1> QED
  BY <1>4

\* What the grammar derives is what its productions say, whatever the tokens.
LEMMA DeriveUnfolds ==
    ASSUME IsFile, NEW r \in Routines, NEW p \in Positions
    PROVE  call(derive, r, p) = produce(derive, r, p)
<1>1. derive = [x \in Routines \X Positions |-> produce(derive, x[1], x[2])]
  BY DeriveExists DEF derive
<1>2. derive[<<r, p>>] = produce(derive, <<r, p>>[1], <<r, p>>[2])
  BY <1>1, Zenon
<1> QED
  BY <1>2 DEF call

LEMMA DeriveMoves ==
    ASSUME IsFile, NEW r \in Routines, NEW p \in Positions
    PROVE  Alike(derive, derive, r, p)
<1>1. Derives(derive, 10 * End) /\ 10 * End \in Nat
  BY DeriveUnfolds, PositionFacts DEF Derives
<1> QED
  BY <1>1, DerivesMoves, KeyFacts

(* Reading: what the functions of the grammar and of the parser come to *)

LEMMA TokenIs ==
    ASSUME NEW S, NEW K, NEW e
    PROVE  e \in Token(S, K) <=> \E q \in S : At(q) \in K /\ e = q + 1
  BY DEF Token

LEMMA BehindIs ==
    ASSUME NEW f, NEW S, NEW h, NEW e
    PROVE  e \in Behind(f, S, h) <=> \E q \in S : e \in call(f, h, q)
  BY DEF Behind

LEMMA TokenHere ==
    ASSUME NEW p, NEW K
    PROVE  /\ At(p) \in K => Token({p}, K) = {p + 1}
           /\ At(p) \notin K => Token({p}, K) = {}
  BY DEF Token

LEMMA NoToken ==
    ASSUME NEW p, NEW k, At(p) # k
    PROVE  Token({p}, {k}) = {}
  BY DEF Token

LEMMA OneToken ==
    ASSUME NEW p, NEW k, At(p) = k
    PROVE  Token({p}, {k}) = {p + 1}
  BY DEF Token

LEMMA TokenOfNone == \A K : Token({}, K) = {}
  BY DEF Token

LEMMA NothingBehind ==
    ASSUME NEW f, NEW h
    PROVE  /\ Behind(f, {}, h) = {}
           /\ blockEnds(f, {}) = {} /\ branchEnds(f, {}) = {}
<1>1. Behind(f, {}, h) = {} /\ Behind(f, {}, StatementList) = {} /\ Behind(f, {}, Expression) = {}
  BY DEF Behind
<1>2. \A K : Token({}, K) = {}
  BY DEF Token
<1> QED
  BY <1>1, <1>2 DEF blockEnds, branchEnds

LEMMA ReadsHere ==
    ASSUME NEW r, NEW p, Accepted(r), reached(r) = p
    PROVE  \A C : Reads(r, {p}, C)
  BY DEF Reads

LEMMA ReadsNothing ==
    ASSUME NEW r, ~Accepted(r)
    PROVE  \A C : Reads(r, {}, C)
  BY DEF Reads

LEMMA ReadsMore ==
    ASSUME NEW r, NEW E, NEW C, NEW D, Reads(r, E, C), C \subseteq D
    PROVE  Reads(r, E, D)
  BY DEF Reads

LEMMA ReadsToken ==
    ASSUME NEW a, NEW E, NEW C, Reads(a, E, C), NEW k, k \notin C, NEW r,
           Accepted(r) <=> Accepted(a) /\ At(reached(a)) = k,
           Accepted(r) => reached(r) = reached(a) + 1
    PROVE  \A D : Reads(r, Token(E, {k}), D)
<1>1. ASSUME Accepted(r) PROVE reached(r) \in Token(E, {k})
  BY <1>1, TokenIs DEF Reads
<1>2. ASSUME ~HasBareBlock, NEW e \in Token(E, {k}) PROVE Accepted(r) /\ reached(r) = e
  <2>1. PICK q \in E : At(q) = k /\ e = q + 1
    BY <1>2, TokenIs
  <2>2. Accepted(a) /\ reached(a) = q
    BY <1>2, <2>1 DEF Reads
  <2> QED
    BY <2>1, <2>2
<1> QED
  BY <1>1, <1>2 DEF Reads

LEMMA ReadsCall ==
    ASSUME NEW a, NEW E, NEW C, Reads(a, E, C), NEW h, NEW D,
           \A q \in E : Reads(call(parse, h, q), call(derive, h, q), D),
           \A q \in E : \A e \in call(derive, h, q) : At(e) \notin D => At(q) \notin C,
           NEW b, b = call(parse, h, reached(a)), NEW r,
           Accepted(r) <=> Accepted(a) /\ Accepted(b), Accepted(r) => reached(r) = reached(b)
    PROVE  Reads(r, Behind(derive, E, h), D)
<1>1. ASSUME Accepted(r) PROVE reached(r) \in Behind(derive, E, h)
  <2>1. PICK q \in E : q = reached(a)
    BY <1>1 DEF Reads
  <2>2. Reads(b, call(derive, h, q), D)
    BY <2>1
  <2>3. reached(b) \in call(derive, h, q)
    BY <1>1, <2>2 DEF Reads
  <2> QED
    BY <1>1, <2>3, BehindIs
<1>2. ASSUME ~HasBareBlock, NEW e \in Behind(derive, E, h), At(e) \notin D PROVE Accepted(r) /\ reached(r) = e
  <2>1. PICK q \in E : e \in call(derive, h, q)
    BY BehindIs
  <2>2. Accepted(a) /\ reached(a) = q
    BY <1>2, <2>1 DEF Reads
  <2>3. Reads(b, call(derive, h, q), D)
    BY <2>2
  <2>4. Accepted(b) /\ reached(b) = e
    BY <1>2, <2>1, <2>3 DEF Reads
  <2> QED
    BY <2>2, <2>4
<1> QED
  BY <1>1, <1>2 DEF Reads

\* One, and where a certain token follows it, a routine behind the token.
LEMMA ReadsOption ==
    ASSUME NEW a, NEW E, NEW C, Reads(a, E, C), NEW k, k \notin C, NEW h, NEW D, k \in D, C \subseteq D,
           \A q \in Token(E, {k}) : Reads(call(parse, h, q), call(derive, h, q), D),
           NEW b, b = call(parse, h, reached(a) + 1), NEW r,
           Accepted(r) <=> Accepted(a) /\ (At(reached(a)) = k => Accepted(b)),
           Accepted(r) => reached(r) = IF At(reached(a)) = k THEN reached(b) ELSE reached(a)
    PROVE  Reads(r, E \cup Behind(derive, Token(E, {k}), h), D)
<1>1. ASSUME Accepted(r) PROVE reached(r) \in E \cup Behind(derive, Token(E, {k}), h)
  <2>1. PICK q \in E : q = reached(a)
    BY <1>1 DEF Reads
  <2>2. CASE At(q) = k
    <3>1. q + 1 \in Token(E, {k})
      BY <2>2, TokenIs
    <3>2. Reads(b, call(derive, h, q + 1), D)
      BY <2>1, <3>1
    <3>3. reached(b) \in call(derive, h, q + 1)
      BY <1>1, <2>1, <2>2, <3>2 DEF Reads
    <3> QED
      BY <1>1, <2>1, <2>2, <3>1, <3>3, BehindIs
  <2>3. CASE At(q) # k
    BY <1>1, <2>1, <2>3
  <2> QED
    BY <2>2, <2>3
<1>2. ASSUME ~HasBareBlock, NEW e \in E, At(e) \notin D PROVE Accepted(r) /\ reached(r) = e
  <2>1. Accepted(a) /\ reached(a) = e /\ At(e) # k
    BY <1>2 DEF Reads
  <2> QED
    BY <2>1
<1>3. ASSUME ~HasBareBlock, NEW e \in Behind(derive, Token(E, {k}), h), At(e) \notin D
      PROVE  Accepted(r) /\ reached(r) = e
  <2>1. PICK n \in Token(E, {k}) : e \in call(derive, h, n)
    BY BehindIs
  <2>2. PICK q \in E : At(q) = k /\ n = q + 1
    BY <2>1, TokenIs
  <2>3. Accepted(a) /\ reached(a) = q
    BY <1>3, <2>2 DEF Reads
  <2>4. Reads(b, call(derive, h, n), D)
    BY <2>1, <2>2, <2>3
  <2>5. Accepted(b) /\ reached(b) = e
    BY <1>3, <2>1, <2>4 DEF Reads
  <2> QED
    BY <2>2, <2>3, <2>5
<1> QED
  BY <1>1, <1>2, <1>3 DEF Reads

(* What may continue an expression of a tier, and what may begin one *)

\* Tokens that belong to no operator, so that they end every expression.
Closers == {"RightParen", "RightBracket", "LeftBrace", "RightBrace", "Newline", "Semicolon", "EndOfFile",
            "Comma", "=", "else"}

LEMMA OperatorsOf ==
    /\ Operators(8) = SuffixStarts
    /\ \A tier \in 1 .. 7 : /\ Operators(tier) = Tiers[tier] \cup Operators(tier + 1)
                            /\ Tiers[tier] \cap Operators(tier + 1) = {}
    /\ Closers \cap Operators(1) = {}
<1>1. Operators(8) = SuffixStarts
  BY DEF Operators
<1>2. ASSUME NEW tier \in 1 .. 7 PROVE Operators(tier) = Tiers[tier] \cup Operators(tier + 1)
  <2>1. tier .. 7 = {tier} \cup (tier + 1 .. 7)
    OBVIOUS
  <2> QED
    BY <2>1 DEF Operators
<1>3. ASSUME NEW tier \in 1 .. 7 PROVE Tiers[tier] \cap SuffixStarts = {} /\ Tiers[tier] \cap Closers = {}
  BY DEF Tiers, SuffixStarts, Closers
<1>4. ASSUME NEW t \in 1 .. 7, NEW u \in 1 .. 7, t # u PROVE Tiers[t] \cap Tiers[u] = {}
  BY <1>4 DEF Tiers
<1>5. ASSUME NEW tier \in 1 .. 7 PROVE Tiers[tier] \cap Operators(tier + 1) = {}
  <2>1. \A u \in tier + 1 .. 7 : u \in 1 .. 7 /\ u # tier
    OBVIOUS
  <2> QED
    BY <1>3, <1>4, <2>1 DEF Operators
<1>6. SuffixStarts \cap Closers = {}
  BY DEF SuffixStarts, Closers
<1>7. Closers \cap Operators(1) = {}
  BY <1>3, <1>6 DEF Operators
<1> QED
  BY <1>1, <1>2, <1>5, <1>7

\* The tokens an expression may begin with.
Starts == {"!", "-", "&", "Identifier", "LeftParen", "LeftBracket"} \cup Literals

LEMMA UnaryStarts ==
    ASSUME NEW self, NEW i, At(i) \notin Starts
    PROVE  unaryEnds(self, i) = {}
<1>1. \A K : K \subseteq Starts => Token({i}, K) = {}
  BY TokenHere
<1>2. /\ Token({i}, {"!", "-", "&"}) = {} /\ Token({i}, {"&"}) = {}
      /\ Token({i}, {"LeftParen"}) = {} /\ Token({i}, {"LeftBracket"}) = {}
      /\ Token({i}, {"Identifier", "IntegerLiteral", "FloatLiteral", "StringLiteral", "CharLiteral",
                    "true", "false"}) = {}
  BY <1>1 DEF Starts, Literals
<1>3. primaryEnds(self, i) = {}
  BY <1>2, NothingBehind, TokenOfNone DEF primaryEnds
<1> QED
  BY <1>2, <1>3, NothingBehind, TokenOfNone DEF unaryEnds

\* Where an expression begins, and where a type does.
LEMMA ExpressionStarts ==
    ASSUME IsFile, NEW i \in Positions, At(i) \notin Starts
    PROVE  /\ \A tier \in 1 .. 8 : call(derive, tier, i) = {}
           /\ call(derive, Expression, i) = {} /\ call(derive, ExpressionList, i) = {}
<1>1. call(derive, 8, i) = {}
  BY UnaryStarts, DeriveUnfolds, ProduceIs, RoutineFacts DEF UnaryTier
<1>2. ASSUME NEW tier \in 1 .. 7, call(derive, tier + 1, i) = {} PROVE call(derive, tier, i) = {}
  <2>1. call(derive, tier, i) = tierEnds(derive, tier, i)
    BY DeriveUnfolds, ProduceIs, RoutineFacts
  <2> QED
    BY <1>2, <2>1, NothingBehind DEF tierEnds
<1>3. call(derive, 7, i) = {}
  BY <1>1, <1>2
<1>4. call(derive, 6, i) = {}
  BY <1>3, <1>2
<1>5. call(derive, 5, i) = {}
  BY <1>4, <1>2
<1>6. call(derive, 4, i) = {}
  BY <1>5, <1>2
<1>7. call(derive, 3, i) = {}
  BY <1>6, <1>2
<1>8. call(derive, 2, i) = {}
  BY <1>7, <1>2
<1>9. call(derive, 1, i) = {}
  BY <1>8, <1>2
<1>10. \A tier \in 1 .. 8 : call(derive, tier, i) = {}
  BY <1>1, <1>3, <1>4, <1>5, <1>6, <1>7, <1>8, <1>9
<1>11. call(derive, Expression, i) = {}
  <2>1. call(derive, Expression, i) = expressionEnds(derive, i)
    BY DeriveUnfolds, ProduceIs, RoutineFacts
  <2> QED
    BY <1>9, <2>1, NothingBehind, TokenOfNone DEF expressionEnds
<1>12. call(derive, ExpressionList, i) = {}
  <2>1. call(derive, ExpressionList, i) = Separated(derive, call(derive, Expression, i), ExpressionList)
    BY DeriveUnfolds, ProduceIs, RoutineFacts
  <2> QED
    BY <1>11, <2>1, NothingBehind, TokenOfNone DEF Separated
<1> QED
  BY <1>10, <1>11, <1>12

LEMMA TypeStarts ==
    ASSUME IsFile, NEW i \in Positions, At(i) \notin {"&", "LeftBracket", "LeftParen", "Identifier"}
    PROVE  call(derive, TypeSyntax, i) = {}
<1>1. \A k : At(i) # k => Token({i}, {k}) = {}
  BY NoToken
<1>2. /\ Token({i}, {"&"}) = {} /\ Token({i}, {"LeftBracket"}) = {} /\ Token({i}, {"LeftParen"}) = {}
      /\ Token({i}, {"Identifier"}) = {}
  BY <1>1
<1>3. call(derive, TypeSyntax, i) = typeEnds(derive, i)
  BY DeriveUnfolds, ProduceIs, RoutineFacts
<1> QED
  BY <1>2, <1>3, NothingBehind, TokenOfNone DEF typeEnds

LEMMA ParamStarts ==
    ASSUME IsFile, NEW i \in Positions, At(i) # "Identifier"
    PROVE  call(derive, ParamList, i) = {}
<1>1. Token({i}, {"Identifier"}) = {}
  BY NoToken
<1>2. call(derive, ParamList, i) = paramsEnds(derive, i)
  BY DeriveUnfolds, ProduceIs, RoutineFacts
<1> QED
  BY <1>1, <1>2, NothingBehind, TokenOfNone DEF paramsEnds, Separated

----------------------------------------------------------------------------

LEMMA ContinuationsAre ==
    /\ Continuations(Expression) = Operators(1) \cup {"="}
    /\ \A tier \in 1 .. 8 : Continuations(tier) = Operators(tier)
    /\ Continuations(UnaryTier) = SuffixStarts
    /\ Continuations(SuffixList) = SuffixStarts
    /\ Continuations(ExpressionList) = Operators(1) \cup {"=", "Comma"}
    /\ \A tier \in 1 .. 7 : Continuations(Rest(tier)) = Operators(tier)
    /\ Continuations(TypeSyntax) = {"<"}
    /\ Continuations(TypeList) = {"<", "Newline", "Comma"}
    /\ Continuations(ParamList) = {"<", "Comma"}
<1> USE DEF Expression, UnaryTier, SuffixList, ExpressionList, TypeSyntax, TypeList, ParamList, Rest
<1>1. Continuations(Expression) = Operators(1) \cup {"="}
  BY DEF Continuations
<1>2. ASSUME NEW tier \in 1 .. 7 PROVE Continuations(tier) = Operators(tier)
  BY DEF Continuations
<1>3. Continuations(8) = Operators(8)
  BY OperatorsOf DEF Continuations
<1>4. Continuations(UnaryTier) = SuffixStarts
  BY DEF Continuations
<1>5. Continuations(SuffixList) = SuffixStarts
  BY DEF Continuations
<1>6. Continuations(ExpressionList) = Operators(1) \cup {"=", "Comma"}
  BY DEF Continuations
<1>7. ASSUME NEW tier \in 1 .. 7 PROVE Continuations(Rest(tier)) = Operators(tier)
  <2>1. 10 + tier - 10 = tier /\ 10 + tier \notin {0, 10} /\ 10 + tier \notin 1 .. 7
    OBVIOUS
  <2> QED
    BY <2>1 DEF Continuations
<1>8. Continuations(TypeSyntax) = {"<"}
  BY DEF Continuations
<1>9. Continuations(TypeList) = {"<", "Newline", "Comma"}
  BY DEF Continuations
<1>10. Continuations(ParamList) = {"<", "Comma"}
  BY DEF Continuations
<1> QED
  BY <1>1, <1>2, <1>3, <1>4, <1>5, <1>6, <1>7, <1>8, <1>9, <1>10

LEMMA DecidesIs ==
    ASSUME NEW p
    PROVE  /\ Decides(StatementList, p) <=> (Unbraced(p) =>
                 Reads(call(parse, StatementList, p), EndsAt(call(derive, StatementList, p), "RightBrace"),
                   {}))
           /\ Decides(DeclarationList, p) <=>
                 Reads(call(parse, DeclarationList, p),
                   EndsAt(call(derive, DeclarationList, p), "EndOfFile"), {})
           /\ Decides(ElseList, p) <=> ReadsElses(call(parse, ElseList, p), call(derive, ElseList, p))
           /\ \A h \in Routines \ {StatementList, DeclarationList, ElseList} :
                 Decides(h, p) <=> Reads(call(parse, h, p), call(derive, h, p), Continuations(h))
  BY DEF Decides, StatementList, DeclarationList, ElseList

LEMMA PlainRoutines ==
    /\ {Expression, UnaryTier, SuffixList, ExpressionList, TypeSyntax, TypeList, ParamList}
          \subseteq Routines \ {StatementList, DeclarationList, ElseList}
    /\ \A t \in 1 .. 8 : t \in Routines \ {StatementList, DeclarationList, ElseList}
    /\ \A t \in 1 .. 7 : Rest(t) \in Routines \ {StatementList, DeclarationList, ElseList}
  BY DEF Routines, Expression, UnaryTier, SuffixList, ExpressionList, TypeSyntax, TypeList,
         StatementList, ElseList, ParamList, DeclarationList, Rest

DecidedBehind(p) == \A h \in Routines, q \in Positions : q > p => Decides(h, q)

LEMMA PlainDecides ==
    ASSUME NEW p, NEW h \in Routines \ {StatementList, DeclarationList, ElseList}
    PROVE  Decides(h, p) <=> Reads(call(parse, h, p), call(derive, h, p), Continuations(h))
  BY DecidesIs

LEMMA TypeDecides ==
    ASSUME NEW p
    PROVE  Decides(TypeSyntax, p) <=> Reads(call(parse, TypeSyntax, p), call(derive, TypeSyntax, p), {"<"})
<1>1. TypeSyntax \in Routines \ {StatementList, DeclarationList, ElseList}
  BY PlainRoutines
<1>2. Continuations(TypeSyntax) = {"<"}
  BY ContinuationsAre
<1> QED
  BY <1>1, <1>2, PlainDecides

LEMMA DecidedAt ==
    ASSUME NEW p, DecidedBehind(p), NEW q \in Positions, q > p,
           NEW h \in Routines \ {StatementList, DeclarationList, ElseList}
    PROVE  Reads(call(parse, h, q), call(derive, h, q), Continuations(h))
  BY DecidesIs DEF DecidedBehind

LEMMA DecidedLater ==
    ASSUME IsFile, NEW p \in Positions, NEW q \in Positions, q >= p, DecidedBehind(p)
    PROVE  DecidedBehind(q)
<1>1. p \in Nat /\ q \in Nat /\ \A k \in Positions : k \in Nat
  BY PositionFacts
<1> QED
  BY <1>1 DEF DecidedBehind

LEMMA EndsAhead ==
    ASSUME IsFile, NEW h \in Routines, NEW q \in Positions
    PROVE  /\ \A e \in call(derive, h, q) : e \in Positions /\ e >= q
           /\ h \notin Nullable => \A e \in call(derive, h, q) : e > q
<1>1. Alike(derive, derive, h, q)
  BY DeriveMoves
<1>2. call(derive, h, q) \subseteq From(q)
  BY <1>1, PastFacts DEF Alike
<1>3. h \notin Nullable => call(derive, h, q) \subseteq Past(q)
  BY <1>1 DEF Alike
<1> QED
  BY <1>2, <1>3 DEF From, Past

LEMMA ReadsSame ==
    ASSUME NEW a, NEW E, NEW C, Reads(a, E, C), NEW r, Accepted(r) <=> Accepted(a),
           Accepted(r) => reached(r) = reached(a)
    PROVE  Reads(r, E, C)
  BY DEF Reads

LEMMA ReferenceDecided ==
    ASSUME IsFile, NEW p \in Positions, DecidedBehind(p), At(p) = "&"
    PROVE  Reads(parseTypeSyntax(parse, p), typeEnds(derive, p), {"<"})
<1>1. /\ Token({p}, {"Identifier"}) = {} /\ Token({p}, {"LeftBracket"}) = {}
      /\ Token({p}, {"LeftParen"}) = {}
      /\ Token({p}, {"&"}) = {p + 1}
  BY NoToken, OneToken
<1>2. typeEnds(derive, p) = Behind(derive, {p + 1} \cup Token({p + 1}, {"mut"}), TypeSyntax)
  BY <1>1, TokenOfNone, NothingBehind DEF typeEnds
<1>3. p + 1 \in Positions /\ p + 1 > p
  BY NextPosition
<1> DEFINE n == IF At(p + 1) = "mut" THEN p + 2 ELSE p + 1
<1>4. typeEnds(derive, p) = call(derive, TypeSyntax, n)
  <2>1. CASE At(p + 1) = "mut"
    <3>1. call(derive, TypeSyntax, p + 1) = {}
      BY <1>3, <2>1, TypeStarts
    <3>2. Token({p + 1}, {"mut"}) = {p + 1 + 1} /\ p + 1 + 1 = p + 2
      BY <2>1, OneToken, <1>3, PositionFacts
    <3>3. Behind(derive, {p + 1} \cup {p + 2}, TypeSyntax)
             = call(derive, TypeSyntax, p + 1) \cup call(derive, TypeSyntax, p + 2)
      BY DEF Behind
    <3> QED
      BY <1>2, <2>1, <3>1, <3>2, <3>3
  <2>2. CASE At(p + 1) # "mut"
    <3>1. Token({p + 1}, {"mut"}) = {}
      BY <2>2, NoToken
    <3> QED
      BY <1>2, <2>2, <3>1, BehindHere
  <2> QED
    BY <2>1, <2>2
<1>5. n \in Positions /\ n > p
  BY <1>3, PositionFacts
<1>6. parseTypeSyntax(parse, p) = parseReferenceTypeSyntax(parse, p)
  BY TypeShape
<1>7. PICK r : r = parseTypeSyntax(parse, p)
  OBVIOUS
<1>8. PICK a : a = call(parse, TypeSyntax, n)
  OBVIOUS
<1>9. (Accepted(r) <=> Accepted(a)) /\ (Accepted(r) => reached(r) = reached(a))
  BY <1>6, <1>7, <1>8, ReferenceShape
<1>10. Reads(a, call(derive, TypeSyntax, n), {"<"})
  <2> HIDE DEF n
  <2> QED
    BY <1>5, <1>8, DecidedAt, PlainRoutines, ContinuationsAre
<1> HIDE DEF n
<1> QED
  BY <1>4, <1>7, <1>9, <1>10, ReadsSame

LEMMA BracketDecided ==
    ASSUME IsFile, NEW p \in Positions, DecidedBehind(p), At(p) = "LeftBracket"
    PROVE  Reads(parseTypeSyntax(parse, p), typeEnds(derive, p), {"<"})
<1>1. /\ Token({p}, {"Identifier"}) = {} /\ Token({p}, {"&"}) = {} /\ Token({p}, {"LeftParen"}) = {}
      /\ Token({p}, {"LeftBracket"}) = {p + 1}
  BY NoToken, OneToken
<1>2. PICK E : E = call(derive, TypeSyntax, p + 1)
  OBVIOUS
<1>3. typeEnds(derive, p)
         = Token(E \cup Token(Token(E, {"Semicolon"}), {"IntegerLiteral"}), {"RightBracket"})
  <2>1. Behind(derive, Token({p}, {"LeftBracket"}), TypeSyntax) = E
    BY <1>1, <1>2, BehindHere
  <2>2. Behind(derive, Token(Token({p}, {"Identifier"}), {"<"}), TypeList) = {}
    BY <1>1, TokenOfNone, NothingBehind
  <2>3. Behind(derive, Token({p}, {"&"}) \cup Token(Token({p}, {"&"}), {"mut"}), TypeSyntax) = {}
    BY <1>1, TokenOfNone, NothingBehind
  <2> HIDE <1>2
  <2> QED
    BY <1>1, <2>1, <2>2, <2>3, TokenOfNone DEF typeEnds
<1>4. p + 1 \in Positions /\ p + 1 > p
  BY NextPosition
<1>5. PICK r : r = parseTypeSyntax(parse, p)
  OBVIOUS
<1>6. PICK a : a = call(parse, TypeSyntax, p + 1)
  OBVIOUS
<1>7. Reads(a, E, {"<"})
  BY <1>2, <1>4, <1>6, DecidedAt, PlainRoutines, ContinuationsAre
<1>8. /\ Accepted(r) <=> /\ Accepted(a)
                         /\ IF At(reached(a)) = "Semicolon"
                            THEN /\ At(reached(a) + 1) = "IntegerLiteral"
                                 /\ At(reached(a) + 1 + 1) = "RightBracket"
                            ELSE At(reached(a)) = "RightBracket"
      /\ Accepted(r) =>
           reached(r) = IF At(reached(a)) = "Semicolon" THEN reached(a) + 1 + 1 + 1 ELSE reached(a) + 1
  BY <1>5, <1>6, TypeShape, BracketShape
<1>9. PICK T : T = Token(E, {"RightBracket"})
  OBVIOUS
<1>10. PICK U : U = Token(Token(Token(E, {"Semicolon"}), {"IntegerLiteral"}), {"RightBracket"})
  OBVIOUS
<1>11. typeEnds(derive, p) = T \cup U
  BY <1>3, <1>9, <1>10 DEF Token
<1>12. \A e : e \in T <=> \E q \in E : At(q) = "RightBracket" /\ e = q + 1
  BY <1>9, TokenIs
<1>13. \A e : e \in U <=> \E q \in E : /\ At(q) = "Semicolon" /\ At(q + 1) = "IntegerLiteral"
                                       /\ At(q + 1 + 1) = "RightBracket" /\ e = q + 1 + 1 + 1
  BY <1>10 DEF Token
<1>14. ASSUME Accepted(r) PROVE reached(r) \in T \cup U
  <2>1. PICK q \in E : q = reached(a)
    BY <1>7, <1>8, <1>14 DEF Reads
  <2>2. CASE At(q) = "Semicolon"
    BY <1>8, <1>13, <1>14, <2>1, <2>2
  <2>3. CASE At(q) # "Semicolon"
    BY <1>8, <1>12, <1>14, <2>1, <2>3
  <2> QED
    BY <2>2, <2>3
<1>15. ASSUME ~HasBareBlock, NEW e \in T PROVE Accepted(r) /\ reached(r) = e
  <2>1. PICK q \in E : At(q) = "RightBracket" /\ e = q + 1
    BY <1>12, <1>15
  <2>2. Accepted(a) /\ reached(a) = q
    BY <1>7, <1>15, <2>1 DEF Reads
  <2> QED
    BY <1>8, <2>1, <2>2
<1>16. ASSUME ~HasBareBlock, NEW e \in U PROVE Accepted(r) /\ reached(r) = e
  <2>1. PICK q \in E : /\ At(q) = "Semicolon" /\ At(q + 1) = "IntegerLiteral"
                       /\ At(q + 1 + 1) = "RightBracket" /\ e = q + 1 + 1 + 1
    BY <1>13, <1>16
  <2>2. Accepted(a) /\ reached(a) = q
    BY <1>7, <1>16, <2>1 DEF Reads
  <2> QED
    BY <1>8, <2>1, <2>2
<1> QED
  BY <1>5, <1>11, <1>14, <1>15, <1>16 DEF Reads

LEMMA UnitDecided ==
    ASSUME IsFile, NEW p \in Positions, At(p) = "LeftParen"
    PROVE  Reads(parseTypeSyntax(parse, p), typeEnds(derive, p), {"<"})
<1>1. /\ Token({p}, {"Identifier"}) = {} /\ Token({p}, {"&"}) = {} /\ Token({p}, {"LeftBracket"}) = {}
      /\ Token({p}, {"LeftParen"}) = {p + 1}
  BY NoToken, OneToken
<1>2. typeEnds(derive, p) = Token({p + 1}, {"RightParen"})
  BY <1>1, TokenOfNone, NothingBehind DEF typeEnds
<1>3. PICK r : r = parseTypeSyntax(parse, p)
  OBVIOUS
<1>4. (Accepted(r) <=> At(p + 1) = "RightParen") /\ (Accepted(r) => reached(r) = p + 1 + 1)
  BY <1>3, TypeShape
<1>5. CASE At(p + 1) = "RightParen"
  <2>1. Token({p + 1}, {"RightParen"}) = {p + 1 + 1}
    BY <1>5, OneToken
  <2> QED
    BY <1>2, <1>3, <1>4, <1>5, <2>1, ReadsHere
<1>6. CASE At(p + 1) # "RightParen"
  <2>1. Token({p + 1}, {"RightParen"}) = {}
    BY <1>6, NoToken
  <2> QED
    BY <1>2, <1>3, <1>4, <1>6, <2>1, ReadsNothing
<1> QED
  BY <1>5, <1>6

LEMMA NamedDecided ==
    ASSUME IsFile, NEW p \in Positions, DecidedBehind(p), At(p) = "Identifier"
    PROVE  Reads(parseTypeSyntax(parse, p), typeEnds(derive, p), {"<"})
<1>1. /\ Token({p}, {"LeftParen"}) = {} /\ Token({p}, {"&"}) = {} /\ Token({p}, {"LeftBracket"}) = {}
      /\ Token({p}, {"Identifier"}) = {p + 1}
  BY NoToken, OneToken
<1>2. typeEnds(derive, p)
         = {p + 1} \cup Token(Behind(derive, Token({p + 1}, {"<"}), TypeList), {">"})
  BY <1>1, TokenOfNone, NothingBehind DEF typeEnds
<1>3. PICK r : r = parseTypeSyntax(parse, p)
  OBVIOUS
<1>4. CASE At(p + 1) # "<"
  <2>1. Token({p + 1}, {"<"}) = {}
    BY <1>4, NoToken
  <2>2. typeEnds(derive, p) = {p + 1}
    BY <1>2, <2>1, TokenOfNone, NothingBehind
  <2>3. Accepted(r) /\ reached(r) = p + 1
    BY <1>3, <1>4, TypeShape
  <2> QED
    BY <1>3, <2>2, <2>3, ReadsHere
<1>5. CASE At(p + 1) = "<"
  <2>1. p + 1 + 1 \in Positions /\ p + 1 + 1 > p /\ p + 1 + 1 = p + 2
    BY <1>5, PositionFacts
  <2>2. Token({p + 1}, {"<"}) = {p + 2}
    BY <1>5, <2>1, OneToken
  <2>3. PICK T : T = Token(call(derive, TypeList, p + 2), {">"})
    OBVIOUS
  <2>4. typeEnds(derive, p) = {p + 1} \cup T
    BY <1>2, <2>2, <2>3, BehindHere
  <2>5. PICK a : a = call(parse, TypeList, p + 2)
    OBVIOUS
  <2>6. Reads(a, call(derive, TypeList, p + 2), {"<", "Newline", "Comma"})
    BY <2>1, <2>5, DecidedAt, PlainRoutines, ContinuationsAre
  <2>7. Accepted(r) <=> Accepted(a) /\ At(reached(a)) = ">"
    BY <1>3, <1>5, <2>5, TypeShape, GenericShape
  <2>8. Accepted(r) => reached(r) = reached(a) + 1
    BY <1>3, <1>5, <2>5, TypeShape, GenericShape
  <2>9. ">" \notin {"<", "Newline", "Comma"}
    OBVIOUS
  <2>10. Reads(r, T, {"<"})
    BY <2>3, <2>6, <2>7, <2>8, <2>9, ReadsToken
  <2> QED
    BY <1>3, <1>5, <2>4, <2>10 DEF Reads
<1> QED
  BY <1>4, <1>5

LEMMA TypeDecided ==
    ASSUME IsFile, NEW p \in Positions, DecidedBehind(p)
    PROVE  Decides(TypeSyntax, p)
<1>1. /\ call(parse, TypeSyntax, p) = parseTypeSyntax(parse, p)
      /\ call(derive, TypeSyntax, p) = typeEnds(derive, p)
  BY ParseUnfolds, DeriveUnfolds, RunIs, ProduceIs, RoutineFacts
<1>2. Reads(parseTypeSyntax(parse, p), typeEnds(derive, p), {"<"})
  <2>1. CASE At(p) \in {"&", "LeftBracket", "LeftParen", "Identifier"}
    BY <2>1, ReferenceDecided, BracketDecided, UnitDecided, NamedDecided
  <2>2. CASE At(p) \notin {"&", "LeftBracket", "LeftParen", "Identifier"}
    <3>1. typeEnds(derive, p) = {}
      BY <1>1, <2>2, TypeStarts
    <3>2. ~Accepted(parseTypeSyntax(parse, p))
      BY <2>2, TypeShape
    <3> QED
      BY <3>1, <3>2, ReadsNothing
  <2> QED
    BY <2>1, <2>2
<1> QED
  BY <1>1, <1>2, DecidesIs, PlainRoutines, ContinuationsAre

LEMMA BreaksIs ==
    ASSUME IsFile, NEW i \in Positions, NEW q
    PROVE  q \in Breaks({i}) <=> /\ q \in Positions /\ i <= q
                                 /\ \A k \in Positions : i <= k /\ k < q => At(k) = "Newline"
<1>1. \A k \in Positions : k \in Nat /\ 1 <= k /\ k <= End
  BY PositionFacts
<1>2. Len(tokens) + 1 = End /\ i \in Nat /\ i >= 1
  BY <1>1 DEF End
<1>3. ASSUME q \in Positions, i <= q
      PROVE  (\A k \in i .. q - 1 : tokens[k] = "Newline")
                <=> (\A k \in Positions : i <= k /\ k < q => At(k) = "Newline")
  <2>1. q \in Nat /\ q <= End
    BY <1>1, <1>3
  <2>2. Len(tokens) \in Nat
    BY DEF IsFile, IsText
  <2>3. \A k \in i .. q - 1 : k \in Positions /\ k \in Nat /\ k < q /\ i <= k /\ ~(k > Len(tokens))
    BY <1>1, <1>2, <2>1, <2>2, PositionFacts
  <2>4. \A k \in i .. q - 1 : At(k) = tokens[k]
    BY <2>3 DEF At
  <2>5. \A k \in Positions : i <= k /\ k < q => k \in i .. q - 1
    BY <1>1, <1>2, <2>1
  <2> QED
    BY <2>3, <2>4, <2>5
<1> QED
  BY <1>3 DEF Breaks

LEMMA BreaksTo ==
    ASSUME IsFile, NEW i \in Positions
    PROVE  /\ i \in Breaks({i}) /\ skipNewlines(i) \in Breaks({i})
           /\ \A q \in Breaks({i}) : /\ skipNewlines(q) = skipNewlines(i)
                                     /\ At(q) # "Newline" => q = skipNewlines(i)
                                     /\ q # i => At(i) = "Newline"
<1>1. \A k \in Positions : k \in Nat
  BY PositionFacts
<1>2. i \in Breaks({i})
  BY <1>1, BreaksIs
<1>3. skipNewlines(i) \in Breaks({i})
  BY NewlineFacts, BreaksIs
<1>4. ASSUME NEW q \in Breaks({i}), At(q) # "Newline" PROVE q = skipNewlines(i)
  <2>1. q \in Positions /\ i <= q /\ \A k \in Positions : i <= k /\ k < q => At(k) = "Newline"
    BY BreaksIs
  <2>2. Skip({"Newline"}, i) = q
    <3>1. "EndOfFile" \notin {"Newline"} /\ At(q) \notin {"Newline"}
      BY <1>4
    <3>2. \A k \in Positions : i <= k /\ k < q => At(k) \in {"Newline"}
      BY <2>1
    <3> QED
      BY <2>1, <3>1, <3>2, SkipIsThere
  <2> QED
    BY <2>2 DEF skipNewlines
<1>5. ASSUME NEW q \in Breaks({i}) PROVE skipNewlines(q) = skipNewlines(i)
  <2>1. q \in Positions /\ i <= q /\ \A k \in Positions : i <= k /\ k < q => At(k) = "Newline"
    BY BreaksIs
  <2>2. PICK s \in Positions : /\ s = skipNewlines(q) /\ s >= q /\ At(s) # "Newline"
                               /\ \A k \in Positions : q <= k /\ k < s => At(k) = "Newline"
    BY <2>1, NewlineFacts
  <2>3. i <= s
    BY <1>1, <2>1, <2>2
  <2>4. \A k \in Positions : i <= k /\ k < s => At(k) = "Newline"
    BY <1>1, <2>1, <2>2
  <2>5. s \in Breaks({i})
    BY <2>3, <2>4, BreaksIs
  <2> QED
    BY <1>4, <2>2, <2>5
<1>6. ASSUME NEW q \in Breaks({i}), q # i PROVE At(i) = "Newline"
  <2>1. q \in Positions /\ i <= q /\ \A k \in Positions : i <= k /\ k < q => At(k) = "Newline"
    BY BreaksIs
  <2> QED
    BY <1>1, <1>6, <2>1
<1> QED
  BY <1>2, <1>3, <1>4, <1>5, <1>6

LEMMA BreaksOf ==
    ASSUME NEW S, NEW q
    PROVE  q \in Breaks(S) <=> \E i \in S : q \in Breaks({i})
  BY DEF Breaks

----------------------------------------------------------------------------

LEMMA TypeListDecided ==
    ASSUME IsFile, NEW p \in Positions, DecidedBehind(p), Decides(TypeSyntax, p)
    PROVE  Decides(TypeList, p)
<1>1. /\ call(parse, TypeList, p) = parseTypeList(parse, p)
      /\ call(derive, TypeList, p) = typeListEnds(derive, p)
  BY ParseUnfolds, DeriveUnfolds, RunIs, ProduceIs, RoutineFacts
<1>2. PICK s \in Positions : s = skipNewlines(p) /\ s >= p
  BY NewlineFacts
<1>3. p \in Nat /\ s \in Nat
  BY PositionFacts
<1>4. PICK E : E = call(derive, TypeSyntax, s)
  OBVIOUS
<1>5. PICK a : a = call(parse, TypeSyntax, s)
  OBVIOUS
<1>6. Reads(a, E, {"<"})
  <2>1. Reads(call(parse, TypeSyntax, p), call(derive, TypeSyntax, p), {"<"})
    BY TypeDecides
  <2>2. s > p => Reads(call(parse, TypeSyntax, s), call(derive, TypeSyntax, s), {"<"})
    BY DecidedAt, PlainRoutines, ContinuationsAre
  <2>3. s = p \/ s > p
    BY <1>2, <1>3
  <2> QED
    BY <1>4, <1>5, <2>1, <2>2, <2>3
<1>7. \A e \in E : e \in Positions /\ e > s
  BY <1>4, EndsAhead, RoutineFacts
<1>8. Behind(derive, Breaks({p}), TypeSyntax) = E
  <2>1. \A q \in Breaks({p}) : q # s => call(derive, TypeSyntax, q) = {}
    <3> TAKE q \in Breaks({p})
    <3>1. q # s => At(q) = "Newline"
      BY <1>2, BreaksTo
    <3>2. q \in Positions
      BY BreaksIs
    <3> QED
      BY <3>1, <3>2, TypeStarts
  <2>2. s \in Breaks({p})
    BY <1>2, BreaksTo
  <2>3. \A e : e \in Behind(derive, Breaks({p}), TypeSyntax)
                 <=> \E q \in Breaks({p}) : e \in call(derive, TypeSyntax, q)
    BY BehindIs
  <2>4. Behind(derive, Breaks({p}), TypeSyntax) = call(derive, TypeSyntax, s)
    BY <2>1, <2>2, <2>3
  <2> QED
    BY <1>4, <2>4
<1>9. PICK F : F = Breaks(E)
  OBVIOUS
<1>10. typeListEnds(derive, p) = F \cup Behind(derive, Token(F, {"Comma"}), TypeList)
  BY <1>8, <1>9 DEF typeListEnds, Separated
<1>11. ASSUME NEW q \in F
       PROVE  /\ \E e \in E : q \in Breaks({e}) /\ e \in Positions /\ e > p
              /\ q \in Positions /\ q > p
  <2>1. PICK e \in E : q \in Breaks({e})
    BY <1>9, <1>11, BreaksOf
  <2>2. e \in Positions /\ e > s
    BY <1>7
  <2>3. q \in Positions /\ q >= e
    BY <2>1, <2>2, BreaksIs
  <2>4. e > p /\ q > p
    BY <1>2, <1>3, <2>2, <2>3, PositionFacts
  <2> QED
    BY <2>1, <2>2, <2>3, <2>4
<1>12. PICK f : f = skipNewlines(reached(a))
  OBVIOUS
<1>13. PICK b : b = call(parse, TypeList, f + 1)
  OBVIOUS
<1>14. PICK r : r = parseTypeList(parse, p)
  OBVIOUS
<1>15. /\ Accepted(r) <=> Accepted(a) /\ (At(f) = "Comma" => Accepted(b))
       /\ Accepted(r) => reached(r) = IF At(f) = "Comma" THEN reached(b) ELSE f
  BY <1>2, <1>5, <1>12, <1>13, <1>14, TypeListShape
<1>16. Accepted(a) => f \in F
  <2> SUFFICES ASSUME Accepted(a) PROVE f \in F
    OBVIOUS
  <2>1. PICK e \in E : e = reached(a)
    BY <1>6 DEF Reads
  <2>2. f \in Breaks({e})
    BY <1>7, <1>12, <2>1, BreaksTo
  <2> QED
    BY <1>9, <2>2, BreaksOf
<1>17. ASSUME ~HasBareBlock, NEW q \in F, At(q) \notin {"<", "Newline"} PROVE Accepted(a) /\ f = q
  <2>1. PICK e \in E : q \in Breaks({e}) /\ e \in Positions
    BY <1>11
  <2>2. q = skipNewlines(e) /\ (q # e => At(e) = "Newline")
    BY <1>17, <2>1, BreaksTo
  <2>3. At(e) # "<"
    BY <1>17, <2>2
  <2>4. Accepted(a) /\ reached(a) = e
    BY <1>6, <1>17, <2>3 DEF Reads
  <2> QED
    BY <1>12, <2>2, <2>4
<1>18. \A n \in Token(F, {"Comma"}) :
         Reads(call(parse, TypeList, n), call(derive, TypeList, n), {"<", "Newline", "Comma"})
  <2> TAKE n \in Token(F, {"Comma"})
  <2>1. PICK q \in F : At(q) = "Comma" /\ n = q + 1
    BY TokenIs
  <2>2. q \in Positions /\ q > p
    BY <1>11
  <2>3. n \in Positions /\ n > p
    BY <1>3, <2>1, <2>2, PositionFacts
  <2> QED
    BY <2>3, DecidedAt, PlainRoutines, ContinuationsAre
<1>19. ASSUME Accepted(r) PROVE reached(r) \in F \cup Behind(derive, Token(F, {"Comma"}), TypeList)
  <2>1. f \in F
    BY <1>15, <1>16, <1>19
  <2>2. CASE At(f) = "Comma"
    <3>1. f + 1 \in Token(F, {"Comma"})
      BY <2>1, <2>2, TokenIs
    <3>2. Reads(b, call(derive, TypeList, f + 1), {"<", "Newline", "Comma"})
      BY <1>13, <1>18, <3>1
    <3>3. reached(b) \in call(derive, TypeList, f + 1)
      BY <1>15, <1>19, <2>2, <3>2 DEF Reads
    <3> QED
      BY <1>15, <1>19, <2>2, <3>1, <3>3, BehindIs
  <2>3. CASE At(f) # "Comma"
    BY <1>15, <1>19, <2>1, <2>3
  <2> QED
    BY <2>2, <2>3
<1>20. ASSUME ~HasBareBlock, NEW e \in F, At(e) \notin {"<", "Newline", "Comma"}
       PROVE  Accepted(r) /\ reached(r) = e
  <2>1. Accepted(a) /\ f = e
    BY <1>17, <1>20
  <2> QED
    BY <1>15, <1>20, <2>1
<1>21. ASSUME ~HasBareBlock, NEW e \in Behind(derive, Token(F, {"Comma"}), TypeList),
         At(e) \notin {"<", "Newline", "Comma"}
       PROVE  Accepted(r) /\ reached(r) = e
  <2>1. PICK n \in Token(F, {"Comma"}) : e \in call(derive, TypeList, n)
    BY BehindIs
  <2>2. PICK q \in F : At(q) = "Comma" /\ n = q + 1
    BY <2>1, TokenIs
  <2>3. Accepted(a) /\ f = q
    BY <1>17, <1>21, <2>2
  <2>4. Reads(b, call(derive, TypeList, n), {"<", "Newline", "Comma"})
    BY <1>13, <1>18, <2>1, <2>2, <2>3
  <2>5. Accepted(b) /\ reached(b) = e
    BY <1>21, <2>1, <2>4 DEF Reads
  <2> QED
    BY <1>15, <2>2, <2>3, <2>5
<1>22. Reads(r, typeListEnds(derive, p), {"<", "Newline", "Comma"})
  BY <1>10, <1>19, <1>20, <1>21 DEF Reads
<1> QED
  BY <1>1, <1>14, <1>22, DecidesIs, PlainRoutines, ContinuationsAre

LEMMA TokenAhead ==
    ASSUME IsFile, NEW p \in Positions, NEW E, \A e \in E : e \in Positions /\ e >= p,
           NEW k, k # "EndOfFile"
    PROVE  \A q \in Token(E, {k}) : q \in Positions /\ q > p
<1> TAKE q \in Token(E, {k})
<1>1. PICK e \in E : At(e) = k /\ q = e + 1
  BY TokenIs
<1>2. e \in Positions /\ e >= p
  OBVIOUS
<1>3. e + 1 \in Positions /\ e \in Nat /\ p \in Nat
  BY <1>1, <1>2, PositionFacts
<1> QED
  BY <1>1, <1>2, <1>3

\* The ends of a routine that is not empty, as far as they are needed.
LEMMA EndsPast ==
    ASSUME IsFile, NEW h \in Routines \ Nullable, NEW p \in Positions
    PROVE  \A e \in call(derive, h, p) : e \in Positions /\ e > p /\ e >= p
<1>1. \A e \in Positions : e \in Nat /\ p \in Nat
  BY PositionFacts
<1> QED
  BY <1>1, EndsAhead

LEMMA OptionDecided ==
    ASSUME IsFile, NEW p \in Positions, DecidedBehind(p),
           NEW h \in Routines \ {StatementList, DeclarationList, ElseList},
           NEW a, NEW E, NEW C, Reads(a, E, C), \A e \in E : e \in Positions /\ e >= p,
           NEW k, k \notin C, k # "EndOfFile", k \in Continuations(h), C \subseteq Continuations(h),
           NEW b, b = call(parse, h, reached(a) + 1), NEW r,
           Accepted(r) <=> Accepted(a) /\ (At(reached(a)) = k => Accepted(b)),
           Accepted(r) => reached(r) = IF At(reached(a)) = k THEN reached(b) ELSE reached(a)
    PROVE  Reads(r, E \cup Behind(derive, Token(E, {k}), h), Continuations(h))
<1>1. \A q \in Token(E, {k}) : q \in Positions /\ q > p
  BY TokenAhead
<1>2. \A q \in Token(E, {k}) : Reads(call(parse, h, q), call(derive, h, q), Continuations(h))
  BY <1>1, DecidedAt
<1> QED
  BY <1>2, ReadsOption

LEMMA ExpressionDecided ==
    ASSUME IsFile, NEW p \in Positions, DecidedBehind(p), Decides(1, p)
    PROVE  Decides(Expression, p)
<1>1. /\ call(parse, Expression, p) = parseExpression(parse, p)
      /\ call(derive, Expression, p) = expressionEnds(derive, p)
  BY ParseUnfolds, DeriveUnfolds, RunIs, ProduceIs, RoutineFacts
<1>2. 1 \in Routines \ {StatementList, DeclarationList, ElseList} /\ 1 \in Routines \ Nullable
  BY PlainRoutines, RoutineFacts
<1>3. PICK E : E = call(derive, 1, p)
  OBVIOUS
<1>4. PICK a : a = call(parse, 1, p)
  OBVIOUS
<1>5. Continuations(1) = Operators(1)
  BY ContinuationsAre
<1>6. Reads(a, E, Operators(1))
  BY <1>2, <1>3, <1>4, <1>5, PlainDecides
<1>7. \A e \in E : e \in Positions /\ e >= p
  BY <1>2, <1>3, EndsPast
<1>8. "=" \notin Operators(1) /\ "=" # "EndOfFile"
  BY OperatorsOf DEF Closers
<1>9. Expression \in Routines \ {StatementList, DeclarationList, ElseList}
  BY PlainRoutines
<1>10. Continuations(Expression) = Operators(1) \cup {"="}
  BY ContinuationsAre
<1>11. PICK r : r = parseExpression(parse, p)
  OBVIOUS
<1>12. PICK b : b = call(parse, Expression, reached(a) + 1)
  OBVIOUS
<1>13. /\ Accepted(r) <=> Accepted(a) /\ (At(reached(a)) = "=" => Accepted(b))
       /\ Accepted(r) => reached(r) = IF At(reached(a)) = "=" THEN reached(b) ELSE reached(a)
  BY <1>4, <1>11, <1>12, ExpressionShape
<1>14. "=" \in Continuations(Expression) /\ Operators(1) \subseteq Continuations(Expression)
  BY <1>10
<1>15. Reads(r, E \cup Behind(derive, Token(E, {"="}), Expression), Continuations(Expression))
  BY <1>6, <1>7, <1>8, <1>9, <1>12, <1>13, <1>14, OptionDecided
<1>16. expressionEnds(derive, p) = E \cup Behind(derive, Token(E, {"="}), Expression)
  BY <1>3 DEF expressionEnds
<1> QED
  BY <1>1, <1>9, <1>11, <1>15, <1>16, PlainDecides

LEMMA ExpressionListDecided ==
    ASSUME IsFile, NEW p \in Positions, DecidedBehind(p), Decides(Expression, p)
    PROVE  Decides(ExpressionList, p)
<1>1. /\ call(parse, ExpressionList, p) = parseExpressionList(parse, p)
      /\ call(derive, ExpressionList, p) = Separated(derive, call(derive, Expression, p), ExpressionList)
  BY ParseUnfolds, DeriveUnfolds, RunIs, ProduceIs, RoutineFacts
<1>2. {Expression, ExpressionList} \subseteq Routines \ {StatementList, DeclarationList, ElseList}
  BY PlainRoutines
<1>3. PICK E : E = call(derive, Expression, p)
  OBVIOUS
<1>4. PICK a : a = call(parse, Expression, p)
  OBVIOUS
<1>5. PICK C : C = Continuations(Expression)
  OBVIOUS
<1>6. Reads(a, E, C)
  BY <1>2, <1>3, <1>4, <1>5, PlainDecides
<1>7. \A e \in E : e \in Positions /\ e >= p
  BY <1>3, EndsPast, RoutineFacts
<1>8. "Comma" \notin C
  <2>1. C = Operators(1) \cup {"="}
    BY <1>5, ContinuationsAre
  <2>2. "Comma" \notin Operators(1)
    BY OperatorsOf DEF Closers
  <2> QED
    BY <2>1, <2>2
<1>9. "Comma" \in Continuations(ExpressionList) /\ C \subseteq Continuations(ExpressionList)
  <2>1. C = Operators(1) \cup {"="}
    BY <1>5, ContinuationsAre
  <2>2. Continuations(ExpressionList) = Operators(1) \cup {"=", "Comma"}
    BY ContinuationsAre
  <2> QED
    BY <2>1, <2>2
<1>10. PICK r : r = parseExpressionList(parse, p)
  OBVIOUS
<1>11. PICK b : b = call(parse, ExpressionList, reached(a) + 1)
  OBVIOUS
<1>12. /\ Accepted(r) <=> Accepted(a) /\ (At(reached(a)) = "Comma" => Accepted(b))
       /\ Accepted(r) => reached(r) = IF At(reached(a)) = "Comma" THEN reached(b) ELSE reached(a)
  BY <1>4, <1>10, <1>11, ExpressionListShape
<1>13. Reads(r, E \cup Behind(derive, Token(E, {"Comma"}), ExpressionList), Continuations(ExpressionList))
  BY <1>2, <1>6, <1>7, <1>8, <1>9, <1>11, <1>12, OptionDecided
<1>14. Separated(derive, E, ExpressionList) = E \cup Behind(derive, Token(E, {"Comma"}), ExpressionList)
  BY DEF Separated
<1> QED
  BY <1>1, <1>2, <1>3, <1>10, <1>13, <1>14, PlainDecides

----------------------------------------------------------------------------
(* The tiers of the binary operators *)

\* The loop of a tier, where it does not go on and where it does.
LEMMA RestIs ==
    ASSUME IsFile, NEW tier \in 1 .. 7, NEW q \in Positions
    PROVE  /\ call(derive, Rest(tier), q) = restEnds(derive, tier, q)
           /\ At(q) \notin Tiers[tier] => call(derive, Rest(tier), q) = {q}
<1>1. call(derive, Rest(tier), q) = restEnds(derive, tier, q)
  BY DeriveUnfolds, ProduceIs, RoutineFacts
<1>2. ASSUME At(q) \notin Tiers[tier] PROVE restEnds(derive, tier, q) = {q}
  <2>1. Token({q}, BinaryOperators[tier]) = {}
    BY <1>2, OperatorFacts, TokenHere
  <2> QED
    BY <2>1, NothingBehind DEF restEnds
<1> QED
  BY <1>1, <1>2

\* An end of the loop behind which no operator of the tier stands: what
\* stands where the loop began is none of the tiers above.
LEMMA RestLeaves ==
    ASSUME IsFile, NEW tier \in 1 .. 7, NEW q \in Positions, NEW e \in call(derive, Rest(tier), q),
           At(e) \notin Operators(tier)
    PROVE  At(q) \notin Operators(tier + 1)
<1>1. CASE At(q) \in Tiers[tier]
  BY <1>1, OperatorsOf
<1>2. CASE At(q) \notin Tiers[tier]
  <2>1. e = q
    BY <1>2, RestIs
  <2> QED
    BY <2>1, OperatorsOf
<1> QED
  BY <1>1, <1>2

LEMMA TierDecided ==
    ASSUME IsFile, NEW p \in Positions, DecidedBehind(p), NEW tier \in 1 .. 7, Decides(tier + 1, p)
    PROVE  Decides(tier, p)
<1>0. tier + 1 \in 1 .. 8
  OBVIOUS
<1>1. call(parse, tier, p) = parseTier(parse, tier, p) /\ call(derive, tier, p) = tierEnds(derive, tier, p)
  BY ParseUnfolds, DeriveUnfolds, RunIs, ProduceIs, RoutineFacts
<1>2. {tier, tier + 1, Rest(tier)} \subseteq Routines \ {StatementList, DeclarationList, ElseList}
  BY <1>0, PlainRoutines
<1>3. PICK E : E = call(derive, tier + 1, p)
  OBVIOUS
<1>4. PICK a : a = call(parse, tier + 1, p)
  OBVIOUS
<1>5. Reads(a, E, Operators(tier + 1))
  <2>1. Continuations(tier + 1) = Operators(tier + 1)
    BY <1>0, ContinuationsAre
  <2> QED
    BY <1>2, <1>3, <1>4, <2>1, PlainDecides
<1>6. \A e \in E : e \in Positions /\ e > p
  BY <1>0, <1>3, EndsPast, RoutineFacts
<1>7. Continuations(tier) = Operators(tier) /\ Continuations(Rest(tier)) = Operators(tier)
  BY ContinuationsAre
<1>8. \A q \in E : Reads(call(parse, Rest(tier), q), call(derive, Rest(tier), q), Operators(tier))
  BY <1>2, <1>6, <1>7, DecidedAt
<1>9. \A q \in E : \A e \in call(derive, Rest(tier), q) : At(e) \notin Operators(tier)
        => At(q) \notin Operators(tier + 1)
  BY <1>6, RestLeaves
<1>10. PICK r : r = parseTier(parse, tier, p)
  OBVIOUS
<1>11. PICK b : b = call(parse, Rest(tier), reached(a))
  OBVIOUS
<1>12. (Accepted(r) <=> Accepted(a) /\ Accepted(b)) /\ (Accepted(r) => reached(r) = reached(b))
  BY <1>4, <1>10, <1>11, TierShape
<1>13. Reads(r, Behind(derive, E, Rest(tier)), Operators(tier))
  BY <1>5, <1>8, <1>9, <1>11, <1>12, ReadsCall
<1>14. tierEnds(derive, tier, p) = Behind(derive, E, Rest(tier))
  BY <1>3 DEF tierEnds
<1> QED
  BY <1>1, <1>2, <1>7, <1>10, <1>13, <1>14, PlainDecides

LEMMA RestDecided ==
    ASSUME IsFile, NEW p \in Positions, DecidedBehind(p), NEW tier \in 1 .. 7
    PROVE  Decides(Rest(tier), p)
<1>0. tier + 1 \in 1 .. 8
  OBVIOUS
<1>1. call(parse, Rest(tier), p) = continueTier(parse, tier, p)
  BY ParseUnfolds, RunIs, RoutineFacts
<1>2. {tier + 1, Rest(tier)} \subseteq Routines \ {StatementList, DeclarationList, ElseList}
  BY <1>0, PlainRoutines
<1>3. Continuations(tier + 1) = Operators(tier + 1) /\ Continuations(Rest(tier)) = Operators(tier)
  BY <1>0, ContinuationsAre
<1>4. PICK r : r = continueTier(parse, tier, p)
  OBVIOUS
<1>5. CASE At(p) \notin Tiers[tier]
  <2>1. call(derive, Rest(tier), p) = {p}
    BY <1>5, RestIs
  <2>2. Accepted(r) /\ reached(r) = p
    BY <1>4, <1>5, RestShape
  <2>3. Reads(r, {p}, Operators(tier))
    BY <2>2, ReadsHere
  <2> QED
    BY <1>1, <1>2, <1>3, <1>4, <2>1, <2>3, PlainDecides
<1>6. CASE At(p) \in Tiers[tier]
  <2>1. At(p) # "EndOfFile" /\ At(p) \in BinaryOperators[tier] /\ At(p) \in Operators(tier)
    BY <1>6, OperatorFacts, OperatorsOf
  <2>2. p + 1 \in Positions /\ p + 1 > p
    BY <2>1, NextPosition
  <2>3. PICK E : E = call(derive, tier + 1, p + 1)
    OBVIOUS
  <2>4. Behind(derive, Token({p}, BinaryOperators[tier]), tier + 1) = E
    BY <2>1, <2>3, TokenHere, BehindHere
  <2>5. PICK a : a = call(parse, tier + 1, p + 1)
    OBVIOUS
  <2>6. Reads(a, E, Operators(tier + 1))
    BY <1>2, <1>3, <2>2, <2>3, <2>5, DecidedAt
  <2>7. \A e \in E : e \in Positions /\ e > p
    <3>1. \A e \in E : e \in Positions /\ e > p + 1
      BY <1>0, <2>2, <2>3, EndsPast, RoutineFacts
    <3> QED
      BY <3>1, PositionFacts
  <2>8. PICK b : b = call(parse, Rest(tier), reached(a))
    OBVIOUS
  <2>9. /\ Accepted(r) <=> Accepted(a) /\ (tier # RangeTier => Accepted(b))
        /\ Accepted(r) => reached(r) = IF tier = RangeTier THEN reached(a) ELSE reached(b)
    BY <1>4, <1>6, <2>5, <2>8, RestShape
  <2>10. Operators(tier + 1) \subseteq Operators(tier)
    BY OperatorsOf
  <2>11. CASE tier = RangeTier
    <3>1. restEnds(derive, tier, p) = {p} \cup E
      BY <2>4, <2>11 DEF restEnds, RangeTier
    <3>2. Reads(r, E, Operators(tier))
      BY <2>6, <2>9, <2>10, <2>11, ReadsSame, ReadsMore
    <3>3. Reads(r, {p} \cup E, Operators(tier))
      BY <2>1, <3>2 DEF Reads
    <3> QED
      BY <1>1, <1>2, <1>3, <1>4, <3>1, <3>3, RestIs, PlainDecides
  <2>12. CASE tier # RangeTier
    <3>1. restEnds(derive, tier, p) = {p} \cup Behind(derive, E, Rest(tier))
      BY <2>4, <2>12 DEF restEnds, RangeTier
    <3>2. \A q \in E : Reads(call(parse, Rest(tier), q), call(derive, Rest(tier), q), Operators(tier))
      BY <1>2, <1>3, <2>7, DecidedAt
    <3>3. \A q \in E : \A e \in call(derive, Rest(tier), q) : At(e) \notin Operators(tier)
            => At(q) \notin Operators(tier + 1)
      BY <2>7, RestLeaves
    <3>4. Reads(r, Behind(derive, E, Rest(tier)), Operators(tier))
      BY <2>6, <2>8, <2>9, <2>12, <3>2, <3>3, ReadsCall
    <3>5. Reads(r, {p} \cup Behind(derive, E, Rest(tier)), Operators(tier))
      BY <2>1, <3>4 DEF Reads
    <3> QED
      BY <1>1, <1>2, <1>3, <1>4, <3>1, <3>5, RestIs, PlainDecides
  <2> QED
    BY <2>11, <2>12
<1> QED
  BY <1>5, <1>6

ClosedBy == {"RightParen", "RightBracket"}

LEMMA NotAStart ==
    /\ \A k \in ClosedBy \cup {"mut"} \cup Terminators : k \notin Starts
    /\ \A k \in ClosedBy \cup Terminators \cup {"LeftBrace"} : k \notin Continuations(Expression)
    /\ \A k \in ClosedBy : k \notin Continuations(ExpressionList) /\ k # "EndOfFile"
<1>1. \A k \in ClosedBy \cup {"mut"} \cup Terminators : k \notin Starts
  BY DEF ClosedBy, Terminators, Starts, Literals
<1>2. /\ Continuations(Expression) = Operators(1) \cup {"="}
      /\ Continuations(ExpressionList) = Operators(1) \cup {"=", "Comma"}
  BY ContinuationsAre
<1>3. \A k \in ClosedBy \cup Terminators \cup {"LeftBrace"} : k \in Closers /\ k # "=" /\ k # "Comma"
  BY DEF ClosedBy, Terminators, Closers
<1>4. \A k \in Closers : k \notin Operators(1)
  BY OperatorsOf
<1>5. \A k \in ClosedBy : k # "EndOfFile"
  BY DEF ClosedBy
<1> QED
  BY <1>1, <1>2, <1>3, <1>4, <1>5

LEMMA ClosedDecided ==
    ASSUME IsFile, NEW p \in Positions, DecidedBehind(p), NEW n \in Positions, n > p,
           NEW close \in ClosedBy,
           NEW a, a = parseUnlessClosed(parse, close, n), NEW r,
           Accepted(r) <=> Accepted(a) /\ At(reached(a)) = close, Accepted(r) => reached(r) = reached(a) + 1
    PROVE  Reads(r, Token({n} \cup call(derive, ExpressionList, n), {close}), {})
<1>1. CASE At(n) = close
  <2>1. call(derive, ExpressionList, n) = {}
    BY <1>1, NotAStart, ExpressionStarts
  <2>2. Reads(a, {n}, {})
    BY <1>1, UnlessClosedShape, ReadsHere
  <2>3. Reads(r, Token({n}, {close}), {})
    BY <2>2, ReadsToken
  <2> QED
    BY <2>1, <2>3
<1>2. CASE At(n) # close
  <2>1. a = call(parse, ExpressionList, n)
    BY <1>2, UnlessClosedShape
  <2>2. Reads(a, call(derive, ExpressionList, n), Continuations(ExpressionList))
    BY <2>1, DecidedAt, PlainRoutines
  <2>3. Reads(r, Token(call(derive, ExpressionList, n), {close}), {})
    BY <2>2, NotAStart, ReadsToken
  <2>4. Token({n} \cup call(derive, ExpressionList, n), {close})
          = Token(call(derive, ExpressionList, n), {close})
    BY <1>2 DEF Token
  <2> QED
    BY <2>3, <2>4
<1> QED
  BY <1>1, <1>2

LEMMA ParenDecided ==
    ASSUME IsFile, NEW p \in Positions, DecidedBehind(p), At(p) = "LeftParen"
    PROVE  Reads(parseParenExpression(parse, p),
                 Token({p + 1} \cup call(derive, Expression, p + 1), {"RightParen"}), {})
<1>1. PICK n \in Positions : n = p + 1 /\ n > p
  BY NextPosition
<1>2. PICK r : r = parseParenExpression(parse, p)
  OBVIOUS
<1>3. CASE At(n) = "RightParen"
  <2>1. At(n) \notin Starts
    BY <1>3, NotAStart DEF ClosedBy
  <2>2. call(derive, Expression, n) = {}
    BY <2>1, ExpressionStarts
  <2>3. Accepted(r) /\ reached(r) = p + 2 /\ p + 2 = n + 1
    BY <1>1, <1>2, <1>3, ParenShape, PositionFacts
  <2>4. Token({n}, {"RightParen"}) = {n + 1}
    BY <1>3, OneToken
  <2> QED
    BY <1>1, <1>2, <2>2, <2>3, <2>4, ReadsHere
<1>4. CASE At(n) # "RightParen"
  <2>1. PICK a : a = call(parse, Expression, n)
    OBVIOUS
  <2>2. Reads(a, call(derive, Expression, n), Continuations(Expression))
    BY <1>1, <2>1, DecidedAt, PlainRoutines
  <2>3. /\ (Accepted(r) <=> Accepted(a) /\ At(reached(a)) = "RightParen")
        /\ (Accepted(r) => reached(r) = reached(a) + 1)
    BY <1>1, <1>2, <1>4, <2>1, ParenShape
  <2>4. "RightParen" \notin Continuations(Expression)
    BY NotAStart DEF ClosedBy
  <2>5. Reads(r, Token(call(derive, Expression, n), {"RightParen"}), {})
    BY <2>2, <2>3, <2>4, ReadsToken
  <2>6. Token({n} \cup call(derive, Expression, n), {"RightParen"})
          = Token(call(derive, Expression, n), {"RightParen"})
    BY <1>4 DEF Token
  <2> QED
    BY <1>1, <1>2, <2>5, <2>6
<1> QED
  BY <1>3, <1>4

LEMMA ArrayDecided ==
    ASSUME IsFile, NEW p \in Positions, DecidedBehind(p), At(p) = "LeftBracket"
    PROVE  Reads(parseArrayLiteral(parse, p),
                 Token({p + 1} \cup call(derive, ExpressionList, p + 1), {"RightBracket"}), {})
<1>1. p + 1 \in Positions /\ p + 1 > p
  BY NextPosition
<1>2. PICK r : r = parseArrayLiteral(parse, p)
  OBVIOUS
<1>3. PICK a : a = parseUnlessClosed(parse, "RightBracket", p + 1)
  OBVIOUS
<1>4. /\ (Accepted(r) <=> Accepted(a) /\ At(reached(a)) = "RightBracket")
      /\ (Accepted(r) => reached(r) = reached(a) + 1)
  BY <1>2, <1>3, ArrayShape
<1>5. "RightBracket" \in ClosedBy
  BY DEF ClosedBy
<1> QED
  BY <1>1, <1>2, <1>3, <1>4, <1>5, ClosedDecided

LEMMA PrimaryDecided ==
    ASSUME IsFile, NEW p \in Positions, DecidedBehind(p)
    PROVE  Reads(parsePrimary(parse, p), primaryEnds(derive, p), {})
<1>1. PICK r : r = parsePrimary(parse, p)
  OBVIOUS
<1>2. PICK A : A = {"Identifier"} \cup Literals
  OBVIOUS
<1>3. {"Identifier", "IntegerLiteral", "FloatLiteral", "StringLiteral", "CharLiteral", "true", "false"} = A
  BY <1>2 DEF Literals
<1>4. "LeftParen" \notin A /\ "LeftBracket" \notin A
  BY <1>2 DEF Literals
<1>5. PICK B : B = Token({p}, A)
  OBVIOUS
<1>6. primaryEnds(derive, p) =
         B \cup Token(Token({p}, {"LeftParen"})
           \cup Behind(derive, Token({p}, {"LeftParen"}), Expression), {"RightParen"})
           \cup Token(Token({p}, {"LeftBracket"})
             \cup Behind(derive, Token({p}, {"LeftBracket"}), ExpressionList), {"RightBracket"})
  BY <1>3, <1>5 DEF primaryEnds
<1>7. CASE At(p) = "LeftParen"
  <2>0. B = {}
    BY <1>4, <1>5, <1>7, TokenHere
  <2>1. Token({p}, {"LeftBracket"}) = {} /\ Token({p}, {"LeftParen"}) = {p + 1}
    BY <1>7, NoToken, OneToken
  <2>2. primaryEnds(derive, p) = Token({p + 1} \cup call(derive, Expression, p + 1), {"RightParen"})
    <3>1. Token(Token({p}, {"LeftBracket"})
            \cup Behind(derive, Token({p}, {"LeftBracket"}), ExpressionList),
                {"RightBracket"}) = {}
      BY <2>1, TokenOfNone, NothingBehind
    <3>2. Behind(derive, Token({p}, {"LeftParen"}), Expression) = call(derive, Expression, p + 1)
      BY <2>1, BehindHere
    <3> QED
      BY <1>6, <2>0, <2>1, <3>1, <3>2
  <2> QED
    BY <1>7, <2>2, ParenDecided, PrimaryShape
<1>8. CASE At(p) = "LeftBracket"
  <2>0. B = {}
    BY <1>4, <1>5, <1>8, TokenHere
  <2>1. Token({p}, {"LeftParen"}) = {} /\ Token({p}, {"LeftBracket"}) = {p + 1}
    BY <1>8, NoToken, OneToken
  <2>2. primaryEnds(derive, p) = Token({p + 1} \cup call(derive, ExpressionList, p + 1), {"RightBracket"})
    <3>1. Token(Token({p}, {"LeftParen"})
            \cup Behind(derive, Token({p}, {"LeftParen"}), Expression), {"RightParen"}) = {}
      BY <2>1, TokenOfNone, NothingBehind
    <3>2. Behind(derive, Token({p}, {"LeftBracket"}), ExpressionList) = call(derive, ExpressionList, p + 1)
      BY <2>1, BehindHere
    <3> QED
      BY <1>6, <2>0, <2>1, <3>1, <3>2
  <2> QED
    BY <1>8, <2>2, ArrayDecided, PrimaryShape
<1>9. CASE At(p) \notin {"LeftParen", "LeftBracket"}
  <2>1. Token({p}, {"LeftParen"}) = {} /\ Token({p}, {"LeftBracket"}) = {}
    BY <1>9, NoToken
  <2>2. primaryEnds(derive, p) = B
    BY <1>6, <2>1, TokenOfNone, NothingBehind
  <2>3. CASE At(p) \in A
    <3>1. B = {p + 1}
      BY <1>5, <2>3, TokenHere
    <3>2. Accepted(r) /\ reached(r) = p + 1
      BY <1>1, <1>2, <2>3, PrimaryShape
    <3> QED
      BY <1>1, <2>2, <3>1, <3>2, ReadsHere
  <2>4. CASE At(p) \notin A
    <3>1. B = {}
      BY <1>5, <2>4, TokenHere
    <3>2. ~Accepted(r)
      BY <1>1, <1>2, <1>9, <2>4, PrimaryShape
    <3> QED
      BY <1>1, <2>2, <3>1, <3>2, ReadsNothing
  <2> QED
    BY <2>3, <2>4
<1> QED
  BY <1>7, <1>8, <1>9

LEMMA SuffixIs ==
    ASSUME NEW self, NEW p
    PROVE  /\ At(p) = "LeftParen" => parseSuffix(self, p) = parseCallSuffix(self, p)
           /\ At(p) = "LeftBracket" => parseSuffix(self, p) = parseIndexSuffix(self, p)
           /\ At(p) = "Dot" => parseSuffix(self, p) = parseMemberSuffix(p)
           /\ At(p) = "?" => Accepted(parseSuffix(self, p)) /\ reached(parseSuffix(self, p)) = p + 1
  BY ParsedShape DEF parseSuffix

LEMMA SuffixEndsAre ==
    ASSUME NEW self, NEW p
    PROVE  /\ At(p) = "LeftParen" =>
                 suffixEnds(self, p) = Token({p + 1} \cup call(self, ExpressionList, p + 1), {"RightParen"})
           /\ At(p) = "LeftBracket" => suffixEnds(self, p)
                = Token(call(self, Expression, p + 1), {"RightBracket"})
           /\ At(p) = "Dot" => suffixEnds(self, p) = Token({p + 1}, {"Identifier"})
           /\ At(p) = "?" => suffixEnds(self, p) = {p + 1}
           /\ At(p) \notin SuffixStarts => suffixEnds(self, p) = {}
<1> DEFINE L == Token({p}, {"LeftParen"})
           B == Token({p}, {"LeftBracket"})
           D == Token({p}, {"Dot"})
           Q == Token({p}, {"?"})
<1>1. suffixEnds(self, p) = Token(L \cup Behind(self, L, ExpressionList), {"RightParen"})
                            \cup Token(Behind(self, B, Expression), {"RightBracket"})
                            \cup Token(D, {"Identifier"}) \cup Q
  BY DEF suffixEnds
<1>2. /\ At(p) = "LeftParen" => L = {p + 1}
      /\ At(p) = "LeftBracket" => B = {p + 1}
      /\ At(p) = "Dot" => D = {p + 1}
      /\ At(p) = "?" => Q = {p + 1}
  BY OneToken
<1>3. /\ At(p) # "LeftParen" => L = {}
      /\ At(p) # "LeftBracket" => B = {}
      /\ At(p) # "Dot" => D = {}
      /\ At(p) # "?" => Q = {}
  BY NoToken
<1> HIDE DEF L, B, D, Q
<1>4. CASE At(p) = "LeftParen"
  BY <1>1, <1>2, <1>3, <1>4, TokenOfNone, NothingBehind, BehindHere DEF SuffixStarts
<1>5. CASE At(p) = "LeftBracket"
  BY <1>1, <1>2, <1>3, <1>5, TokenOfNone, NothingBehind, BehindHere DEF SuffixStarts
<1>6. CASE At(p) = "Dot"
  BY <1>1, <1>2, <1>3, <1>6, TokenOfNone, NothingBehind, BehindHere DEF SuffixStarts
<1>7. CASE At(p) = "?"
  BY <1>1, <1>2, <1>3, <1>7, TokenOfNone, NothingBehind, BehindHere DEF SuffixStarts
<1>8. CASE At(p) \notin SuffixStarts
  BY <1>1, <1>3, <1>8, TokenOfNone, NothingBehind DEF SuffixStarts
<1> QED
  BY <1>4, <1>5, <1>6, <1>7, <1>8 DEF SuffixStarts

LEMMA SuffixDecided ==
    ASSUME IsFile, NEW p \in Positions, DecidedBehind(p), At(p) \in SuffixStarts
    PROVE  Reads(parseSuffix(parse, p), suffixEnds(derive, p), {})
<1>0. p + 1 \in Positions /\ p + 1 > p
  BY NextPosition DEF SuffixStarts
<1>1. CASE At(p) = "LeftParen"
  <2>1. PICK r : r = parseCallSuffix(parse, p)
    OBVIOUS
  <2>2. PICK a : a = parseUnlessClosed(parse, "RightParen", p + 1)
    OBVIOUS
  <2>3. /\ (Accepted(r) <=> Accepted(a) /\ At(reached(a)) = "RightParen")
        /\ (Accepted(r) => reached(r) = reached(a) + 1)
    BY <2>1, <2>2, CallShape
  <2>4. "RightParen" \in ClosedBy
    BY DEF ClosedBy
  <2>5. Reads(r, Token({p + 1} \cup call(derive, ExpressionList, p + 1), {"RightParen"}), {})
    BY <1>0, <2>2, <2>3, <2>4, ClosedDecided
  <2> QED
    BY <1>1, <2>1, <2>5, SuffixIs, SuffixEndsAre
<1>2. CASE At(p) = "LeftBracket"
  <2>1. PICK r : r = parseIndexSuffix(parse, p)
    OBVIOUS
  <2>2. PICK a : a = call(parse, Expression, p + 1)
    OBVIOUS
  <2>3. /\ (Accepted(r) <=> Accepted(a) /\ At(reached(a)) = "RightBracket")
        /\ (Accepted(r) => reached(r) = reached(a) + 1)
    BY <2>1, <2>2, IndexShape
  <2>4. "RightBracket" \notin Continuations(Expression)
    BY NotAStart DEF ClosedBy
  <2>5. Reads(a, call(derive, Expression, p + 1), Continuations(Expression))
    BY <1>0, <2>2, DecidedAt, PlainRoutines
  <2>6. Reads(r, Token(call(derive, Expression, p + 1), {"RightBracket"}), {})
    BY <2>3, <2>4, <2>5, ReadsToken
  <2> QED
    BY <1>2, <2>1, <2>6, SuffixIs, SuffixEndsAre
<1>3. CASE At(p) = "Dot"
  <2>1. PICK r : r = parseMemberSuffix(p)
    OBVIOUS
  <2>2. (Accepted(r) <=> At(p + 1) = "Identifier") /\ (Accepted(r) => reached(r) = p + 1 + 1)
    BY <2>1, MemberShape
  <2>3. Reads(r, Token({p + 1}, {"Identifier"}), {})
    <3>1. CASE At(p + 1) = "Identifier"
      BY <2>2, <3>1, OneToken, ReadsHere
    <3>2. CASE At(p + 1) # "Identifier"
      BY <2>2, <3>2, NoToken, ReadsNothing
    <3> QED
      BY <3>1, <3>2
  <2> QED
    BY <1>3, <2>1, <2>3, SuffixIs, SuffixEndsAre
<1>4. CASE At(p) = "?"
  <2>1. Accepted(parseSuffix(parse, p)) /\ reached(parseSuffix(parse, p)) = p + 1
    BY <1>4, SuffixIs
  <2>2. Reads(parseSuffix(parse, p), {p + 1}, {})
    BY <2>1, ReadsHere
  <2> QED
    BY <1>4, <2>2, SuffixEndsAre
<1> QED
  BY <1>1, <1>2, <1>3, <1>4 DEF SuffixStarts

LEMMA SuffixListDecided ==
    ASSUME IsFile, NEW p \in Positions, DecidedBehind(p)
    PROVE  Decides(SuffixList, p)
<1>1. /\ call(parse, SuffixList, p) = parsePostfix(parse, p)
      /\ call(derive, SuffixList, p) = {p} \cup Behind(derive, suffixEnds(derive, p), SuffixList)
  BY ParseUnfolds, DeriveUnfolds, RunIs, ProduceIs, RoutineFacts
<1>2. /\ Continuations(SuffixList) = SuffixStarts
      /\ SuffixList \in Routines \ {StatementList, DeclarationList, ElseList}
  BY ContinuationsAre, PlainRoutines
<1>3. PICK r : r = parsePostfix(parse, p)
  OBVIOUS
<1>4. CASE At(p) \notin SuffixStarts
  <2>1. call(derive, SuffixList, p) = {p}
    BY <1>1, <1>4, SuffixEndsAre, NothingBehind
  <2>2. Accepted(r) /\ reached(r) = p
    BY <1>3, <1>4, PostfixShape
  <2>3. Reads(r, {p}, SuffixStarts)
    BY <2>2, ReadsHere
  <2> QED
    BY <1>1, <1>2, <1>3, <2>1, <2>3, PlainDecides
<1>5. CASE At(p) \in SuffixStarts
  <2>1. PICK E : E = suffixEnds(derive, p)
    OBVIOUS
  <2>2. \A e \in E : e \in Positions /\ e > p
    <3>1. AlikeBehind(derive, derive, p)
      BY DeriveMoves DEF AlikeBehind
    <3>2. suffixEnds(derive, p) \subseteq Past(p)
      BY <3>1, SuffixAlike
    <3> QED
      BY <2>1, <3>2 DEF Past
  <2>3. PICK a : a = parseSuffix(parse, p)
    OBVIOUS
  <2>4. PICK b : b = call(parse, SuffixList, reached(a))
    OBVIOUS
  <2>5. (Accepted(r) <=> Accepted(a) /\ Accepted(b)) /\ (Accepted(r) => reached(r) = reached(b))
    BY <1>3, <1>5, <2>3, <2>4, PostfixShape
  <2>6. Reads(a, E, {})
    BY <1>5, <2>1, <2>3, SuffixDecided
  <2>7. \A q \in E : Reads(call(parse, SuffixList, q), call(derive, SuffixList, q), SuffixStarts)
    BY <1>2, <2>2, DecidedAt
  <2>8. Reads(r, Behind(derive, E, SuffixList), SuffixStarts)
    BY <2>4, <2>5, <2>6, <2>7, ReadsCall
  <2>9. Reads(r, {p} \cup Behind(derive, E, SuffixList), SuffixStarts)
    BY <1>5, <2>8 DEF Reads
  <2> QED
    BY <1>1, <1>2, <1>3, <2>1, <2>9, PlainDecides
<1> QED
  BY <1>4, <1>5

LEMMA UnaryDecided ==
    ASSUME IsFile, NEW p \in Positions, DecidedBehind(p)
    PROVE  Decides(UnaryTier, p)
<1>1. call(parse, UnaryTier, p) = parseUnary(parse, p) /\ call(derive, UnaryTier, p) = unaryEnds(derive, p)
  BY ParseUnfolds, DeriveUnfolds, RunIs, ProduceIs, RoutineFacts
<1>2. /\ Continuations(UnaryTier) = SuffixStarts /\ Continuations(SuffixList) = SuffixStarts
      /\ {UnaryTier, SuffixList} \subseteq Routines \ {StatementList, DeclarationList, ElseList}
  BY ContinuationsAre, PlainRoutines
<1>3. PICK r : r = parseUnary(parse, p)
  OBVIOUS
<1>4. CASE At(p) \notin {"!", "-", "&"}
  <2>1. Token({p}, {"!", "-", "&"}) = {} /\ Token({p}, {"&"}) = {}
    BY <1>4, TokenHere, NoToken
  <2>2. PICK E : E = primaryEnds(derive, p)
    OBVIOUS
  <2>3. unaryEnds(derive, p) = Behind(derive, E, SuffixList)
    BY <2>1, <2>2, TokenOfNone, NothingBehind DEF unaryEnds
  <2>4. \A e \in E : e \in Positions /\ e > p
    <3>1. AlikeBehind(derive, derive, p)
      BY DeriveMoves DEF AlikeBehind
    <3>2. primaryEnds(derive, p) \subseteq Past(p)
      BY <3>1, PrimaryAlike
    <3> QED
      BY <2>2, <3>2 DEF Past
  <2>5. PICK a : a = parsePrimary(parse, p)
    OBVIOUS
  <2>6. PICK b : b = call(parse, SuffixList, reached(a))
    OBVIOUS
  <2>7. (Accepted(r) <=> Accepted(a) /\ Accepted(b)) /\ (Accepted(r) => reached(r) = reached(b))
    BY <1>3, <1>4, <2>5, <2>6, UnaryShape
  <2>8. Reads(a, E, {})
    BY <2>2, <2>5, PrimaryDecided
  <2>9. \A q \in E : Reads(call(parse, SuffixList, q), call(derive, SuffixList, q), SuffixStarts)
    BY <1>2, <2>4, DecidedAt
  <2>10. Reads(r, Behind(derive, E, SuffixList), SuffixStarts)
    BY <2>6, <2>7, <2>8, <2>9, ReadsCall
  <2> QED
    BY <1>1, <1>2, <1>3, <2>3, <2>10, PlainDecides
<1>5. CASE At(p) \in {"!", "-", "&"}
  <2>1. p + 1 \in Positions /\ p + 1 > p
    BY <1>5, NextPosition
  <2>2. primaryEnds(derive, p) = {}
    <3>1. Token({p}, {"LeftParen"}) = {} /\ Token({p}, {"LeftBracket"}) = {}
      BY <1>5, NoToken
    <3>2. Token({p}, {"Identifier", "IntegerLiteral", "FloatLiteral", "StringLiteral", "CharLiteral",
                      "true", "false"}) = {}
      <4>1. At(p) \notin {"Identifier", "IntegerLiteral", "FloatLiteral", "StringLiteral", "CharLiteral",
                          "true", "false"}
        BY <1>5
      <4> QED
        BY <4>1, TokenHere
    <3> QED
      BY <3>1, <3>2, TokenOfNone, NothingBehind DEF primaryEnds
  <2>3. Token({p}, {"!", "-", "&"}) = {p + 1}
    BY <1>5, TokenHere
  <2>4. PICK n : n = IF At(p) = "&" /\ At(p + 1) = "mut" THEN p + 2 ELSE p + 1
    OBVIOUS
  <2>5. n \in Positions /\ n > p
    BY <2>1, <2>4, PositionFacts
  <2>6. unaryEnds(derive, p) = call(derive, UnaryTier, n)
    <3>1. unaryEnds(derive, p) = Behind(derive, {p + 1} \cup Token(Token({p}, {"&"}), {"mut"}), UnaryTier)
      BY <2>2, <2>3, NothingBehind DEF unaryEnds
    <3>2. CASE At(p) = "&" /\ At(p + 1) = "mut"
      <4>1. Token({p}, {"&"}) = {p + 1}
        BY <3>2, OneToken
      <4>2. Token({p + 1}, {"mut"}) = {p + 1 + 1} /\ p + 1 + 1 = n
        BY <3>2, OneToken, <2>1, <2>4, PositionFacts
      <4>3. At(p + 1) \notin Starts
        BY <3>2, NotAStart
      <4>4. call(derive, UnaryTier, p + 1) = {}
        BY <2>1, <4>3, ExpressionStarts DEF UnaryTier
      <4>5. Behind(derive, {p + 1} \cup {n}, UnaryTier) = call(derive, UnaryTier, p + 1)
              \cup call(derive, UnaryTier, n)
        BY DEF Behind
      <4> QED
        BY <3>1, <4>1, <4>2, <4>4, <4>5
    <3>3. CASE At(p) # "&"
      <4>1. Token({p}, {"&"}) = {} /\ n = p + 1
        BY <2>4, <3>3, NoToken
      <4> QED
        BY <3>1, <4>1, TokenOfNone, BehindHere
    <3>4. CASE At(p) = "&" /\ At(p + 1) # "mut"
      <4>1. Token({p}, {"&"}) = {p + 1} /\ n = p + 1
        BY <2>4, <3>4, OneToken
      <4>2. Token({p + 1}, {"mut"}) = {}
        BY <3>4, NoToken
      <4> QED
        BY <3>1, <4>1, <4>2, BehindHere
    <3> QED
      BY <3>2, <3>3, <3>4
  <2>7. PICK c : c = call(parse, UnaryTier, n)
    OBVIOUS
  <2>8. Reads(c, call(derive, UnaryTier, n), SuffixStarts)
    BY <1>2, <2>5, <2>7, DecidedAt
  <2>9. (Accepted(r) <=> Accepted(c)) /\ (Accepted(r) => reached(r) = reached(c))
    BY <1>3, <1>5, <2>4, <2>7, UnaryShape
  <2>10. Reads(r, call(derive, UnaryTier, n), SuffixStarts)
    BY <2>8, <2>9, ReadsSame
  <2> QED
    BY <1>1, <1>2, <1>3, <2>6, <2>10, PlainDecides
<1> QED
  BY <1>4, <1>5

(* Blocks, and what ends with one *)

LEMMA ResultExists ==
    ASSUME NEW c \in BOOLEAN, NEW x
    PROVE  \E r : (Accepted(r) <=> c) /\ reached(r) = x
<1>1. CASE c
  BY <1>1, ParsedShape
<1>2. CASE ~c
  <2> WITNESS [error |-> "UnexpectedToken", at |-> x]
  <2> QED
    BY <1>2 DEF Accepted, reached
<1> QED
  BY <1>1, <1>2

LEMMA StatementsAt ==
    ASSUME NEW p, DecidedBehind(p), NEW q \in Positions, q > p
    PROVE  /\ Unbraced(q) =>
                 Reads(call(parse, StatementList, q), EndsAt(call(derive, StatementList, q), "RightBrace"),
                   {})
           /\ ReadsElses(call(parse, ElseList, q), call(derive, ElseList, q))
           /\ Reads(call(parse, DeclarationList, q), EndsAt(call(derive, DeclarationList, q), "EndOfFile"),
                {})
<1>1. Decides(StatementList, q) /\ Decides(ElseList, q) /\ Decides(DeclarationList, q)
  BY RoutineFacts DEF DecidedBehind
<1> QED
  BY <1>1, DecidesIs

LEMMA UnbracedBehind ==
    ASSUME IsFile, NEW p \in Positions, p + 1 \in Positions,
           At(p) \in Separators \cup {"LeftBrace", "RightBrace"}
    PROVE  Unbraced(p + 1)
<1> SUFFICES ASSUME At(p + 1) = "LeftBrace" PROVE HasBareBlock
  BY DEF Unbraced
<1>1. PICK k : k = p + 1
  OBVIOUS
<1>2. p \in Nat /\ End \in Nat /\ p >= 1 /\ k <= End /\ k # End
  BY <1>1, PositionFacts
<1>3. k \in 2 .. Len(tokens) /\ k - 1 = p
  BY <1>1, <1>2 DEF End, IsFile, IsText
<1>4. At(k) = "LeftBrace" /\ At(k - 1) \in Separators \cup {"LeftBrace", "RightBrace"}
  BY <1>1, <1>3
<1> QED
  BY <1>3, <1>4 DEF HasBareBlock

LEMMA BlockDecided ==
    ASSUME IsFile, NEW p \in Positions, DecidedBehind(p), NEW n \in Positions, n >= p
    PROVE  Reads(parseBlock(parse, n), blockEnds(derive, {n}), {})
<1>1. PICK r : r = parseBlock(parse, n)
  OBVIOUS
<1>2. PICK a : a = call(parse, StatementList, n + 1)
  OBVIOUS
<1>3. /\ Accepted(r) <=> At(n) = "LeftBrace" /\ Accepted(a) /\ At(reached(a)) = "RightBrace"
      /\ Accepted(r) => reached(r) = reached(a) + 1
  BY <1>1, <1>2, BlockShape
<1>4. CASE At(n) # "LeftBrace"
  <2>1. blockEnds(derive, {n}) = {}
    BY <1>4, NoToken, NothingBehind, TokenOfNone DEF blockEnds
  <2> QED
    BY <1>1, <1>3, <1>4, <2>1, ReadsNothing
<1>5. CASE At(n) = "LeftBrace"
  <2>1. n + 1 \in Positions /\ n + 1 > p
    BY <1>5, PositionFacts
  <2>2. PICK E : E = call(derive, StatementList, n + 1)
    OBVIOUS
  <2>3. blockEnds(derive, {n}) = Token(E, {"RightBrace"})
    BY <1>5, <2>2, OneToken, BehindHere DEF blockEnds
  <2>4. Reads(a, EndsAt(E, "RightBrace"), {})
    BY <1>2, <1>5, <2>1, <2>2, StatementsAt, UnbracedBehind
  <2>5. Reads(r, Token(EndsAt(E, "RightBrace"), {"RightBrace"}), {})
    BY <1>3, <1>5, <2>4, ReadsToken
  <2>6. Token(EndsAt(E, "RightBrace"), {"RightBrace"}) = Token(E, {"RightBrace"})
    BY DEF Token, EndsAt
  <2> QED
    BY <1>1, <2>3, <2>5, <2>6
<1> QED
  BY <1>4, <1>5

LEMMA BlockEndsOf ==
    ASSUME NEW S, NEW e
    PROVE  /\ e \in blockEnds(derive, S) <=> \E q \in S : e \in blockEnds(derive, {q})
           /\ \A q : e \in blockEnds(derive, {q}) => At(q) = "LeftBrace"
<1>1. \A T : e \in blockEnds(derive, T) <=>
             \E q \in T : /\ At(q) = "LeftBrace"
                          /\ \E s \in call(derive, StatementList, q + 1) : At(s) = "RightBrace" /\ e = s + 1
  BY DEF blockEnds, Token, Behind
<1>2. ASSUME NEW q
      PROVE  e \in blockEnds(derive, {q}) <=>
                /\ At(q) = "LeftBrace"
                /\ \E s \in call(derive, StatementList, q + 1) : At(s) = "RightBrace" /\ e = s + 1
  <2>1. e \in blockEnds(derive, {q}) <=>
             \E n \in {q} : /\ At(n) = "LeftBrace"
                            /\ \E s \in call(derive, StatementList, n + 1) :
                                 At(s) = "RightBrace" /\ e = s + 1
    BY <1>1
  <2> QED
    BY <2>1
<1>3. e \in blockEnds(derive, S) <=>
             \E q \in S : /\ At(q) = "LeftBrace"
                          /\ \E s \in call(derive, StatementList, q + 1) : At(s) = "RightBrace" /\ e = s + 1
  BY <1>1
<1>4. e \in blockEnds(derive, S) <=> \E q \in S : e \in blockEnds(derive, {q})
  BY <1>2, <1>3
<1> QED
  BY <1>2, <1>4

LEMMA ReadsBlock ==
    ASSUME IsFile, NEW p \in Positions, DecidedBehind(p), NEW a, NEW E, NEW C, Reads(a, E, C),
           "LeftBrace" \notin C, \A e \in E : e \in Positions /\ e >= p,
           NEW b, b = parseBlock(parse, reached(a)), NEW r,
           Accepted(r) <=> Accepted(a) /\ Accepted(b), Accepted(r) => reached(r) = reached(b)
    PROVE  Reads(r, blockEnds(derive, E), {})
<1>1. \A q \in E : Reads(parseBlock(parse, q), blockEnds(derive, {q}), {})
  BY BlockDecided
<1>2. ASSUME Accepted(r) PROVE reached(r) \in blockEnds(derive, E)
  <2>1. PICK q \in E : q = reached(a)
    BY <1>2 DEF Reads
  <2>2. Reads(b, blockEnds(derive, {q}), {})
    BY <1>1, <2>1
  <2>3. reached(b) \in blockEnds(derive, {q})
    BY <1>2, <2>2 DEF Reads
  <2> QED
    BY <1>2, <2>3, BlockEndsOf
<1>3. ASSUME ~HasBareBlock, NEW e \in blockEnds(derive, E) PROVE Accepted(r) /\ reached(r) = e
  <2>1. PICK q \in E : e \in blockEnds(derive, {q}) /\ At(q) = "LeftBrace"
    BY BlockEndsOf
  <2>2. Accepted(a) /\ reached(a) = q
    BY <1>3, <2>1 DEF Reads
  <2>3. Reads(b, blockEnds(derive, {q}), {})
    BY <1>1, <2>2
  <2>4. Accepted(b) /\ reached(b) = e
    BY <1>3, <2>1, <2>3 DEF Reads
  <2> QED
    BY <2>2, <2>4
<1> QED
  BY <1>2, <1>3 DEF Reads

\* expression block
LEMMA BranchDecided ==
    ASSUME IsFile, NEW p \in Positions, DecidedBehind(p), NEW n \in Positions, n > p,
           NEW a, a = call(parse, Expression, n), NEW b, b = parseBlock(parse, reached(a)), NEW r,
           Accepted(r) <=> Accepted(a) /\ Accepted(b), Accepted(r) => reached(r) = reached(b)
    PROVE  /\ Reads(r, branchEnds(derive, {n}), {})
           /\ \A e \in branchEnds(derive, {n}) : e \in Positions /\ e > p
<1>1. PICK E : E = call(derive, Expression, n)
  OBVIOUS
<1>2. Reads(a, E, Continuations(Expression))
  BY <1>1, DecidedAt, PlainRoutines
<1>3. \A e \in E : e \in Positions /\ e >= p
  <2>1. \A e \in E : e \in Positions /\ e > n
    BY <1>1, EndsPast, RoutineFacts
  <2> QED
    BY <2>1, PositionFacts
<1>4. "LeftBrace" \notin Continuations(Expression)
  BY NotAStart
<1>5. Reads(r, blockEnds(derive, E), {})
  BY <1>2, <1>3, <1>4, ReadsBlock
<1>6. branchEnds(derive, {n}) = blockEnds(derive, E)
  BY <1>1, BehindHere DEF branchEnds
<1>7. \A e \in branchEnds(derive, {n}) : e \in Positions /\ e > p
  <2>1. AlikeBehind(derive, derive, p)
    BY DeriveMoves DEF AlikeBehind
  <2>2. {n} \subseteq Past(p)
    BY DEF Past
  <2>3. branchEnds(derive, {n}) \subseteq Past(p)
    BY <2>1, <2>2, BranchAlike
  <2> QED
    BY <2>3 DEF Past
<1> QED
  BY <1>5, <1>6, <1>7

LEMMA ReadsIsElses ==
    ASSUME IsFile, NEW r, NEW E, Reads(r, E, {}), \A e \in E : e \in Positions
    PROVE  ReadsElses(r, E)
<1>1. \A e \in E : e \in Breaks({e})
  BY BreaksTo
<1> QED
  BY <1>1 DEF Reads, ReadsElses

LEMMA ReadsElsesBehind ==
    ASSUME NEW p, DecidedBehind(p), NEW a, NEW E, Reads(a, E, {}), \A e \in E : e \in Positions /\ e > p,
           NEW b, b = call(parse, ElseList, reached(a)), NEW r,
           Accepted(r) <=> Accepted(a) /\ Accepted(b), Accepted(r) => reached(r) = reached(b)
    PROVE  ReadsElses(r, Behind(derive, E, ElseList))
<1>1. \A q \in E : ReadsElses(call(parse, ElseList, q), call(derive, ElseList, q))
  BY StatementsAt
<1>2. ASSUME Accepted(r) PROVE \E e \in Behind(derive, E, ElseList) : reached(r) \in Breaks({e})
  <2>1. PICK q \in E : q = reached(a)
    BY <1>2 DEF Reads
  <2>2. ReadsElses(b, call(derive, ElseList, q))
    BY <1>1, <2>1
  <2>3. PICK e \in call(derive, ElseList, q) : reached(b) \in Breaks({e})
    BY <1>2, <2>2 DEF ReadsElses
  <2>4. e \in Behind(derive, E, ElseList)
    BY <2>3, BehindIs
  <2> QED
    BY <1>2, <2>3, <2>4
<1>3. ASSUME ~HasBareBlock, NEW e \in Behind(derive, E, ElseList), At(skipNewlines(e)) # "else"
      PROVE  Accepted(r) /\ reached(r) \in Breaks({e})
  <2>1. PICK q \in E : e \in call(derive, ElseList, q)
    BY BehindIs
  <2>2. Accepted(a) /\ reached(a) = q
    BY <1>3, <2>1 DEF Reads
  <2>3. ReadsElses(b, call(derive, ElseList, q))
    BY <1>1, <2>2
  <2>4. Accepted(b) /\ reached(b) \in Breaks({e})
    BY <1>3, <2>1, <2>3 DEF ReadsElses
  <2> QED
    BY <2>2, <2>4
<1> QED
  BY <1>2, <1>3 DEF ReadsElses

\* An expression and a block, and the other branches behind them.
LEMMA BranchesDecided ==
    ASSUME IsFile, NEW p \in Positions, DecidedBehind(p), NEW n \in Positions, n > p,
           NEW a, a = call(parse, Expression, n), NEW b, b = parseBlock(parse, reached(a)),
           NEW c, c = call(parse, ElseList, reached(b)), NEW r,
           Accepted(r) <=> Accepted(a) /\ Accepted(b) /\ Accepted(c), Accepted(r) => reached(r) = reached(c)
    PROVE  ReadsElses(r, Behind(derive, branchEnds(derive, {n}), ElseList))
<1>1. PICK x : (Accepted(x) <=> Accepted(a) /\ Accepted(b)) /\ reached(x) = reached(b)
  <2>1. (Accepted(a) /\ Accepted(b)) \in BOOLEAN
    OBVIOUS
  <2> QED
    BY <2>1, ResultExists
<1>2. /\ Reads(x, branchEnds(derive, {n}), {})
      /\ \A e \in branchEnds(derive, {n}) : e \in Positions /\ e > p
  BY <1>1, BranchDecided
<1>3. c = call(parse, ElseList, reached(x)) /\ (Accepted(r) <=> Accepted(x) /\ Accepted(c))
  BY <1>1
<1> QED
  BY <1>2, <1>3, ReadsElsesBehind

LEMMA ElsesDecided ==
    ASSUME IsFile, NEW p \in Positions, DecidedBehind(p)
    PROVE  Decides(ElseList, p)
<1>1. /\ call(parse, ElseList, p) = parseElses(parse, p)
      /\ call(derive, ElseList, p) = elsesEnds(derive, p)
  BY ParseUnfolds, DeriveUnfolds, RunIs, ProduceIs, RoutineFacts
<1>2. PICK s \in Positions : s = skipNewlines(p) /\ s >= p
  BY NewlineFacts
<1>3. PICK r : r = parseElses(parse, p)
  OBVIOUS
<1>4. PICK T : T = Token(Breaks({p}), {"else"})
  OBVIOUS
<1>5. T = IF At(s) = "else" THEN {s + 1} ELSE {}
  <2>1. \A q \in Breaks({p}) : At(q) = "else" => q = s
    BY <1>2, BreaksTo
  <2>2. s \in Breaks({p})
    BY <1>2, BreaksTo
  <2>3. \A e : e \in T <=> \E q \in Breaks({p}) : At(q) = "else" /\ e = q + 1
    BY <1>4 DEF Token
  <2>4. ASSUME NEW e PROVE e \in T <=> At(s) = "else" /\ e = s + 1
    <3>1. e \in T <=> \E q \in Breaks({p}) : At(q) = "else" /\ e = q + 1
      BY <2>3
    <3> QED
      BY <2>1, <2>2, <3>1
  <2> QED
    BY <2>4
<1>6. elsesEnds(derive, p) = {p} \cup blockEnds(derive, T)
        \cup Behind(derive, branchEnds(derive, Token(T, {"if"})), ElseList)
  BY <1>4 DEF elsesEnds
<1>7. ReadsElses(r, elsesEnds(derive, p))
  <2>1. CASE At(s) # "else"
    <3>1. elsesEnds(derive, p) = {p}
      BY <1>5, <1>6, <2>1, NothingBehind, TokenOfNone
    <3>2. Accepted(r) /\ reached(r) = s
      BY <1>2, <1>3, <2>1, ElsesShape
    <3>3. s \in Breaks({p})
      BY <1>2, BreaksTo
    <3> QED
      BY <3>1, <3>2, <3>3 DEF ReadsElses
  <2>2. CASE At(s) = "else"
    <3>1. s + 1 \in Positions /\ s + 1 > p /\ s + 1 >= p
      BY <1>2, <2>2, PositionFacts
    <3>2. CASE At(s + 1) = "if"
      <4>1. s + 2 \in Positions /\ s + 2 > p /\ s + 1 + 1 = s + 2
        BY <3>1, <3>2, PositionFacts
      <4>2. blockEnds(derive, {s + 1}) = {}
        BY <3>2, BlockEndsOf
      <4>3. Token({s + 1}, {"if"}) = {s + 2}
        BY <3>2, <4>1, OneToken
      <4>4. PICK F : F = Behind(derive, branchEnds(derive, {s + 2}), ElseList)
        OBVIOUS
      <4>5. elsesEnds(derive, p) = {p} \cup F
        BY <1>5, <1>6, <2>2, <4>2, <4>3, <4>4
      <4>6. PICK a : a = call(parse, Expression, s + 2)
        OBVIOUS
      <4>7. PICK b : b = parseBlock(parse, reached(a))
        OBVIOUS
      <4>8. PICK c : c = call(parse, ElseList, reached(b))
        OBVIOUS
      <4>9. /\ (Accepted(r) <=> Accepted(a) /\ Accepted(b) /\ Accepted(c))
            /\ (Accepted(r) => reached(r) = reached(c))
        BY <1>2, <1>3, <2>2, <3>2, <4>6, <4>7, <4>8, ElsesShape
      <4>10. ReadsElses(r, F)
        BY <4>1, <4>4, <4>6, <4>7, <4>8, <4>9, BranchesDecided
      <4> QED
        BY <1>2, <2>2, <4>5, <4>10 DEF ReadsElses
    <3>3. CASE At(s + 1) # "if"
      <4>1. Token({s + 1}, {"if"}) = {}
        BY <3>3, NoToken
      <4>2. PICK F : F = blockEnds(derive, {s + 1})
        OBVIOUS
      <4>3. elsesEnds(derive, p) = {p} \cup F
        BY <1>5, <1>6, <2>2, <4>1, <4>2, NothingBehind
      <4>4. PICK d : d = parseBlock(parse, s + 1)
        OBVIOUS
      <4>5. (Accepted(r) <=> Accepted(d)) /\ (Accepted(r) => reached(r) = reached(d))
        BY <1>2, <1>3, <2>2, <3>3, <4>4, ElsesShape
      <4>6. Reads(d, F, {})
        BY <3>1, <4>2, <4>4, BlockDecided
      <4>7. \A e \in F : e \in Positions
        <5>1. AlikeBehind(derive, derive, p)
          BY DeriveMoves DEF AlikeBehind
        <5>2. {s + 1} \subseteq From(p)
          BY <3>1 DEF From
        <5>3. F \subseteq Past(p)
          BY <4>2, <5>1, <5>2, BlockAlike
        <5> QED
          BY <5>3 DEF Past
      <4>8. ReadsElses(r, F)
        BY <4>5, <4>6, <4>7, ReadsSame, ReadsIsElses
      <4> QED
        BY <1>2, <2>2, <4>3, <4>8 DEF ReadsElses
    <3> QED
      BY <3>2, <3>3
  <2> QED
    BY <2>1, <2>2
<1> QED
  BY <1>1, <1>3, <1>7, DecidesIs

(* Statements *)

Simple == {"let", "mut", "return"}

Compound == {"if", "while", "for"}

LEMMA KeywordsAreNoStarts == \A k \in Simple \cup Compound \cup {"else"} : k \notin Starts
  BY DEF Simple, Compound, Starts, Literals

LEMMA SimpleEndsAre ==
    ASSUME IsFile, NEW p \in Positions
    PROVE  /\ At(p) \in {"let", "mut"} =>
                 LET name  == Token({p + 1}, {"Identifier"})
                     typed == name \cup Behind(derive, Token(name, {"Colon"}), TypeSyntax)
                 IN  simpleEnds(derive, p) = Behind(derive, Token(typed, {"="}), Expression)
           /\ At(p) = "return" => simpleEnds(derive, p) = {p + 1} \cup call(derive, Expression, p + 1)
           /\ At(p) \notin Simple => simpleEnds(derive, p) = call(derive, Expression, p)
<1> DEFINE ends(L, R) ==
              LET name  == Token(L, {"Identifier"})
                  typed == name \cup Behind(derive, Token(name, {"Colon"}), TypeSyntax)
              IN  call(derive, Expression, p) \cup Behind(derive, Token(typed, {"="}), Expression)
                     \cup R \cup Behind(derive, R, Expression)
<1>1. PICK L : L = Token({p}, {"let", "mut"})
  OBVIOUS
<1>2. PICK R : R = Token({p}, {"return"})
  OBVIOUS
<1>3. simpleEnds(derive, p) = ends(L, R)
  BY <1>1, <1>2 DEF simpleEnds
<1>4. CASE At(p) \in {"let", "mut"}
  <2>1. L = {p + 1}
    BY <1>1, <1>4, TokenHere
  <2>2. R = {}
    BY <1>2, <1>4, NoToken
  <2>3. call(derive, Expression, p) = {}
    BY <1>4, KeywordsAreNoStarts, ExpressionStarts DEF Simple
  <2> QED
    BY <1>3, <1>4, <2>1, <2>2, <2>3, NothingBehind DEF Simple
<1>5. CASE At(p) = "return"
  <2>1. L = {}
    BY <1>1, <1>5, TokenHere
  <2>2. R = {p + 1}
    BY <1>2, <1>5, OneToken
  <2>3. call(derive, Expression, p) = {}
    BY <1>5, KeywordsAreNoStarts, ExpressionStarts DEF Simple
  <2>4. ends(L, R) = {p + 1} \cup call(derive, Expression, p + 1)
    BY <2>1, <2>2, <2>3, NothingBehind, TokenOfNone, BehindHere
  <2> QED
    BY <1>3, <1>5, <2>4 DEF Simple
<1>6. CASE At(p) \notin Simple
  <2>0. At(p) \notin {"let", "mut"}
    BY <1>6 DEF Simple
  <2>1. L = {}
    BY <1>1, <2>0, TokenHere
  <2>2. R = {}
    BY <1>2, <1>6, NoToken DEF Simple
  <2>3. ends(L, R) = call(derive, Expression, p)
    BY <2>1, <2>2, NothingBehind, TokenOfNone
  <2> QED
    BY <1>3, <1>6, <2>3 DEF Simple
<1> HIDE DEF ends
<1> QED
  BY <1>4, <1>5, <1>6 DEF Simple

LEMMA CompoundEndsAre ==
    ASSUME NEW p
    PROVE  /\ At(p) = "if" => compoundEnds(derive, p)
                = Behind(derive, branchEnds(derive, {p + 1}), ElseList)
           /\ At(p) = "while" => compoundEnds(derive, p) = branchEnds(derive, {p + 1})
           /\ At(p) = "for" =>
                 compoundEnds(derive, p) = branchEnds(derive, Token(Token({p + 1}, {"Identifier"}), {"in"}))
           /\ At(p) \notin Compound => compoundEnds(derive, p) = blockEnds(derive, {p})
           /\ At(p) # "LeftBrace" => blockEnds(derive, {p}) = {}
<1>1. PICK I : I = Token({p}, {"if"})
  OBVIOUS
<1>2. PICK W : W = Token({p}, {"while"})
  OBVIOUS
<1>3. PICK F : F = Token({p}, {"for"})
  OBVIOUS
<1>4. compoundEnds(derive, p) = blockEnds(derive, {p})
                                \cup Behind(derive, branchEnds(derive, I), ElseList) \cup branchEnds(derive, W)
                                \cup branchEnds(derive, Token(Token(F, {"Identifier"}), {"in"}))
  BY <1>1, <1>2, <1>3 DEF compoundEnds
<1>10. At(p) # "LeftBrace" => blockEnds(derive, {p}) = {}
  BY NoToken, NothingBehind, TokenOfNone DEF blockEnds
<1>5. /\ I = IF At(p) = "if" THEN {p + 1} ELSE {}
      /\ W = IF At(p) = "while" THEN {p + 1} ELSE {}
      /\ F = IF At(p) = "for" THEN {p + 1} ELSE {}
  BY <1>1, <1>2, <1>3, OneToken, NoToken
<1>6. CASE At(p) = "if"
  BY <1>4, <1>5, <1>6, <1>10, NothingBehind, TokenOfNone DEF Compound
<1>7. CASE At(p) = "while"
  BY <1>4, <1>5, <1>7, <1>10, NothingBehind, TokenOfNone DEF Compound
<1>8. CASE At(p) = "for"
  BY <1>4, <1>5, <1>8, <1>10, NothingBehind, TokenOfNone DEF Compound
<1>9. CASE At(p) \notin Compound
  <2>1. I = {} /\ W = {} /\ F = {}
    BY <1>5, <1>9 DEF Compound
  <2> QED
    BY <1>4, <1>9, <1>10, <2>1, NothingBehind, TokenOfNone DEF Compound
<1> QED
  BY <1>6, <1>7, <1>8, <1>9, <1>10 DEF Compound

LEMMA ReadsTerminated ==
    ASSUME NEW a, NEW E, Reads(a, E, Continuations(Expression)), NEW r,
           Accepted(r) <=> Accepted(a) /\ At(reached(a)) \in Terminators,
           Accepted(r) => reached(r) = reached(a)
    PROVE  Reads(r, Terminated(E), {})
<1>1. \A k \in Terminators : k \notin Continuations(Expression)
  BY NotAStart
<1> QED
  BY <1>1 DEF Reads, Terminated

\* What follows a colon or an arrow, where one is.
LEMMA TypeAfterDecided ==
    ASSUME IsFile, NEW p \in Positions, DecidedBehind(p), NEW m \in Positions, m >= p,
           NEW kind, kind # "EndOfFile", NEW a, a = parseTypeAfter(parse, kind, m)
    PROVE  LET E == IF At(m) = kind THEN call(derive, TypeSyntax, m + 1) ELSE {m}
           IN  Reads(a, E, {"<"}) /\ \A e \in E : e \in Positions /\ e >= p
<1>1. CASE At(m) = kind
  <2>1. m + 1 \in Positions /\ m + 1 > p
    BY <1>1, PositionFacts
  <2>2. Reads(call(parse, TypeSyntax, m + 1), call(derive, TypeSyntax, m + 1), {"<"})
    BY <2>1, DecidedAt, PlainRoutines, ContinuationsAre
  <2>3. /\ Accepted(a) <=> Accepted(call(parse, TypeSyntax, m + 1))
        /\ Accepted(a) => reached(a) = reached(call(parse, TypeSyntax, m + 1))
    BY <1>1, TypeAfterShape
  <2>4. Reads(a, call(derive, TypeSyntax, m + 1), {"<"})
    BY <2>2, <2>3, ReadsSame
  <2>5. \A e \in call(derive, TypeSyntax, m + 1) : e \in Positions /\ e > m + 1
    BY <2>1, EndsPast, RoutineFacts
  <2>6. \A e \in call(derive, TypeSyntax, m + 1) : e \in Positions /\ e >= p
    BY <2>1, <2>5, PositionFacts
  <2> QED
    BY <1>1, <2>4, <2>6
<1>2. CASE At(m) # kind
  <2>1. Accepted(a) /\ reached(a) = m
    BY <1>2, TypeAfterShape
  <2> QED
    BY <1>2, <2>1, ReadsHere
<1> QED
  BY <1>1, <1>2

LEMMA VarDeclDecided ==
    ASSUME IsFile, NEW p \in Positions, DecidedBehind(p), At(p) \in {"let", "mut"}
    PROVE  Reads(parseVarDeclStmt(parse, p), Terminated(simpleEnds(derive, p)), {})
<1>1. p + 1 \in Positions /\ p + 1 > p /\ p \in Nat
  BY NextPosition
<1>2. PICK r : r = parseVarDeclStmt(parse, p)
  OBVIOUS
<1>3. PICK m : m = p + 1 + 1
  OBVIOUS
<1>4. PICK a : a = parseTypeAfter(parse, "Colon", m)
  OBVIOUS
<1>5. PICK b : b = call(parse, Expression, reached(a) + 1)
  OBVIOUS
<1>6. /\ Accepted(r) <=> /\ At(p + 1) = "Identifier" /\ Accepted(a)
                         /\ At(reached(a)) = "=" /\ Accepted(b) /\ At(reached(b)) \in Terminators
      /\ Accepted(r) => reached(r) = reached(b)
  BY <1>2, <1>3, <1>4, <1>5, VarDeclShape
<1>7. CASE At(p + 1) # "Identifier"
  <2>1. Token({p + 1}, {"Identifier"}) = {}
    BY <1>7, NoToken
  <2>2. simpleEnds(derive, p) = {}
    BY <2>1, SimpleEndsAre, NothingBehind, TokenOfNone
  <2>3. Terminated(simpleEnds(derive, p)) = {}
    BY <2>2 DEF Terminated
  <2> QED
    BY <1>2, <1>6, <1>7, <2>3, ReadsNothing
<1>8. CASE At(p + 1) = "Identifier"
  <2>1. m \in Positions /\ m >= p /\ m > p
    BY <1>1, <1>3, <1>8, PositionFacts
  <2>2. PICK E : E = IF At(m) = "Colon" THEN call(derive, TypeSyntax, m + 1) ELSE {m}
    OBVIOUS
  <2>3. Reads(a, E, {"<"}) /\ \A e \in E : e \in Positions /\ e >= p
    BY <1>4, <2>1, <2>2, TypeAfterDecided
  <2>4. PICK T : T = Token(E, {"="})
    OBVIOUS
  <2>5. simpleEnds(derive, p) = Behind(derive, T, Expression)
    <3>1. Token({p + 1}, {"Identifier"}) = {m}
      BY <1>3, <1>8, OneToken
    <3>2. simpleEnds(derive, p) =
             Behind(derive, Token({m} \cup Behind(derive, Token({m}, {"Colon"}), TypeSyntax), {"="}),
               Expression)
      BY <3>1, SimpleEndsAre
    <3>3. CASE At(m) = "Colon"
      <4>1. Behind(derive, Token({m}, {"Colon"}), TypeSyntax) = E
        BY <2>2, <3>3, OneToken, BehindHere
      <4>2. Token({m} \cup E, {"="}) = Token(E, {"="})
        BY <3>3 DEF Token
      <4> QED
        BY <2>4, <3>2, <4>1, <4>2
    <3>4. CASE At(m) # "Colon"
      <4>1. Behind(derive, Token({m}, {"Colon"}), TypeSyntax) = {}
        BY <3>4, NoToken, NothingBehind
      <4>2. E = {m}
        BY <2>2, <3>4
      <4> QED
        BY <2>4, <3>2, <4>1, <4>2
    <3> QED
      BY <3>3, <3>4
  <2>6. PICK x : (Accepted(x) <=> Accepted(a) /\ At(reached(a)) = "=") /\ reached(x) = reached(a) + 1
    <3>1. (Accepted(a) /\ At(reached(a)) = "=") \in BOOLEAN
      OBVIOUS
    <3> QED
      BY <3>1, ResultExists
  <2>7. Reads(x, T, {})
    <3>1. "=" \notin {"<"}
      OBVIOUS
    <3> QED
      BY <2>3, <2>4, <2>6, <3>1, ReadsToken
  <2>8. \A q \in T : q \in Positions /\ q > p
    BY <2>3, <2>4, TokenAhead
  <2>9. \A q \in T : Reads(call(parse, Expression, q), call(derive, Expression, q),
          Continuations(Expression))
    BY <2>8, DecidedAt, PlainRoutines
  <2>10. PICK y : (Accepted(y) <=> Accepted(x) /\ Accepted(b)) /\ reached(y) = reached(b)
    <3>1. (Accepted(x) /\ Accepted(b)) \in BOOLEAN
      OBVIOUS
    <3> QED
      BY <3>1, ResultExists
  <2>11. b = call(parse, Expression, reached(x))
    BY <1>5, <2>6
  <2>12. Reads(y, Behind(derive, T, Expression), Continuations(Expression))
    BY <2>7, <2>9, <2>10, <2>11, ReadsCall
  <2>13. /\ (Accepted(r) <=> Accepted(y) /\ At(reached(y)) \in Terminators)
         /\ (Accepted(r) => reached(r) = reached(y))
    BY <1>6, <1>8, <2>6, <2>10
  <2> QED
    BY <1>2, <2>5, <2>12, <2>13, ReadsTerminated
<1> QED
  BY <1>7, <1>8

LEMMA ReturnDecided ==
    ASSUME IsFile, NEW p \in Positions, DecidedBehind(p), At(p) = "return"
    PROVE  Reads(parseReturnStmt(parse, p), Terminated(simpleEnds(derive, p)), {})
<1>1. PICK n \in Positions : n = p + 1 /\ n > p
  BY NextPosition
<1>2. PICK r : r = parseReturnStmt(parse, p)
  OBVIOUS
<1>3. PICK E : E = call(derive, Expression, n)
  OBVIOUS
<1>4. simpleEnds(derive, p) = {n} \cup E
  BY <1>1, <1>3, SimpleEndsAre
<1>5. CASE At(n) \in Terminators
  <2>1. E = {}
    BY <1>3, <1>5, NotAStart, ExpressionStarts
  <2>2. Terminated(simpleEnds(derive, p)) = {n}
    BY <1>4, <1>5, <2>1 DEF Terminated
  <2>3. Accepted(r) /\ reached(r) = n
    BY <1>1, <1>2, <1>5, ReturnShape
  <2> QED
    BY <1>2, <2>2, <2>3, ReadsHere
<1>6. CASE At(n) \notin Terminators
  <2>1. PICK a : a = call(parse, Expression, n)
    OBVIOUS
  <2>2. Reads(a, E, Continuations(Expression))
    BY <1>1, <1>3, <2>1, DecidedAt, PlainRoutines
  <2>3. /\ (Accepted(r) <=> Accepted(a) /\ At(reached(a)) \in Terminators)
        /\ (Accepted(r) => reached(r) = reached(a))
    BY <1>1, <1>2, <1>6, <2>1, ReturnShape
  <2>4. Terminated(simpleEnds(derive, p)) = Terminated(E)
    BY <1>4, <1>6 DEF Terminated
  <2> QED
    BY <1>2, <2>2, <2>3, <2>4, ReadsTerminated
<1> QED
  BY <1>5, <1>6

LEMMA StatementEndsPast ==
    ASSUME IsFile, NEW p \in Positions
    PROVE  \A e \in StatementEnds(p) : e \in Positions /\ e > p
<1>1. AlikeBehind(derive, derive, p) /\ Alike(derive, derive, Expression, p)
  BY DeriveMoves, RoutineFacts DEF AlikeBehind
<1>2. simpleEnds(derive, p) \subseteq Past(p) /\ compoundEnds(derive, p) \subseteq Past(p)
  BY <1>1, SimpleAlike, CompoundAlike
<1> QED
  BY <1>2 DEF StatementEnds, Terminated, Past

LEMMA StatementDecided ==
    ASSUME IsFile, NEW p \in Positions, DecidedBehind(p), Decides(Expression, p), Unbraced(p)
    PROVE  ReadsElses(parseStatement(parse, p), StatementEnds(p))
<1>1. PICK r : r = parseStatement(parse, p)
  OBVIOUS
<1>2. \A e \in StatementEnds(p) : e \in Positions
  BY StatementEndsPast
<1>3. At(p) \notin Compound \cup {"LeftBrace"} => StatementEnds(p) = Terminated(simpleEnds(derive, p))
  BY CompoundEndsAre DEF StatementEnds
<1>4. CASE At(p) \in {"let", "mut"}
  <2>1. r = parseVarDeclStmt(parse, p)
    BY <1>1, <1>4, StatementShape
  <2>2. At(p) \notin Compound \cup {"LeftBrace"}
    BY <1>4 DEF Compound
  <2>3. Reads(r, StatementEnds(p), {})
    BY <1>3, <1>4, <2>1, <2>2, VarDeclDecided
  <2> QED
    BY <1>1, <1>2, <2>3, ReadsIsElses
<1>5. CASE At(p) = "return"
  <2>1. r = parseReturnStmt(parse, p)
    BY <1>1, <1>5, StatementShape
  <2>2. At(p) \notin Compound \cup {"LeftBrace"}
    BY <1>5 DEF Compound
  <2>3. Reads(r, StatementEnds(p), {})
    BY <1>3, <1>5, <2>1, <2>2, ReturnDecided
  <2> QED
    BY <1>1, <1>2, <2>3, ReadsIsElses
<1>6. CASE At(p) \in Compound
  <2>1. StatementEnds(p) = compoundEnds(derive, p)
    <3>1. At(p) \notin Simple /\ At(p) \notin Starts
      BY <1>6, KeywordsAreNoStarts DEF Simple, Compound
    <3>2. simpleEnds(derive, p) = {}
      BY <3>1, SimpleEndsAre, ExpressionStarts
    <3> QED
      BY <3>2 DEF StatementEnds, Terminated
  <2>2. p + 1 \in Positions /\ p + 1 > p
    BY <1>6, NextPosition DEF Compound
  <2>3. CASE At(p) = "if"
    <3>1. PICK a : a = call(parse, Expression, p + 1)
      OBVIOUS
    <3>2. PICK b : b = parseBlock(parse, reached(a))
      OBVIOUS
    <3>3. PICK c : c = call(parse, ElseList, reached(b))
      OBVIOUS
    <3>4. r = parseIfStmt(parse, p)
      BY <1>1, <2>3, StatementShape
    <3>5. /\ (Accepted(r) <=> Accepted(a) /\ Accepted(b) /\ Accepted(c))
          /\ (Accepted(r) => reached(r) = reached(c))
      BY <3>1, <3>2, <3>3, <3>4, IfShape
    <3>6. ReadsElses(r, Behind(derive, branchEnds(derive, {p + 1}), ElseList))
      BY <2>2, <3>1, <3>2, <3>3, <3>5, BranchesDecided
    <3> QED
      BY <1>1, <2>1, <2>3, <3>6, CompoundEndsAre
  <2>4. CASE At(p) = "while"
    <3>1. PICK a : a = call(parse, Expression, p + 1)
      OBVIOUS
    <3>2. PICK b : b = parseBlock(parse, reached(a))
      OBVIOUS
    <3>3. r = parseWhileStmt(parse, p)
      BY <1>1, <2>4, StatementShape
    <3>4. (Accepted(r) <=> Accepted(a) /\ Accepted(b)) /\ (Accepted(r) => reached(r) = reached(b))
      BY <3>1, <3>2, <3>3, WhileShape
    <3>5. Reads(r, branchEnds(derive, {p + 1}), {})
      BY <2>2, <3>1, <3>2, <3>4, BranchDecided
    <3>6. Reads(r, StatementEnds(p), {})
      BY <2>1, <2>4, <3>5, CompoundEndsAre
    <3> QED
      BY <1>1, <1>2, <3>6, ReadsIsElses
  <2>5. CASE At(p) = "for"
    <3>1. PICK a : a = call(parse, Expression, p + 1 + 1 + 1)
      OBVIOUS
    <3>2. PICK b : b = parseBlock(parse, reached(a))
      OBVIOUS
    <3>3. r = parseForStmt(parse, p)
      BY <1>1, <2>5, StatementShape
    <3>4. /\ Accepted(r) <=> /\ At(p + 1) = "Identifier" /\ At(p + 1 + 1) = "in"
                             /\ Accepted(a) /\ Accepted(b)
          /\ Accepted(r) => reached(r) = reached(b)
      BY <3>1, <3>2, <3>3, ForShape
    <3>5. CASE At(p + 1) = "Identifier" /\ At(p + 1 + 1) = "in"
      <4>1. p + 1 + 1 \in Positions /\ p + 1 + 1 > p
        BY <2>2, <3>5, PositionFacts
      <4>2. p + 1 + 1 + 1 \in Positions /\ p + 1 + 1 + 1 > p
        BY <3>5, <4>1, PositionFacts
      <4>3. Token(Token({p + 1}, {"Identifier"}), {"in"}) = {p + 1 + 1 + 1}
        BY <3>5, OneToken
      <4>4. Reads(r, branchEnds(derive, {p + 1 + 1 + 1}), {})
        BY <3>1, <3>2, <3>4, <3>5, <4>2, BranchDecided
      <4>5. Reads(r, StatementEnds(p), {})
        BY <2>1, <2>5, <4>3, <4>4, CompoundEndsAre
      <4> QED
        BY <1>1, <1>2, <4>5, ReadsIsElses
    <3>6. CASE ~(At(p + 1) = "Identifier" /\ At(p + 1 + 1) = "in")
      <4>1. Token(Token({p + 1}, {"Identifier"}), {"in"}) = {}
        <5>1. CASE At(p + 1) # "Identifier"
          BY <5>1, NoToken, TokenOfNone
        <5>2. CASE At(p + 1) = "Identifier" /\ At(p + 1 + 1) # "in"
          <6>1. Token({p + 1}, {"Identifier"}) = {p + 1 + 1}
            BY <5>2, OneToken
          <6> QED
            BY <5>2, <6>1, NoToken
        <5> QED
          BY <3>6, <5>1, <5>2
      <4>2. StatementEnds(p) = {}
        BY <2>1, <2>5, <4>1, CompoundEndsAre, NothingBehind
      <4>3. ~Accepted(r)
        BY <3>4, <3>6
      <4> QED
        BY <1>1, <4>2, <4>3 DEF ReadsElses
    <3> QED
      BY <3>5, <3>6
  <2> QED
    BY <1>6, <2>3, <2>4, <2>5 DEF Compound
<1>7. CASE At(p) \notin Simple \cup Compound \cup {"LeftBrace"}
  <2>1. PICK a : a = call(parse, Expression, p)
    OBVIOUS
  <2>2. /\ (Accepted(r) <=> Accepted(a) /\ At(reached(a)) \in Terminators)
        /\ (Accepted(r) => reached(r) = reached(a))
    BY <1>1, <1>7, <2>1, StatementShape DEF Simple, Compound
  <2>3. Reads(a, call(derive, Expression, p), Continuations(Expression))
    BY <2>1, PlainDecides, PlainRoutines
  <2>4. Reads(r, Terminated(call(derive, Expression, p)), {})
    BY <2>2, <2>3, ReadsTerminated
  <2>5. Reads(r, StatementEnds(p), {})
    BY <1>3, <1>7, <2>4, SimpleEndsAre
  <2> QED
    BY <1>1, <1>2, <2>5, ReadsIsElses
<1>8. CASE At(p) = "LeftBrace"
  <2>1. PICK a : a = call(parse, Expression, p)
    OBVIOUS
  <2>2. Accepted(r) => Accepted(a)
    BY <1>1, <1>8, <2>1, StatementShape
  <2>3. Reads(a, {}, Continuations(Expression))
    <3>1. call(derive, Expression, p) = {}
      BY <1>8, ExpressionStarts DEF Starts, Literals
    <3> QED
      BY <2>1, <3>1, PlainDecides, PlainRoutines
  <2>4. ~Accepted(r) /\ HasBareBlock
    BY <1>8, <2>2, <2>3 DEF Reads, Unbraced
  <2> QED
    BY <1>1, <2>4 DEF ReadsElses
<1> QED
  BY <1>4, <1>5, <1>6, <1>7, <1>8 DEF Simple

(* Blocks of statements *)

LEMMA SameSeparators ==
    ASSUME IsFile, NEW p \in Positions, NEW q \in Positions, p <= q,
           \A k \in Positions : p <= k /\ k < q => At(k) \in Separators
    PROVE  skipSeparators(p) = skipSeparators(q)
<1>1. PICK s \in Positions : /\ s = skipSeparators(q) /\ s >= q /\ At(s) \notin Separators
                             /\ \A k \in Positions : q <= k /\ k < s => At(k) \in Separators
  BY SeparatorFacts DEF Separators
<1>2. p <= s /\ \A k \in Positions : p <= k /\ k < s => At(k) \in Separators
  <2>1. \A k \in Positions : k \in Nat
    BY PositionFacts
  <2> QED
    BY <1>1, <2>1
<1>3. "EndOfFile" \notin Separators
  BY DEF Separators
<1>4. Skip(Separators, p) = s
  BY <1>1, <1>2, <1>3, SkipIsThere
<1> QED
  BY <1>1, <1>4 DEF skipSeparators, Separators

LEMMA NoSeparators ==
    ASSUME IsFile, NEW p \in Positions, At(p) \notin Separators
    PROVE  skipSeparators(p) = p
<1>1. "EndOfFile" \notin Separators
  BY DEF Separators
<1>2. \A k \in Positions : ~(p <= k /\ k < p)
  BY PositionFacts
<1>3. p <= p
  BY PositionFacts
<1>4. Skip(Separators, p) = p
  BY <1>1, <1>2, <1>3, SkipIsThere
<1> QED
  BY <1>4 DEF skipSeparators, Separators

\* A list of statements does not see the separators before it.
LEMMA SameStatements ==
    ASSUME IsFile, NEW p \in Positions, NEW q \in Positions, skipSeparators(p) = skipSeparators(q)
    PROVE  /\ call(parse, StatementList, p) = call(parse, StatementList, q)
           /\ call(parse, DeclarationList, p) = call(parse, DeclarationList, q)
<1>1. \A k \in Positions : /\ call(parse, StatementList, k) = parseStatements(parse, k)
                           /\ call(parse, DeclarationList, k) = parseDeclarations(parse, k)
  BY ParseUnfolds, RunIs, RoutineFacts
<1>2. parseStatements(parse, p) = parseStatements(parse, q)
  BY DEF parseStatements
<1>3. parseDeclarations(parse, p) = parseDeclarations(parse, q)
  BY DEF parseDeclarations
<1> QED
  BY <1>1, <1>2, <1>3

LEMMA StatementListEnds ==
    ASSUME IsFile, NEW p \in Positions
    PROVE  call(derive, StatementList, p)
              = {p} \cup Behind(derive, Token({p}, Separators) \cup StatementEnds(p), StatementList)
<1>1. call(derive, StatementList, p) = statementsEnds(derive, p)
  BY DeriveUnfolds, ProduceIs, RoutineFacts
<1>2. Separators \cup {"RightBrace", "EndOfFile"} = Terminators
  BY DEF Separators, Terminators
<1>3. {q \in simpleEnds(derive, p) : At(q) \in Separators \cup {"RightBrace", "EndOfFile"}}
         = Terminated(simpleEnds(derive, p))
  BY <1>2 DEF Terminated
<1>4. Token({p}, Separators) \cup Terminated(simpleEnds(derive, p)) \cup compoundEnds(derive, p)
         = Token({p}, Separators) \cup StatementEnds(p)
  BY DEF StatementEnds
<1>5. statementsEnds(derive, p) = {p} \cup Behind(derive, Token({p}, Separators)
         \cup Terminated(simpleEnds(derive, p)) \cup compoundEnds(derive, p), StatementList)
  BY <1>3 DEF statementsEnds
<1> QED
  BY <1>1, <1>4, <1>5

LEMMA NoStatement ==
    ASSUME IsFile, NEW p \in Positions, At(p) \in Terminators
    PROVE  StatementEnds(p) = {}
<1>1. At(p) \notin Simple /\ At(p) \notin Compound /\ At(p) # "LeftBrace"
  BY DEF Simple, Compound, Terminators
<1>2. call(derive, Expression, p) = {}
  BY NotAStart, ExpressionStarts
<1> QED
  BY <1>1, <1>2, SimpleEndsAre, CompoundEndsAre DEF StatementEnds, Terminated

(* A statement with a block ends behind its brace. *)

BehindBrace(e) == \E k \in Positions : At(k) = "RightBrace" /\ e = k + 1

LEMMA BlockEndsBraced ==
    ASSUME IsFile, NEW S, S \subseteq Positions, NEW e \in blockEnds(derive, S)
    PROVE  BehindBrace(e)
<1>1. PICK s \in Behind(derive, Token(S, {"LeftBrace"}), StatementList) :
             At(s) = "RightBrace" /\ e = s + 1
  BY TokenIs DEF blockEnds
<1>2. PICK q \in Token(S, {"LeftBrace"}) : s \in call(derive, StatementList, q)
  BY BehindIs
<1>3. PICK n \in S : At(n) = "LeftBrace" /\ q = n + 1
  BY TokenIs
<1>4. q \in Positions
  BY <1>3, NextPosition
<1>5. s \in Positions
  BY <1>2, <1>4, EndsAhead, RoutineFacts
<1> QED
  BY <1>1, <1>5 DEF BehindBrace

LEMMA BranchEndsBraced ==
    ASSUME IsFile, NEW S, S \subseteq Positions, NEW e \in branchEnds(derive, S)
    PROVE  BehindBrace(e) /\ e \in Positions
<1>1. Behind(derive, S, Expression) \subseteq Positions
  BY BehindIs, EndsAhead, RoutineFacts
<1>2. BehindBrace(e)
  BY <1>1, BlockEndsBraced DEF branchEnds
<1> QED
  BY <1>2, NextPosition DEF BehindBrace

LEMMA TokensInFile ==
    ASSUME IsFile, NEW S, S \subseteq Positions, NEW k, k # "EndOfFile"
    PROVE  Token(S, {k}) \subseteq Positions
  BY TokenIs, NextPosition

LEMMA ElsesBraced ==
    ASSUME IsFile
    PROVE  \A p \in Positions : \A e \in call(derive, ElseList, p) : e = p \/ BehindBrace(e)
<1> DEFINE G == {x \in Routines \X Positions :
               x[1] = ElseList => \A e \in call(derive, ElseList, x[2]) : e = x[2] \/ BehindBrace(e)}
<1>1. \A r \in Routines : \A p \in Positions :
        <<r, p>> \in G <=> (r = ElseList => \A e \in call(derive, ElseList, p) : e = p \/ BehindBrace(e))
  BY Zenon
<1> HIDE DEF G
<1>2. ASSUME NEW r \in Routines, NEW p \in Positions,
             \A h \in Routines : \A q \in Positions : Before(h, q, r, p) => <<h, q>> \in G
      PROVE  <<r, p>> \in G
  <2> SUFFICES ASSUME r = ElseList, NEW e \in call(derive, ElseList, p), e # p PROVE BehindBrace(e)
    BY <1>1
  <2>1. PICK T : T = Token(Breaks({p}), {"else"})
    OBVIOUS
  <2>2. elsesEnds(derive, p) = {p} \cup blockEnds(derive, T)
          \cup Behind(derive, branchEnds(derive, Token(T, {"if"})), ElseList)
    BY <2>1 DEF elsesEnds
  <2>3. e \in elsesEnds(derive, p)
    BY DeriveUnfolds, ProduceIs, RoutineFacts
  <2>4. \A q \in Breaks({p}) : q \in Positions /\ q >= p
    BY BreaksIs
  <2>5. \A q \in T : q \in Positions /\ q > p
    BY <2>1, <2>4, TokenAhead
  <2>6. CASE e \in blockEnds(derive, T)
    BY <2>5, <2>6, BlockEndsBraced
  <2>7. CASE e \in Behind(derive, branchEnds(derive, Token(T, {"if"})), ElseList)
    <3>1. PICK q \in branchEnds(derive, Token(T, {"if"})) : e \in call(derive, ElseList, q)
      BY <2>7, BehindIs
    <3>2. \A n \in Token(T, {"if"}) : n \in Positions /\ n > p
      <4>1. \A n \in T : n \in Positions /\ n >= p
        BY <2>5, PositionFacts
      <4> QED
        BY <4>1, TokenAhead
    <3>3. q \in Positions /\ BehindBrace(q)
      BY <3>2, BranchEndsBraced
    <3>4. q > p
      <4>1. AlikeBehind(derive, derive, p)
        BY DeriveMoves DEF AlikeBehind
      <4>2. Token(T, {"if"}) \subseteq Past(p)
        BY <3>2 DEF Past
      <4>3. branchEnds(derive, Token(T, {"if"})) \subseteq Past(p)
        BY <4>1, <4>2, BranchAlike
      <4> QED
        BY <4>3 DEF Past
    <3>5. <<ElseList, q>> \in G
      BY <1>2, <3>3, <3>4, RoutineFacts DEF Before
    <3> QED
      BY <1>1, <3>1, <3>3, <3>5, RoutineFacts
  <2> QED
    BY <2>2, <2>3, <2>6, <2>7
<1>3. \A r \in Routines : \A p \in Positions : <<r, p>> \in G
  BY <1>2, AlongTheCalls
<1> QED
  BY <1>1, <1>3, RoutineFacts

LEMMA CompoundEndsBraced ==
    ASSUME IsFile, NEW p \in Positions, NEW e \in compoundEnds(derive, p)
    PROVE  BehindBrace(e)
<1>1. Token({p}, {"if"}) \subseteq Positions /\ Token({p}, {"while"}) \subseteq Positions
  BY TokensInFile
<1>2. Token(Token(Token({p}, {"for"}), {"Identifier"}), {"in"}) \subseteq Positions
  <2>1. Token({p}, {"for"}) \subseteq Positions
    BY TokensInFile
  <2>2. Token(Token({p}, {"for"}), {"Identifier"}) \subseteq Positions
    BY <2>1, TokensInFile
  <2> QED
    BY <2>2, TokensInFile
<1>3. CASE e \in blockEnds(derive, {p})
  BY <1>3, BlockEndsBraced
<1>4. CASE e \in Behind(derive, branchEnds(derive, Token({p}, {"if"})), ElseList)
  <2>1. PICK q \in branchEnds(derive, Token({p}, {"if"})) : e \in call(derive, ElseList, q)
    BY <1>4, BehindIs
  <2>2. q \in Positions /\ BehindBrace(q)
    BY <1>1, BranchEndsBraced
  <2> QED
    BY <2>1, <2>2, ElsesBraced
<1>5. CASE e \in branchEnds(derive, Token({p}, {"while"}))
  BY <1>1, <1>5, BranchEndsBraced
<1>6. CASE e \in branchEnds(derive, Token(Token(Token({p}, {"for"}), {"Identifier"}), {"in"}))
  BY <1>2, <1>6, BranchEndsBraced
<1> QED
  BY <1>3, <1>4, <1>5, <1>6 DEF compoundEnds

\* Behind a statement, and the line breaks after it, a brace is a bare block's.
LEMMA StatementsUnbraced ==
    ASSUME IsFile, NEW p \in Positions, NEW q \in StatementEnds(p), q \in Positions,
           NEW z \in Breaks({q})
    PROVE  Unbraced(z)
<1>1. z \in Positions /\ q <= z /\ \A k \in Positions : q <= k /\ k < z => At(k) = "Newline"
  BY BreaksIs
<1>2. CASE z = q /\ At(q) \in Terminators
  BY <1>2 DEF Terminators, Unbraced
<1>3. CASE z = q /\ q \in compoundEnds(derive, p)
  <2>1. PICK k \in Positions : At(k) = "RightBrace" /\ q = k + 1
    BY <1>3, CompoundEndsBraced DEF BehindBrace
  <2> QED
    BY <1>3, <2>1, UnbracedBehind
<1>4. CASE z # q
  <2>1. PICK k : k = z - 1
    OBVIOUS
  <2>2. k \in Positions /\ z = k + 1 /\ q <= k /\ k < z
    BY <1>1, <1>4, <2>1, PositionFacts
  <2>3. At(k) = "Newline"
    BY <1>1, <2>2
  <2> QED
    BY <1>1, <2>2, <2>3, UnbracedBehind DEF Separators
<1> QED
  BY <1>2, <1>3, <1>4 DEF StatementEnds, Terminated

\* What follows line breaks follows from before them too.
LEMMA OverBreaks ==
    ASSUME IsFile, NEW q \in Positions, NEW z \in Breaks({q})
    PROVE  call(derive, StatementList, z) \subseteq call(derive, StatementList, q)
<1>1. z \in Positions /\ q <= z /\ \A k \in Positions : q <= k /\ k < z => At(k) = "Newline"
  BY BreaksIs
<1>2. q \in Nat /\ z \in Nat
  BY <1>1, PositionFacts
<1>3. PICK n : n \in Nat /\ z = q + n
  <2>1. z - q \in Nat /\ z = q + (z - q)
    BY <1>1, <1>2
  <2> QED
    BY <2>1
<1> DEFINE T == {d \in Nat :
               d <= n /\ ~(call(derive, StatementList, z) \subseteq call(derive, StatementList, z - d))}
<1> SUFFICES ASSUME n \in T PROVE FALSE
  <2>1. z - n = q /\ n \in Nat /\ n <= n
    BY <1>2, <1>3
  <2> QED
    BY <2>1
<1>4. PICK m \in T : \A k \in T : m <= k
  <2>1. T \in SUBSET Nat
    OBVIOUS
  <2> HIDE DEF T
  <2> QED
    BY <2>1, LeastNumber
<1>5. m \in Nat /\ m <= n /\ ~(call(derive, StatementList, z) \subseteq call(derive, StatementList, z - m))
  OBVIOUS
<1>6. m - 1 \in Nat /\ m - 1 <= n /\ m - 1 < m /\ m - 1 \notin T
  <2> HIDE DEF T
  <2>1. m # 0
    BY <1>2, <1>5
  <2>2. m - 1 \in Nat /\ m - 1 <= n /\ m - 1 < m
    BY <1>3, <1>5, <2>1
  <2>3. m - 1 \notin T
    <3> SUFFICES ASSUME m - 1 \in T PROVE FALSE
      OBVIOUS
    <3>1. m <= m - 1
      BY <1>4
    <3> QED
      BY <1>5, <3>1
  <2> QED
    BY <2>2, <2>3
<1>7. call(derive, StatementList, z) \subseteq call(derive, StatementList, z - (m - 1))
  BY <1>6
<1> HIDE DEF T
<1>8. PICK k : k = z - m
  OBVIOUS
<1>9. k \in Positions /\ q <= k /\ k < z /\ k + 1 = z - (m - 1)
  <2>1. k \in Nat /\ q <= k /\ k < z /\ k + 1 = z - (m - 1)
    BY <1>2, <1>3, <1>5, <1>6, <1>8
  <2>2. 1 <= q /\ z <= End /\ End \in Nat
    BY <1>1, PositionFacts
  <2>3. k \in Positions
    BY <1>2, <2>1, <2>2, PositionFacts
  <2> QED
    BY <2>1, <2>3
<1>10. At(k) \in Separators
  BY <1>1, <1>9 DEF Separators
<1>11. call(derive, StatementList, k + 1) \subseteq call(derive, StatementList, k)
  <2>1. Token({k}, Separators) = {k + 1}
    BY <1>10, TokenHere
  <2>2. call(derive, StatementList, k) = {k}
          \cup Behind(derive, {k + 1} \cup StatementEnds(k), StatementList)
    BY <1>9, <2>1, StatementListEnds
  <2>3. \A e \in call(derive, StatementList, k + 1) :
          e \in Behind(derive, {k + 1} \cup StatementEnds(k), StatementList)
    BY DEF Behind
  <2> QED
    BY <2>2, <2>3
<1> QED
  BY <1>5, <1>7, <1>8, <1>9, <1>11

\* No statement starts with an else: a list of statements that is accepted
\* does not.
LEMMA NoElse ==
    ASSUME IsFile, NEW p \in Positions, DecidedBehind(p), NEW q \in Positions, q > p,
           Accepted(call(parse, StatementList, q))
    PROVE  At(skipNewlines(q)) # "else"
<1> SUFFICES ASSUME At(skipNewlines(q)) = "else" PROVE FALSE
  OBVIOUS
<1>1. PICK s \in Positions : /\ s = skipNewlines(q) /\ s >= q
                             /\ \A k \in Positions : q <= k /\ k < s => At(k) = "Newline"
  BY NewlineFacts
<1>2. At(s) = "else" /\ At(s) \notin Separators
  BY <1>1 DEF Separators
<1>3. skipSeparators(q) = s
  <2>1. skipSeparators(q) = skipSeparators(s)
    BY <1>1, SameSeparators DEF Separators
  <2> QED
    BY <1>2, <2>1, NoSeparators
<1>4. PICK r : r = parseStatements(parse, q)
  OBVIOUS
<1>5. Accepted(r)
  BY <1>4, ParseUnfolds, RunIs, RoutineFacts
<1>6. PICK a : a = parseStatement(parse, s)
  OBVIOUS
<1>7. Accepted(a)
  BY <1>2, <1>3, <1>4, <1>5, <1>6, StatementsShape
<1>8. Accepted(call(parse, Expression, s))
  BY <1>2, <1>6, <1>7, StatementShape
<1>9. s > p
  BY <1>1, PositionFacts
<1>10. Reads(call(parse, Expression, s), call(derive, Expression, s), Continuations(Expression))
  BY <1>9, DecidedAt, PlainRoutines
<1>11. call(derive, Expression, s) = {}
  BY <1>2, KeywordsAreNoStarts, ExpressionStarts
<1> QED
  BY <1>8, <1>10, <1>11 DEF Reads

LEMMA StatementListDecided ==
    ASSUME IsFile, NEW p \in Positions, DecidedBehind(p), Decides(Expression, p)
    PROVE  Decides(StatementList, p)
<1>1. PICK r : r = call(parse, StatementList, p)
  OBVIOUS
<1>2. PICK E : E = call(derive, StatementList, p)
  OBVIOUS
<1>3. r = parseStatements(parse, p)
  BY <1>1, ParseUnfolds, RunIs, RoutineFacts
<1>4. E = {p} \cup Behind(derive, Token({p}, Separators) \cup StatementEnds(p), StatementList)
  BY <1>2, StatementListEnds
<1>5. ASSUME Unbraced(p) PROVE Reads(r, EndsAt(E, "RightBrace"), {})
  <2>1. CASE At(p) \in Separators
    <3>1. p + 1 \in Positions /\ p + 1 > p /\ p \in Nat
      BY <2>1, NextPosition DEF Separators
    <3>2. Token({p}, Separators) = {p + 1}
      BY <2>1, TokenHere
    <3>3. StatementEnds(p) = {}
      BY <2>1, NoStatement DEF Separators, Terminators
    <3>4. E = {p} \cup call(derive, StatementList, p + 1)
      BY <1>4, <3>2, <3>3, BehindHere
    <3>5. EndsAt(E, "RightBrace") = EndsAt(call(derive, StatementList, p + 1), "RightBrace")
      BY <2>1, <3>4 DEF EndsAt, Separators
    <3>6. \A k \in Positions : p <= k /\ k < p + 1 => At(k) \in Separators
      BY <2>1, <3>1, PositionFacts
    <3>7. skipSeparators(p) = skipSeparators(p + 1)
      BY <3>1, <3>6, SameSeparators
    <3>8. r = call(parse, StatementList, p + 1)
      BY <1>1, <3>1, <3>7, SameStatements
    <3>9. Unbraced(p + 1)
      BY <2>1, <3>1, UnbracedBehind
    <3> QED
      BY <3>1, <3>5, <3>8, <3>9, StatementsAt
  <2>2. CASE At(p) = "RightBrace"
    <3>1. Token({p}, Separators) = {}
      BY <2>2, TokenHere DEF Separators
    <3>2. StatementEnds(p) = {}
      BY <2>2, NoStatement DEF Terminators
    <3>3. E = {p}
      BY <1>4, <3>1, <3>2, NothingBehind
    <3>4. EndsAt(E, "RightBrace") = {p}
      BY <2>2, <3>3 DEF EndsAt
    <3>5. Accepted(r) /\ reached(r) = p
      BY <1>3, <2>2, NoSeparators, StatementsShape DEF Separators
    <3> QED
      BY <3>4, <3>5, ReadsHere
  <2>3. CASE At(p) = "EndOfFile"
    <3>1. Token({p}, Separators) = {}
      BY <2>3, TokenHere DEF Separators
    <3>2. StatementEnds(p) = {}
      BY <2>3, NoStatement DEF Terminators
    <3>3. E = {p}
      BY <1>4, <3>1, <3>2, NothingBehind
    <3>4. EndsAt(E, "RightBrace") = {}
      BY <2>3, <3>3 DEF EndsAt
    <3>5. ~Accepted(r)
      BY <1>3, <2>3, NoSeparators, StatementsShape DEF Separators
    <3> QED
      BY <3>4, <3>5, ReadsNothing
  <2>4. CASE At(p) \notin Terminators
    <3>1. At(p) \notin Separators /\ At(p) \notin {"RightBrace", "EndOfFile"}
      BY <2>4 DEF Separators, Terminators
    <3>2. skipSeparators(p) = p
      BY <3>1, NoSeparators
    <3>3. Token({p}, Separators) = {}
      BY <3>1, TokenHere
    <3>4. PICK S : S = StatementEnds(p)
      OBVIOUS
    <3>5. E = {p} \cup Behind(derive, S, StatementList)
      BY <1>4, <3>3, <3>4
    <3>6. PICK a : a = parseStatement(parse, p)
      OBVIOUS
    <3>7. PICK b : b = call(parse, StatementList, reached(a))
      OBVIOUS
    <3>8. (Accepted(r) <=> Accepted(a) /\ Accepted(b)) /\ (Accepted(r) => reached(r) = reached(b))
      BY <1>3, <3>1, <3>2, <3>6, <3>7, StatementsShape
    <3>9. ReadsElses(a, S)
      BY <1>5, <3>4, <3>6, StatementDecided
    <3>10. \A q \in S : q \in Positions /\ q > p
      BY <3>4, StatementEndsPast
    <3>11. ASSUME Accepted(r) PROVE reached(r) \in EndsAt(E, "RightBrace")
      <4>1. PICK q \in S : reached(a) \in Breaks({q})
        BY <3>8, <3>9, <3>11 DEF ReadsElses
      <4>2. q \in Positions /\ q > p
        BY <3>10
      <4>3. PICK z : z = reached(a)
        OBVIOUS
      <4>4. z \in Breaks({q}) /\ z \in Positions /\ z >= q
        BY <4>1, <4>2, <4>3, BreaksIs
      <4>5. z > p
        BY <4>2, <4>4, PositionFacts
      <4>6. Reads(b, EndsAt(call(derive, StatementList, z), "RightBrace"), {})
        <5>1. Unbraced(z)
          BY <3>4, <4>2, <4>4, StatementsUnbraced
        <5> QED
          BY <3>7, <4>3, <4>4, <4>5, <5>1, StatementsAt
      <4>7. reached(b) \in call(derive, StatementList, z) /\ At(reached(b)) = "RightBrace"
        BY <3>8, <3>11, <4>6 DEF Reads, EndsAt
      <4>8. reached(b) \in call(derive, StatementList, q)
        BY <4>2, <4>4, <4>7, OverBreaks
      <4>9. reached(b) \in Behind(derive, S, StatementList)
        BY <4>8, BehindIs
      <4> QED
        BY <3>5, <3>8, <3>11, <4>7, <4>9 DEF EndsAt
    <3>12. ASSUME ~HasBareBlock, NEW e \in EndsAt(E, "RightBrace") PROVE Accepted(r) /\ reached(r) = e
      <4>1. e \in Behind(derive, S, StatementList) /\ At(e) = "RightBrace"
        BY <3>1, <3>5, <3>12 DEF EndsAt
      <4>2. PICK q \in S : e \in call(derive, StatementList, q)
        BY <4>1, BehindIs
      <4>3. q \in Positions /\ q > p
        BY <3>10
      <4>4. PICK c : c = call(parse, StatementList, q)
        OBVIOUS
      <4>5. Reads(c, EndsAt(call(derive, StatementList, q), "RightBrace"), {})
        <5>1. Unbraced(q)
          BY <3>4, <4>3, BreaksTo, StatementsUnbraced
        <5> QED
          BY <4>3, <4>4, <5>1, StatementsAt
      <4>6. Accepted(c) /\ reached(c) = e
        BY <3>12, <4>1, <4>2, <4>5 DEF Reads, EndsAt
      <4>7. At(skipNewlines(q)) # "else"
        BY <4>3, <4>4, <4>6, NoElse
      <4>8. Accepted(a) /\ reached(a) \in Breaks({q})
        BY <3>9, <3>12, <4>7 DEF ReadsElses
      <4>9. PICK z : z = reached(a)
        OBVIOUS
      <4>10. z \in Positions /\ q <= z /\ \A k \in Positions : q <= k /\ k < z => At(k) = "Newline"
        BY <4>3, <4>8, <4>9, BreaksIs
      <4>11. skipSeparators(q) = skipSeparators(z)
        BY <4>3, <4>10, SameSeparators DEF Separators
      <4>12. b = c
        BY <3>7, <4>3, <4>4, <4>9, <4>10, <4>11, SameStatements
      <4> QED
        BY <3>8, <4>6, <4>8, <4>12
    <3> QED
      BY <3>11, <3>12 DEF Reads
  <2> QED
    BY <2>1, <2>2, <2>3, <2>4 DEF Separators, Terminators
<1> QED
  BY <1>1, <1>2, <1>5, DecidesIs

(* Declarations *)

LEMMA ParamListDecided ==
    ASSUME IsFile, NEW p \in Positions, DecidedBehind(p)
    PROVE  Decides(ParamList, p)
<1>1. /\ call(parse, ParamList, p) = parseParams(parse, p)
      /\ call(derive, ParamList, p) = paramsEnds(derive, p)
  BY ParseUnfolds, DeriveUnfolds, RunIs, ProduceIs, RoutineFacts
<1>2. ParamList \in Routines \ {StatementList, DeclarationList, ElseList}
  BY PlainRoutines
<1>3. PICK m : m = p + 1 + 1
  OBVIOUS
<1>4. PICK a : a = call(parse, TypeSyntax, m)
  OBVIOUS
<1>5. PICK b : b = call(parse, ParamList, reached(a) + 1)
  OBVIOUS
<1>6. PICK r : r = parseParams(parse, p)
  OBVIOUS
<1>7. /\ Accepted(r) <=> /\ At(p) = "Identifier" /\ At(p + 1) = "Colon"
                         /\ Accepted(a) /\ (At(reached(a)) = "Comma" => Accepted(b))
      /\ Accepted(r) => reached(r) = IF At(reached(a)) = "Comma" THEN reached(b) ELSE reached(a)
  BY <1>3, <1>4, <1>5, <1>6, ParamsShape
<1>8. PICK S : S = Token(Token({p}, {"Identifier"}), {"Colon"})
  OBVIOUS
<1>9. PICK C : C = Continuations(ParamList)
  OBVIOUS
<1>10. PICK E : E = Behind(derive, S, TypeSyntax)
  OBVIOUS
<1>11. paramsEnds(derive, p) = E \cup Behind(derive, Token(E, {"Comma"}), ParamList)
  BY <1>8, <1>10 DEF paramsEnds, Separated
<1>12. Reads(r, E \cup Behind(derive, Token(E, {"Comma"}), ParamList), C)
  <2>1. CASE At(p) = "Identifier" /\ At(p + 1) = "Colon"
    <3>1. m \in Positions /\ m > p
      BY <1>3, <2>1, PositionFacts
    <3>2. S = {m}
      BY <1>3, <1>8, <2>1, OneToken
    <3>3. E = call(derive, TypeSyntax, m)
      BY <1>10, <3>2, BehindHere
    <3>4. Reads(a, E, {"<"})
      BY <1>4, <3>1, <3>3, DecidedAt, PlainRoutines, ContinuationsAre
    <3>5. \A e \in E : e \in Positions /\ e >= p
      <4>1. \A e \in E : e \in Positions /\ e > m
        BY <3>1, <3>3, EndsPast, RoutineFacts
      <4> QED
        BY <3>1, <4>1, PositionFacts
    <3>6. /\ "Comma" \notin {"<"} /\ "Comma" # "EndOfFile" /\ "Comma" \in Continuations(ParamList)
          /\ {"<"} \subseteq Continuations(ParamList)
      BY ContinuationsAre
    <3>7. /\ Accepted(r) <=> Accepted(a) /\ (At(reached(a)) = "Comma" => Accepted(b))
          /\ Accepted(r) => reached(r) = IF At(reached(a)) = "Comma" THEN reached(b) ELSE reached(a)
      BY <1>7, <2>1
    <3>8. PICK D : D = {"<"}
      OBVIOUS
    <3>9. Reads(a, E, D) /\ "Comma" \notin D /\ D \subseteq Continuations(ParamList)
      BY <3>4, <3>6, <3>8
    <3>10. Reads(r, E \cup Behind(derive, Token(E, {"Comma"}), ParamList), Continuations(ParamList))
      BY <1>2, <1>5, <3>5, <3>6, <3>7, <3>9, OptionDecided
    <3> QED
      BY <1>9, <3>10
  <2>2. CASE ~(At(p) = "Identifier" /\ At(p + 1) = "Colon")
    <3>1. S = {}
      <4>1. CASE At(p) # "Identifier"
        BY <1>8, <4>1, NoToken, TokenOfNone
      <4>2. CASE At(p) = "Identifier" /\ At(p + 1) # "Colon"
        <5>1. Token({p}, {"Identifier"}) = {p + 1} /\ Token({p + 1}, {"Colon"}) = {}
          BY <4>2, OneToken, NoToken
        <5> QED
          BY <1>8, <5>1
      <4> QED
        BY <2>2, <4>1, <4>2
    <3>2. E = {}
      BY <1>10, <3>1, NothingBehind
    <3>3. E \cup Behind(derive, Token(E, {"Comma"}), ParamList) = {}
      BY <3>2, NothingBehind, TokenOfNone
    <3> QED
      BY <1>7, <2>2, <3>3, ReadsNothing
  <2> QED
    BY <2>1, <2>2
<1>13. Reads(call(parse, ParamList, p), call(derive, ParamList, p), Continuations(ParamList))
  BY <1>1, <1>6, <1>9, <1>11, <1>12
<1> QED
  BY <1>2, <1>13, PlainDecides

\* The places behind the parameters of a function whose "fn" is here.
SignatureEnds(n) ==
    LET open == Token(Token(Token({n}, {"fn"}), {"Identifier"}), {"LeftParen"})
    IN  Token(open \cup Behind(derive, open, ParamList), {"RightParen"})

LEMMA SignatureDecided ==
    ASSUME IsFile, NEW p \in Positions, DecidedBehind(p), NEW n \in Positions, n >= p
    PROVE  /\ Reads(parseSignature(parse, n), SignatureEnds(n), {})
           /\ \A e \in SignatureEnds(n) : e \in Positions /\ e > p
<1>1. PICK m : m = n + 1 + 1 + 1
  OBVIOUS
<1>2. PICK a : a = parseParamList(parse, m)
  OBVIOUS
<1>3. PICK r : r = parseSignature(parse, n)
  OBVIOUS
<1>4. /\ Accepted(r) <=> /\ At(n) = "fn" /\ At(n + 1) = "Identifier" /\ At(n + 1 + 1) = "LeftParen"
                         /\ Accepted(a) /\ At(reached(a)) = "RightParen"
      /\ Accepted(r) => reached(r) = reached(a) + 1
  BY <1>1, <1>2, <1>3, SignatureShape
<1>5. PICK S : S = Token(Token(Token({n}, {"fn"}), {"Identifier"}), {"LeftParen"})
  OBVIOUS
<1>6. SignatureEnds(n) = Token(S \cup Behind(derive, S, ParamList), {"RightParen"})
  BY <1>5 DEF SignatureEnds
<1>7. CASE ~(At(n) = "fn" /\ At(n + 1) = "Identifier" /\ At(n + 1 + 1) = "LeftParen")
  <2>1. S = {}
    <3>1. CASE At(n) # "fn"
      BY <1>5, <3>1, NoToken, TokenOfNone
    <3>2. CASE At(n) = "fn" /\ At(n + 1) # "Identifier"
      <4>1. Token({n}, {"fn"}) = {n + 1} /\ Token({n + 1}, {"Identifier"}) = {}
        BY <3>2, OneToken, NoToken
      <4> QED
        BY <1>5, <4>1, TokenOfNone
    <3>3. CASE At(n) = "fn" /\ At(n + 1) = "Identifier" /\ At(n + 1 + 1) # "LeftParen"
      <4>1. /\ Token({n}, {"fn"}) = {n + 1} /\ Token({n + 1}, {"Identifier"}) = {n + 1 + 1}
            /\ Token({n + 1 + 1}, {"LeftParen"}) = {}
        BY <3>3, OneToken, NoToken
      <4> QED
        BY <1>5, <4>1
    <3> QED
      BY <1>7, <3>1, <3>2, <3>3
  <2>2. SignatureEnds(n) = {}
    BY <1>6, <2>1, NothingBehind, TokenOfNone
  <2> QED
    BY <1>3, <1>4, <1>7, <2>2, ReadsNothing
<1>8. CASE At(n) = "fn" /\ At(n + 1) = "Identifier" /\ At(n + 1 + 1) = "LeftParen"
  <2>1. m \in Positions /\ m > p /\ m >= p
    <3>1. n + 1 \in Positions
      BY <1>8, PositionFacts
    <3>2. n + 1 + 1 \in Positions
      BY <1>8, <3>1, PositionFacts
    <3>3. m \in Positions
      BY <1>1, <1>8, <3>2, PositionFacts
    <3> QED
      BY <1>1, <3>3, PositionFacts
  <2>2. S = {m}
    BY <1>1, <1>5, <1>8, OneToken
  <2>3. PICK E : E = {m} \cup call(derive, ParamList, m)
    OBVIOUS
  <2>4. SignatureEnds(n) = Token(E, {"RightParen"})
    BY <1>6, <2>2, <2>3, BehindHere
  <2>5. \A e \in E : e \in Positions /\ e >= p
    <3>1. \A e \in call(derive, ParamList, m) : e \in Positions /\ e > m
      BY <2>1, EndsPast, RoutineFacts
    <3> QED
      BY <2>1, <2>3, <3>1, PositionFacts
  <2>6. \A e \in SignatureEnds(n) : e \in Positions /\ e > p
    BY <2>4, <2>5, TokenAhead
  <2>7. /\ Accepted(r) <=> Accepted(a) /\ At(reached(a)) = "RightParen"
        /\ Accepted(r) => reached(r) = reached(a) + 1
    BY <1>4, <1>8
  <2>8. CASE At(m) = "RightParen"
    <3>1. Reads(a, {m}, {})
      BY <1>2, <2>8, ParsedShape, ReadsHere DEF parseParamList
    <3>2. E = {m}
      BY <2>1, <2>3, <2>8, ParamStarts
    <3>3. Reads(r, Token(E, {"RightParen"}), {})
      BY <2>7, <3>1, <3>2, ReadsToken
    <3> QED
      BY <1>3, <2>4, <2>6, <3>3
  <2>9. CASE At(m) # "RightParen"
    <3>1. a = call(parse, ParamList, m)
      BY <1>2, <2>9 DEF parseParamList
    <3>2. PICK C : C = Continuations(ParamList)
      OBVIOUS
    <3>3. PICK F : F = call(derive, ParamList, m)
      OBVIOUS
    <3>4. Reads(a, F, C)
      BY <2>1, <3>1, <3>2, <3>3, DecidedAt, PlainRoutines
    <3>5. "RightParen" \notin C
      BY <3>2, ContinuationsAre
    <3>6. Reads(r, Token(F, {"RightParen"}), {})
      BY <2>7, <3>4, <3>5, ReadsToken
    <3>7. Token(E, {"RightParen"}) = Token(F, {"RightParen"})
      BY <2>3, <2>9, <3>3 DEF Token
    <3> QED
      BY <1>3, <2>4, <2>6, <3>6, <3>7
  <2> QED
    BY <2>8, <2>9
<1> QED
  BY <1>7, <1>8

LEMMA FunctionDecided ==
    ASSUME IsFile, NEW p \in Positions, DecidedBehind(p), NEW n \in Positions, n >= p, NEW public, NEW begin
    PROVE  LET S == SignatureEnds(n)
           IN  Reads(parseFunctionDecl(parse, public, begin, n),
                     blockEnds(derive, S \cup Behind(derive, Token(S, {"->"}), TypeSyntax)), {})
<1>1. PICK S : S = SignatureEnds(n)
  OBVIOUS
<1>2. PICK a : a = parseSignature(parse, n)
  OBVIOUS
<1>3. PICK b : b = parseTypeAfter(parse, "->", reached(a))
  OBVIOUS
<1>4. PICK c : c = parseBlock(parse, reached(b))
  OBVIOUS
<1>5. PICK r : r = parseFunctionDecl(parse, public, begin, n)
  OBVIOUS
<1>6. /\ (Accepted(r) <=> Accepted(a) /\ Accepted(b) /\ Accepted(c))
      /\ (Accepted(r) => reached(r) = reached(c))
  BY <1>2, <1>3, <1>4, <1>5, FunctionShape
<1>7. Reads(a, S, {}) /\ \A e \in S : e \in Positions /\ e > p
  BY <1>1, <1>2, SignatureDecided
<1>8. Reads(r, blockEnds(derive, S \cup Behind(derive, Token(S, {"->"}), TypeSyntax)), {})
  <2>1. PICK t : t = call(parse, TypeSyntax, reached(a) + 1)
    OBVIOUS
  <2>2. PICK x : (Accepted(x) <=> Accepted(a) /\ Accepted(b)) /\ reached(x) = reached(b)
    <3>1. (Accepted(a) /\ Accepted(b)) \in BOOLEAN
      OBVIOUS
    <3> QED
      BY <3>1, ResultExists
  <2>3. /\ Accepted(x) <=> Accepted(a) /\ (At(reached(a)) = "->" => Accepted(t))
        /\ Accepted(x) => reached(x) = IF At(reached(a)) = "->" THEN reached(t) ELSE reached(a)
    BY <1>3, <2>1, <2>2, TypeAfterShape
  <2>0. \A e \in S : e \in Positions /\ e >= p
    BY <1>7, PositionFacts
  <2>4. \A q \in Token(S, {"->"}) : q \in Positions /\ q > p
    BY <2>0, TokenAhead
  <2>5. \A q \in Token(S, {"->"}) :
          Reads(call(parse, TypeSyntax, q), call(derive, TypeSyntax, q), {"<", "->"})
    BY <2>4, DecidedAt, PlainRoutines, ContinuationsAre, ReadsMore
  <2>6. PICK E : E = S \cup Behind(derive, Token(S, {"->"}), TypeSyntax)
    OBVIOUS
  <2>7. Reads(x, E, {"<", "->"})
    <3>1. PICK C, D : C = {} /\ D = {"<", "->"}
      OBVIOUS
    <3>2. "->" \notin C /\ "->" \in D /\ C \subseteq D
      BY <3>1
    <3>3. Reads(a, S, C)
      BY <1>7, <3>1
    <3>4. \A q \in Token(S, {"->"}) : Reads(call(parse, TypeSyntax, q), call(derive, TypeSyntax, q), D)
      BY <2>5, <3>1
    <3>5. Reads(x, E, D)
      BY <2>1, <2>3, <2>6, <3>2, <3>3, <3>4, ReadsOption
    <3> QED
      BY <3>1, <3>5
  <2>8. \A e \in E : e \in Positions /\ e >= p
    <3>1. ASSUME NEW e \in Behind(derive, Token(S, {"->"}), TypeSyntax) PROVE e \in Positions /\ e >= p
      <4>1. PICK q \in Token(S, {"->"}) : e \in call(derive, TypeSyntax, q)
        BY BehindIs
      <4>2. q \in Positions /\ q > p
        BY <2>4
      <4>3. e \in Positions /\ e >= q
        BY <4>1, <4>2, EndsAhead, RoutineFacts
      <4> QED
        BY <4>2, <4>3, PositionFacts
    <3> QED
      BY <2>0, <2>6, <3>1
  <2>9. (Accepted(r) <=> Accepted(x) /\ Accepted(c)) /\ c = parseBlock(parse, reached(x))
    BY <1>4, <1>6, <2>2
  <2> QED
    BY <1>6, <2>6, <2>7, <2>8, <2>9, ReadsBlock
<1> QED
  BY <1>1, <1>5, <1>8

LEMMA DeclarationDecided ==
    ASSUME IsFile, NEW p \in Positions, DecidedBehind(p)
    PROVE  Reads(parseDeclaration(parse, p), declarationEnds(derive, p), {})
<1>1. PICK n : n = IF At(p) = "pub" THEN p + 1 ELSE p
  OBVIOUS
<1>2. n \in Positions /\ n >= p
  BY <1>1, PositionFacts
<1>3. PICK S : S = SignatureEnds(n)
  OBVIOUS
<1>4. Token({p} \cup Token({p}, {"pub"}), {"fn"}) = Token({n}, {"fn"})
  <2>1. CASE At(p) = "pub"
    <3>1. Token({p}, {"pub"}) = {n}
      BY <1>1, <2>1, OneToken
    <3>2. Token({p} \cup {n}, {"fn"}) = Token({n}, {"fn"})
      BY <2>1 DEF Token
    <3> QED
      BY <3>1, <3>2
  <2>2. CASE At(p) # "pub"
    BY <1>1, <2>2, NoToken
  <2> QED
    BY <2>1, <2>2
<1>5. declarationEnds(derive, p) = blockEnds(derive, S \cup Behind(derive, Token(S, {"->"}), TypeSyntax))
  BY <1>3, <1>4 DEF declarationEnds, SignatureEnds
<1>6. PICK r : r = parseDeclaration(parse, p)
  OBVIOUS
<1>7. (At(n) = "fn" => r = parseFunctionDecl(parse, At(p) = "pub", p, n)) /\ (At(n) # "fn" => ~Accepted(r))
  BY <1>1, <1>6, DeclarationShape
<1>8. CASE At(n) = "fn"
  BY <1>2, <1>3, <1>5, <1>6, <1>7, <1>8, FunctionDecided
<1>9. CASE At(n) # "fn"
  <2>1. Token({n}, {"fn"}) = {}
    BY <1>9, NoToken
  <2>2. S = {}
    BY <1>3, <2>1, NothingBehind, TokenOfNone DEF SignatureEnds
  <2>3. declarationEnds(derive, p) = {}
    BY <1>5, <2>2, NothingBehind, TokenOfNone
  <2> QED
    BY <1>6, <1>7, <1>9, <2>3, ReadsNothing
<1> QED
  BY <1>8, <1>9

LEMMA DeclarationListDecided ==
    ASSUME IsFile, NEW p \in Positions, DecidedBehind(p)
    PROVE  Decides(DeclarationList, p)
<1>1. PICK r : r = call(parse, DeclarationList, p)
  OBVIOUS
<1>2. PICK E : E = call(derive, DeclarationList, p)
  OBVIOUS
<1>3. r = parseDeclarations(parse, p)
  BY <1>1, ParseUnfolds, RunIs, RoutineFacts
<1>4. PICK S : S = declarationEnds(derive, p)
  OBVIOUS
<1>5. E = {p} \cup Behind(derive, Token({p}, Separators) \cup S, DeclarationList)
  BY <1>2, <1>4, DeriveUnfolds, ProduceIs, RoutineFacts DEF programEnds
<1>6. Reads(parseDeclaration(parse, p), S, {})
  BY <1>4, DeclarationDecided
<1>7. ASSUME At(p) \notin {"pub", "fn"} PROVE S = {}
  <2>1. Token({p}, {"pub"}) = {} /\ Token({p}, {"fn"}) = {}
    BY <1>7, NoToken
  <2>2. Token({p} \cup Token({p}, {"pub"}), {"fn"}) = {}
    BY <2>1
  <2> QED
    BY <1>4, <2>2, NothingBehind, TokenOfNone DEF declarationEnds
<1>8. Reads(r, EndsAt(E, "EndOfFile"), {})
  <2>1. CASE At(p) \in Separators
    <3>1. p + 1 \in Positions /\ p + 1 > p /\ p \in Nat
      BY <2>1, NextPosition DEF Separators
    <3>2. Token({p}, Separators) = {p + 1}
      BY <2>1, TokenHere
    <3>3. S = {}
      BY <1>7, <2>1 DEF Separators
    <3>4. E = {p} \cup call(derive, DeclarationList, p + 1)
      BY <1>5, <3>2, <3>3, BehindHere
    <3>5. EndsAt(E, "EndOfFile") = EndsAt(call(derive, DeclarationList, p + 1), "EndOfFile")
      BY <2>1, <3>4 DEF EndsAt, Separators
    <3>6. \A k \in Positions : p <= k /\ k < p + 1 => At(k) \in Separators
      BY <2>1, <3>1, PositionFacts
    <3>7. skipSeparators(p) = skipSeparators(p + 1)
      BY <3>1, <3>6, SameSeparators
    <3>8. r = call(parse, DeclarationList, p + 1)
      BY <1>1, <3>1, <3>7, SameStatements
    <3> QED
      BY <3>1, <3>5, <3>8, StatementsAt
  <2>2. CASE At(p) = "EndOfFile"
    <3>0. At(p) \notin Separators
      BY <2>2 DEF Separators
    <3>1. Token({p}, Separators) = {}
      BY <3>0, TokenHere
    <3>2. S = {}
      BY <1>7, <2>2
    <3>3. E = {p}
      BY <1>5, <3>1, <3>2, NothingBehind
    <3>4. EndsAt(E, "EndOfFile") = {p}
      BY <2>2, <3>3 DEF EndsAt
    <3>5. Accepted(r) /\ reached(r) = p
      BY <1>3, <2>2, NoSeparators, DeclarationsShape DEF Separators
    <3> QED
      BY <3>4, <3>5, ReadsHere
  <2>3. CASE At(p) \notin Separators /\ At(p) # "EndOfFile"
    <3>1. skipSeparators(p) = p
      BY <2>3, NoSeparators
    <3>2. Token({p}, Separators) = {}
      BY <2>3, TokenHere
    <3>3. E = {p} \cup Behind(derive, S, DeclarationList)
      BY <1>5, <3>2
    <3>4. PICK a : a = parseDeclaration(parse, p)
      OBVIOUS
    <3>5. PICK b : b = call(parse, DeclarationList, reached(a))
      OBVIOUS
    <3>6. (Accepted(r) <=> Accepted(a) /\ Accepted(b)) /\ (Accepted(r) => reached(r) = reached(b))
      BY <1>3, <2>3, <3>1, <3>4, <3>5, DeclarationsShape
    <3>7. \A q \in S : q \in Positions /\ q > p
      <4>1. AlikeBehind(derive, derive, p)
        BY DeriveMoves DEF AlikeBehind
      <4>2. S \subseteq Past(p)
        BY <1>4, <4>1, DeclarationAlike
      <4> QED
        BY <4>2 DEF Past
    <3>8. ASSUME Accepted(r) PROVE reached(r) \in EndsAt(E, "EndOfFile")
      <4>1. PICK q \in S : q = reached(a)
        BY <1>6, <3>4, <3>6, <3>8 DEF Reads
      <4>2. Reads(b, EndsAt(call(derive, DeclarationList, q), "EndOfFile"), {})
        BY <3>5, <3>7, <4>1, StatementsAt
      <4>3. reached(b) \in call(derive, DeclarationList, q) /\ At(reached(b)) = "EndOfFile"
        BY <3>6, <3>8, <4>2 DEF Reads, EndsAt
      <4>4. reached(b) \in Behind(derive, S, DeclarationList)
        BY <4>3, BehindIs
      <4> QED
        BY <3>3, <3>6, <3>8, <4>3, <4>4 DEF EndsAt
    <3>9. ASSUME ~HasBareBlock, NEW e \in EndsAt(E, "EndOfFile") PROVE Accepted(r) /\ reached(r) = e
      <4>1. e \in Behind(derive, S, DeclarationList) /\ At(e) = "EndOfFile"
        BY <2>3, <3>3, <3>9 DEF EndsAt
      <4>2. PICK q \in S : e \in call(derive, DeclarationList, q)
        BY <4>1, BehindIs
      <4>3. Accepted(a) /\ reached(a) = q
        BY <1>6, <3>4, <3>9 DEF Reads
      <4>4. Reads(b, EndsAt(call(derive, DeclarationList, q), "EndOfFile"), {})
        BY <3>5, <3>7, <4>3, StatementsAt
      <4>5. Accepted(b) /\ reached(b) = e
        BY <3>9, <4>1, <4>2, <4>4 DEF Reads, EndsAt
      <4> QED
        BY <3>6, <4>3, <4>5
    <3> QED
      BY <3>8, <3>9 DEF Reads
  <2> QED
    BY <2>1, <2>2, <2>3
<1> QED
  BY <1>1, <1>2, <1>8, DecidesIs

LEMMA DecidedBefore ==
    ASSUME IsFile, NEW r \in Routines, NEW p \in Positions,
           \A h \in Routines : \A q \in Positions : Before(h, q, r, p) => Decides(h, q)
    PROVE  Decides(r, p)
<1>1. DecidedBehind(p)
  BY DEF DecidedBehind, Before
<1>2. \A h \in Routines : Rank(h) < Rank(r) => Decides(h, p)
  BY DEF Before
<1>3. \A t \in 1 .. 8 : t \in Routines
  BY RoutineFacts
<1>4. CASE r = Expression
  <2>1. Decides(1, p)
    BY <1>2, <1>3, <1>4, Ranks
  <2> QED
    BY <1>1, <1>4, <2>1, ExpressionDecided
<1>5. CASE r \in 1 .. 7
  <2>1. r + 1 \in 1 .. 8 /\ Rank(r + 1) < Rank(r)
    BY <1>5, Ranks
  <2>2. Decides(r + 1, p)
    BY <1>2, <1>3, <2>1
  <2> QED
    BY <1>1, <1>5, <2>2, TierDecided
<1>6. CASE r = ExpressionList
  <2>1. Decides(Expression, p)
    BY <1>2, <1>6, Ranks, RoutineFacts
  <2> QED
    BY <1>1, <1>6, <2>1, ExpressionListDecided
<1>7. CASE r = TypeList
  <2>1. Decides(TypeSyntax, p)
    BY <1>2, <1>7, Ranks, RoutineFacts
  <2> QED
    BY <1>1, <1>7, <2>1, TypeListDecided
<1>8. CASE r = StatementList
  <2>1. Decides(Expression, p)
    BY <1>2, <1>8, Ranks, RoutineFacts
  <2> QED
    BY <1>1, <1>8, <2>1, StatementListDecided
<1>9. CASE \E tier \in 1 .. 7 : r = Rest(tier)
  BY <1>1, <1>9, RestDecided
<1>10. CASE r \in {UnaryTier, SuffixList, TypeSyntax, ElseList, ParamList, DeclarationList}
  BY <1>1, <1>10, UnaryDecided, SuffixListDecided, TypeDecided, ElsesDecided, ParamListDecided,
     DeclarationListDecided
<1> QED
  BY <1>4, <1>5, <1>6, <1>7, <1>8, <1>9, <1>10, EveryRoutine

\* Wherever in a file a routine of the parser is called, it stops at an end
\* that the grammar derives; and where no block is a statement by itself, at
\* every end that nothing behind it could continue.
THEOREM ParserReadsTheGrammar ==
    ASSUME IsFile
    PROVE  \A r \in Routines : \A p \in Positions : Decides(r, p)
<1> DEFINE G == {x \in Routines \X Positions : Decides(x[1], x[2])}
<1>1. \A r \in Routines : \A p \in Positions : <<r, p>> \in G <=> Decides(r, p)
  BY Zenon
<1> HIDE DEF G
<1>2. ASSUME NEW r \in Routines, NEW p \in Positions,
             \A h \in Routines : \A q \in Positions : Before(h, q, r, p) => <<h, q>> \in G
      PROVE  <<r, p>> \in G
  <2>1. \A h \in Routines : \A q \in Positions : Before(h, q, r, p) => Decides(h, q)
    BY <1>1, <1>2
  <2>2. Decides(r, p)
    BY <2>1, DecidedBefore
  <2> QED
    BY <1>1, <2>2
<1>3. \A r \in Routines : \A p \in Positions : <<r, p>> \in G
  BY <1>2, AlongTheCalls
<1> QED
  BY <1>1, <1>3

LEMMA FileDecided ==
    ASSUME IsFile
    PROVE  AcceptsTheGrammar
<1>1. PICK r : r = call(parse, DeclarationList, 1)
  OBVIOUS
<1>2. PICK E : E = call(derive, DeclarationList, 1)
  OBVIOUS
<1>3. 1 \in Positions
  BY PositionFacts
<1>4. Reads(r, EndsAt(E, "EndOfFile"), {})
  BY <1>1, <1>2, <1>3, ParserReadsTheGrammar, DecidesIs, RoutineFacts
<1>5. \A e \in E : e \in Positions
  BY <1>2, <1>3, EndsAhead, RoutineFacts
<1>6. \A e \in E : At(e) = "EndOfFile" <=> e = End
  BY <1>5, PositionFacts
<1>7. Accepted(Result) <=> Accepted(r)
  BY <1>1, ParsedShape DEF Result, parseSourceFile, Then
<1>8. /\ Accepted(r) => \E e \in E : At(e) = "EndOfFile"
      /\ ~HasBareBlock /\ (\E e \in E : At(e) = "EndOfFile") => Accepted(r)
  BY <1>4 DEF Reads, EndsAt
<1>9. IsProgram <=> End \in E
  BY <1>2 DEF IsProgram, End
<1> QED
  BY <1>6, <1>7, <1>8, <1>9 DEF AcceptsTheGrammar

\* What typing keeps true of the file.
Files == IsFile /\ family \in Families

LEMMA FilesGrow ==
    ASSUME Files, NEW more \in Seq(STRING), \A k \in DOMAIN more : more[k] # "EndOfFile",
           tokens' = tokens \o more, family' = family
    PROVE  Files'
<1>1. tokens \in Seq(STRING) /\ \A k \in DOMAIN tokens : tokens[k] # "EndOfFile"
  BY DEF Files, IsFile, IsText
<1>2. tokens' \in Seq(STRING)
  BY <1>1
<1>3. ASSUME NEW k \in DOMAIN tokens' PROVE tokens'[k] # "EndOfFile"
  BY <1>1, <1>3
<1> QED
  BY <1>2, <1>3 DEF Files, IsFile, IsText

LEMMA FilesAlways == Spec => []Files
<1>1. Init => Files
  BY ParserRunAssumption DEF Init, Files, IsFile, IsText
<1>2. Files /\ [Next]_vars => Files'
  <2> SUFFICES ASSUME Files, [Next]_vars PROVE Files'
    OBVIOUS
  <2>1. CASE Type
    <3>1. PICK token \in family.alphabet : tokens' = Append(tokens, token) /\ family' = family
      BY <2>1 DEF Type
    <3>2. token \in STRING /\ token # "EndOfFile"
      BY <3>1, ParserRunAssumption DEF Files, IsText
    <3>3. /\ tokens' = tokens \o <<token>> /\ <<token>> \in Seq(STRING)
          /\ \A k \in DOMAIN <<token>> : <<token>>[k] # "EndOfFile"
      BY <3>1, <3>2 DEF Files, IsFile, IsText
    <3> QED
      BY <3>1, <3>3, FilesGrow
  <2>2. CASE Finish
    <3>1. PICK ending \in family.endings : tokens' = tokens \o ending /\ family' = family
      BY <2>2 DEF Finish
    <3>2. ending \in Seq(STRING) /\ \A k \in DOMAIN ending : ending[k] # "EndOfFile"
      BY <3>1, ParserRunAssumption DEF Files, IsText
    <3> QED
      BY <3>1, <3>2, FilesGrow
  <2>3. CASE UNCHANGED vars
    BY <2>3 DEF vars, Files, IsFile
  <2> QED
    BY <2>1, <2>2, <2>3 DEF Next
<1> QED
  BY <1>1, <1>2, PTL DEF Spec

\* Whatever the tokens of a file and however many: the parser accepts it only
\* if the grammar derives it, and always if no block in it is a statement by
\* itself.
THEOREM ParserDecidesTheGrammar == Spec => []AcceptsTheGrammar
<1>1. Files => AcceptsTheGrammar
  BY FileDecided DEF Files
<1> QED
  BY <1>1, FilesAlways, PTL

----------------------------------------------------------------------------
(* The tree: every node that a routine of the parser builds covers its span *)
(* of the file, and so does every node below it.                            *)

LEMMA WholeNode ==
    ASSUME NEW n, Covers(n), Stratified(n), \A m \in Parts(n) : Whole(m)
    PROVE  Whole(n)
<1> DEFINE Below(m) == CHOOSE N : m \in N /\ Closed(N)
           N == {n} \cup UNION {Below(m) : m \in Parts(n)}
<1>1. \A m \in Parts(n) : m \in Below(m) /\ Closed(Below(m))
  BY DEF Whole
<1> HIDE DEF Below
<1>2. Closed(N)
  <2>1. Parts(n) \subseteq N
    BY <1>1
  <2>2. ASSUME NEW m \in N, m # n PROVE Covers(m) /\ Stratified(m) /\ Parts(m) \subseteq N
    <3>1. PICK x \in Parts(n) : m \in Below(x)
      BY <2>2
    <3>2. Closed(Below(x))
      BY <1>1
    <3> QED
      BY <3>1, <3>2 DEF Closed
  <2> QED
    BY <2>1, <2>2 DEF Closed
<1> QED
  BY <1>2 DEF Whole

LEMMA WholePart ==
    ASSUME NEW nodes, Wholes(nodes)
    PROVE  \A m \in Range(nodes) : Whole(m)
<1>1. PICK S : nodes \in Seq(S) /\ \A m \in S : Whole(m)
  BY DEF Wholes
<1>2. Range(nodes) \subseteq S
  BY <1>1 DEF Range
<1> QED
  BY <1>1, <1>2

LEMMA NoNodes ==
    ASSUME NEW nodes, nodes = <<>>
    PROVE  Wholes(nodes) /\ Range(nodes) = {} /\ DOMAIN nodes = {} /\ Len(nodes) = 0
<1>1. nodes \in Seq({}) /\ Len(nodes) = 0
  OBVIOUS
<1>2. DOMAIN nodes = {}
  BY <1>1
<1> QED
  BY <1>1, <1>2 DEF Wholes, Range

LEMMA OneNode ==
    ASSUME NEW x, Whole(x), NEW nodes, nodes = <<x>>
    PROVE  /\ Wholes(nodes) /\ Range(nodes) = {x} /\ nodes # <<>>
           /\ Len(nodes) = 1 /\ DOMAIN nodes = {1} /\ nodes[1] = x
<1>1. nodes \in Seq({x}) /\ Len(nodes) = 1 /\ nodes[1] = x
  OBVIOUS
<1>2. DOMAIN nodes = {1} /\ nodes # <<>>
  BY <1>1
<1>3. Range(nodes) = {x}
  BY <1>1, <1>2 DEF Range
<1> QED
  BY <1>1, <1>2, <1>3 DEF Wholes

LEMMA MoreNodes ==
    ASSUME NEW x, Whole(x), NEW others, Wholes(others), NEW nodes, nodes = <<x>> \o others
    PROVE  /\ Wholes(nodes) /\ nodes # <<>> /\ Len(others) \in Nat
           /\ DOMAIN nodes = 1 .. Len(nodes) /\ DOMAIN others = 1 .. Len(others)
           /\ Len(nodes) = Len(others) + 1 /\ nodes[1] = x
           /\ \A k \in 1 .. Len(others) : nodes[k + 1] = others[k]
<1>1. PICK S : others \in Seq(S) /\ \A m \in S : Whole(m)
  BY DEF Wholes
<1>2. PICK T : T = {x} \cup S
  OBVIOUS
<1>3. <<x>> \in Seq(T) /\ others \in Seq(T)
  BY <1>1, <1>2
<1>4. nodes \in Seq(T) /\ \A m \in T : Whole(m)
  BY <1>1, <1>2, <1>3
<1> QED
  BY <1>1, <1>3, <1>4 DEF Wholes

LEMMA SpansIs ==
    ASSUME IsFile, NEW n, NEW p, NEW q, Spans(n, p, q)
    PROVE  /\ p \in Nat /\ q \in Nat /\ 1 <= p /\ p < q /\ q <= Len(tokens) + 1
           /\ p \in Positions /\ q \in Positions
           /\ n.from = p /\ n.to = q - 1 /\ Whole(n) /\ Within(n, 1, Len(tokens) + 1)
BY PositionFacts DEF Spans, Within, End

----------------------------------------------------------------------------
(* Lists *)

LEMMA SequencedNone ==
    ASSUME IsFile, NEW gap, NEW p \in Positions, NEW q \in Positions, p <= q,
           \A k \in Positions : p <= k /\ k < q => At(k) \in gap,
           NEW nodes, nodes = <<>>
    PROVE  Sequenced(nodes, gap, p, q)
<1>1. \A k \in p .. q - 1 : k \in Positions /\ p <= k /\ k < q
  BY PositionFacts
<1> QED
  BY <1>1, NoNodes DEF Sequenced

\* A node, and what follows it, behind a gap.
LEMMA SequencedMore ==
    ASSUME IsFile, NEW gap, NEW x, NEW others, Whole(x), Wholes(others),
           NEW p \in Positions, NEW q \in Positions, p <= q,
           \A k \in Positions : p <= k /\ k < q => At(k) \in gap,
           x.from = q, x.to \in Int, q <= x.to,
           NEW j \in Positions, Sequenced(others, gap, x.to + 1, j),
           NEW nodes, nodes = <<x>> \o others
    PROVE  Sequenced(nodes, gap, p, j)
<1>0. p \in Nat /\ q \in Nat /\ j \in Nat /\ 1 <= p /\ j <= End /\ End \in Nat
  BY PositionFacts
<1>1. /\ Len(others) \in Nat /\ DOMAIN nodes = 1 .. Len(nodes) /\ DOMAIN others = 1 .. Len(others)
      /\ Len(nodes) = Len(others) + 1 /\ nodes[1] = x
      /\ \A k \in 1 .. Len(others) : nodes[k + 1] = others[k]
  BY MoreNodes
<1>2. /\ x.to + 1 <= j
      /\ \A k \in DOMAIN others : Within(others[k], x.to + 1, j)
      /\ \A k, m \in DOMAIN others : k < m => others[k].to < others[m].from
      /\ \A k \in x.to + 1 .. j - 1 :
            At(k) \in gap \/ \E m \in DOMAIN others : k \in others[m].from .. others[m].to
  BY DEF Sequenced
<1>3. ASSUME NEW k \in DOMAIN nodes, k # 1
      PROVE  k - 1 \in 1 .. Len(others) /\ nodes[k] = others[k - 1]
  <2>1. k - 1 \in 1 .. Len(others) /\ (k - 1) + 1 = k
    BY <1>1, <1>3
  <2> QED
    BY <1>1, <2>1
<1>4. ASSUME NEW k \in DOMAIN nodes PROVE Within(nodes[k], p, j)
  <2>1. CASE k = 1
    BY <1>0, <1>1, <1>2, <2>1 DEF Within
  <2>2. CASE k # 1
    <3>1. Within(others[k - 1], x.to + 1, j) /\ nodes[k] = others[k - 1]
      BY <1>1, <1>2, <1>3, <2>2
    <3> QED
      BY <1>0, <3>1 DEF Within
  <2> QED
    BY <2>1, <2>2
<1>5. ASSUME NEW k \in DOMAIN nodes, NEW m \in DOMAIN nodes, k < m PROVE nodes[k].to < nodes[m].from
  <2>0. k \in Nat /\ m \in Nat /\ k >= 1
    BY <1>1
  <2>1. m - 1 \in DOMAIN others /\ nodes[m] = others[m - 1] /\ m # 1
    BY <1>1, <1>3, <1>5, <2>0
  <2>2. CASE k = 1
    <3>1. Within(others[m - 1], x.to + 1, j)
      BY <1>2, <2>1
    <3>2. x.to < others[m - 1].from
      BY <1>0, <3>1 DEF Within
    <3> QED
      BY <1>1, <2>1, <2>2, <3>2
  <2>3. CASE k # 1
    <3>1. nodes[k] = others[k - 1] /\ k - 1 \in DOMAIN others /\ k - 1 < m - 1
      BY <1>1, <1>3, <1>5, <2>0, <2>3
    <3> QED
      BY <1>2, <2>1, <3>1
  <2> QED
    BY <2>2, <2>3
<1>6. ASSUME NEW k \in p .. j - 1
      PROVE  At(k) \in gap \/ \E m \in DOMAIN nodes : k \in nodes[m].from .. nodes[m].to
  <2>1. CASE k < q
    <3>1. k \in Nat /\ 1 <= k /\ k <= End /\ p <= k
      BY <1>0
    <3>2. k \in Positions
      BY <3>1, PositionFacts
    <3> QED
      BY <2>1, <3>1, <3>2
  <2>2. CASE q <= k /\ k <= x.to
    <3>1. k \in x.from .. x.to /\ 1 \in DOMAIN nodes
      BY <1>0, <1>1, <2>2
    <3> QED
      BY <1>1, <3>1
  <2>3. CASE x.to < k
    <3>1. k \in x.to + 1 .. j - 1
      BY <1>0, <2>3
    <3>2. CASE \E m \in DOMAIN others : k \in others[m].from .. others[m].to
      <4>1. PICK m \in 1 .. Len(others) : k \in others[m].from .. others[m].to
        BY <1>1, <3>2
      <4>2. m + 1 \in DOMAIN nodes /\ nodes[m + 1] = others[m]
        BY <1>1
      <4> QED
        BY <4>1, <4>2
    <3> QED
      BY <1>2, <3>1, <3>2
  <2> QED
    BY <1>0, <2>1, <2>2, <2>3
<1>7. p <= j
  BY <1>0, <1>2
<1> QED
  BY <1>4, <1>5, <1>6, <1>7 DEF Sequenced

LEMMA ListedOne ==
    ASSUME IsFile, NEW gap, NEW x, Whole(x), NEW p \in Positions, NEW i \in Positions, NEW j \in Positions,
           p <= x.from, x.from <= x.to, x.to < i, i <= j, x.from \in Int, x.to = i - 1,
           Only(gap, p, x.from), Only(gap, i, j), NEW nodes, nodes = <<x>>
    PROVE  Listed(nodes, gap, p, j)
<1>0. p \in Nat /\ i \in Nat /\ j \in Nat
  BY PositionFacts
<1>1. nodes # <<>> /\ Len(nodes) = 1 /\ DOMAIN nodes = {1} /\ nodes[1] = x /\ 1 .. Len(nodes) - 1 = {}
  BY OneNode
<1>2. x.to + 1 = i /\ Within(x, p, j)
  BY <1>0 DEF Within
<1>3. p <= j
  BY <1>0
<1> QED
  BY <1>1, <1>2, <1>3 DEF Listed

\* A node, a comma, and the list that follows it.
LEMMA ListedMore ==
    ASSUME IsFile, NEW gap, NEW x, Whole(x), NEW others, Wholes(others), others # <<>>,
           NEW p \in Positions, NEW i \in Positions, NEW c \in Positions, NEW j \in Positions,
           p <= x.from, x.from <= x.to, x.from \in Int, x.to = i - 1, i <= c,
           Only(gap, p, x.from), Only(gap, i, c), At(c) = "Comma",
           Listed(others, gap, c + 1, j), NEW nodes, nodes = <<x>> \o others
    PROVE  Listed(nodes, gap, p, j)
<1>0. p \in Nat /\ i \in Nat /\ j \in Nat /\ c \in Nat
  BY PositionFacts
<1>1. /\ Len(others) \in Nat /\ DOMAIN nodes = 1 .. Len(nodes) /\ DOMAIN others = 1 .. Len(others)
      /\ Len(nodes) = Len(others) + 1 /\ nodes[1] = x /\ nodes # <<>>
      /\ \A k \in 1 .. Len(others) : nodes[k + 1] = others[k]
  BY MoreNodes
<1>2. /\ Only(gap, c + 1, others[1].from) /\ Only(gap, others[Len(others)].to + 1, j)
      /\ \A k \in DOMAIN others : Within(others[k], c + 1, j)
      /\ \A k \in 1 .. Len(others) - 1 :
            \E comma \in others[k].to + 1 .. others[k + 1].from - 1 :
               /\ At(comma) = "Comma"
               /\ Only(gap, others[k].to + 1, comma) /\ Only(gap, comma + 1, others[k + 1].from)
  BY DEF Listed
<1>3. Len(others) >= 1 /\ 1 \in DOMAIN others /\ nodes[Len(nodes)] = others[Len(others)]
  <2>1. Len(others) # 0
    <3>1. PICK S : others \in Seq(S)
      BY DEF Wholes
    <3> QED
      BY <3>1
  <2> QED
    BY <1>1, <2>1
<1>4. ASSUME NEW k \in DOMAIN nodes, k # 1
      PROVE  k - 1 \in 1 .. Len(others) /\ nodes[k] = others[k - 1]
  <2>1. k - 1 \in 1 .. Len(others) /\ (k - 1) + 1 = k
    BY <1>1, <1>4
  <2> QED
    BY <1>1, <2>1
<1>5. ASSUME NEW k \in DOMAIN nodes PROVE Within(nodes[k], p, j)
  <2>1. CASE k = 1
    <3>1. Within(others[1], c + 1, j)
      BY <1>2, <1>3
    <3> QED
      BY <1>0, <1>1, <2>1, <3>1 DEF Within
  <2>2. CASE k # 1
    <3>1. PICK y : y = nodes[k]
      OBVIOUS
    <3>2. Within(y, c + 1, j)
      BY <1>1, <1>2, <1>4, <2>2, <3>1
    <3>3. c + 1 <= y.from /\ p <= c + 1
      BY <1>0, <3>2 DEF Within
    <3>4. Within(y, p, j)
      BY <1>0, <3>2, <3>3 DEF Within
    <3> QED
      BY <3>1, <3>4
  <2> QED
    BY <2>1, <2>2
<1>6. ASSUME NEW k \in 1 .. Len(nodes) - 1
      PROVE  \E comma \in nodes[k].to + 1 .. nodes[k + 1].from - 1 :
                /\ At(comma) = "Comma"
                /\ Only(gap, nodes[k].to + 1, comma) /\ Only(gap, comma + 1, nodes[k + 1].from)
  <2>1. k \in 1 .. Len(others) /\ nodes[k + 1] = others[k] /\ k \in DOMAIN nodes
    BY <1>1
  <2>2. CASE k = 1
    <3>1. Within(others[1], c + 1, j)
      BY <1>2, <1>3
    <3>2. nodes[1] = x /\ nodes[1 + 1] = others[1] /\ x.to + 1 = i
      BY <1>0, <1>1, <1>3
    <3>3. c \in nodes[1].to + 1 .. nodes[1 + 1].from - 1
      BY <1>0, <3>1, <3>2 DEF Within
    <3> QED
      BY <1>2, <2>2, <3>2, <3>3
  <2>3. CASE k # 1
    <3>1. nodes[k] = others[k - 1] /\ k - 1 \in 1 .. Len(others) - 1 /\ (k - 1) + 1 = k
      BY <1>1, <1>4, <2>1, <2>3
    <3> QED
      BY <1>2, <2>1, <3>1
  <2> QED
    BY <2>2, <2>3
<1>7. p <= j
  <2>1. Within(nodes[1], p, j) /\ nodes[1] = x
    BY <1>1, <1>5
  <2> QED
    BY <1>0, <2>1 DEF Within
<1> QED
  BY <1>1, <1>2, <1>3, <1>5, <1>6, <1>7 DEF Listed

LEMMA OnlyNone == \A gap, i : i \in Int => Only(gap, i, i)
BY DEF Only

----------------------------------------------------------------------------
(* The loops: folding what was read onto the expression before it *)

\* What is so for 0, and for the next number after each for which it is.
LEMMA EveryNumber ==
    ASSUME NEW n \in Nat, NEW G, 0 \in G, \A k \in 0 .. n : k \in G /\ k < n => k + 1 \in G
    PROVE  \A k \in 0 .. n : k \in G
<1> SUFFICES ASSUME NEW j \in 0 .. n, j \notin G PROVE FALSE
  OBVIOUS
<1> DEFINE T == {k \in 0 .. n : k \notin G}
<1>1. PICK m \in T : \A k \in T : m <= k
  <2>1. T \in SUBSET Nat /\ j \in T
    OBVIOUS
  <2> HIDE DEF T
  <2> QED
    BY <2>1, LeastNumber
<1>2. m # 0 /\ m - 1 \in 0 .. n /\ m - 1 < n /\ m \in 1 .. n
  OBVIOUS
<1>3. m - 1 \in G
  BY <1>1, <1>2
<1>4. (m - 1) + 1 \in G
  BY <1>2, <1>3
<1> QED
  BY <1>2, <1>4

\* What FoldLeft goes by: g has what the elements with these indices make of e.
FoldOf(loop, g, n, e, s) ==
    g = [T \in SUBSET (1 .. n) |-> IF T = {} THEN e ELSE Joined(loop, g[T \ {Max(T)}], s[Max(T)])]

LEMMA GreatestOf ==
    ASSUME NEW n \in Nat, NEW T \in SUBSET (1 .. n + 1)
    PROVE  /\ n + 1 \in T => Max(T) = n + 1 /\ T \ {n + 1} \in SUBSET (1 .. n)
           /\ n + 1 \notin T => T \in SUBSET (1 .. n)
<1>1. ASSUME n + 1 \in T PROVE Max(T) = n + 1
  <2>1. \A y \in T : y \in Int /\ n + 1 >= y
    OBVIOUS
  <2>2. \E x \in T : \A y \in T : x >= y
    BY <1>1, <2>1
  <2>3. Max(T) \in T /\ \A y \in T : Max(T) >= y
    BY <2>2 DEF Max
  <2>4. Max(T) >= n + 1 /\ n + 1 >= Max(T) /\ Max(T) \in Int
    BY <1>1, <2>1, <2>3
  <2> QED
    BY <2>4
<1>2. \A y \in T : y # n + 1 => y \in 1 .. n
  OBVIOUS
<1> QED
  BY <1>1, <1>2

LEMMA FoldExists ==
    ASSUME NEW loop, NEW n \in Nat, NEW e, NEW s
    PROVE  \E g : FoldOf(loop, g, n, e, s)
<1> DEFINE G == {k \in 0 .. n : \E g : FoldOf(loop, g, k, e, s)}
<1>1. 0 \in G
  <2>1. PICK g : g = [T \in SUBSET (1 .. 0) |-> e]
    OBVIOUS
  <2>2. \A T \in SUBSET (1 .. 0) : T = {}
    OBVIOUS
  <2>3. FoldOf(loop, g, 0, e, s)
    BY <2>1, <2>2 DEF FoldOf
  <2> QED
    BY <2>3
<1>2. ASSUME NEW k \in 0 .. n, k \in G, k < n PROVE k + 1 \in G
  <2>1. PICK g : FoldOf(loop, g, k, e, s)
    BY <1>2
  <2>2. PICK h : h = [T \in SUBSET (1 .. k + 1) |->
                        IF k + 1 \in T THEN Joined(loop, g[T \ {k + 1}], s[k + 1]) ELSE g[T]]
    OBVIOUS
  <2>3. \A T \in SUBSET (1 .. k) : T \in SUBSET (1 .. k + 1) /\ k + 1 \notin T
    OBVIOUS
  <2>4. \A T \in SUBSET (1 .. k) : h[T] = g[T]
    BY <2>2, <2>3
  <2>5. ASSUME NEW T \in SUBSET (1 .. k + 1)
        PROVE  h[T] = IF T = {} THEN e ELSE Joined(loop, h[T \ {Max(T)}], s[Max(T)])
    <3>1. CASE k + 1 \in T
      <4>1. Max(T) = k + 1 /\ T \ {k + 1} \in SUBSET (1 .. k)
        BY <3>1, GreatestOf
      <4>2. h[T \ {k + 1}] = g[T \ {k + 1}]
        BY <2>4, <4>1
      <4> QED
        BY <2>2, <3>1, <4>1, <4>2
    <3>2. CASE k + 1 \notin T
      <4>0. T \in SUBSET (1 .. k)
        BY <3>2, GreatestOf
      <4>1. T \ {Max(T)} \in SUBSET (1 .. k)
        BY <4>0
      <4>2. h[T] = g[T] /\ h[T \ {Max(T)}] = g[T \ {Max(T)}]
        BY <2>4, <4>0, <4>1
      <4>3. g[T] = IF T = {} THEN e ELSE Joined(loop, g[T \ {Max(T)}], s[Max(T)])
        BY <2>1, <4>0 DEF FoldOf
      <4> QED
        BY <4>2, <4>3
    <3> QED
      BY <3>1, <3>2
  <2>6. FoldOf(loop, h, k + 1, e, s)
    <3>1. DOMAIN h = SUBSET (1 .. k + 1) /\ h = [T \in DOMAIN h |-> h[T]]
      BY <2>2
    <3> QED
      BY <2>5, <3>1 DEF FoldOf
  <2> QED
    BY <1>2, <2>6
<1>3. n \in G
  <2> HIDE DEF G
  <2> QED
    BY <1>1, <1>2, EveryNumber
<1> QED
  BY <1>3

\* What the library's fold is.
LEMMA FoldIs ==
    ASSUME NEW loop, NEW n \in Nat, NEW e, NEW s, DOMAIN s = 1 .. n
    PROVE  \E g : FoldOf(loop, g, n, e, s) /\ Folded(loop, e, s) = g[1 .. n]
<1>1. CASE loop = SuffixList
  <2> DEFINE P(h) == h = [T \in SUBSET (1 .. n) |->
                            IF T = {} THEN e ELSE Suffixed(h[T \ {Max(T)}], s[Max(T)])]
             g == CHOOSE h : P(h)
  <2>1. \A h : P(h) <=> FoldOf(loop, h, n, e, s)
    BY <1>1 DEF FoldOf, Joined
  <2>2. P(g)
    <3>1. \E h : P(h)
      BY <2>1, FoldExists
    <3> QED
      BY <3>1
  <2>3. Folded(loop, e, s) = g[1 .. n]
    BY <1>1 DEF Folded, FoldLeft, MapThenFoldSet
  <2> QED
    BY <2>1, <2>2, <2>3
<1>2. CASE loop # SuffixList
  <2> DEFINE P(h) == h = [T \in SUBSET (1 .. n) |->
                            IF T = {} THEN e ELSE Extended(h[T \ {Max(T)}], s[Max(T)])]
             g == CHOOSE h : P(h)
  <2>1. \A h : P(h) <=> FoldOf(loop, h, n, e, s)
    BY <1>2 DEF FoldOf, Joined
  <2>2. P(g)
    <3>1. \E h : P(h)
      BY <2>1, FoldExists
    <3> QED
      BY <3>1
  <2>3. Folded(loop, e, s) = g[1 .. n]
    BY <1>2 DEF Folded, FoldLeft, MapThenFoldSet
  <2> QED
    BY <2>1, <2>2, <2>3
<1> QED
  BY <1>1, <1>2

\* What is folded so far, after each element.
FoldedSoFar(F, loop, e, s) ==
    /\ F[0] = e /\ F[Len(s)] = Folded(loop, e, s)
    /\ \A k \in 1 .. Len(s) : F[k] = Joined(loop, F[k - 1], s[k])

LEMMA FoldSteps ==
    ASSUME NEW loop, NEW S, NEW s \in Seq(S), NEW e
    PROVE  \E F : FoldedSoFar(F, loop, e, s)
<1> DEFINE n == Len(s)
<1>1. n \in Nat /\ DOMAIN s = 1 .. n
  OBVIOUS
<1>2. PICK g : FoldOf(loop, g, n, e, s) /\ Folded(loop, e, s) = g[1 .. n]
  BY <1>1, FoldIs
<1>3. PICK F : F = [k \in 0 .. n |-> g[1 .. k]]
  OBVIOUS
<1>4. F[0] = e
  <2>1. 1 .. 0 = {} /\ {} \in SUBSET (1 .. n)
    OBVIOUS
  <2> QED
    BY <1>2, <1>3, <2>1 DEF FoldOf
<1>5. ASSUME NEW k \in 1 .. n PROVE F[k] = Joined(loop, F[k - 1], s[k])
  <2>0. k - 1 \in Nat /\ (k - 1) + 1 = k /\ k \in 1 .. k
    OBVIOUS
  <2>1. 1 .. k \in SUBSET (1 .. n) /\ 1 .. k # {}
    BY <1>1
  <2>2. Max(1 .. k) = k
    <3>1. 1 .. k \in SUBSET (1 .. (k - 1) + 1) /\ (k - 1) + 1 \in 1 .. k
      BY <2>0
    <3> QED
      BY <2>0, <3>1, GreatestOf
  <2>3. (1 .. k) \ {k} = 1 .. k - 1
    BY <2>0
  <2>4. g[1 .. k] = Joined(loop, g[1 .. k - 1], s[k])
    BY <1>2, <2>1, <2>2, <2>3 DEF FoldOf
  <2> QED
    BY <1>3, <2>4
<1>6. F[n] = g[1 .. n]
  BY <1>1, <1>3
<1> QED
  BY <1>2, <1>4, <1>5, <1>6 DEF FoldedSoFar

\* The first goes onto the expression, and the others onto that.
LEMMA FoldedInOrder ==
    ASSUME NEW loop, NEW e, NEW S, NEW s \in Seq(S), NEW x
    PROVE  Folded(loop, e, <<x>> \o s) = Folded(loop, Joined(loop, e, x), s)
<1>1. PICK T : T = S \cup {x}
  OBVIOUS
<1>2. <<x>> \in Seq(T) /\ s \in Seq(T)
  BY <1>1
<1>3. PICK t : t = <<x>> \o s
  OBVIOUS
<1>4. t \in Seq(T) /\ Len(t) = Len(s) + 1 /\ t[1] = x /\ \A k \in 1 .. Len(s) : t[k + 1] = s[k]
  BY <1>2, <1>3
<1>5. PICK F : FoldedSoFar(F, loop, e, t)
  BY <1>4, FoldSteps
<1>6. PICK H : FoldedSoFar(H, loop, Joined(loop, e, x), s)
  BY FoldSteps
<1> DEFINE G == {k \in 0 .. Len(s) : F[k + 1] = H[k]}
<1>7. Len(s) \in Nat
  OBVIOUS
<1>8. 0 \in G
  <2>1. 1 \in 1 .. Len(t) /\ 1 - 1 = 0
    BY <1>4, <1>7
  <2>2. F[1] = Joined(loop, F[0], t[1])
    BY <1>5, <2>1 DEF FoldedSoFar
  <2>3. F[0] = e /\ H[0] = Joined(loop, e, x)
    BY <1>5, <1>6 DEF FoldedSoFar
  <2> QED
    BY <1>4, <1>7, <2>2, <2>3
<1>9. ASSUME NEW k \in 0 .. Len(s), k \in G, k < Len(s) PROVE k + 1 \in G
  <2>1. k + 1 \in 1 .. Len(s) /\ k + 1 + 1 \in 1 .. Len(t) /\ (k + 1) - 1 = k /\ (k + 1 + 1) - 1 = k + 1
    BY <1>4, <1>7, <1>9
  <2>2. F[k + 1 + 1] = Joined(loop, F[k + 1], t[k + 1 + 1])
    BY <1>5, <2>1 DEF FoldedSoFar
  <2>3. H[k + 1] = Joined(loop, H[k], s[k + 1])
    BY <1>6, <2>1 DEF FoldedSoFar
  <2>4. t[k + 1 + 1] = s[k + 1] /\ F[k + 1] = H[k] /\ k + 1 \in 0 .. Len(s)
    BY <1>4, <1>7, <1>9, <2>1
  <2>5. PICK m : m = k + 1
    OBVIOUS
  <2>6. m \in 0 .. Len(s) /\ F[m + 1] = H[m]
    BY <2>2, <2>3, <2>4, <2>5
  <2>7. m \in G
    BY <2>6
  <2> QED
    BY <2>5, <2>7
<1>10. Len(s) \in G
  <2> HIDE DEF G
  <2>1. PICK n \in Nat : n = Len(s)
    BY <1>7
  <2>2. \A k \in 0 .. n : k \in G /\ k < n => k + 1 \in G
    BY <1>9, <2>1
  <2>3. \A k \in 0 .. n : k \in G
    BY <1>8, <2>2, EveryNumber
  <2> QED
    BY <2>1, <2>3
<1>11. F[Len(t)] = H[Len(s)]
  BY <1>4, <1>10
<1> QED
  BY <1>3, <1>5, <1>6, <1>11 DEF FoldedSoFar

LEMMA FoldedNone ==
    ASSUME NEW loop, NEW e
    PROVE  Folded(loop, e, <<>>) = e
<1>1. PICK s : s = <<>>
  OBVIOUS
<1>2. s \in Seq({}) /\ Len(s) = 0
  BY <1>1
<1>3. PICK F : FoldedSoFar(F, loop, e, s)
  BY <1>2, FoldSteps
<1> QED
  BY <1>1, <1>2, <1>3 DEF FoldedSoFar

----------------------------------------------------------------------------
(* What each routine builds from the tokens from p to before q *)

BuildsBehind(p) == \A h \in Routines, q \in Positions : q > p => Builds(h, q)

LEMMA FitsIs ==
    ASSUME NEW v, NEW p, NEW q
    PROVE  /\ \A tier \in 0 .. 8 : Fits(tier, v, p, q) <=> Spans(v, p, q) /\ Level(v) \in tier .. 10
           /\ Fits(TypeSyntax, v, p, q) <=> Spans(v, p, q)
           /\ Fits(TypeList, v, p, q) <=> Wholes(v) /\ v # <<>> /\ Listed(v, {"Newline"}, p, q)
           /\ Fits(ExpressionList, v, p, q) <=> Wholes(v) /\ v # <<>> /\ Listed(v, {}, p, q)
           /\ Fits(ParamList, v, p, q) <=> Wholes(v) /\ v # <<>> /\ Listed(v, {}, p, q)
           /\ Fits(StatementList, v, p, q) <=> Wholes(v) /\ Sequenced(v, Separators, p, q)
           /\ Fits(DeclarationList, v, p, q) <=> Wholes(v) /\ Sequenced(v, Separators, p, q)
           /\ Fits(ElseList, v, p, q) <=> Branches(v, p, q)
           /\ Fits(SuffixList, v, p, q) <=> Carries(SuffixList, v, p, q)
           /\ \A tier \in 1 .. 7 : Fits(Rest(tier), v, p, q) <=> Carries(Rest(tier), v, p, q)
<1> USE DEF Expression, UnaryTier, SuffixList, ExpressionList, TypeSyntax, TypeList, StatementList,
        ElseList, ParamList, DeclarationList, Rest
<1>1. \A tier \in 0 .. 8 : Fits(tier, v, p, q) <=> Spans(v, p, q) /\ Level(v) \in tier .. 10
  BY DEF Fits
<1>2. /\ Fits(TypeSyntax, v, p, q) <=> Spans(v, p, q)
      /\ Fits(TypeList, v, p, q) <=> Wholes(v) /\ v # <<>> /\ Listed(v, {"Newline"}, p, q)
      /\ Fits(ExpressionList, v, p, q) <=> Wholes(v) /\ v # <<>> /\ Listed(v, {}, p, q)
      /\ Fits(ParamList, v, p, q) <=> Wholes(v) /\ v # <<>> /\ Listed(v, {}, p, q)
  BY DEF Fits
<1>3. /\ Fits(StatementList, v, p, q) <=> Wholes(v) /\ Sequenced(v, Separators, p, q)
      /\ Fits(DeclarationList, v, p, q) <=> Wholes(v) /\ Sequenced(v, Separators, p, q)
      /\ Fits(ElseList, v, p, q) <=> Branches(v, p, q)
      /\ Fits(SuffixList, v, p, q) <=> Carries(SuffixList, v, p, q)
  BY DEF Fits
<1>4. ASSUME NEW tier \in 1 .. 7 PROVE Fits(Rest(tier), v, p, q) <=> Carries(Rest(tier), v, p, q)
  <2>1. 10 + tier \notin 0 .. 8 /\ 10 + tier \notin {9, 10, 18, 19, 20, 21, 22, 23}
    OBVIOUS
  <2> QED
    BY <2>1 DEF Fits
<1> QED
  BY <1>1, <1>2, <1>3, <1>4

\* What a call further on is known to build, and where it stops.
LEMMA BuiltBy ==
    ASSUME IsFile, NEW h \in Routines, NEW q \in Positions, Builds(h, q), Accepted(call(parse, h, q))
    PROVE  /\ Fits(h, built(call(parse, h, q)), q, reached(call(parse, h, q)))
           /\ reached(call(parse, h, q)) \in Positions /\ reached(call(parse, h, q)) >= q
           /\ h \notin Nullable => reached(call(parse, h, q)) > q
<1>1. reached(call(parse, h, q)) \in Positions /\ q \in Nat /\ \A i \in Positions : i \in Nat
  BY ParserAdvances, PositionFacts
<1>2. IF h \in Nullable THEN reached(call(parse, h, q)) >= q ELSE reached(call(parse, h, q)) > q
  BY ParserAdvances
<1>3. Fits(h, built(call(parse, h, q)), q, reached(call(parse, h, q)))
  BY DEF Builds
<1>4. reached(call(parse, h, q)) \in Nat
  BY <1>1
<1> QED
  BY <1>1, <1>2, <1>3, <1>4

LEMMA BuiltBehind ==
    ASSUME IsFile, NEW p \in Positions, BuildsBehind(p), NEW h \in Routines, NEW q \in Positions, q > p,
           Accepted(call(parse, h, q))
    PROVE  /\ Fits(h, built(call(parse, h, q)), q, reached(call(parse, h, q)))
           /\ reached(call(parse, h, q)) \in Positions /\ reached(call(parse, h, q)) >= q
           /\ h \notin Nullable => reached(call(parse, h, q)) > q
<1>1. Builds(h, q)
  BY DEF BuildsBehind
<1> QED
  BY <1>1, BuiltBy

\* A type, or an expression, further on.
LEMMA TypeBehind ==
    ASSUME IsFile, NEW p \in Positions, BuildsBehind(p), NEW q \in Positions, q > p,
           NEW a, a = call(parse, TypeSyntax, q), Accepted(a)
    PROVE  Spans(built(a), q, reached(a))
BY BuiltBehind, FitsIs, RoutineFacts

LEMMA ExpressionBehind ==
    ASSUME IsFile, NEW p \in Positions, BuildsBehind(p), NEW q \in Positions, q > p,
           NEW a, a = call(parse, Expression, q), Accepted(a)
    PROVE  Spans(built(a), q, reached(a)) /\ Level(built(a)) \in 0 .. 10
<1>1. Expression \in 0 .. 8 /\ Expression = 0
  BY DEF Expression
<1> QED
  BY <1>1, BuiltBehind, FitsIs, RoutineFacts

LEMMA ResultIs ==
    ASSUME NEW value, NEW p, NEW r, r = Parsed(value, p)
    PROVE  Accepted(r) /\ built(r) = value /\ reached(r) = p
BY ParsedShape

----------------------------------------------------------------------------
(* Types *)

LEMMA CoversIs ==
    ASSUME NEW n
    PROVE  /\ n.node \in TypeNodes => (Covers(n) <=> Within(n, 1, Len(tokens) + 1) /\ CoversType(n))
           /\ n.node \in AtomNodes => (Covers(n) <=> Within(n, 1, Len(tokens) + 1) /\ CoversAtom(n))
           /\ n.node \in OperatorNodes =>
                 (Covers(n) <=> Within(n, 1, Len(tokens) + 1) /\ CoversOperator(n))
           /\ n.node \in StatementNodes =>
                 (Covers(n) <=> Within(n, 1, Len(tokens) + 1) /\ CoversStatement(n))
           /\ n.node \in PartNodes =>
                 (Covers(n) <=> Within(n, 1, Len(tokens) + 1) /\ CoversPart(n))
BY DEF Covers, TypeNodes, AtomNodes, OperatorNodes, StatementNodes, PartNodes

\* A node is over its tokens when it covers them and its parts are whole.
LEMMA SpansNode ==
    ASSUME IsFile, NEW p \in Positions, NEW q \in Positions, p < q,
           NEW n, n.from = p, n.to = q - 1,
           Within(n, 1, Len(tokens) + 1) => Covers(n), Stratified(n), \A m \in Parts(n) : Whole(m)
    PROVE  Spans(n, p, q)
<1>1. p \in Nat /\ q \in Nat /\ 1 <= p /\ q <= Len(tokens) + 1 /\ Len(tokens) + 1 \in Nat
  BY PositionFacts DEF End
<1>2. Within(n, 1, Len(tokens) + 1)
  BY <1>1 DEF Within
<1>3. Whole(n)
  BY <1>2, WholeNode
<1> QED
  BY <1>3 DEF Spans

LEMMA ReferenceBuilt ==
    ASSUME IsFile, NEW p \in Positions, BuildsBehind(p), At(p) = "&",
           NEW r, r = parseReferenceTypeSyntax(parse, p), Accepted(r)
    PROVE  Spans(built(r), p, reached(r))
<1>1. PICK mutable, q, a : /\ mutable = (At(p + 1) = "mut") /\ q = (IF mutable THEN p + 2 ELSE p + 1)
                           /\ a = call(parse, TypeSyntax, q)
  OBVIOUS
<1>2. Accepted(a) /\ r = Parsed(ReferenceType(mutable, p, built(a)), reached(a))
  BY <1>1 DEF parseReferenceTypeSyntax, Then
<1>3. p \in Nat /\ p + 1 \in Positions
  BY NextPosition
<1>4. mutable => p + 2 \in Positions
  <2>1. mutable => At(p + 1) # "EndOfFile"
    BY <1>1
  <2>2. p + 2 = (p + 1) + 1
    BY <1>3
  <2> QED
    BY <1>3, <2>1, <2>2, NextPosition
<1>5. q \in Positions /\ q > p
  BY <1>1, <1>3, <1>4
<1>6. PICK b, i : b = built(a) /\ i = reached(a) /\ Spans(b, q, i)
  BY <1>1, <1>2, <1>5, TypeBehind
<1>7. q \in Nat /\ i \in Nat /\ i \in Positions /\ q < i /\ b.from = q /\ b.to = i - 1 /\ Whole(b)
  BY <1>6, SpansIs DEF Spans
<1>8. PICK n : n = ReferenceType(mutable, p, b)
  OBVIOUS
<1>9. /\ n.node = "ReferenceType" /\ n.from = p /\ n.to = i - 1 /\ n.referent = b /\ n.mutable = mutable
      /\ p < i
  BY <1>3, <1>5, <1>7, <1>8 DEF ReferenceType
<1>10. CoversType(n)
  BY <1>1, <1>7, <1>9 DEF CoversType
<1>11. Stratified(n) /\ Parts(n) = {b}
  BY <1>9 DEF Stratified, Parts
<1>12. Spans(n, p, i)
  BY <1>7, <1>9, <1>10, <1>11, SpansNode, CoversIs DEF TypeNodes
<1> QED
  BY <1>2, <1>6, <1>8, <1>12, ResultIs

LEMMA BracketBuilt ==
    ASSUME IsFile, NEW p \in Positions, BuildsBehind(p), At(p) = "LeftBracket",
           NEW r, r = parseBracketTypeSyntax(parse, p), Accepted(r)
    PROVE  Spans(built(r), p, reached(r))
<1>1. PICK a : a = call(parse, TypeSyntax, p + 1)
  OBVIOUS
<1>2. p \in Nat /\ p + 1 \in Positions /\ p + 1 > p
  BY NextPosition
<1>3. Accepted(a)
  BY <1>1, BracketShape
<1>4. PICK b, i : b = built(a) /\ i = reached(a) /\ Spans(b, p + 1, i)
  BY <1>1, <1>2, <1>3, TypeBehind
<1>5. i \in Nat /\ i \in Positions /\ p + 1 < i /\ b.from = p + 1 /\ b.to = i - 1 /\ Whole(b)
  BY <1>4, SpansIs
<1>6. CASE At(i) = "Semicolon"
  <2>1. At(i + 1) = "IntegerLiteral" /\ At(i + 1 + 1) = "RightBracket"
    BY <1>1, <1>4, <1>6, BracketShape
  <2>2. r = Parsed(ArrayType(p, b, i + 1, i + 1 + 1), i + 1 + 1 + 1)
    BY <1>1, <1>3, <1>4, <1>6, <2>1, ExpectShape, ParsedShape DEF parseBracketTypeSyntax, Then
  <2>3. i + 1 \in Positions /\ i + 1 + 1 \in Positions /\ i + 1 + 1 + 1 \in Positions
    BY <1>5, <1>6, <2>1, NextPosition
  <2>4. PICK n : n = ArrayType(p, b, i + 1, i + 1 + 1)
    OBVIOUS
  <2>5. /\ n.node = "ArrayType" /\ n.from = p /\ n.to = i + 1 + 1 /\ n.element = b /\ n.length = i + 1
    BY <2>4 DEF ArrayType
  <2>6. CoversType(n)
    <3>1. n.element.to + 1 = i /\ n.element.from = n.from + 1 /\ n.length = n.element.to + 2
          /\ n.to = n.length + 1
      BY <1>2, <1>5, <2>5
    <3> QED
      BY <1>6, <2>1, <2>5, <3>1 DEF CoversType
  <2>7. Stratified(n) /\ Parts(n) = {b}
    BY <2>5 DEF Stratified, Parts
  <2>8. n.to = (i + 1 + 1 + 1) - 1 /\ p < i + 1 + 1 + 1
    BY <1>2, <1>5, <2>5
  <2>9. Spans(n, p, i + 1 + 1 + 1)
    BY <1>5, <2>3, <2>5, <2>6, <2>7, <2>8, SpansNode, CoversIs DEF TypeNodes
  <2> QED
    BY <2>2, <2>4, <2>9, ResultIs
<1>7. CASE At(i) # "Semicolon"
  <2>1. At(i) = "RightBracket"
    BY <1>1, <1>4, <1>7, BracketShape
  <2>2. r = Parsed(SliceType(p, b, i), i + 1)
    BY <1>1, <1>3, <1>4, <1>7, <2>1, ExpectShape, ParsedShape DEF parseBracketTypeSyntax, Then
  <2>3. i + 1 \in Positions
    BY <1>5, <2>1, NextPosition
  <2>4. PICK n : n = SliceType(p, b, i)
    OBVIOUS
  <2>5. n.node = "SliceType" /\ n.from = p /\ n.to = i /\ n.element = b
    BY <2>4 DEF SliceType
  <2>6. CoversType(n)
    <3>1. n.element.from = n.from + 1 /\ n.to = n.element.to + 1
      BY <1>2, <1>5, <2>5
    <3> QED
      BY <2>1, <2>5, <3>1 DEF CoversType
  <2>7. Stratified(n) /\ Parts(n) = {b}
    BY <2>5 DEF Stratified, Parts
  <2>8. n.to = (i + 1) - 1 /\ p < i + 1
    BY <1>2, <1>5, <2>5
  <2>9. Spans(n, p, i + 1)
    BY <1>5, <2>3, <2>5, <2>6, <2>7, <2>8, SpansNode, CoversIs DEF TypeNodes
  <2> QED
    BY <2>2, <2>4, <2>9, ResultIs
<1> QED
  BY <1>6, <1>7

LEMMA GenericBuilt ==
    ASSUME IsFile, NEW p \in Positions, BuildsBehind(p), At(p) = "Identifier", At(p + 1) = "<",
           NEW r, r = parseGenericTypeSyntax(parse, p), Accepted(r)
    PROVE  Spans(built(r), p, reached(r))
<1>1. PICK a : a = call(parse, TypeList, p + 2)
  OBVIOUS
<1>2. p \in Nat /\ p + 1 \in Positions /\ p + 2 \in Positions /\ p + 2 > p
  <2>1. p \in Nat /\ p + 1 \in Positions
    BY NextPosition
  <2>2. (p + 1) + 1 \in Positions /\ p + 2 = (p + 1) + 1
    BY <2>1, NextPosition
  <2> QED
    BY <2>1, <2>2
<1>3. Accepted(a) /\ At(reached(a)) = ">"
  BY <1>1, GenericShape
<1>4. PICK v, i : v = built(a) /\ i = reached(a)
  OBVIOUS
<1>5. /\ Wholes(v) /\ v # <<>> /\ Listed(v, {"Newline"}, p + 2, i)
      /\ i \in Positions /\ i >= p + 2
  BY <1>1, <1>2, <1>3, <1>4, BuiltBehind, FitsIs, RoutineFacts
<1>6. r = Parsed(GenericType(p, v, i), i + 1)
  BY <1>1, <1>3, <1>4, ExpectShape, ParsedShape DEF parseGenericTypeSyntax, Then
<1>7. i + 1 \in Positions /\ i \in Nat
  BY <1>3, <1>4, <1>5, NextPosition
<1>8. PICK n : n = GenericType(p, v, i)
  OBVIOUS
<1>9. n.node = "GenericType" /\ n.from = p /\ n.to = i /\ n.arguments = v
  BY <1>8 DEF GenericType
<1>10. CoversType(n)
  BY <1>3, <1>4, <1>5, <1>9 DEF CoversType
<1>11. Stratified(n) /\ Parts(n) = Range(v)
  BY <1>9 DEF Stratified, Parts
<1>12. n.to = (i + 1) - 1 /\ p < i + 1
  BY <1>2, <1>5, <1>7, <1>9
<1>13. \A m \in Parts(n) : Whole(m)
  BY <1>5, <1>11, WholePart
<1>14. Spans(n, p, i + 1)
  BY <1>7, <1>9, <1>10, <1>11, <1>12, <1>13, SpansNode, CoversIs DEF TypeNodes
<1> QED
  BY <1>6, <1>8, <1>14, ResultIs

LEMMA UnitTypeBuilt ==
    ASSUME IsFile, NEW p \in Positions, At(p) = "LeftParen", At(p + 1) = "RightParen"
    PROVE  Spans(UnitType(p, p + 1), p, p + 1 + 1)
<1>1. p \in Nat /\ p + 1 \in Positions /\ p + 1 + 1 \in Positions
  BY NextPosition
<1>2. PICK n : n = UnitType(p, p + 1)
  OBVIOUS
<1>3. n.node = "UnitType" /\ n.from = p /\ n.to = p + 1
  BY <1>2 DEF UnitType
<1>4. CoversType(n)
  BY <1>3 DEF CoversType
<1>5. Stratified(n) /\ Parts(n) = {}
  BY <1>3 DEF Stratified, Parts
<1>6. n.to = (p + 1 + 1) - 1 /\ p < p + 1 + 1
  BY <1>1, <1>3
<1>7. Spans(n, p, p + 1 + 1)
  BY <1>1, <1>3, <1>4, <1>5, <1>6, SpansNode, CoversIs DEF TypeNodes
<1> QED
  BY <1>2, <1>7

LEMMA NamedTypeBuilt ==
    ASSUME IsFile, NEW p \in Positions, At(p) = "Identifier"
    PROVE  Spans(NamedType(p), p, p + 1)
<1>1. p \in Nat /\ p + 1 \in Positions
  BY NextPosition
<1>2. PICK n : n = NamedType(p)
  OBVIOUS
<1>3. n.node = "NamedType" /\ n.from = p /\ n.to = p
  BY <1>2 DEF NamedType
<1>4. CoversType(n)
  BY <1>3 DEF CoversType
<1>5. Stratified(n) /\ Parts(n) = {}
  BY <1>3 DEF Stratified, Parts
<1>6. n.to = (p + 1) - 1 /\ p < p + 1
  BY <1>1, <1>3
<1>7. Spans(n, p, p + 1)
  BY <1>1, <1>3, <1>4, <1>5, <1>6, SpansNode, CoversIs DEF TypeNodes
<1> QED
  BY <1>2, <1>7

LEMMA TypeBuilt ==
    ASSUME IsFile, NEW p \in Positions, BuildsBehind(p)
    PROVE  Builds(TypeSyntax, p)
<1>1. PICK r : r = parseTypeSyntax(parse, p)
  OBVIOUS
<1>2. call(parse, TypeSyntax, p) = r
  BY <1>1, ParseUnfolds, RunIs, RoutineFacts
<1> SUFFICES ASSUME Accepted(r) PROVE Spans(built(r), p, reached(r))
  BY <1>2, FitsIs DEF Builds
<1>3. CASE At(p) = "&"
  BY <1>1, <1>3, TypeShape, ReferenceBuilt
<1>4. CASE At(p) = "LeftBracket"
  BY <1>1, <1>4, TypeShape, BracketBuilt
<1>5. CASE At(p) = "LeftParen"
  <2>1. At(p + 1) = "RightParen"
    BY <1>1, <1>5, TypeShape
  <2>2. r = Parsed(UnitType(p, p + 1), p + 1 + 1)
    BY <1>1, <1>5, <2>1, ExpectShape, ParsedShape DEF parseTypeSyntax, Then
  <2> QED
    BY <1>5, <2>1, <2>2, UnitTypeBuilt, ResultIs
<1>6. CASE At(p) = "Identifier" /\ At(p + 1) = "<"
  BY <1>1, <1>6, TypeShape, GenericBuilt
<1>7. CASE At(p) = "Identifier" /\ At(p + 1) # "<"
  <2>1. r = Parsed(NamedType(p), p + 1)
    BY <1>1, <1>7, ExpectShape, ParsedShape DEF parseTypeSyntax, Then
  <2> QED
    BY <1>7, <2>1, NamedTypeBuilt, ResultIs
<1> QED
  BY <1>1, <1>3, <1>4, <1>5, <1>6, <1>7, TypeShape

LEMMA OnlySkipped ==
    ASSUME IsFile, NEW p \in Positions, NEW s \in Positions, NEW kinds,
           \A k \in Positions : p <= k /\ k < s => At(k) \in kinds
    PROVE  Only(kinds, p, s)
<1> SUFFICES ASSUME NEW k \in p .. s - 1 PROVE At(k) \in kinds
  BY DEF Only
<1>1. p \in Nat /\ s \in Nat /\ 1 <= p /\ s <= End /\ End \in Nat
  BY PositionFacts
<1>2. k \in Nat /\ 1 <= k /\ k <= End /\ p <= k /\ k < s
  BY <1>1
<1> QED
  BY <1>2, PositionFacts

LEMMA TypeListBuilt ==
    ASSUME IsFile, NEW p \in Positions, BuildsBehind(p), Builds(TypeSyntax, p)
    PROVE  Builds(TypeList, p)
<1>1. PICK r : r = parseTypeList(parse, p)
  OBVIOUS
<1>2. call(parse, TypeList, p) = r
  BY <1>1, ParseUnfolds, RunIs, RoutineFacts
<1> SUFFICES ASSUME Accepted(r)
             PROVE  Wholes(built(r)) /\ built(r) # <<>> /\ Listed(built(r), {"Newline"}, p, reached(r))
  BY <1>2, FitsIs DEF Builds
<1>3. PICK s : s = skipNewlines(p)
  OBVIOUS
<1>4. s \in Positions /\ s >= p /\ Only({"Newline"}, p, s)
  <2>1. s \in Positions /\ s >= p /\ \A k \in Positions : p <= k /\ k < s => At(k) \in {"Newline"}
    BY <1>3, NewlineFacts
  <2> QED
    BY <2>1, OnlySkipped
<1>5. PICK a : a = call(parse, TypeSyntax, s)
  OBVIOUS
<1>6. Accepted(a)
  BY <1>1, <1>3, <1>5, TypeListShape
<1>7. Spans(built(a), s, reached(a))
  <2>1. p \in Nat /\ s \in Nat
    BY <1>4, PositionFacts
  <2>2. CASE s = p
    BY <1>5, <1>6, <2>2, BuiltBy, FitsIs, RoutineFacts
  <2>3. CASE s > p
    BY <1>4, <1>5, <1>6, <2>3, TypeBehind
  <2> QED
    BY <1>4, <2>1, <2>2, <2>3
<1>8. PICK x, i : x = built(a) /\ i = reached(a)
  OBVIOUS
<1>9. i \in Positions /\ i \in Nat /\ s \in Nat /\ p \in Nat /\ s < i /\ x.from = s /\ x.to = i - 1 /\ Whole(x)
  BY <1>4, <1>7, <1>8, SpansIs, PositionFacts
<1>10. PICK e : e = skipNewlines(i)
  OBVIOUS
<1>11. e \in Positions /\ e >= i /\ e \in Nat /\ Only({"Newline"}, i, e)
  <2>1. e \in Positions /\ e >= i /\ \A k \in Positions : i <= k /\ k < e => At(k) \in {"Newline"}
    BY <1>9, <1>10, NewlineFacts
  <2> QED
    BY <1>9, <2>1, OnlySkipped, PositionFacts
<1>12. CASE At(e) = "Comma"
  <2>1. PICK b : b = call(parse, TypeList, e + 1)
    OBVIOUS
  <2>2. Accepted(b)
    BY <1>1, <1>3, <1>5, <1>8, <1>10, <1>12, <2>1, TypeListShape
  <2>3. e + 1 \in Positions /\ e + 1 > p
    BY <1>4, <1>9, <1>11, <1>12, NextPosition
  <2>4. PICK v, j : v = built(b) /\ j = reached(b)
    OBVIOUS
  <2>5. Wholes(v) /\ v # <<>> /\ Listed(v, {"Newline"}, e + 1, j) /\ j \in Positions
    BY <2>1, <2>2, <2>3, <2>4, BuiltBehind, FitsIs, RoutineFacts
  <2>6. r = Parsed(<<x>> \o v, j)
    BY <1>1, <1>3, <1>5, <1>6, <1>8, <1>10, <1>12, <2>1, <2>2, <2>4 DEF parseTypeList, Then
  <2>7. PICK nodes : nodes = <<x>> \o v
    OBVIOUS
  <2>8. p <= x.from /\ x.from <= x.to /\ x.from \in Int
    BY <1>4, <1>9
  <2>9. Listed(nodes, {"Newline"}, p, j)
    BY <1>4, <1>9, <1>11, <1>12, <2>5, <2>7, <2>8, ListedMore
  <2>10. Wholes(nodes) /\ nodes # <<>>
    BY <1>9, <2>5, <2>7, MoreNodes
  <2> QED
    BY <2>6, <2>7, <2>9, <2>10, ResultIs
<1>13. CASE At(e) # "Comma"
  <2>1. r = Parsed(<<x>>, e)
    BY <1>1, <1>3, <1>5, <1>6, <1>8, <1>10, <1>13 DEF parseTypeList, Then
  <2>2. PICK nodes : nodes = <<x>>
    OBVIOUS
  <2>3. p <= x.from /\ x.from <= x.to /\ x.to < i /\ x.from \in Int
    BY <1>4, <1>9
  <2>4. Listed(nodes, {"Newline"}, p, e)
    BY <1>4, <1>9, <1>11, <2>2, <2>3, ListedOne
  <2>5. Wholes(nodes) /\ nodes # <<>>
    BY <1>9, <2>2, OneNode
  <2> QED
    BY <2>1, <2>2, <2>4, <2>5, ResultIs
<1> QED
  BY <1>12, <1>13

----------------------------------------------------------------------------
(* Expressions *)

LEMMA ExpressionHere ==
    ASSUME IsFile, NEW p \in Positions, Builds(Expression, p),
           NEW a, a = call(parse, Expression, p), Accepted(a)
    PROVE  Spans(built(a), p, reached(a)) /\ Level(built(a)) \in 0 .. 10
<1>1. Expression \in 0 .. 8 /\ Expression = 0
  BY DEF Expression
<1> QED
  BY <1>1, BuiltBy, FitsIs, RoutineFacts

LEMMA ExpressionListBuilt ==
    ASSUME IsFile, NEW p \in Positions, BuildsBehind(p), Builds(Expression, p)
    PROVE  Builds(ExpressionList, p)
<1>1. PICK r : r = parseExpressionList(parse, p)
  OBVIOUS
<1>2. call(parse, ExpressionList, p) = r
  BY <1>1, ParseUnfolds, RunIs, RoutineFacts
<1> SUFFICES ASSUME Accepted(r)
             PROVE  Wholes(built(r)) /\ built(r) # <<>> /\ Listed(built(r), {}, p, reached(r))
  BY <1>2, FitsIs DEF Builds
<1>3. PICK a : a = call(parse, Expression, p)
  OBVIOUS
<1>4. Accepted(a)
  BY <1>1, <1>3, ExpressionListShape
<1>5. PICK x, i : x = built(a) /\ i = reached(a)
  OBVIOUS
<1>6. /\ i \in Positions /\ i \in Nat /\ p \in Nat /\ p < i
      /\ x.from = p /\ x.to = i - 1 /\ Whole(x)
  BY <1>3, <1>4, <1>5, ExpressionHere, SpansIs
<1>7. p <= x.from /\ x.from <= x.to /\ x.to < i /\ x.from \in Int /\ i <= i
  BY <1>6
<1>10. PICK gap : gap = {}
  OBVIOUS
<1>11. Only(gap, p, x.from) /\ Only(gap, i, i)
  BY <1>6, OnlyNone
<1>8. CASE At(i) = "Comma"
  <2>1. PICK b : b = call(parse, ExpressionList, i + 1)
    OBVIOUS
  <2>2. Accepted(b)
    BY <1>1, <1>3, <1>5, <1>8, <2>1, ExpressionListShape
  <2>3. i + 1 \in Positions /\ i + 1 > p
    BY <1>6, <1>8, NextPosition
  <2>4. PICK v, j : v = built(b) /\ j = reached(b)
    OBVIOUS
  <2>5. Wholes(v) /\ v # <<>> /\ Listed(v, {}, i + 1, j) /\ j \in Positions
    BY <2>1, <2>2, <2>3, <2>4, BuiltBehind, FitsIs, RoutineFacts
  <2>6. r = Parsed(<<x>> \o v, j)
    BY <1>1, <1>3, <1>4, <1>5, <1>8, <2>1, <2>2, <2>4 DEF parseExpressionList, Then
  <2>7. PICK nodes : nodes = <<x>> \o v
    OBVIOUS
  <2>8. Listed(nodes, gap, p, j)
    BY <1>6, <1>7, <1>8, <1>10, <1>11, <2>5, <2>7, ListedMore
  <2>9. Wholes(nodes) /\ nodes # <<>>
    BY <1>6, <2>5, <2>7, MoreNodes
  <2> QED
    BY <1>10, <2>6, <2>7, <2>8, <2>9, ResultIs
<1>9. CASE At(i) # "Comma"
  <2>1. r = Parsed(<<x>>, i)
    BY <1>1, <1>3, <1>4, <1>5, <1>9 DEF parseExpressionList, Then
  <2>2. PICK nodes : nodes = <<x>>
    OBVIOUS
  <2>3. Listed(nodes, gap, p, i)
    BY <1>6, <1>7, <1>11, <2>2, ListedOne
  <2>4. Wholes(nodes) /\ nodes # <<>>
    BY <1>6, <2>2, OneNode
  <2> QED
    BY <1>10, <2>1, <2>2, <2>3, <2>4, ResultIs
<1> QED
  BY <1>8, <1>9

LEMMA ListedNone ==
    ASSUME IsFile, NEW gap, NEW i \in Positions, NEW nodes, nodes = <<>>
    PROVE  Listed(nodes, gap, i, i)
<1>1. DOMAIN nodes = {} /\ Len(nodes) = 0
  BY NoNodes
<1>2. 1 .. Len(nodes) - 1 = {}
  BY <1>1
<1>3. i <= i
  BY PositionFacts
<1> QED
  BY <1>1, <1>2, <1>3 DEF Listed

LEMMA UnlessClosedBuilt ==
    ASSUME IsFile, NEW p \in Positions, BuildsBehind(p), NEW q \in Positions, q > p, NEW close,
           NEW r, r = parseUnlessClosed(parse, close, q), Accepted(r)
    PROVE  /\ Wholes(built(r)) /\ Listed(built(r), {}, q, reached(r))
           /\ reached(r) \in Positions /\ reached(r) >= q
<1>1. CASE At(q) = close
  <2>1. PICK nodes : nodes = <<>>
    OBVIOUS
  <2>2. r = Parsed(nodes, q)
    BY <1>1, <2>1 DEF parseUnlessClosed
  <2>3. q >= q
    BY PositionFacts
  <2> QED
    BY <2>1, <2>2, <2>3, NoNodes, ListedNone, ResultIs
<1>2. CASE At(q) # close
  <2>1. r = call(parse, ExpressionList, q)
    BY <1>2 DEF parseUnlessClosed
  <2> QED
    BY <2>1, BuiltBehind, FitsIs, RoutineFacts
<1> QED
  BY <1>1, <1>2

LEMMA AtomBuilt ==
    ASSUME IsFile, NEW p \in Positions, NEW node,
           \/ node = "Identifier" /\ At(p) = "Identifier"
           \/ node = "Literal" /\ At(p) \in Literals
    PROVE  Tight(Parsed(Atom(node, p), p + 1), p)
<1>1. p \in Nat /\ p + 1 \in Positions
  BY NextPosition DEF Literals
<1>2. PICK n : n = Atom(node, p)
  OBVIOUS
<1>3. n.node = node /\ n.from = p /\ n.to = p
  BY <1>2 DEF Atom
<1>4. CoversAtom(n)
  BY <1>3 DEF CoversAtom
<1>5. Stratified(n) /\ Parts(n) = {} /\ Level(n) = 10
  BY <1>3 DEF Stratified, Parts, Level, AtomNodes
<1>6. n.to = (p + 1) - 1 /\ p < p + 1 /\ n.node \in AtomNodes
  BY <1>1, <1>3 DEF AtomNodes
<1>7. Spans(n, p, p + 1)
  BY <1>1, <1>3, <1>4, <1>5, <1>6, SpansNode, CoversIs
<1> QED
  BY <1>2, <1>5, <1>7, ResultIs DEF Tight

LEMMA ParenBuilt ==
    ASSUME IsFile, NEW p \in Positions, BuildsBehind(p), At(p) = "LeftParen",
           NEW r, r = parseParenExpression(parse, p), Accepted(r)
    PROVE  Tight(r, p)
<1>1. p \in Nat /\ p + 1 \in Positions /\ p + 1 > p
  BY NextPosition
<1>2. CASE At(p + 1) = "RightParen"
  <2>1. r = Parsed(UnitExpr(p, p + 1), p + 2)
    BY <1>2 DEF parseParenExpression
  <2>2. (p + 1) + 1 \in Positions /\ (p + 1) + 1 = p + 2
    BY <1>1, <1>2, NextPosition
  <2>3. PICK n : n = UnitExpr(p, p + 1)
    OBVIOUS
  <2>4. n.node = "Unit" /\ n.from = p /\ n.to = p + 1
    BY <2>3 DEF UnitExpr
  <2>5. CoversAtom(n)
    BY <1>2, <2>4 DEF CoversAtom
  <2>6. Stratified(n) /\ Parts(n) = {} /\ Level(n) = 10
    BY <2>4 DEF Stratified, Parts, Level, AtomNodes
  <2>7. n.to = (p + 2) - 1 /\ p < p + 2 /\ n.node \in AtomNodes /\ p + 2 \in Positions
    BY <1>1, <2>2, <2>4 DEF AtomNodes
  <2>8. Spans(n, p, p + 2)
    BY <2>4, <2>5, <2>6, <2>7, SpansNode, CoversIs
  <2> QED
    BY <2>1, <2>3, <2>6, <2>8, ResultIs DEF Tight
<1>3. CASE At(p + 1) # "RightParen"
  <2>1. PICK a : a = call(parse, Expression, p + 1)
    OBVIOUS
  <2>2. Accepted(a) /\ At(reached(a)) = "RightParen"
    BY <1>3, <2>1, ParenShape
  <2>3. PICK b, i : b = built(a) /\ i = reached(a)
    OBVIOUS
  <2>4. i \in Nat /\ i \in Positions /\ p + 1 < i /\ b.from = p + 1 /\ b.to = i - 1 /\ Whole(b)
    BY <1>1, <2>1, <2>2, <2>3, ExpressionBehind, SpansIs
  <2>5. r = Parsed(Paren(p, b, i), i + 1)
    BY <1>3, <2>1, <2>2, <2>3, ExpectShape, ParsedShape DEF parseParenExpression, Then
  <2>6. i + 1 \in Positions
    BY <2>2, <2>3, <2>4, NextPosition
  <2>7. PICK n : n = Paren(p, b, i)
    OBVIOUS
  <2>8. n.node = "Paren" /\ n.from = p /\ n.to = i /\ n.inner = b
    BY <2>7 DEF Paren
  <2>9. CoversAtom(n)
    <3>1. n.inner.from = n.from + 1 /\ n.to = n.inner.to + 1
      BY <1>1, <2>4, <2>8
    <3> QED
      BY <2>2, <2>3, <2>8, <3>1 DEF CoversAtom
  <2>10. Stratified(n) /\ Parts(n) = {b} /\ Level(n) = 10
    BY <2>8 DEF Stratified, Parts, Level, AtomNodes
  <2>11. n.to = (i + 1) - 1 /\ p < i + 1 /\ n.node \in AtomNodes
    BY <1>1, <2>4, <2>8 DEF AtomNodes
  <2>12. Spans(n, p, i + 1)
    BY <2>4, <2>6, <2>8, <2>9, <2>10, <2>11, SpansNode, CoversIs
  <2> QED
    BY <2>5, <2>7, <2>10, <2>12, ResultIs DEF Tight
<1> QED
  BY <1>2, <1>3

LEMMA ArrayBuilt ==
    ASSUME IsFile, NEW p \in Positions, BuildsBehind(p), At(p) = "LeftBracket",
           NEW r, r = parseArrayLiteral(parse, p), Accepted(r)
    PROVE  Tight(r, p)
<1>1. p \in Nat /\ p + 1 \in Positions /\ p + 1 > p
  BY NextPosition
<1>2. PICK a : a = parseUnlessClosed(parse, "RightBracket", p + 1)
  OBVIOUS
<1>3. Accepted(a) /\ At(reached(a)) = "RightBracket"
  BY <1>2, ArrayShape
<1>4. PICK v, i : v = built(a) /\ i = reached(a)
  OBVIOUS
<1>5. Wholes(v) /\ Listed(v, {}, p + 1, i) /\ i \in Positions /\ i >= p + 1
  BY <1>1, <1>2, <1>3, <1>4, UnlessClosedBuilt
<1>6. r = Parsed(ArrayLiteral(p, v, i), i + 1)
  BY <1>2, <1>3, <1>4, ExpectShape, ParsedShape DEF parseArrayLiteral, Then
<1>7. i + 1 \in Positions /\ i \in Nat
  BY <1>3, <1>4, <1>5, NextPosition
<1>8. PICK n : n = ArrayLiteral(p, v, i)
  OBVIOUS
<1>9. n.node = "ArrayLiteral" /\ n.from = p /\ n.to = i /\ n.elements = v
  BY <1>8 DEF ArrayLiteral
<1>10. CoversAtom(n)
  BY <1>3, <1>4, <1>5, <1>9 DEF CoversAtom
<1>11. Stratified(n) /\ Parts(n) = Range(v) /\ Level(n) = 10
  BY <1>9 DEF Stratified, Parts, Level, AtomNodes
<1>12. n.to = (i + 1) - 1 /\ p < i + 1 /\ n.node \in AtomNodes
  BY <1>1, <1>5, <1>7, <1>9 DEF AtomNodes
<1>13. \A m \in Parts(n) : Whole(m)
  BY <1>5, <1>11, WholePart
<1>14. Spans(n, p, i + 1)
  BY <1>7, <1>9, <1>10, <1>11, <1>12, <1>13, SpansNode, CoversIs
<1> QED
  BY <1>6, <1>8, <1>11, <1>14, ResultIs DEF Tight

LEMMA PrimaryBuilt ==
    ASSUME IsFile, NEW p \in Positions, BuildsBehind(p),
           NEW r, r = parsePrimary(parse, p), Accepted(r)
    PROVE  Tight(r, p)
<1>1. CASE At(p) = "Identifier"
  <2>1. r = Parsed(Atom("Identifier", p), p + 1)
    BY <1>1 DEF parsePrimary, Literals
  <2> QED
    BY <1>1, <2>1, AtomBuilt
<1>2. CASE At(p) \in Literals
  <2>1. r = Parsed(Atom("Literal", p), p + 1)
    BY <1>2 DEF parsePrimary, Literals
  <2> QED
    BY <1>2, <2>1, AtomBuilt
<1>3. CASE At(p) = "LeftParen"
  BY <1>3, PrimaryShape, ParenBuilt
<1>4. CASE At(p) = "LeftBracket"
  BY <1>4, PrimaryShape, ArrayBuilt
<1> QED
  BY <1>1, <1>2, <1>3, <1>4, PrimaryShape

LEMMA ParseAgrees ==
    ASSUME IsFile, NEW p \in Positions
    PROVE  AgreeBehind(parse, parse, p)
BY ParseMoves DEF AgreeBehind

LEMMA CallSuffixBuilt ==
    ASSUME IsFile, NEW p \in Positions, BuildsBehind(p), At(p) = "LeftParen",
           NEW r, r = parseCallSuffix(parse, p), Accepted(r)
    PROVE  Fastens(built(r), p, reached(r))
<1>1. p \in Nat /\ p + 1 \in Positions /\ p + 1 > p
  BY NextPosition
<1>2. PICK a : a = parseUnlessClosed(parse, "RightParen", p + 1)
  OBVIOUS
<1>3. Accepted(a) /\ At(reached(a)) = "RightParen"
  BY <1>2, CallShape
<1>4. PICK v, i : v = built(a) /\ i = reached(a)
  OBVIOUS
<1>5. Wholes(v) /\ Listed(v, {}, p + 1, i) /\ i \in Positions /\ i >= p + 1
  BY <1>1, <1>2, <1>3, <1>4, UnlessClosedBuilt
<1>6. PICK x : x = [node |-> "Call", arguments |-> v, to |-> i]
  OBVIOUS
<1>7. r = Parsed(x, i + 1)
  BY <1>2, <1>3, <1>4, <1>6, ExpectShape, ParsedShape DEF parseCallSuffix, Then
<1>8. i + 1 \in Positions /\ i \in Nat
  BY <1>3, <1>4, <1>5, NextPosition
<1>9. ASSUME NEW e, NEW from, Spans(e, from, p), Level(e) \in 9 .. 10
      PROVE  Spans(Suffixed(e, x), from, i + 1) /\ Level(Suffixed(e, x)) = 9
  <2>1. from \in Positions /\ from \in Nat /\ from < p /\ e.from = from /\ e.to = p - 1 /\ Whole(e)
    BY <1>9, SpansIs
  <2>2. PICK n : n = Call(e, v, i)
    OBVIOUS
  <2>3. Suffixed(e, x) = n
    BY <1>6, <2>2 DEF Suffixed
  <2>4. n.node = "Call" /\ n.from = from /\ n.to = i /\ n.callee = e /\ n.arguments = v
    BY <2>1, <2>2 DEF Call
  <2>5. CoversOperator(n)
    <3>1. n.callee.to + 1 = p /\ n.callee.to + 2 = p + 1
      BY <1>1, <2>1, <2>4
    <3> QED
      BY <1>3, <1>4, <1>5, <2>1, <2>4, <3>1 DEF CoversOperator
  <2>6. Level(n) = 9 /\ Parts(n) = {e} \cup Range(v)
    BY <2>4 DEF Level, AtomNodes, Parts
  <2>7. Stratified(n)
    <3>1. Level(n.callee) >= 9
      BY <1>9, <2>4
    <3> QED
      BY <2>4, <3>1 DEF Stratified
  <2>8. n.to = (i + 1) - 1 /\ from < i + 1 /\ n.node \in OperatorNodes
    BY <1>1, <1>5, <1>8, <2>1, <2>4 DEF OperatorNodes
  <2>9. \A m \in Parts(n) : Whole(m)
    BY <1>5, <2>1, <2>6, WholePart
  <2>10. Spans(n, from, i + 1)
    BY <1>8, <2>1, <2>4, <2>5, <2>7, <2>8, <2>9, SpansNode, CoversIs
  <2> QED
    BY <2>3, <2>6, <2>10
<1>10. Fastens(x, p, i + 1)
  BY <1>9 DEF Fastens
<1> QED
  BY <1>7, <1>10, ResultIs

LEMMA IndexSuffixBuilt ==
    ASSUME IsFile, NEW p \in Positions, BuildsBehind(p), At(p) = "LeftBracket",
           NEW r, r = parseIndexSuffix(parse, p), Accepted(r)
    PROVE  Fastens(built(r), p, reached(r))
<1>1. p \in Nat /\ p + 1 \in Positions /\ p + 1 > p
  BY NextPosition
<1>2. PICK a : a = call(parse, Expression, p + 1)
  OBVIOUS
<1>3. Accepted(a) /\ At(reached(a)) = "RightBracket"
  BY <1>2, IndexShape
<1>4. PICK b, i : b = built(a) /\ i = reached(a)
  OBVIOUS
<1>5. i \in Positions /\ i \in Nat /\ p + 1 < i /\ b.from = p + 1 /\ b.to = i - 1 /\ Whole(b)
  BY <1>1, <1>2, <1>3, <1>4, ExpressionBehind, SpansIs
<1>6. PICK x : x = [node |-> "Index", index |-> b, to |-> i]
  OBVIOUS
<1>7. r = Parsed(x, i + 1)
  BY <1>2, <1>3, <1>4, <1>6, ExpectShape, ParsedShape DEF parseIndexSuffix, Then
<1>8. i + 1 \in Positions
  BY <1>3, <1>4, <1>5, NextPosition
<1>9. ASSUME NEW e, NEW from, Spans(e, from, p), Level(e) \in 9 .. 10
      PROVE  Spans(Suffixed(e, x), from, i + 1) /\ Level(Suffixed(e, x)) = 9
  <2>1. from \in Positions /\ from \in Nat /\ from < p /\ e.from = from /\ e.to = p - 1 /\ Whole(e)
    BY <1>9, SpansIs
  <2>2. PICK n : n = Index(e, b, i)
    OBVIOUS
  <2>3. Suffixed(e, x) = n
    BY <1>6, <2>2 DEF Suffixed
  <2>4. n.node = "Index" /\ n.from = from /\ n.to = i /\ n.object = e /\ n.index = b
    BY <2>1, <2>2 DEF Index
  <2>5. CoversOperator(n)
    <3>1. n.object.to + 1 = p /\ n.object.to + 2 = p + 1 /\ n.index.from = p + 1 /\ n.to = n.index.to + 1
      BY <1>1, <1>5, <2>1, <2>4
    <3> QED
      BY <1>3, <1>4, <2>1, <2>4, <3>1 DEF CoversOperator
  <2>6. Level(n) = 9 /\ Parts(n) = {e, b}
    BY <2>4 DEF Level, AtomNodes, Parts
  <2>7. Stratified(n)
    <3>1. Level(n.object) >= 9
      BY <1>9, <2>4
    <3> QED
      BY <2>4, <3>1 DEF Stratified
  <2>8. n.to = (i + 1) - 1 /\ from < i + 1 /\ n.node \in OperatorNodes
    BY <1>1, <1>5, <2>1, <2>4 DEF OperatorNodes
  <2>9. Spans(n, from, i + 1)
    BY <1>5, <1>8, <2>1, <2>4, <2>5, <2>6, <2>7, <2>8, SpansNode, CoversIs
  <2> QED
    BY <2>3, <2>6, <2>9
<1>10. Fastens(x, p, i + 1)
  BY <1>9 DEF Fastens
<1> QED
  BY <1>7, <1>10, ResultIs

LEMMA MemberSuffixBuilt ==
    ASSUME IsFile, NEW p \in Positions, At(p) = "Dot",
           NEW r, r = parseMemberSuffix(p), Accepted(r)
    PROVE  Fastens(built(r), p, reached(r))
<1>1. At(p + 1) = "Identifier"
  BY MemberShape
<1>2. p \in Nat /\ p + 1 \in Positions /\ p + 1 + 1 \in Positions
  BY <1>1, NextPosition
<1>3. PICK x : x = [node |-> "Member", to |-> p + 1]
  OBVIOUS
<1>4. r = Parsed(x, p + 1 + 1)
  BY <1>1, <1>3, ExpectShape, ParsedShape DEF parseMemberSuffix, Then
<1>5. ASSUME NEW e, NEW from, Spans(e, from, p), Level(e) \in 9 .. 10
      PROVE  Spans(Suffixed(e, x), from, p + 1 + 1) /\ Level(Suffixed(e, x)) = 9
  <2>1. from \in Positions /\ from \in Nat /\ from < p /\ e.from = from /\ e.to = p - 1 /\ Whole(e)
    BY <1>5, SpansIs
  <2>2. PICK n : n = Member(e, p + 1)
    OBVIOUS
  <2>3. Suffixed(e, x) = n
    BY <1>3, <2>2 DEF Suffixed
  <2>4. n.node = "Member" /\ n.from = from /\ n.to = p + 1 /\ n.object = e
    BY <2>1, <2>2 DEF Member
  <2>5. CoversOperator(n)
    <3>1. n.object.to + 1 = p /\ n.to = n.object.to + 2
      BY <1>2, <2>1, <2>4
    <3> QED
      BY <1>1, <2>1, <2>4, <3>1 DEF CoversOperator
  <2>6. Level(n) = 9 /\ Parts(n) = {e}
    BY <2>4 DEF Level, AtomNodes, Parts
  <2>7. Stratified(n)
    <3>1. Level(n.object) >= 9
      BY <1>5, <2>4
    <3> QED
      BY <2>4, <3>1 DEF Stratified
  <2>8. n.to = (p + 1 + 1) - 1 /\ from < p + 1 + 1 /\ n.node \in OperatorNodes
    BY <1>2, <2>1, <2>4 DEF OperatorNodes
  <2>9. Spans(n, from, p + 1 + 1)
    BY <1>2, <2>1, <2>4, <2>5, <2>6, <2>7, <2>8, SpansNode, CoversIs
  <2> QED
    BY <2>3, <2>6, <2>9
<1>6. Fastens(x, p, p + 1 + 1)
  BY <1>5 DEF Fastens
<1> QED
  BY <1>4, <1>6, ResultIs

LEMMA PropagationBuilt ==
    ASSUME IsFile, NEW p \in Positions, At(p) = "?",
           NEW x, x = [node |-> "ErrorPropagation", to |-> p]
    PROVE  Fastens(x, p, p + 1)
<1>1. p \in Nat /\ p + 1 \in Positions
  BY NextPosition
<1>2. ASSUME NEW e, NEW from, Spans(e, from, p), Level(e) \in 9 .. 10
      PROVE  Spans(Suffixed(e, x), from, p + 1) /\ Level(Suffixed(e, x)) = 9
  <2>1. from \in Positions /\ from \in Nat /\ from < p /\ e.from = from /\ e.to = p - 1 /\ Whole(e)
    BY <1>2, SpansIs
  <2>2. PICK n : n = ErrorPropagation(e, p)
    OBVIOUS
  <2>3. Suffixed(e, x) = n
    BY <2>2 DEF Suffixed
  <2>4. n.node = "ErrorPropagation" /\ n.from = from /\ n.to = p /\ n.operand = e
    BY <2>1, <2>2 DEF ErrorPropagation
  <2>5. CoversOperator(n)
    <3>1. n.to = n.operand.to + 1
      BY <1>1, <2>1, <2>4
    <3> QED
      BY <2>1, <2>4, <3>1 DEF CoversOperator
  <2>6. Level(n) = 9 /\ Parts(n) = {e}
    BY <2>4 DEF Level, AtomNodes, Parts
  <2>7. Stratified(n)
    <3>1. Level(n.operand) >= 9
      BY <1>2, <2>4
    <3> QED
      BY <2>4, <3>1 DEF Stratified
  <2>8. n.to = (p + 1) - 1 /\ from < p + 1 /\ n.node \in OperatorNodes
    BY <1>1, <2>1, <2>4 DEF OperatorNodes
  <2>9. Spans(n, from, p + 1)
    BY <1>1, <2>1, <2>4, <2>5, <2>6, <2>7, <2>8, SpansNode, CoversIs
  <2> QED
    BY <2>3, <2>6, <2>9
<1> QED
  BY <1>2 DEF Fastens

LEMMA SuffixBuilt ==
    ASSUME IsFile, NEW p \in Positions, BuildsBehind(p), At(p) \in SuffixStarts,
           NEW r, r = parseSuffix(parse, p), Accepted(r)
    PROVE  Fastens(built(r), p, reached(r)) /\ reached(r) \in Positions /\ reached(r) > p
<1>1. reached(r) \in Positions /\ reached(r) > p
  BY ParseAgrees, SuffixAgrees DEF Moves
<1>2. CASE At(p) = "LeftParen"
  <2>1. r = parseCallSuffix(parse, p)
    BY <1>2 DEF parseSuffix
  <2> QED
    BY <1>1, <1>2, <2>1, CallSuffixBuilt
<1>3. CASE At(p) = "LeftBracket"
  <2>1. r = parseIndexSuffix(parse, p)
    BY <1>3 DEF parseSuffix
  <2> QED
    BY <1>1, <1>3, <2>1, IndexSuffixBuilt
<1>4. CASE At(p) = "Dot"
  <2>1. r = parseMemberSuffix(p)
    BY <1>4 DEF parseSuffix
  <2> QED
    BY <1>1, <1>4, <2>1, MemberSuffixBuilt
<1>5. CASE At(p) = "?"
  <2>1. PICK x : x = [node |-> "ErrorPropagation", to |-> p]
    OBVIOUS
  <2>2. r = Parsed(x, p + 1)
    BY <1>5, <2>1 DEF parseSuffix
  <2> QED
    BY <1>1, <1>5, <2>1, <2>2, PropagationBuilt, ResultIs
<1> QED
  BY <1>2, <1>3, <1>4, <1>5 DEF SuffixStarts

----------------------------------------------------------------------------
(* The loops and the tiers *)

LEMMA LoopFacts ==
    /\ Takes(SuffixList) = 9 /\ Gives(SuffixList) = 9
    /\ \A tier \in 1 .. 7 :
          /\ Rest(tier) # SuffixList /\ Gives(Rest(tier)) = tier
          /\ Takes(Rest(tier)) = IF tier = RangeTier THEN tier + 1 ELSE tier
BY DEF Takes, Gives, SuffixList, Rest, RangeTier

LEMMA CarriesNone ==
    ASSUME NEW loop, NEW p, Takes(loop) .. 10 \subseteq Gives(loop) .. 10, NEW v, v = <<>>
    PROVE  Carries(loop, v, p, p)
<1>1. v \in Seq({})
  OBVIOUS
<1>2. \A e : Folded(loop, e, v) = e
  BY FoldedNone
<1> QED
  BY <1>1, <1>2 DEF Carries

LEMMA CarriesMore ==
    ASSUME NEW loop, NEW p, NEW i, NEW q, NEW x, NEW others,
           \A e, from : Spans(e, from, p) /\ Level(e) \in Takes(loop) .. 10 =>
              Spans(Joined(loop, e, x), from, i) /\ Level(Joined(loop, e, x)) \in Takes(loop) .. 10,
           Carries(loop, others, i, q), NEW v, v = <<x>> \o others
    PROVE  Carries(loop, v, p, q)
<1>1. PICK S : others \in Seq(S)
  BY DEF Carries
<1>2. PICK T : T = S \cup {x}
  OBVIOUS
<1>3. v \in Seq(T)
  <2>1. others \in Seq(T) /\ <<x>> \in Seq(T)
    BY <1>1, <1>2
  <2> QED
    BY <2>1
<1>4. \A e : Folded(loop, e, v) = Folded(loop, Joined(loop, e, x), others)
  BY <1>1, FoldedInOrder
<1>5. ASSUME NEW e, NEW from, Spans(e, from, p), Level(e) \in Takes(loop) .. 10
      PROVE  Spans(Folded(loop, e, v), from, q) /\ Level(Folded(loop, e, v)) \in Gives(loop) .. 10
  <2>1. PICK f : f = Joined(loop, e, x)
    OBVIOUS
  <2>2. Spans(f, from, i) /\ Level(f) \in Takes(loop) .. 10
    BY <1>5, <2>1
  <2>3. Spans(Folded(loop, f, others), from, q) /\ Level(Folded(loop, f, others)) \in Gives(loop) .. 10
    BY <2>2 DEF Carries
  <2> QED
    BY <1>4, <2>1, <2>3
<1> QED
  BY <1>3, <1>5 DEF Carries

LEMMA SuffixListBuilt ==
    ASSUME IsFile, NEW p \in Positions, BuildsBehind(p)
    PROVE  Builds(SuffixList, p)
<1>1. PICK r : r = parsePostfix(parse, p)
  OBVIOUS
<1>2. call(parse, SuffixList, p) = r
  BY <1>1, ParseUnfolds, RunIs, RoutineFacts
<1> SUFFICES ASSUME Accepted(r) PROVE Carries(SuffixList, built(r), p, reached(r))
  BY <1>2, FitsIs DEF Builds
<1>3. CASE At(p) \notin SuffixStarts
  <2>1. PICK v : v = <<>>
    OBVIOUS
  <2>2. r = Parsed(v, p)
    BY <1>1, <1>3, <2>1 DEF parsePostfix
  <2> QED
    BY <2>1, <2>2, CarriesNone, LoopFacts, ResultIs
<1>4. CASE At(p) \in SuffixStarts
  <2>1. PICK a : a = parseSuffix(parse, p)
    OBVIOUS
  <2>2. PICK x, i : x = built(a) /\ i = reached(a)
    OBVIOUS
  <2>3. PICK b : b = call(parse, SuffixList, i)
    OBVIOUS
  <2>4. Accepted(a) /\ Accepted(b)
    BY <1>1, <1>4, <2>1, <2>2, <2>3, PostfixShape
  <2>5. Fastens(x, p, i) /\ i \in Positions /\ i > p
    BY <1>4, <2>1, <2>2, <2>4, SuffixBuilt
  <2>6. PICK others, q : others = built(b) /\ q = reached(b)
    OBVIOUS
  <2>7. Carries(SuffixList, others, i, q)
    BY <2>3, <2>4, <2>5, <2>6, BuiltBehind, FitsIs, RoutineFacts
  <2>8. r = Parsed(<<x>> \o others, q)
    BY <1>1, <1>4, <2>1, <2>2, <2>3, <2>4, <2>6 DEF parsePostfix, Then
  <2>9. PICK v : v = <<x>> \o others
    OBVIOUS
  <2>10. ASSUME NEW e, NEW from, Spans(e, from, p), Level(e) \in Takes(SuffixList) .. 10
         PROVE  /\ Spans(Joined(SuffixList, e, x), from, i)
                /\ Level(Joined(SuffixList, e, x)) \in Takes(SuffixList) .. 10
    <3>1. Spans(Suffixed(e, x), from, i) /\ Level(Suffixed(e, x)) = 9
      BY <2>5, <2>10, LoopFacts DEF Fastens
    <3>2. Joined(SuffixList, e, x) = Suffixed(e, x)
      BY DEF Joined
    <3> QED
      BY <3>1, <3>2, LoopFacts
  <2>11. Carries(SuffixList, v, p, q)
    BY <2>7, <2>9, <2>10, CarriesMore
  <2> QED
    BY <2>8, <2>9, <2>11, ResultIs
<1> QED
  BY <1>3, <1>4

LEMMA OneTier ==
    ASSUME NEW tier \in 1 .. 7, NEW op, op \in Tiers[tier]
    PROVE  (CHOOSE t \in DOMAIN Tiers : op \in Tiers[t]) = tier
<1>1. DOMAIN Tiers = 1 .. 7
  BY DEF Tiers
<1>2. ASSUME NEW t \in 1 .. 7, op \in Tiers[t] PROVE t = tier
  <2>1. CASE tier = 1 BY <1>2, <2>1 DEF Tiers
  <2>2. CASE tier = 2 BY <1>2, <2>2 DEF Tiers
  <2>3. CASE tier = 3 BY <1>2, <2>3 DEF Tiers
  <2>4. CASE tier = 4 BY <1>2, <2>4 DEF Tiers
  <2>5. CASE tier = 5 BY <1>2, <2>5 DEF Tiers
  <2>6. CASE tier = 6 BY <1>2, <2>6 DEF Tiers
  <2>7. CASE tier = 7 BY <1>2, <2>7 DEF Tiers
  <2> QED
    BY <2>1, <2>2, <2>3, <2>4, <2>5, <2>6, <2>7
<1> QED
  BY <1>1, <1>2

\* An operator of a tier onto the expression before it.
LEMMA OperationBuilt ==
    ASSUME IsFile, NEW tier \in 1 .. 7, NEW p \in Positions, At(p) \in Tiers[tier],
           NEW b, NEW i, Spans(b, p + 1, i), Level(b) \in tier + 1 .. 10,
           NEW x, x = [op |-> At(p), right |-> b],
           NEW e, NEW from, Spans(e, from, p), Level(e) \in Takes(Rest(tier)) .. 10
    PROVE  /\ Spans(Joined(Rest(tier), e, x), from, i)
           /\ Level(Joined(Rest(tier), e, x)) = tier
<1>1. from \in Positions /\ from \in Nat /\ from < p /\ e.from = from /\ e.to = p - 1 /\ Whole(e) /\ p \in Nat
  BY SpansIs
<1>2. i \in Positions /\ i \in Nat /\ p + 1 < i /\ b.from = p + 1 /\ b.to = i - 1 /\ Whole(b)
  BY SpansIs
<1>3. PICK n : n = Binary(At(p), e, b)
  OBVIOUS
<1>4. Joined(Rest(tier), e, x) = n
  <2>1. Joined(Rest(tier), e, x) = Extended(e, x)
    BY LoopFacts DEF Joined
  <2> QED
    BY <1>3, <2>1 DEF Extended
<1>5. n.node = "Binary" /\ n.op = At(p) /\ n.from = from /\ n.to = i - 1 /\ n.left = e /\ n.right = b
  BY <1>1, <1>2, <1>3 DEF Binary
<1>6. CoversOperator(n)
  <2>1. n.left.to + 1 = p /\ n.right.from = n.left.to + 2 /\ n.to = n.right.to
    BY <1>1, <1>2, <1>5
  <2> QED
    BY <1>1, <1>5, <2>1 DEF CoversOperator
<1>7. Level(n) = tier
  <2>1. Level(n) = CHOOSE t \in DOMAIN Tiers : n.op \in Tiers[t]
    BY <1>5 DEF Level, AtomNodes
  <2> QED
    BY <1>5, <2>1, OneTier
<1>8. Parts(n) = {e, b}
  BY <1>5 DEF Parts
<1>9. Stratified(n)
  <2>1. Level(n.right) > Level(n)
    BY <1>5, <1>7
  <2>2. At(p) = ".." => tier = RangeTier
    BY DEF Tiers, RangeTier
  <2>3. Level(n.left) >= Level(n) + (IF n.op = ".." THEN 1 ELSE 0)
    <3>1. Takes(Rest(tier)) = IF tier = RangeTier THEN tier + 1 ELSE tier
      BY LoopFacts
    <3> QED
      BY <1>5, <1>7, <2>2, <3>1
  <2> QED
    BY <1>5, <2>1, <2>3 DEF Stratified
<1>10. from < i /\ n.node \in OperatorNodes
  BY <1>1, <1>2, <1>5 DEF OperatorNodes
<1>11. Spans(n, from, i)
  BY <1>1, <1>2, <1>5, <1>6, <1>8, <1>9, <1>10, SpansNode, CoversIs
<1> QED
  BY <1>4, <1>7, <1>11

LEMMA RestBuilt ==
    ASSUME IsFile, NEW tier \in 1 .. 7, NEW p \in Positions, BuildsBehind(p)
    PROVE  Builds(Rest(tier), p)
<1>1. PICK r : r = continueTier(parse, tier, p)
  OBVIOUS
<1>2. call(parse, Rest(tier), p) = r
  BY <1>1, ParseUnfolds, RunIs, RoutineFacts
<1> SUFFICES ASSUME Accepted(r) PROVE Carries(Rest(tier), built(r), p, reached(r))
  BY <1>2, FitsIs DEF Builds
<1>3. CASE At(p) \notin Tiers[tier]
  <2>1. PICK v : v = <<>>
    OBVIOUS
  <2>2. r = Parsed(v, p)
    BY <1>1, <1>3, <2>1 DEF continueTier
  <2>3. Takes(Rest(tier)) .. 10 \subseteq Gives(Rest(tier)) .. 10
    BY LoopFacts
  <2> QED
    BY <2>1, <2>2, <2>3, CarriesNone, ResultIs
<1>4. CASE At(p) \in Tiers[tier]
  <2>1. PICK a : a = call(parse, tier + 1, p + 1)
    OBVIOUS
  <2>2. Accepted(a)
    BY <1>1, <1>4, <2>1, RestShape
  <2>3. p + 1 \in Positions /\ p + 1 > p
    BY <1>4, NoEndInTiers, NextPosition
  <2>4. PICK b, i : b = built(a) /\ i = reached(a)
    OBVIOUS
  <2>5. Spans(b, p + 1, i) /\ Level(b) \in tier + 1 .. 10 /\ i \in Positions /\ i > p
    <3>1. tier + 1 \in 1 .. 8 /\ tier + 1 \in 0 .. 8
      OBVIOUS
    <3>2. tier + 1 \in Routines
      BY <3>1, RoutineFacts
    <3>3. Spans(b, p + 1, i) /\ Level(b) \in tier + 1 .. 10
      BY <2>1, <2>2, <2>3, <2>4, <3>1, <3>2, BuiltBehind, FitsIs
    <3>4. i \in Positions /\ i \in Nat /\ p + 1 < i /\ p \in Nat
      BY <3>3, SpansIs, PositionFacts
    <3> QED
      BY <3>3, <3>4
  <2>6. PICK x : x = [op |-> At(p), right |-> b]
    OBVIOUS
  <2>7. ASSUME NEW e, NEW from, Spans(e, from, p), Level(e) \in Takes(Rest(tier)) .. 10
        PROVE  Spans(Joined(Rest(tier), e, x), from, i) /\ Level(Joined(Rest(tier), e, x)) = tier
    BY <1>4, <2>5, <2>6, <2>7, OperationBuilt
  <2>8. CASE tier = RangeTier
    <3>1. PICK none, v : none = <<>> /\ v = <<x>>
      OBVIOUS
    <3>2. none \in Seq({}) /\ v = <<x>> \o none
      BY <3>1
    <3>3. r = Parsed(v, i)
      BY <1>1, <1>4, <2>1, <2>2, <2>4, <2>6, <2>8, <3>1 DEF continueTier, Then
    <3>4. \A e : Folded(Rest(tier), e, v) = Joined(Rest(tier), e, x)
      <4>1. \A e : Folded(Rest(tier), e, v) = Folded(Rest(tier), Joined(Rest(tier), e, x), none)
        BY <3>2, FoldedInOrder
      <4>2. \A e : Folded(Rest(tier), e, none) = e
        BY <3>1, FoldedNone
      <4> QED
        BY <4>1, <4>2
    <3>5. tier \in Gives(Rest(tier)) .. 10 /\ v \in Seq({x})
      BY <3>1, LoopFacts
    <3>6. Carries(Rest(tier), v, p, i)
      BY <2>7, <3>4, <3>5 DEF Carries
    <3> QED
      BY <3>3, <3>6, ResultIs
  <2>9. CASE tier # RangeTier
    <3>1. PICK c : c = call(parse, Rest(tier), i)
      OBVIOUS
    <3>2. Accepted(c)
      BY <1>1, <1>4, <2>1, <2>4, <2>9, <3>1, RestShape
    <3>3. PICK others, q : others = built(c) /\ q = reached(c)
      OBVIOUS
    <3>4. Carries(Rest(tier), others, i, q)
      BY <2>5, <3>1, <3>2, <3>3, BuiltBehind, FitsIs, RoutineFacts
    <3>5. r = Parsed(<<x>> \o others, q)
      BY <1>1, <1>4, <2>1, <2>2, <2>4, <2>6, <2>9, <3>1, <3>2, <3>3 DEF continueTier, Then
    <3>6. PICK v : v = <<x>> \o others
      OBVIOUS
    <3>7. tier \in Takes(Rest(tier)) .. 10
      BY <2>9, LoopFacts
    <3>8. Carries(Rest(tier), v, p, q)
      BY <2>7, <3>4, <3>6, <3>7, CarriesMore
    <3> QED
      BY <3>5, <3>6, <3>8, ResultIs
  <2> QED
    BY <2>8, <2>9
<1> QED
  BY <1>3, <1>4

LEMMA TierBuilt ==
    ASSUME IsFile, NEW tier \in 1 .. 7, NEW p \in Positions, BuildsBehind(p), Builds(tier + 1, p)
    PROVE  Builds(tier, p)
<1>0. tier \in 0 .. 8 /\ tier + 1 \in 0 .. 8 /\ tier + 1 \in 1 .. 8 /\ tier \in 1 .. 8
  OBVIOUS
<1>1. PICK r : r = parseTier(parse, tier, p)
  OBVIOUS
<1>2. call(parse, tier, p) = r
  BY <1>0, <1>1, ParseUnfolds, RunIs, RoutineFacts
<1> SUFFICES ASSUME Accepted(r) PROVE Spans(built(r), p, reached(r)) /\ Level(built(r)) \in tier .. 10
  BY <1>0, <1>2, FitsIs DEF Builds
<1>3. PICK a : a = call(parse, tier + 1, p)
  OBVIOUS
<1>4. PICK e, i : e = built(a) /\ i = reached(a)
  OBVIOUS
<1>5. PICK b : b = call(parse, Rest(tier), i)
  OBVIOUS
<1>6. Accepted(a) /\ Accepted(b)
  BY <1>1, <1>3, <1>4, <1>5, TierShape
<1>7. Spans(e, p, i) /\ Level(e) \in tier + 1 .. 10
  <2>1. tier + 1 \in Routines
    BY <1>0, RoutineFacts
  <2> QED
    BY <1>0, <1>3, <1>4, <1>6, <2>1, BuiltBy, FitsIs
<1>8. i \in Positions /\ i > p
  BY <1>7, SpansIs
<1>9. PICK v, q : v = built(b) /\ q = reached(b)
  OBVIOUS
<1>10. Carries(Rest(tier), v, i, q)
  BY <1>5, <1>6, <1>8, <1>9, BuiltBehind, FitsIs, RoutineFacts
<1>11. r = Parsed(Folded(Rest(tier), e, v), q)
  <2>1. r = Parsed(FoldLeft(Extended, e, v), q)
    BY <1>1, <1>3, <1>4, <1>5, <1>6, <1>9 DEF parseTier, Then
  <2> QED
    BY <2>1, LoopFacts DEF Folded
<1>12. Level(e) \in Takes(Rest(tier)) .. 10 /\ Gives(Rest(tier)) = tier
  BY <1>7, LoopFacts
<1>13. Spans(Folded(Rest(tier), e, v), p, q) /\ Level(Folded(Rest(tier), e, v)) \in tier .. 10
  BY <1>7, <1>10, <1>12 DEF Carries
<1> QED
  BY <1>11, <1>13, ResultIs

LEMMA OperandBuilt ==
    ASSUME IsFile, NEW p \in Positions, BuildsBehind(p), At(p) \in {"!", "-", "&"},
           NEW r, r = parseUnary(parse, p), Accepted(r)
    PROVE  Spans(built(r), p, reached(r)) /\ Level(built(r)) = 8
<1>1. PICK refMut, q, op : /\ refMut = (At(p) = "&" /\ At(p + 1) = "mut")
                           /\ q = (IF refMut THEN p + 2 ELSE p + 1)
                           /\ op = (IF refMut THEN "&mut" ELSE At(p))
  OBVIOUS
<1>2. PICK a : a = call(parse, UnaryTier, q)
  OBVIOUS
<1>3. Accepted(a) /\ r = Parsed(Unary(op, p, built(a)), reached(a))
  BY <1>1, <1>2 DEF parseUnary, Then
<1>4. p \in Nat /\ p + 1 \in Positions
  BY NextPosition
<1>5. refMut => p + 2 \in Positions
  <2>1. refMut => At(p + 1) # "EndOfFile"
    BY <1>1
  <2>2. p + 2 = (p + 1) + 1
    BY <1>4
  <2> QED
    BY <1>4, <2>1, <2>2, NextPosition
<1>6. q \in Positions /\ q > p
  BY <1>1, <1>4, <1>5
<1>7. PICK b, i : b = built(a) /\ i = reached(a)
  OBVIOUS
<1>8. Spans(b, q, i) /\ Level(b) \in 8 .. 10
  <2>1. UnaryTier \in 0 .. 8 /\ UnaryTier = 8
    BY DEF UnaryTier
  <2> QED
    BY <1>2, <1>3, <1>6, <1>7, <2>1, BuiltBehind, FitsIs, RoutineFacts
<1>9. q \in Nat /\ i \in Nat /\ i \in Positions /\ q < i /\ b.from = q /\ b.to = i - 1 /\ Whole(b)
  BY <1>8, SpansIs
<1>10. PICK n : n = Unary(op, p, b)
  OBVIOUS
<1>11. /\ n.node = "Unary" /\ n.from = p /\ n.to = i - 1 /\ n.operand = b /\ n.op = op
       /\ p < i /\ n.node \in OperatorNodes
  BY <1>4, <1>6, <1>9, <1>10 DEF Unary, OperatorNodes
<1>12. CoversOperator(n)
  <2>1. IF n.op = "&mut"
        THEN At(n.from) = "&" /\ At(n.from + 1) = "mut" /\ n.operand.from = n.from + 2
        ELSE At(n.from) = n.op /\ n.operand.from = n.from + 1
    BY <1>1, <1>9, <1>11
  <2> QED
    BY <1>9, <1>11, <2>1 DEF CoversOperator
<1>13. Level(n) = 8 /\ Parts(n) = {b}
  BY <1>11 DEF Level, AtomNodes, Parts
<1>14. Stratified(n)
  <2>1. Level(n.operand) >= 8
    BY <1>8, <1>11
  <2> QED
    BY <1>11, <2>1 DEF Stratified
<1>15. Spans(n, p, i)
  BY <1>9, <1>11, <1>12, <1>13, <1>14, SpansNode, CoversIs
<1> QED
  BY <1>3, <1>7, <1>10, <1>13, <1>15, ResultIs

LEMMA UnaryBuilt ==
    ASSUME IsFile, NEW p \in Positions, BuildsBehind(p)
    PROVE  Builds(UnaryTier, p)
<1>1. PICK r : r = parseUnary(parse, p)
  OBVIOUS
<1>2. call(parse, UnaryTier, p) = r
  BY <1>1, ParseUnfolds, RunIs, RoutineFacts
<1>3. UnaryTier \in 0 .. 8 /\ UnaryTier = 8
  BY DEF UnaryTier
<1> SUFFICES ASSUME Accepted(r) PROVE Spans(built(r), p, reached(r)) /\ Level(built(r)) \in 8 .. 10
  BY <1>2, <1>3, FitsIs DEF Builds
<1>4. CASE At(p) \in {"!", "-", "&"}
  <2>1. Spans(built(r), p, reached(r)) /\ Level(built(r)) = 8
    BY <1>1, <1>4, OperandBuilt
  <2> QED
    BY <2>1
<1>5. CASE At(p) \notin {"!", "-", "&"}
  <2>1. PICK a : a = parsePrimary(parse, p)
    OBVIOUS
  <2>2. PICK e, i : e = built(a) /\ i = reached(a)
    OBVIOUS
  <2>3. PICK b : b = call(parse, SuffixList, i)
    OBVIOUS
  <2>4. Accepted(a) /\ Accepted(b)
    BY <1>1, <1>5, <2>1, <2>2, <2>3, UnaryShape
  <2>5. Spans(e, p, i) /\ Level(e) = 10
    BY <2>1, <2>2, <2>4, PrimaryBuilt DEF Tight
  <2>6. i \in Positions /\ i > p
    BY <2>5, SpansIs
  <2>7. PICK v, q : v = built(b) /\ q = reached(b)
    OBVIOUS
  <2>8. Carries(SuffixList, v, i, q)
    BY <2>3, <2>4, <2>6, <2>7, BuiltBehind, FitsIs, RoutineFacts
  <2>9. r = Parsed(Folded(SuffixList, e, v), q)
    <3>1. r = Parsed(FoldLeft(Suffixed, e, v), q)
      BY <1>1, <1>5, <2>1, <2>2, <2>3, <2>4, <2>7 DEF parseUnary, Then
    <3> QED
      BY <3>1 DEF Folded
  <2>10. Level(e) \in Takes(SuffixList) .. 10
    BY <2>5, LoopFacts
  <2>11. Spans(Folded(SuffixList, e, v), p, q) /\ Level(Folded(SuffixList, e, v)) \in 9 .. 10
    BY <2>5, <2>8, <2>10, LoopFacts DEF Carries
  <2> QED
    BY <2>9, <2>11, ResultIs
<1> QED
  BY <1>4, <1>5

LEMMA ExpressionBuilt ==
    ASSUME IsFile, NEW p \in Positions, BuildsBehind(p), Builds(1, p)
    PROVE  Builds(Expression, p)
<1>1. PICK r : r = parseExpression(parse, p)
  OBVIOUS
<1>2. call(parse, Expression, p) = r
  BY <1>1, ParseUnfolds, RunIs, RoutineFacts
<1>3. Expression \in 0 .. 8 /\ Expression = 0
  BY DEF Expression
<1> SUFFICES ASSUME Accepted(r) PROVE Spans(built(r), p, reached(r)) /\ Level(built(r)) \in 0 .. 10
  BY <1>2, <1>3, FitsIs DEF Builds
<1>4. PICK a : a = call(parse, 1, p)
  OBVIOUS
<1>5. PICK e, i : e = built(a) /\ i = reached(a)
  OBVIOUS
<1>6. Accepted(a)
  BY <1>1, <1>4, ExpressionShape
<1>7. Spans(e, p, i) /\ Level(e) \in 1 .. 10
  <2>1. 1 \in 0 .. 8 /\ 1 \in Routines
    BY RoutineFacts
  <2> QED
    BY <1>4, <1>5, <1>6, <2>1, BuiltBy, FitsIs
<1>8. p \in Nat /\ i \in Nat /\ i \in Positions /\ p < i /\ e.from = p /\ e.to = i - 1 /\ Whole(e)
  BY <1>7, SpansIs
<1>9. CASE At(i) = "="
  <2>1. PICK b : b = call(parse, Expression, i + 1)
    OBVIOUS
  <2>2. Accepted(b)
    BY <1>1, <1>4, <1>5, <1>9, <2>1, ExpressionShape
  <2>3. i + 1 \in Positions /\ i + 1 > p
    BY <1>8, <1>9, NextPosition
  <2>4. PICK w, q : w = built(b) /\ q = reached(b)
    OBVIOUS
  <2>5. Spans(w, i + 1, q)
    BY <2>1, <2>2, <2>3, <2>4, ExpressionBehind
  <2>6. q \in Nat /\ q \in Positions /\ i + 1 < q /\ w.from = i + 1 /\ w.to = q - 1 /\ Whole(w)
    BY <2>5, SpansIs
  <2>7. r = Parsed(Assignment(e, w), q)
    BY <1>1, <1>4, <1>5, <1>6, <1>9, <2>1, <2>2, <2>4 DEF parseExpression, Then
  <2>8. PICK n : n = Assignment(e, w)
    OBVIOUS
  <2>9. /\ n.node = "Assignment" /\ n.from = p /\ n.to = q - 1 /\ n.target = e /\ n.value = w
        /\ p < q /\ n.node \in OperatorNodes
    BY <1>8, <2>6, <2>8 DEF Assignment, OperatorNodes
  <2>10. CoversOperator(n)
    <3>1. n.target.to + 1 = i /\ n.value.from = n.target.to + 2 /\ n.to = n.value.to
      BY <1>8, <2>6, <2>9
    <3> QED
      BY <1>8, <1>9, <2>9, <3>1 DEF CoversOperator
  <2>11. Level(n) = 0 /\ Parts(n) = {e, w}
    BY <2>9 DEF Level, AtomNodes, Parts
  <2>12. Stratified(n)
    <3>1. Level(n.target) > 0
      BY <1>7, <2>9
    <3> QED
      BY <2>9, <3>1 DEF Stratified
  <2>13. Spans(n, p, q)
    BY <1>8, <2>6, <2>9, <2>10, <2>11, <2>12, SpansNode, CoversIs
  <2> QED
    BY <2>7, <2>8, <2>11, <2>13, ResultIs
<1>10. CASE At(i) # "="
  <2>1. r = Parsed(e, i)
    BY <1>1, <1>4, <1>5, <1>6, <1>10 DEF parseExpression, Then
  <2> QED
    BY <1>7, <2>1, ResultIs
<1> QED
  BY <1>9, <1>10

----------------------------------------------------------------------------
(* Statements *)

LEMMA SpansStands ==
    ASSUME IsFile, NEW n, NEW p, NEW q, Spans(n, p, q)
    PROVE  Stands(n, p, q)
<1>1. p \in Nat /\ q \in Nat /\ p < q /\ p \in Positions /\ q \in Positions /\ n.from = p /\ n.to = q - 1
      /\ Whole(n)
  BY SpansIs
<1>2. n.to \in p .. q - 1 /\ n.to + 1 = q
  BY <1>1
<1> QED
  BY <1>1, <1>2, OnlyNone DEF Stands

LEMMA BuildsLater ==
    ASSUME IsFile, NEW p \in Positions, BuildsBehind(p), NEW q \in Positions, q >= p
    PROVE  BuildsBehind(q)
<1>1. \A k \in Positions : k \in Nat
  BY PositionFacts
<1>2. \A k \in Positions : k > q => k > p
  BY <1>1
<1> QED
  BY <1>2 DEF BuildsBehind

LEMMA SequencedFrom ==
    ASSUME NEW nodes, NEW gap, NEW some, some \subseteq gap, NEW i \in Int, NEW q \in Int, NEW j \in Int,
           i <= q, Only(some, i, q), Sequenced(nodes, gap, q, j)
    PROVE  Sequenced(nodes, gap, i, j)
<1>1. /\ q <= j
      /\ \A k \in DOMAIN nodes : Within(nodes[k], q, j)
      /\ \A k, m \in DOMAIN nodes : k < m => nodes[k].to < nodes[m].from
      /\ \A p \in q .. j - 1 :
            At(p) \in gap \/ \E k \in DOMAIN nodes : p \in nodes[k].from .. nodes[k].to
  BY DEF Sequenced
<1>2. \A k \in DOMAIN nodes : Within(nodes[k], i, j)
  BY <1>1 DEF Within
<1>3. ASSUME NEW p \in i .. j - 1
      PROVE  At(p) \in gap \/ \E k \in DOMAIN nodes : p \in nodes[k].from .. nodes[k].to
  <2>1. CASE p < q
    <3>1. p \in i .. q - 1
      BY <2>1
    <3> QED
      BY <3>1 DEF Only
  <2>2. CASE p >= q
    <3>1. p \in q .. j - 1
      BY <2>2
    <3> QED
      BY <1>1, <3>1
  <2> QED
    BY <2>1, <2>2
<1> QED
  BY <1>1, <1>2, <1>3 DEF Sequenced

LEMMA TypeAfterBuilt ==
    ASSUME IsFile, NEW p \in Positions, BuildsBehind(p), NEW q \in Positions, q > p,
           NEW kind, kind # "EndOfFile",
           NEW r, r = parseTypeAfter(parse, kind, q), Accepted(r)
    PROVE  /\ Wholes(built(r)) /\ Optional(built(r), kind, q, reached(r))
           /\ reached(r) \in Positions /\ reached(r) >= q
<1>1. CASE At(q) # kind
  <2>1. PICK none : none = <<>>
    OBVIOUS
  <2>2. r = Parsed(none, q)
    BY <1>1, <2>1 DEF parseTypeAfter
  <2>3. q >= q
    BY PositionFacts
  <2> QED
    BY <2>1, <2>2, <2>3, NoNodes, ResultIs DEF Optional
<1>2. CASE At(q) = kind
  <2>1. q + 1 \in Positions /\ q \in Nat /\ p \in Nat /\ q + 1 > p
    <3>1. q + 1 \in Positions /\ q \in Nat /\ p \in Nat
      BY <1>2, NextPosition, PositionFacts
    <3> QED
      BY <3>1
  <2>2. PICK a : a = call(parse, TypeSyntax, q + 1)
    OBVIOUS
  <2>3. Accepted(a)
    BY <1>2, <2>2, TypeAfterShape
  <2>4. PICK b, i : b = built(a) /\ i = reached(a)
    OBVIOUS
  <2>5. i \in Nat /\ i \in Positions /\ q + 1 < i /\ b.from = q + 1 /\ b.to = i - 1 /\ Whole(b)
    BY <2>1, <2>2, <2>3, <2>4, TypeBehind, SpansIs
  <2>6. PICK nodes : nodes = <<b>>
    OBVIOUS
  <2>7. r = Parsed(nodes, i)
    BY <1>2, <2>2, <2>3, <2>4, <2>6 DEF parseTypeAfter, Then
  <2>8. Wholes(nodes) /\ nodes # <<>> /\ Len(nodes) = 1 /\ nodes[1] = b
    BY <2>5, <2>6, OneNode
  <2>9. Optional(nodes, kind, q, i)
    <3>1. i = b.to + 1
      BY <2>5
    <3> QED
      BY <1>2, <2>5, <2>8, <3>1 DEF Optional
  <2>10. i >= q
    BY <2>1, <2>5
  <2> QED
    BY <2>5, <2>7, <2>8, <2>9, <2>10, ResultIs
<1> QED
  BY <1>1, <1>2

LEMMA BlockBuilt ==
    ASSUME IsFile, NEW p \in Positions, BuildsBehind(p), NEW q \in Positions, q > p,
           NEW r, r = parseBlock(parse, q), Accepted(r)
    PROVE  Spans(built(r), q, reached(r)) /\ At(built(r).to) = "RightBrace"
<1>1. PICK a : a = call(parse, StatementList, q + 1)
  OBVIOUS
<1>2. PICK v, i : v = built(a) /\ i = reached(a)
  OBVIOUS
<1>3. At(q) = "LeftBrace" /\ Accepted(a) /\ At(i) = "RightBrace"
  BY <1>1, <1>2, BlockShape
<1>4. q + 1 \in Positions /\ q \in Nat /\ q + 1 > p
  <2>1. q + 1 \in Positions /\ q \in Nat /\ p \in Nat
    BY <1>3, NextPosition, PositionFacts
  <2> QED
    BY <2>1
<1>5. Wholes(v) /\ Sequenced(v, Separators, q + 1, i) /\ i \in Positions /\ i >= q + 1
  BY <1>1, <1>2, <1>3, <1>4, BuiltBehind, FitsIs, RoutineFacts
<1>6. r = Parsed(Block(q, v, i), i + 1)
  BY <1>1, <1>2, <1>3, ExpectShape, ParsedShape DEF parseBlock, Then
<1>7. i + 1 \in Positions /\ i \in Nat
  BY <1>3, <1>5, NextPosition
<1>8. PICK n : n = Block(q, v, i)
  OBVIOUS
<1>9. n.node = "Block" /\ n.from = q /\ n.to = i /\ n.statements = v
  BY <1>8 DEF Block
<1>10. CoversStatement(n)
  BY <1>3, <1>5, <1>9 DEF CoversStatement
<1>11. Stratified(n) /\ Parts(n) = Range(v)
  BY <1>9 DEF Stratified, Parts
<1>12. n.to = (i + 1) - 1 /\ q < i + 1 /\ n.node \in StatementNodes
  BY <1>4, <1>5, <1>7, <1>9 DEF StatementNodes
<1>13. \A m \in Parts(n) : Whole(m)
  BY <1>5, <1>11, WholePart
<1>14. Spans(n, q, i + 1)
  BY <1>7, <1>9, <1>10, <1>11, <1>12, <1>13, SpansNode, CoversIs
<1> QED
  BY <1>3, <1>6, <1>8, <1>9, <1>14, ResultIs

LEMMA TerminatedIs ==
    ASSUME NEW n, NEW p, NEW r, r = terminated(n, p), At(p) \in Terminators
    PROVE  r = Parsed(n, p)
BY DEF terminated

LEMMA VarDeclBuilt ==
    ASSUME IsFile, NEW p \in Positions, BuildsBehind(p), At(p) \in {"let", "mut"},
           NEW r, r = parseVarDeclStmt(parse, p), Accepted(r)
    PROVE  Spans(built(r), p, reached(r))
<1>1. PICK a : a = parseTypeAfter(parse, "Colon", p + 1 + 1)
  OBVIOUS
<1>2. PICK v, i : v = built(a) /\ i = reached(a)
  OBVIOUS
<1>3. PICK b : b = call(parse, Expression, i + 1)
  OBVIOUS
<1>4. PICK e, j : e = built(b) /\ j = reached(b)
  OBVIOUS
<1>5. At(p + 1) = "Identifier" /\ Accepted(a) /\ At(i) = "=" /\ Accepted(b) /\ At(j) \in Terminators
  BY <1>1, <1>2, <1>3, <1>4, VarDeclShape
<1>6. p \in Nat /\ p + 1 \in Positions /\ p + 1 + 1 \in Positions
  BY <1>5, NextPosition
<1>7. p + 1 + 1 > p
  BY <1>6
<1>8. Wholes(v) /\ Optional(v, "Colon", p + 1 + 1, i) /\ i \in Positions /\ i >= p + 1 + 1
  BY <1>1, <1>2, <1>5, <1>6, <1>7, TypeAfterBuilt
<1>9. i + 1 \in Positions /\ i \in Nat
  BY <1>5, <1>8, NextPosition
<1>10. i + 1 > p
  BY <1>6, <1>8, <1>9
<1>11. j \in Nat /\ j \in Positions /\ i + 1 < j /\ e.from = i + 1 /\ e.to = j - 1 /\ Whole(e)
  BY <1>3, <1>4, <1>5, <1>9, <1>10, ExpressionBehind, SpansIs
<1>12. PICK n : n = VarDecl(p, At(p) = "mut", v, e)
  OBVIOUS
<1>13. r = Parsed(n, j)
  BY <1>1, <1>2, <1>3, <1>4, <1>5, <1>12, ExpectShape, ParsedShape, TerminatedIs DEF parseVarDeclStmt, Then
<1>14. /\ n.node = "VarDecl" /\ n.from = p /\ n.to = j - 1 /\ n.mutable = (At(p) = "mut")
       /\ n.type = v /\ n.initializer = e /\ p < j /\ n.node \in StatementNodes
  BY <1>6, <1>10, <1>9, <1>11, <1>12 DEF VarDecl, StatementNodes
<1>15. CoversStatement(n)
  <2>1. n.initializer.from - 1 = i /\ n.from + 2 = p + 1 + 1 /\ n.to = n.initializer.to
    BY <1>6, <1>9, <1>11, <1>14
  <2>2. At(n.from) = (IF n.mutable THEN "mut" ELSE "let")
    BY <1>14
  <2> QED
    BY <1>5, <1>8, <1>14, <2>1, <2>2 DEF CoversStatement
<1>16. Stratified(n) /\ Parts(n) = Range(v) \cup {e}
  BY <1>14 DEF Stratified, Parts
<1>17. \A m \in Parts(n) : Whole(m)
  BY <1>8, <1>11, <1>16, WholePart
<1>18. Spans(n, p, j)
  BY <1>11, <1>14, <1>15, <1>16, <1>17, SpansNode, CoversIs
<1> QED
  BY <1>13, <1>18, ResultIs

LEMMA ReturnBuilt ==
    ASSUME IsFile, NEW p \in Positions, BuildsBehind(p), At(p) = "return",
           NEW r, r = parseReturnStmt(parse, p), Accepted(r)
    PROVE  Spans(built(r), p, reached(r))
<1>1. p \in Nat /\ p + 1 \in Positions /\ p + 1 > p
  BY NextPosition
<1>2. CASE At(p + 1) \in Terminators
  <2>1. PICK v : v = <<>>
    OBVIOUS
  <2>2. PICK n : n = Return(p, v)
    OBVIOUS
  <2>3. r = Parsed(n, p + 1)
    BY <1>2, <2>1, <2>2 DEF parseReturnStmt
  <2>4. n.node = "Return" /\ n.from = p /\ n.to = p /\ n.value = v /\ n.node \in StatementNodes
    BY <2>1, <2>2 DEF Return, StatementNodes
  <2>5. CoversStatement(n)
    BY <2>1, <2>4 DEF CoversStatement
  <2>6. Stratified(n) /\ Parts(n) = {}
    BY <2>1, <2>4, NoNodes DEF Stratified, Parts
  <2>7. n.to = (p + 1) - 1 /\ p < p + 1
    BY <1>1, <2>4
  <2>8. Spans(n, p, p + 1)
    BY <1>1, <2>4, <2>5, <2>6, <2>7, SpansNode, CoversIs
  <2> QED
    BY <2>3, <2>8, ResultIs
<1>3. CASE At(p + 1) \notin Terminators
  <2>1. PICK a : a = call(parse, Expression, p + 1)
    OBVIOUS
  <2>2. PICK e, i : e = built(a) /\ i = reached(a)
    OBVIOUS
  <2>3. Accepted(a) /\ At(i) \in Terminators
    BY <1>3, <2>1, <2>2, ReturnShape
  <2>4. i \in Nat /\ i \in Positions /\ p + 1 < i /\ e.from = p + 1 /\ e.to = i - 1 /\ Whole(e)
    BY <1>1, <2>1, <2>2, <2>3, ExpressionBehind, SpansIs
  <2>5. PICK v : v = <<e>>
    OBVIOUS
  <2>6. PICK n : n = Return(p, v)
    OBVIOUS
  <2>7. r = Parsed(n, i)
    BY <1>3, <2>1, <2>2, <2>3, <2>5, <2>6, TerminatedIs DEF parseReturnStmt, Then
  <2>8. Wholes(v) /\ v # <<>> /\ Len(v) = 1 /\ v[1] = e
    BY <2>4, <2>5, OneNode
  <2>9. /\ n.node = "Return" /\ n.from = p /\ n.to = i - 1 /\ n.value = v /\ p < i
        /\ n.node \in StatementNodes
    BY <1>1, <2>4, <2>6, <2>8 DEF Return, StatementNodes
  <2>10. CoversStatement(n)
    BY <2>4, <2>8, <2>9 DEF CoversStatement
  <2>11. Stratified(n) /\ Parts(n) = Range(v)
    BY <2>9 DEF Stratified, Parts
  <2>12. \A m \in Parts(n) : Whole(m)
    BY <2>8, <2>11, WholePart
  <2>13. Spans(n, p, i)
    BY <2>4, <2>9, <2>10, <2>11, <2>12, SpansNode, CoversIs
  <2> QED
    BY <2>7, <2>13, ResultIs
<1> QED
  BY <1>2, <1>3

LEMMA WhileBuilt ==
    ASSUME IsFile, NEW p \in Positions, BuildsBehind(p), At(p) = "while",
           NEW r, r = parseWhileStmt(parse, p), Accepted(r)
    PROVE  Spans(built(r), p, reached(r))
<1>1. p \in Nat /\ p + 1 \in Positions /\ p + 1 > p
  BY NextPosition
<1>2. PICK a : a = call(parse, Expression, p + 1)
  OBVIOUS
<1>3. PICK e, i : e = built(a) /\ i = reached(a)
  OBVIOUS
<1>4. PICK b : b = parseBlock(parse, i)
  OBVIOUS
<1>5. PICK body, j : body = built(b) /\ j = reached(b)
  OBVIOUS
<1>6. Accepted(a) /\ Accepted(b)
  BY <1>2, <1>3, <1>4, WhileShape
<1>7. i \in Nat /\ i \in Positions /\ p + 1 < i /\ e.from = p + 1 /\ e.to = i - 1 /\ Whole(e)
  BY <1>1, <1>2, <1>3, <1>6, ExpressionBehind, SpansIs
<1>8. i > p
  BY <1>1, <1>7
<1>9. j \in Nat /\ j \in Positions /\ i < j /\ body.from = i /\ body.to = j - 1 /\ Whole(body)
  BY <1>4, <1>5, <1>6, <1>7, <1>8, BlockBuilt, SpansIs
<1>10. PICK n : n = While(p, e, body)
  OBVIOUS
<1>11. r = Parsed(n, j)
  BY <1>2, <1>3, <1>4, <1>5, <1>6, <1>10 DEF parseWhileStmt, Then
<1>12. /\ n.node = "While" /\ n.from = p /\ n.to = j - 1 /\ n.condition = e /\ n.body = body /\ p < j
       /\ n.node \in StatementNodes
  BY <1>1, <1>7, <1>9, <1>10 DEF While, StatementNodes
<1>13. CoversStatement(n)
  <2>1. n.condition.from = n.from + 1 /\ n.body.from = n.condition.to + 1 /\ n.to = n.body.to
    BY <1>1, <1>7, <1>9, <1>12
  <2> QED
    BY <1>12, <2>1 DEF CoversStatement
<1>14. Stratified(n) /\ Parts(n) = {e, body}
  BY <1>12 DEF Stratified, Parts
<1>15. Spans(n, p, j)
  BY <1>7, <1>9, <1>12, <1>13, <1>14, SpansNode, CoversIs
<1> QED
  BY <1>11, <1>15, ResultIs

LEMMA ForBuilt ==
    ASSUME IsFile, NEW p \in Positions, BuildsBehind(p), At(p) = "for",
           NEW r, r = parseForStmt(parse, p), Accepted(r)
    PROVE  Spans(built(r), p, reached(r))
<1>1. PICK a : a = call(parse, Expression, p + 1 + 1 + 1)
  OBVIOUS
<1>2. PICK e, i : e = built(a) /\ i = reached(a)
  OBVIOUS
<1>3. PICK b : b = parseBlock(parse, i)
  OBVIOUS
<1>4. PICK body, j : body = built(b) /\ j = reached(b)
  OBVIOUS
<1>5. At(p + 1) = "Identifier" /\ At(p + 1 + 1) = "in" /\ Accepted(a) /\ Accepted(b)
  BY <1>1, <1>2, <1>3, ForShape
<1>6. p \in Nat /\ p + 1 \in Positions /\ p + 1 + 1 \in Positions /\ p + 1 + 1 + 1 \in Positions
  BY <1>5, NextPosition
<1>7. p + 1 + 1 + 1 > p
  BY <1>6
<1>8. i \in Nat /\ i \in Positions /\ p + 1 + 1 + 1 < i /\ e.from = p + 1 + 1 + 1 /\ e.to = i - 1 /\ Whole(e)
  BY <1>1, <1>2, <1>5, <1>6, <1>7, ExpressionBehind, SpansIs
<1>9. i > p
  BY <1>6, <1>8
<1>10. j \in Nat /\ j \in Positions /\ i < j /\ body.from = i /\ body.to = j - 1 /\ Whole(body)
  BY <1>3, <1>4, <1>5, <1>8, <1>9, BlockBuilt, SpansIs
<1>11. PICK n : n = For(p, e, body)
  OBVIOUS
<1>12. r = Parsed(n, j)
  BY <1>1, <1>2, <1>3, <1>4, <1>5, <1>11, ExpectShape, ParsedShape DEF parseForStmt, Then
<1>13. /\ n.node = "For" /\ n.from = p /\ n.to = j - 1 /\ n.iterable = e /\ n.body = body /\ p < j
       /\ n.node \in StatementNodes
  BY <1>9, <1>6, <1>8, <1>10, <1>11 DEF For, StatementNodes
<1>14. CoversStatement(n)
  <2>1. /\ n.iterable.from = n.from + 3 /\ n.body.from = n.iterable.to + 1 /\ n.to = n.body.to
        /\ n.from + 2 = p + 1 + 1
    BY <1>6, <1>8, <1>10, <1>13
  <2> QED
    BY <1>5, <1>13, <2>1 DEF CoversStatement
<1>15. Stratified(n) /\ Parts(n) = {e, body}
  BY <1>13 DEF Stratified, Parts
<1>16. Spans(n, p, j)
  BY <1>8, <1>10, <1>13, <1>14, <1>15, SpansNode, CoversIs
<1> QED
  BY <1>12, <1>16, ResultIs

LEMMA ExprStmtBuilt ==
    ASSUME IsFile, NEW e, NEW p, NEW i, Spans(e, p, i), Level(e) \in 0 .. 10
    PROVE  Spans(ExprStmt(e), p, i)
<1>1. /\ p \in Nat /\ i \in Nat /\ p \in Positions /\ i \in Positions /\ p < i
      /\ e.from = p /\ e.to = i - 1 /\ Whole(e)
  BY SpansIs
<1>2. PICK n : n = ExprStmt(e)
  OBVIOUS
<1>3. n.node = "ExprStmt" /\ n.from = p /\ n.to = i - 1 /\ n.expr = e /\ n.node \in StatementNodes
  BY <1>1, <1>2 DEF ExprStmt, StatementNodes
<1>4. CoversStatement(n)
  BY <1>1, <1>3 DEF CoversStatement
<1>5. Stratified(n) /\ Parts(n) = {e}
  <2>1. Level(n.expr) >= 0
    BY <1>3
  <2> QED
    BY <1>3, <2>1 DEF Stratified, Parts
<1>6. Spans(n, p, i)
  BY <1>1, <1>3, <1>4, <1>5, SpansNode, CoversIs
<1> QED
  BY <1>2, <1>6

LEMMA MoreRange ==
    ASSUME NEW x, Whole(x), NEW others, Wholes(others), NEW nodes, nodes = <<x>> \o others
    PROVE  Range(nodes) = {x} \cup Range(others)
<1>1. /\ Len(others) \in Nat /\ DOMAIN nodes = 1 .. Len(nodes) /\ DOMAIN others = 1 .. Len(others)
      /\ Len(nodes) = Len(others) + 1 /\ nodes[1] = x
      /\ \A k \in 1 .. Len(others) : nodes[k + 1] = others[k]
  BY MoreNodes
<1>2. ASSUME NEW k \in DOMAIN nodes PROVE nodes[k] \in {x} \cup Range(others)
  <2>1. CASE k = 1
    BY <1>1, <2>1
  <2>2. CASE k # 1
    <3>1. k - 1 \in 1 .. Len(others) /\ (k - 1) + 1 = k
      BY <1>1, <2>2
    <3>2. nodes[k] = others[k - 1]
      BY <1>1, <3>1
    <3> QED
      BY <1>1, <3>1, <3>2 DEF Range
  <2> QED
    BY <2>1, <2>2
<1>3. ASSUME NEW k \in DOMAIN others PROVE others[k] \in Range(nodes)
  <2>1. k + 1 \in DOMAIN nodes /\ nodes[k + 1] = others[k]
    BY <1>1
  <2> QED
    BY <2>1 DEF Range
<1>4. x \in Range(nodes)
  <2>1. 1 \in DOMAIN nodes
    BY <1>1
  <2> QED
    BY <1>1, <2>1 DEF Range
<1> QED
  BY <1>2, <1>3, <1>4 DEF Range

\* One list of whole nodes, and another behind it.
LEMMA BothNodes ==
    ASSUME NEW B, NEW F, Wholes(B), Wholes(F), NEW L, L = B \o F
    PROVE  /\ Wholes(L) /\ Len(B) \in Nat /\ Len(F) \in Nat /\ Len(L) = Len(B) + Len(F)
           /\ DOMAIN B = 1 .. Len(B) /\ DOMAIN F = 1 .. Len(F) /\ DOMAIN L = 1 .. Len(L)
           /\ \A k \in 1 .. Len(B) : L[k] = B[k]
           /\ \A k \in 1 .. Len(F) : L[Len(B) + k] = F[k]
           /\ \A x : (<<x>> \o B) \o F = <<x>> \o L
           /\ B = <<>> <=> Len(B) = 0
<1>1. PICK S : B \in Seq(S) /\ \A m \in S : Whole(m)
  BY DEF Wholes
<1>2. PICK T : F \in Seq(T) /\ \A m \in T : Whole(m)
  BY DEF Wholes
<1>3. PICK U : U = S \cup T
  OBVIOUS
<1>4. B \in Seq(U) /\ F \in Seq(U) /\ \A m \in U : Whole(m)
  BY <1>1, <1>2, <1>3
<1>5. L \in Seq(U) /\ Len(L) = Len(B) + Len(F)
  BY <1>4
<1>6. Wholes(L)
  BY <1>4, <1>5 DEF Wholes
<1>7. /\ Len(B) \in Nat /\ Len(F) \in Nat /\ DOMAIN B = 1 .. Len(B) /\ DOMAIN F = 1 .. Len(F)
      /\ DOMAIN L = 1 .. Len(L) /\ B = <<>> <=> Len(B) = 0
  BY <1>4, <1>5
<1>8. ASSUME NEW k \in 1 .. Len(B) PROVE L[k] = B[k]
  BY <1>4, <1>7
<1>9. ASSUME NEW k \in 1 .. Len(F) PROVE L[Len(B) + k] = F[k]
  <2>1. Len(B) + k \in 1 .. Len(B) + Len(F) /\ Len(B) + k > Len(B) /\ (Len(B) + k) - Len(B) = k
    BY <1>7
  <2> QED
    BY <1>4, <1>7, <2>1
<1>10. ASSUME NEW x PROVE (<<x>> \o B) \o F = <<x>> \o L
  <2>1. PICK V : V = U \cup {x}
    OBVIOUS
  <2>2. <<x>> \in Seq(V) /\ B \in Seq(V) /\ F \in Seq(V)
    BY <1>4, <2>1
  <2> QED
    BY <2>2, ConcatAssociative
<1> QED
  BY <1>5, <1>6, <1>7, <1>8, <1>9, <1>10

LEMMA BranchBuilt ==
    ASSUME IsFile, NEW s \in Positions, NEW q,
           \/ q = s + 1 /\ At(s) = "if"
           \/ q = s + 2 /\ At(s) = "else" /\ At(s + 1) = "if",
           NEW e, NEW i, Spans(e, q, i), NEW body, NEW j, Spans(body, i, j), At(body.to) = "RightBrace",
           NEW n, n = Branch(s, e, body)
    PROVE  Spans(n, s, j) /\ Braced(n)
<1>1. s \in Nat /\ q \in Nat /\ q < i /\ e.from = q /\ e.to = i - 1 /\ Whole(e) /\ s < q
  BY SpansIs, PositionFacts
<1>2. /\ i \in Nat /\ j \in Nat /\ j \in Positions /\ i < j /\ body.from = i /\ body.to = j - 1
      /\ Whole(body)
  BY SpansIs
<1>3. n.node = "Branch" /\ n.from = s /\ n.to = j - 1 /\ n.condition = e /\ n.body = body /\ s < j
  BY <1>1, <1>2 DEF Branch
<1>4. CoversPart(n)
  <2>1. IF At(n.from) = "else"
        THEN At(n.from + 1) = "if" /\ n.condition.from = n.from + 2
        ELSE At(n.from) = "if" /\ n.condition.from = n.from + 1
    BY <1>1, <1>3
  <2>2. n.body.from = n.condition.to + 1 /\ n.to = n.body.to
    BY <1>1, <1>2, <1>3
  <2> QED
    BY <1>3, <2>1, <2>2 DEF CoversPart
<1>5. Stratified(n) /\ Parts(n) = {e, body}
  BY <1>3 DEF Stratified, Parts
<1>6. Spans(n, s, j)
  BY <1>1, <1>2, <1>3, <1>4, <1>5, SpansNode, CoversIs DEF PartNodes
<1> QED
  BY <1>2, <1>3, <1>6 DEF Braced

LEMMA ElseBuilt ==
    ASSUME IsFile, NEW s \in Positions, At(s) = "else",
           NEW body, NEW j, Spans(body, s + 1, j), At(body.to) = "RightBrace",
           NEW n, n = Else(s, body)
    PROVE  Spans(n, s, j) /\ Braced(n)
<1>1. s \in Nat
  BY PositionFacts
<1>2. /\ j \in Nat /\ j \in Positions /\ s + 1 < j /\ body.from = s + 1 /\ body.to = j - 1
      /\ Whole(body)
  BY SpansIs
<1>3. n.node = "Else" /\ n.from = s /\ n.to = j - 1 /\ n.body = body /\ s < j
  BY <1>1, <1>2 DEF Else
<1>4. CoversPart(n)
  BY <1>2, <1>3 DEF CoversPart
<1>5. Stratified(n) /\ Parts(n) = {body}
  BY <1>3 DEF Stratified, Parts
<1>6. Spans(n, s, j)
  BY <1>2, <1>3, <1>4, <1>5, SpansNode, CoversIs DEF PartNodes
<1> QED
  BY <1>2, <1>3, <1>6 DEF Braced

\* A branch behind line breaks, and those that follow it.
LEMMA BranchesOnto ==
    ASSUME IsFile, NEW p \in Positions, NEW s \in Positions, p <= s,
           \A k \in Positions : p <= k /\ k < s => At(k) = "Newline",
           NEW x, NEW i, Spans(x, s, i), At(s) = "else", Braced(x),
           NEW q \in Positions, NEW B, NEW F, BranchList(B, F, i, q), NEW C, C = <<x>> \o B
    PROVE  BranchList(C, F, p, q)
<1>1. PICK L, gap : L = B \o F /\ gap = {"Newline"}
  OBVIOUS
<1>2. /\ i \in Nat /\ i \in Positions /\ s < i /\ x.from = s /\ x.to = i - 1 /\ Whole(x) /\ s \in Nat
      /\ x.to + 1 = i /\ s <= x.to /\ x.to \in Int
  <2>1. i \in Nat /\ i \in Positions /\ s < i /\ x.from = s /\ x.to = i - 1 /\ Whole(x) /\ s \in Nat
    BY SpansIs
  <2> QED
    BY <2>1
<1>3. Wholes(B) /\ Wholes(F) /\ Len(F) <= 1 /\ Sequenced(L, gap, i, q)
  BY <1>1 DEF BranchList
<1>4. /\ \A k \in DOMAIN B : At(B[k].from) = "else"
      /\ \A m \in Range(B) \cup Range(F) : Braced(m)
  BY DEF BranchList
<1>5. /\ DOMAIN C = 1 .. Len(C) /\ Len(C) = Len(B) + 1 /\ C[1] = x /\ Len(B) \in Nat
      /\ DOMAIN B = 1 .. Len(B) /\ \A k \in 1 .. Len(B) : C[k + 1] = B[k]
  BY <1>2, <1>3, MoreNodes
<1>6. Wholes(C)
  BY <1>2, <1>3, MoreNodes
<1>7. Range(C) = {x} \cup Range(B)
  BY <1>2, <1>3, MoreRange
<1>8. PICK all : all = C \o F
  OBVIOUS
<1>9. Sequenced(all, gap, p, q)
  <2>1. Wholes(L)
    BY <1>1, <1>3, BothNodes
  <2>2. all = <<x>> \o L
    <3>1. C \o F = <<x>> \o L
      BY <1>1, <1>3, BothNodes
    <3> QED
      BY <1>8, <3>1
  <2>3. Sequenced(L, gap, x.to + 1, q) /\ \A k \in Positions : p <= k /\ k < s => At(k) \in gap
    BY <1>1, <1>2, <1>3
  <2> QED
    BY <1>2, <2>1, <2>2, <2>3, SequencedMore
<1>10. ASSUME NEW k \in DOMAIN C PROVE At(C[k].from) = "else"
  <2>1. CASE k = 1
    BY <1>2, <1>5, <2>1
  <2>2. CASE k # 1
    <3>1. k - 1 \in 1 .. Len(B) /\ (k - 1) + 1 = k
      BY <1>5, <2>2
    <3>2. C[k] = B[k - 1]
      BY <1>5, <3>1
    <3> QED
      BY <1>4, <1>5, <3>1, <3>2
  <2> QED
    BY <2>1, <2>2
<1>11. \A m \in Range(C) \cup Range(F) : Braced(m)
  BY <1>4, <1>7
<1> QED
  BY <1>1, <1>3, <1>6, <1>8, <1>9, <1>10, <1>11 DEF BranchList

LEMMA OtherBranches ==
    ASSUME NEW B, NEW F, NEW others, others = [branches |-> B, final |-> F], NEW C
    PROVE  [others EXCEPT !.branches = C] = [branches |-> C, final |-> F]
OBVIOUS

LEMMA BranchesMore ==
    ASSUME IsFile, NEW p \in Positions, NEW s \in Positions, p <= s,
           \A k \in Positions : p <= k /\ k < s => At(k) = "Newline",
           NEW x, NEW i, Spans(x, s, i), At(s) = "else", Braced(x),
           NEW others, NEW q \in Positions, Branches(others, i, q)
    PROVE  Branches([others EXCEPT !.branches = <<x>> \o @], p, q)
<1>1. PICK B, F, C : B = others.branches /\ F = others.final /\ C = <<x>> \o B
  OBVIOUS
<1>2. others = [branches |-> B, final |-> F] /\ BranchList(B, F, i, q)
  BY <1>1 DEF Branches
<1>3. BranchList(C, F, p, q)
  BY <1>1, <1>2, BranchesOnto
<1>4. PICK v : v = [branches |-> C, final |-> F]
  OBVIOUS
<1>5. [others EXCEPT !.branches = <<x>> \o @] = v
  <2>1. [others EXCEPT !.branches = <<x>> \o @] = [others EXCEPT !.branches = C]
    BY <1>1
  <2> QED
    BY <1>2, <1>4, <2>1, OtherBranches
<1>6. Branches(v, p, q)
  <2>1. v.branches = C /\ v.final = F
    BY <1>4
  <2> QED
    BY <1>3, <1>4, <2>1 DEF Branches
<1> QED
  BY <1>5, <1>6

LEMMA ElseListBuilt ==
    ASSUME IsFile, NEW p \in Positions, BuildsBehind(p)
    PROVE  Builds(ElseList, p)
<1>1. PICK r : r = parseElses(parse, p)
  OBVIOUS
<1>2. call(parse, ElseList, p) = r
  BY <1>1, ParseUnfolds, RunIs, RoutineFacts
<1> SUFFICES ASSUME Accepted(r) PROVE Branches(built(r), p, reached(r))
  BY <1>2, FitsIs DEF Builds
<1>3. PICK s : s = skipNewlines(p)
  OBVIOUS
<1>4. s \in Positions /\ s >= p /\ \A k \in Positions : p <= k /\ k < s => At(k) = "Newline"
  BY <1>3, NewlineFacts
<1>5. s \in Nat /\ p \in Nat /\ p <= s
  BY <1>4, PositionFacts
<1>6. PICK none : none = <<>>
  OBVIOUS
<1>7. Wholes(none) /\ Range(none) = {} /\ DOMAIN none = {} /\ Len(none) = 0 /\ Len(none) <= 1
  BY <1>6, NoNodes
<1>8. PICK gap : gap = {"Newline"}
  OBVIOUS
<1>9. \A k \in Positions : p <= k /\ k < s => At(k) \in gap
  BY <1>4, <1>8
<1>10. CASE At(s) # "else"
  <2>1. PICK v : v = [branches |-> none, final |-> none]
    OBVIOUS
  <2>2. r = Parsed(v, s)
    BY <1>1, <1>3, <1>6, <1>10, <2>1 DEF parseElses
  <2>3. PICK all : all = none \o none
    OBVIOUS
  <2>4. all = <<>>
    <3>1. none \in Seq({}) /\ all \in Seq({}) /\ Len(all) = 0
      BY <1>6, <2>3
    <3> QED
      BY <3>1
  <2>5. Sequenced(all, gap, p, s)
    BY <1>4, <1>5, <1>9, <2>4, SequencedNone
  <2>6. v.branches = none /\ v.final = none
    BY <2>1
  <2>7. BranchList(none, none, p, s)
    BY <1>7, <1>8, <2>3, <2>5 DEF BranchList
  <2>8. Branches(v, p, s)
    BY <2>1, <2>6, <2>7 DEF Branches
  <2> QED
    BY <2>2, <2>8, ResultIs
<1>11. CASE At(s) = "else" /\ At(s + 1) = "if"
  <2>1. PICK a : a = call(parse, Expression, s + 2)
    OBVIOUS
  <2>2. PICK e, i : e = built(a) /\ i = reached(a)
    OBVIOUS
  <2>3. PICK b : b = parseBlock(parse, i)
    OBVIOUS
  <2>4. PICK body, j : body = built(b) /\ j = reached(b)
    OBVIOUS
  <2>5. PICK c : c = call(parse, ElseList, j)
    OBVIOUS
  <2>6. PICK others, q : others = built(c) /\ q = reached(c)
    OBVIOUS
  <2>7. Accepted(a) /\ Accepted(b) /\ Accepted(c)
    BY <1>1, <1>3, <1>11, <2>1, <2>2, <2>3, <2>4, <2>5, ElsesShape
  <2>8. s + 2 \in Positions /\ s + 2 > p
    <3>1. s + 1 \in Positions
      BY <1>4, <1>11, NextPosition
    <3>2. (s + 1) + 1 \in Positions /\ (s + 1) + 1 = s + 2
      BY <1>5, <1>11, <3>1, NextPosition
    <3> QED
      BY <1>5, <3>2
  <2>9. Spans(e, s + 2, i)
    BY <2>1, <2>2, <2>7, <2>8, ExpressionBehind
  <2>10. i \in Positions /\ i > p
    <3>1. i \in Nat /\ i \in Positions /\ s + 2 < i
      BY <2>9, SpansIs
    <3> QED
      BY <1>5, <3>1
  <2>11. Spans(body, i, j) /\ At(body.to) = "RightBrace"
    BY <2>3, <2>4, <2>7, <2>10, BlockBuilt
  <2>12. j \in Positions /\ j > p
    <3>1. j \in Nat /\ i \in Nat /\ j \in Positions /\ i < j
      BY <2>11, SpansIs
    <3> QED
      BY <1>5, <2>10, <3>1
  <2>13. Branches(others, j, q) /\ q \in Positions
    BY <2>5, <2>6, <2>7, <2>12, BuiltBehind, FitsIs, RoutineFacts
  <2>14. PICK x : x = Branch(s, e, body)
    OBVIOUS
  <2>15. Spans(x, s, j) /\ Braced(x)
    BY <1>4, <1>11, <2>9, <2>11, <2>14, BranchBuilt
  <2>16. PICK v : v = [others EXCEPT !.branches = <<x>> \o @]
    OBVIOUS
  <2>17. r = Parsed(v, q)
    BY <1>1, <1>3, <1>11, <2>1, <2>2, <2>3, <2>4, <2>5, <2>6, <2>7, <2>14, <2>16 DEF parseElses, Then
  <2>18. Branches(v, p, q)
    BY <1>4, <1>5, <1>11, <2>13, <2>15, <2>16, BranchesMore
  <2> QED
    BY <2>17, <2>18, ResultIs
<1>12. CASE At(s) = "else" /\ At(s + 1) # "if"
  <2>1. PICK b : b = parseBlock(parse, s + 1)
    OBVIOUS
  <2>2. PICK body, j : body = built(b) /\ j = reached(b)
    OBVIOUS
  <2>3. Accepted(b)
    BY <1>1, <1>3, <1>12, <2>1, ElsesShape
  <2>4. s + 1 \in Positions /\ s + 1 > p
    BY <1>4, <1>5, <1>12, NextPosition
  <2>5. Spans(body, s + 1, j) /\ At(body.to) = "RightBrace"
    BY <2>1, <2>2, <2>3, <2>4, BlockBuilt
  <2>6. PICK x : x = Else(s, body)
    OBVIOUS
  <2>7. Spans(x, s, j) /\ Braced(x)
    BY <1>4, <1>12, <2>5, <2>6, ElseBuilt
  <2>8. j \in Positions /\ s < j /\ j \in Nat /\ x.from = s /\ x.to = j - 1 /\ Whole(x)
    BY <2>7, SpansIs
  <2>9. PICK F : F = <<x>>
    OBVIOUS
  <2>10. PICK v : v = [branches |-> none, final |-> F]
    OBVIOUS
  <2>11. r = Parsed(v, j)
    BY <1>1, <1>3, <1>6, <1>12, <2>1, <2>2, <2>3, <2>6, <2>9, <2>10 DEF parseElses, Then
  <2>12. Wholes(F) /\ Range(F) = {x} /\ Len(F) = 1
    BY <2>8, <2>9, OneNode
  <2>13. PICK all : all = none \o F
    OBVIOUS
  <2>14. all = <<x>> \o none
    <3>1. none \in Seq({x}) /\ <<x>> \in Seq({x})
      BY <1>6
    <3> QED
      BY <1>6, <2>9, <2>13, <3>1
  <2>15. Sequenced(all, gap, p, j)
    <3>1. x.to + 1 = j /\ s <= x.to /\ x.to \in Int /\ j <= j
      BY <1>5, <2>8
    <3>2. \A k \in Positions : j <= k /\ k < j => At(k) \in gap
      BY <2>8, PositionFacts
    <3>3. Sequenced(none, gap, x.to + 1, j)
      BY <1>6, <2>8, <3>1, <3>2, SequencedNone
    <3> QED
      BY <1>4, <1>5, <1>7, <1>9, <2>8, <2>14, <3>1, <3>3, SequencedMore
  <2>16. v.branches = none /\ v.final = F /\ Len(F) <= 1
    BY <2>10, <2>12
  <2>17. BranchList(none, F, p, j)
    BY <1>7, <1>8, <2>7, <2>12, <2>13, <2>15, <2>16 DEF BranchList
  <2>18. Branches(v, p, j)
    BY <2>10, <2>16, <2>17 DEF Branches
  <2> QED
    BY <2>11, <2>18, ResultIs
<1> QED
  BY <1>10, <1>11, <1>12

\* A list goes no further than its last node, but for what is skipped.
LEMMA SequencedCut ==
    ASSUME NEW L, NEW gap, NEW p \in Int, NEW q \in Int, Sequenced(L, gap, p, q),
           NEW n \in Nat, n >= 1, DOMAIN L = 1 .. n, NEW t, t = L[n].to
    PROVE  t \in p .. q - 1 /\ Sequenced(L, gap, p, t + 1) /\ Only(gap, t + 1, q)
<1>1. /\ p <= q
      /\ \A k \in DOMAIN L : Within(L[k], p, q)
      /\ \A k, m \in DOMAIN L : k < m => L[k].to < L[m].from
      /\ \A i \in p .. q - 1 :
            At(i) \in gap \/ \E k \in DOMAIN L : i \in L[k].from .. L[k].to
  BY DEF Sequenced
<1>2. n \in DOMAIN L /\ Within(L[n], p, q)
  BY <1>1
<1>3. L[n].from \in Int /\ p <= L[n].from /\ L[n].from <= t /\ t \in Int /\ t < q
  BY <1>2 DEF Within
<1>4. ASSUME NEW k \in DOMAIN L
      PROVE  /\ L[k].from \in Int /\ L[k].to \in Int /\ p <= L[k].from /\ L[k].from <= L[k].to
             /\ L[k].to <= t
  <2>1. L[k].from \in Int /\ L[k].to \in Int /\ p <= L[k].from /\ L[k].from <= L[k].to
    <3>1. Within(L[k], p, q)
      BY <1>1
    <3> QED
      BY <3>1 DEF Within
  <2>2. CASE k = n
    BY <1>3, <2>1, <2>2
  <2>3. CASE k # n
    <3>1. k < n
      BY <2>3
    <3>2. L[k].to < L[n].from
      BY <1>1, <1>2, <3>1
    <3> QED
      BY <1>3, <2>1, <3>2
  <2> QED
    BY <2>2, <2>3
<1>5. \A k \in DOMAIN L : Within(L[k], p, t + 1)
  <2> SUFFICES ASSUME NEW k \in DOMAIN L PROVE Within(L[k], p, t + 1)
    OBVIOUS
  <2> QED
    BY <1>3, <1>4 DEF Within
<1>6. Sequenced(L, gap, p, t + 1)
  <2>1. p <= t + 1 /\ \A i \in p .. (t + 1) - 1 : i \in p .. q - 1
    BY <1>3
  <2> QED
    BY <1>1, <1>5, <2>1 DEF Sequenced
<1>7. Only(gap, t + 1, q)
  <2> SUFFICES ASSUME NEW i \in t + 1 .. q - 1, At(i) \notin gap PROVE FALSE
    BY DEF Only
  <2>1. i \in p .. q - 1 /\ i > t
    BY <1>3
  <2>2. PICK k \in DOMAIN L : i \in L[k].from .. L[k].to
    BY <1>1, <2>1
  <2> QED
    BY <1>3, <1>4, <2>1, <2>2
<1> QED
  BY <1>3, <1>6, <1>7

\* What an if ends with: its last branch.
LEMMA LastBranch ==
    ASSUME NEW D, NEW F, Wholes(D), Wholes(F), Len(F) <= 1, D # <<>>, NEW L, L = D \o F
    PROVE  /\ Len(L) \in Nat /\ Len(L) >= 1 /\ DOMAIN L = 1 .. Len(L)
           /\ L[Len(L)] = IF F = <<>> THEN D[Len(D)] ELSE F[1]
           /\ L[Len(L)] \in Range(D) \cup Range(F)
<1>1. /\ Len(D) \in Nat /\ Len(F) \in Nat /\ Len(L) = Len(D) + Len(F)
      /\ DOMAIN D = 1 .. Len(D) /\ DOMAIN F = 1 .. Len(F) /\ DOMAIN L = 1 .. Len(L)
      /\ \A k \in 1 .. Len(D) : L[k] = D[k]
      /\ \A k \in 1 .. Len(F) : L[Len(D) + k] = F[k]
      /\ D = <<>> <=> Len(D) = 0
  BY BothNodes
<1>2. F = <<>> <=> Len(F) = 0
  <2>1. PICK S : F \in Seq(S)
    BY DEF Wholes
  <2> QED
    BY <2>1
<1>3. CASE F = <<>>
  <2>1. Len(L) = Len(D) /\ Len(D) \in 1 .. Len(D)
    BY <1>1, <1>2, <1>3
  <2>2. L[Len(L)] = D[Len(D)] /\ Len(D) \in DOMAIN D
    BY <1>1, <2>1
  <2> QED
    BY <1>1, <1>3, <2>1, <2>2 DEF Range
<1>4. CASE F # <<>>
  <2>1. Len(F) = 1 /\ Len(L) = Len(D) + 1 /\ 1 \in 1 .. Len(F)
    BY <1>1, <1>2, <1>4
  <2>2. L[Len(L)] = F[1] /\ 1 \in DOMAIN F
    BY <1>1, <2>1
  <2> QED
    BY <1>1, <1>4, <2>1, <2>2 DEF Range
<1> QED
  BY <1>3, <1>4

LEMMA BothRange ==
    ASSUME NEW B, NEW F, Wholes(B), Wholes(F), NEW L, L = B \o F
    PROVE  Range(L) \subseteq Range(B) \cup Range(F)
<1>1. /\ Len(B) \in Nat /\ Len(F) \in Nat /\ Len(L) = Len(B) + Len(F)
      /\ DOMAIN B = 1 .. Len(B) /\ DOMAIN F = 1 .. Len(F) /\ DOMAIN L = 1 .. Len(L)
      /\ \A k \in 1 .. Len(B) : L[k] = B[k]
      /\ \A k \in 1 .. Len(F) : L[Len(B) + k] = F[k]
  BY BothNodes
<1>2. ASSUME NEW k \in DOMAIN L PROVE L[k] \in Range(B) \cup Range(F)
  <2>1. CASE k \in 1 .. Len(B)
    BY <1>1, <2>1 DEF Range
  <2>2. CASE k \notin 1 .. Len(B)
    <3>1. k - Len(B) \in 1 .. Len(F) /\ Len(B) + (k - Len(B)) = k
      BY <1>1, <2>2
    <3>2. L[k] = F[k - Len(B)]
      BY <1>1, <3>1
    <3> QED
      BY <1>1, <3>1, <3>2 DEF Range
  <2> QED
    BY <2>1, <2>2
<1> QED
  BY <1>2 DEF Range

\* A whole if, from its branches.
LEMMA BranchesStand ==
    ASSUME IsFile, NEW p \in Positions, At(p) = "if", NEW x, NEW j, Spans(x, p, j), Braced(x),
           NEW B, NEW F, NEW q \in Positions, BranchList(B, F, j, q),
           NEW D, D = <<x>> \o B, NEW n, n = If(D, F)
    PROVE  Stands(n, p, q)
<1>1. /\ j \in Nat /\ j \in Positions /\ p < j /\ x.from = p /\ x.to = j - 1 /\ Whole(x) /\ p \in Nat
      /\ x.to + 1 = j /\ p <= x.to /\ x.to \in Int /\ p <= p /\ q \in Nat
  <2>1. j \in Nat /\ j \in Positions /\ p < j /\ x.from = p /\ x.to = j - 1 /\ Whole(x) /\ p \in Nat
    BY SpansIs
  <2>2. q \in Nat
    BY PositionFacts
  <2> QED
    BY <2>1, <2>2
<1>2. PICK M, gap : M = B \o F /\ gap = {"Newline"}
  OBVIOUS
<1>3. Wholes(B) /\ Wholes(F) /\ Len(F) <= 1 /\ Sequenced(M, gap, j, q)
  BY <1>2 DEF BranchList
<1>4. /\ \A k \in DOMAIN B : At(B[k].from) = "else"
      /\ \A m \in Range(B) \cup Range(F) : Braced(m)
  BY DEF BranchList
<1>5. /\ DOMAIN D = 1 .. Len(D) /\ Len(D) = Len(B) + 1 /\ D[1] = x /\ Len(B) \in Nat
      /\ DOMAIN B = 1 .. Len(B) /\ \A k \in 1 .. Len(B) : D[k + 1] = B[k]
  BY <1>1, <1>3, MoreNodes
<1>6. Wholes(D) /\ D # <<>>
  BY <1>1, <1>3, MoreNodes
<1>7. Range(D) = {x} \cup Range(B)
  BY <1>1, <1>3, MoreRange
<1>8. PICK L : L = D \o F
  OBVIOUS
<1>9. Sequenced(L, gap, p, q)
  <2>1. Wholes(M)
    BY <1>2, <1>3, BothNodes
  <2>2. L = <<x>> \o M
    <3>1. D \o F = <<x>> \o M
      BY <1>2, <1>3, BothNodes
    <3> QED
      BY <1>8, <3>1
  <2>3. Sequenced(M, gap, x.to + 1, q)
    BY <1>1, <1>3
  <2>4. \A k \in Positions : p <= k /\ k < p => At(k) \in gap
    BY PositionFacts
  <2> QED
    BY <1>1, <2>1, <2>2, <2>3, <2>4, SequencedMore
<1>10. PICK m, t : m = Len(L) /\ t = L[m].to
  OBVIOUS
<1>11. /\ m \in Nat /\ m >= 1 /\ DOMAIN L = 1 .. m
       /\ L[m] = (IF F = <<>> THEN D[Len(D)] ELSE F[1])
       /\ L[m] \in Range(D) \cup Range(F)
  BY <1>3, <1>6, <1>8, <1>10, LastBranch
<1>12. t \in p .. q - 1 /\ Sequenced(L, gap, p, t + 1) /\ Only(gap, t + 1, q)
  BY <1>1, <1>9, <1>10, <1>11, SequencedCut
<1>13. At(t) = "RightBrace"
  BY <1>4, <1>7, <1>10, <1>11 DEF Braced
<1>14. /\ n.node = "If" /\ n.from = p /\ n.to = t /\ n.branches = D /\ n.final = F
       /\ n.node \in StatementNodes
  BY <1>1, <1>5, <1>10, <1>11 DEF If, StatementNodes
<1>15. ASSUME NEW k \in 2 .. Len(D) PROVE At(D[k].from) = "else"
  <2>1. k - 1 \in 1 .. Len(B) /\ (k - 1) + 1 = k
    BY <1>5
  <2>2. D[k] = B[k - 1]
    BY <1>5, <2>1
  <2> QED
    BY <1>4, <1>5, <2>1, <2>2
<1>16. CoversStatement(n)
  <2>1. n.branches \o n.final = L /\ n.branches # <<>> /\ At(n.to) # "Newline"
    BY <1>6, <1>8, <1>13, <1>14
  <2>2. \A k \in 2 .. Len(n.branches) : At(n.branches[k].from) = "else"
    BY <1>14, <1>15
  <2>3. \A y \in Range(L) : y.node \in {"Branch", "Else"}
    BY <1>4, <1>7, <1>8, <1>3, <1>6, BothRange DEF Braced
  <2> QED
    BY <1>2, <1>12, <1>14, <2>1, <2>2, <2>3 DEF CoversStatement
<1>17. Stratified(n) /\ Parts(n) = Range(L)
  BY <1>8, <1>14 DEF Stratified, Parts
<1>18. \A y \in Parts(n) : Whole(y)
  <2>1. Wholes(L)
    BY <1>3, <1>6, <1>8, BothNodes
  <2> QED
    BY <1>17, <2>1, WholePart
<1>19. t \in Nat /\ t + 1 \in Positions /\ p < t + 1
  <2>1. t \in Nat /\ t + 1 \in Nat /\ 1 <= t + 1 /\ t + 1 <= q /\ p < t + 1
    BY <1>1, <1>12
  <2>2. q <= End /\ End \in Nat
    BY PositionFacts
  <2>3. t + 1 <= End
    BY <1>1, <2>1, <2>2
  <2> QED
    BY <2>1, <2>3, PositionFacts
<1>20. n.to = (t + 1) - 1
  BY <1>14, <1>19
<1>21. Spans(n, p, t + 1)
  BY <1>14, <1>16, <1>17, <1>18, <1>19, <1>20, SpansNode, CoversIs
<1>22. Whole(n)
  BY <1>21 DEF Spans
<1> QED
  BY <1>2, <1>12, <1>14, <1>22 DEF Stands

LEMMA IfBuilt ==
    ASSUME IsFile, NEW p \in Positions, BuildsBehind(p), At(p) = "if",
           NEW r, r = parseIfStmt(parse, p), Accepted(r)
    PROVE  Stands(built(r), p, reached(r))
<1>1. p \in Nat /\ p + 1 \in Positions /\ p + 1 > p
  BY NextPosition
<1>2. PICK a : a = call(parse, Expression, p + 1)
  OBVIOUS
<1>3. PICK e, i : e = built(a) /\ i = reached(a)
  OBVIOUS
<1>4. PICK b : b = parseBlock(parse, i)
  OBVIOUS
<1>5. PICK body, j : body = built(b) /\ j = reached(b)
  OBVIOUS
<1>6. PICK c : c = call(parse, ElseList, j)
  OBVIOUS
<1>7. PICK others, q : others = built(c) /\ q = reached(c)
  OBVIOUS
<1>8. Accepted(a) /\ Accepted(b) /\ Accepted(c)
  BY <1>2, <1>3, <1>4, <1>5, <1>6, IfShape
<1>9. Spans(e, p + 1, i)
  BY <1>1, <1>2, <1>3, <1>8, ExpressionBehind
<1>10. i \in Positions /\ i > p
  <2>1. i \in Nat /\ i \in Positions /\ p + 1 < i
    BY <1>9, SpansIs
  <2> QED
    BY <1>1, <2>1
<1>11. Spans(body, i, j) /\ At(body.to) = "RightBrace"
  BY <1>4, <1>5, <1>8, <1>10, BlockBuilt
<1>12. j \in Positions /\ j > p
  <2>1. j \in Nat /\ i \in Nat /\ j \in Positions /\ i < j
    BY <1>11, SpansIs
  <2> QED
    BY <1>1, <1>10, <2>1
<1>13. Branches(others, j, q) /\ q \in Positions
  BY <1>6, <1>7, <1>8, <1>12, BuiltBehind, FitsIs, RoutineFacts
<1>14. PICK x : x = Branch(p, e, body)
  OBVIOUS
<1>15. Spans(x, p, j) /\ Braced(x)
  BY <1>9, <1>11, <1>14, BranchBuilt
<1>16. PICK B, F, D : B = others.branches /\ F = others.final /\ D = <<x>> \o B
  OBVIOUS
<1>17. BranchList(B, F, j, q)
  BY <1>13, <1>16 DEF Branches
<1>18. PICK n : n = If(D, F)
  OBVIOUS
<1>19. r = Parsed(n, q)
  BY <1>2, <1>3, <1>4, <1>5, <1>6, <1>7, <1>8, <1>14, <1>16, <1>18 DEF parseIfStmt, Then
<1>20. Stands(n, p, q)
  BY <1>13, <1>15, <1>16, <1>17, <1>18, BranchesStand
<1> QED
  BY <1>19, <1>20, ResultIs

LEMMA StatementBuilt ==
    ASSUME IsFile, NEW p \in Positions, BuildsBehind(p), Builds(Expression, p),
           NEW r, r = parseStatement(parse, p), Accepted(r)
    PROVE  Stands(built(r), p, reached(r))
<1>1. CASE At(p) \in {"let", "mut"}
  BY <1>1, StatementShape, VarDeclBuilt, SpansStands
<1>2. CASE At(p) = "return"
  BY <1>2, StatementShape, ReturnBuilt, SpansStands
<1>3. CASE At(p) = "if"
  BY <1>3, StatementShape, IfBuilt
<1>4. CASE At(p) = "while"
  BY <1>4, StatementShape, WhileBuilt, SpansStands
<1>5. CASE At(p) = "for"
  BY <1>5, StatementShape, ForBuilt, SpansStands
<1>6. CASE At(p) \notin {"let", "mut", "return", "if", "while", "for"}
  <2>1. PICK a : a = call(parse, Expression, p)
    OBVIOUS
  <2>2. PICK e, i : e = built(a) /\ i = reached(a)
    OBVIOUS
  <2>3. Accepted(a) /\ At(i) \in Terminators
    BY <1>6, <2>1, <2>2, StatementShape
  <2>4. Spans(e, p, i) /\ Level(e) \in 0 .. 10
    BY <2>1, <2>2, <2>3, ExpressionHere
  <2>5. r = Parsed(ExprStmt(e), i)
    BY <1>6, <2>1, <2>2, <2>3, TerminatedIs DEF parseStatement, Then
  <2>6. Spans(ExprStmt(e), p, i)
    BY <2>4, ExprStmtBuilt
  <2> QED
    BY <2>5, <2>6, SpansStands, ResultIs
<1> QED
  BY <1>1, <1>2, <1>3, <1>4, <1>5, <1>6

LEMMA StatementListBuilt ==
    ASSUME IsFile, NEW p \in Positions, BuildsBehind(p), Builds(Expression, p)
    PROVE  Builds(StatementList, p)
<1>1. PICK r : r = parseStatements(parse, p)
  OBVIOUS
<1>2. call(parse, StatementList, p) = r
  BY <1>1, ParseUnfolds, RunIs, RoutineFacts
<1> SUFFICES ASSUME Accepted(r)
             PROVE  Wholes(built(r)) /\ Sequenced(built(r), Separators, p, reached(r))
  BY <1>2, FitsIs DEF Builds
<1>3. PICK s : s = skipSeparators(p)
  OBVIOUS
<1>4. /\ s \in Positions /\ s >= p
      /\ \A k \in Positions : p <= k /\ k < s => At(k) \in {"Newline", "Semicolon"}
  BY <1>3, SeparatorFacts
<1>5. s \in Nat /\ p \in Nat /\ p <= s /\ \A k \in Positions : p <= k /\ k < s => At(k) \in Separators
  BY <1>4, PositionFacts DEF Separators
<1>6. At(s) # "EndOfFile"
  BY <1>1, <1>3, StatementsShape
<1>7. CASE At(s) = "RightBrace"
  <2>1. PICK none : none = <<>>
    OBVIOUS
  <2>2. r = Parsed(none, s)
    BY <1>1, <1>3, <1>7, <2>1 DEF parseStatements
  <2>3. Sequenced(none, Separators, p, s)
    BY <1>4, <1>5, <2>1, SequencedNone
  <2> QED
    BY <2>1, <2>2, <2>3, NoNodes, ResultIs
<1>8. CASE At(s) # "RightBrace"
  <2>1. PICK a : a = parseStatement(parse, s)
    OBVIOUS
  <2>2. PICK x, i : x = built(a) /\ i = reached(a)
    OBVIOUS
  <2>3. PICK b : b = call(parse, StatementList, i)
    OBVIOUS
  <2>4. Accepted(a) /\ Accepted(b)
    BY <1>1, <1>3, <1>6, <1>8, <2>1, <2>2, <2>3, StatementsShape
  <2>5. BuildsBehind(s) /\ Builds(Expression, s)
    <3>1. CASE s = p
      BY <3>1
    <3>2. CASE s > p
      BY <1>4, <3>2, BuildsLater, RoutineFacts DEF BuildsBehind
    <3> QED
      BY <1>5, <3>1, <3>2
  <2>6. Stands(x, s, i)
    BY <1>4, <2>1, <2>2, <2>4, <2>5, StatementBuilt
  <2>7. /\ i \in Positions /\ x.from = s /\ x.to \in s .. i - 1 /\ Only({"Newline"}, x.to + 1, i)
        /\ Whole(x) /\ i \in Nat
    BY <2>6, PositionFacts DEF Stands
  <2>8. PICK others, q : others = built(b) /\ q = reached(b)
    OBVIOUS
  <2>9. Wholes(others) /\ Sequenced(others, Separators, i, q) /\ q \in Positions
    <3>1. i > p
      BY <1>5, <2>7
    <3> QED
      BY <2>3, <2>4, <2>7, <2>8, <3>1, BuiltBehind, FitsIs, RoutineFacts
  <2>10. x.to + 1 \in Int /\ x.to + 1 <= i /\ i \in Int /\ q \in Int /\ s <= x.to /\ x.to \in Int
    <3>1. q \in Nat
      BY <2>9, PositionFacts
    <3> QED
      BY <1>5, <2>7, <3>1
  <2>11. Sequenced(others, Separators, x.to + 1, q)
    <3>1. PICK newline : newline = {"Newline"}
      OBVIOUS
    <3>2. newline \subseteq Separators /\ Only(newline, x.to + 1, i)
      BY <2>7, <3>1 DEF Separators
    <3> QED
      BY <2>9, <2>10, <3>2, SequencedFrom
  <2>12. PICK nodes : nodes = <<x>> \o others
    OBVIOUS
  <2>13. Sequenced(nodes, Separators, p, q)
    BY <1>4, <1>5, <2>7, <2>9, <2>10, <2>11, <2>12, SequencedMore
  <2>14. Wholes(nodes)
    BY <2>7, <2>9, <2>12, MoreNodes
  <2>15. r = Parsed(nodes, q)
    BY <1>1, <1>3, <1>6, <1>8, <2>1, <2>2, <2>3, <2>4, <2>8, <2>12 DEF parseStatements, Then
  <2> QED
    BY <2>13, <2>14, <2>15, ResultIs
<1> QED
  BY <1>7, <1>8

----------------------------------------------------------------------------
(* Declarations *)

LEMMA ParamBuilt ==
    ASSUME IsFile, NEW p \in Positions, At(p) = "Identifier", At(p + 1) = "Colon",
           NEW type, NEW i, Spans(type, p + 1 + 1, i), NEW n, n = Param(p, type)
    PROVE  Spans(n, p, i)
<1>1. p \in Nat
  BY PositionFacts
<1>2. /\ i \in Nat /\ i \in Positions /\ p + 1 + 1 < i /\ type.from = p + 1 + 1 /\ type.to = i - 1
      /\ Whole(type)
  BY SpansIs
<1>3. n.node = "Param" /\ n.from = p /\ n.to = i - 1 /\ n.type = type /\ p < i
  BY <1>1, <1>2 DEF Param
<1>4. CoversPart(n)
  <2>1. n.type.from = n.from + 2 /\ n.to = n.type.to
    BY <1>1, <1>2, <1>3
  <2> QED
    BY <1>3, <2>1 DEF CoversPart
<1>5. Stratified(n) /\ Parts(n) = {type}
  BY <1>3 DEF Stratified, Parts
<1> QED
  BY <1>2, <1>3, <1>4, <1>5, SpansNode, CoversIs DEF PartNodes

LEMMA ParamListBuilt ==
    ASSUME IsFile, NEW p \in Positions, BuildsBehind(p)
    PROVE  Builds(ParamList, p)
<1>1. PICK r : r = parseParams(parse, p)
  OBVIOUS
<1>2. call(parse, ParamList, p) = r
  BY <1>1, ParseUnfolds, RunIs, RoutineFacts
<1> SUFFICES ASSUME Accepted(r)
             PROVE  Wholes(built(r)) /\ built(r) # <<>> /\ Listed(built(r), {}, p, reached(r))
  BY <1>2, FitsIs DEF Builds
<1>3. PICK a : a = call(parse, TypeSyntax, p + 1 + 1)
  OBVIOUS
<1>4. PICK type, i : type = built(a) /\ i = reached(a)
  OBVIOUS
<1>5. At(p) = "Identifier" /\ At(p + 1) = "Colon" /\ Accepted(a)
  BY <1>1, <1>3, ParamsShape
<1>6. p \in Nat /\ p + 1 \in Positions /\ p + 1 + 1 \in Positions
  BY <1>5, NextPosition
<1>7. p + 1 + 1 > p
  BY <1>6
<1>8. Spans(type, p + 1 + 1, i)
  BY <1>3, <1>4, <1>5, <1>6, <1>7, TypeBehind
<1>9. PICK x : x = Param(p, type)
  OBVIOUS
<1>10. Spans(x, p, i)
  BY <1>5, <1>8, <1>9, ParamBuilt
<1>11. i \in Positions /\ i \in Nat /\ p < i /\ x.from = p /\ x.to = i - 1 /\ Whole(x)
  BY <1>10, SpansIs
<1>12. p <= x.from /\ x.from <= x.to /\ x.to < i /\ x.from \in Int /\ i <= i
  BY <1>6, <1>11
<1>13. PICK gap : gap = {}
  OBVIOUS
<1>14. Only(gap, p, x.from) /\ Only(gap, i, i)
  BY <1>6, <1>11, OnlyNone
<1>15. CASE At(i) = "Comma"
  <2>1. PICK b : b = call(parse, ParamList, i + 1)
    OBVIOUS
  <2>2. Accepted(b)
    BY <1>1, <1>3, <1>4, <1>15, <2>1, ParamsShape
  <2>3. i + 1 \in Positions /\ i + 1 > p
    BY <1>6, <1>11, <1>15, NextPosition
  <2>4. PICK v, j : v = built(b) /\ j = reached(b)
    OBVIOUS
  <2>5. Wholes(v) /\ v # <<>> /\ Listed(v, {}, i + 1, j) /\ j \in Positions
    BY <2>1, <2>2, <2>3, <2>4, BuiltBehind, FitsIs, RoutineFacts
  <2>6. r = Parsed(<<x>> \o v, j)
    BY <1>1, <1>3, <1>4, <1>5, <1>9, <1>15, <2>1, <2>2, <2>4, ExpectShape, ParsedShape DEF parseParams, Then
  <2>7. PICK nodes : nodes = <<x>> \o v
    OBVIOUS
  <2>8. Listed(nodes, gap, p, j)
    BY <1>11, <1>12, <1>13, <1>14, <1>15, <2>5, <2>7, ListedMore
  <2>9. Wholes(nodes) /\ nodes # <<>>
    BY <1>11, <2>5, <2>7, MoreNodes
  <2> QED
    BY <1>13, <2>6, <2>7, <2>8, <2>9, ResultIs
<1>16. CASE At(i) # "Comma"
  <2>1. r = Parsed(<<x>>, i)
    BY <1>1, <1>3, <1>4, <1>5, <1>9, <1>16, ExpectShape, ParsedShape DEF parseParams, Then
  <2>2. PICK nodes : nodes = <<x>>
    OBVIOUS
  <2>3. Listed(nodes, gap, p, i)
    BY <1>11, <1>12, <1>14, <2>2, ListedOne
  <2>4. Wholes(nodes) /\ nodes # <<>>
    BY <1>11, <2>2, OneNode
  <2> QED
    BY <1>13, <2>1, <2>2, <2>3, <2>4, ResultIs
<1> QED
  BY <1>15, <1>16

LEMMA ParametersBuilt ==
    ASSUME IsFile, NEW p \in Positions, BuildsBehind(p), NEW q \in Positions, q > p,
           NEW r, r = parseParamList(parse, q), Accepted(r)
    PROVE  /\ Wholes(built(r)) /\ Listed(built(r), {}, q, reached(r))
           /\ reached(r) \in Positions /\ reached(r) >= q
<1>1. CASE At(q) = "RightParen"
  <2>1. PICK nodes : nodes = <<>>
    OBVIOUS
  <2>2. r = Parsed(nodes, q)
    BY <1>1, <2>1 DEF parseParamList
  <2>3. q >= q
    BY PositionFacts
  <2> QED
    BY <2>1, <2>2, <2>3, NoNodes, ListedNone, ResultIs
<1>2. CASE At(q) # "RightParen"
  <2>1. r = call(parse, ParamList, q)
    BY <1>2 DEF parseParamList
  <2> QED
    BY <2>1, BuiltBehind, FitsIs, RoutineFacts
<1> QED
  BY <1>1, <1>2

\* What a signature is, from its fn on: its parameters, and where they close.
LEMMA SignatureBuilt ==
    ASSUME IsFile, NEW p \in Positions, BuildsBehind(p), NEW fn \in Positions, fn >= p,
           NEW r, r = parseSignature(parse, fn), Accepted(r)
    PROVE  /\ At(fn) = "fn" /\ At(fn + 1) = "Identifier" /\ At(fn + 2) = "LeftParen"
           /\ \E close \in Positions :
                 /\ close >= fn + 3 /\ Wholes(built(r)) /\ Listed(built(r), {}, fn + 3, close)
                 /\ At(close) = "RightParen" /\ reached(r) = close + 1
<1>1. PICK a : a = parseParamList(parse, fn + 1 + 1 + 1)
  OBVIOUS
<1>2. PICK v, close : v = built(a) /\ close = reached(a)
  OBVIOUS
<1>3. /\ At(fn) = "fn" /\ At(fn + 1) = "Identifier" /\ At(fn + 1 + 1) = "LeftParen"
      /\ Accepted(a) /\ At(close) = "RightParen"
  BY <1>1, <1>2, SignatureShape
<1>4. fn \in Nat /\ fn + 1 \in Positions /\ fn + 1 + 1 \in Positions /\ fn + 1 + 1 + 1 \in Positions
  BY <1>3, NextPosition
<1>5. fn + 1 + 1 = fn + 2 /\ fn + 1 + 1 + 1 = fn + 3 /\ fn + 3 > p
  <2>1. p \in Nat
    BY PositionFacts
  <2> QED
    BY <1>4, <2>1
<1>6. Wholes(v) /\ Listed(v, {}, fn + 3, close) /\ close \in Positions /\ close >= fn + 3
  BY <1>1, <1>2, <1>3, <1>4, <1>5, ParametersBuilt
<1>7. r = Parsed(v, close + 1)
  BY <1>1, <1>2, <1>3, ExpectShape, ParsedShape DEF parseSignature, Then
<1>8. built(r) = v /\ reached(r) = close + 1
  BY <1>7, ResultIs
<1> QED
  BY <1>3, <1>5, <1>6, <1>8

LEMMA FunctionBuilt ==
    ASSUME IsFile, NEW p \in Positions, BuildsBehind(p), NEW public \in BOOLEAN, NEW fn \in Positions,
           IF public THEN At(p) = "pub" /\ fn = p + 1 ELSE fn = p,
           NEW r, r = parseFunctionDecl(parse, public, p, fn), Accepted(r)
    PROVE  Spans(built(r), p, reached(r))
<1>1. PICK a : a = parseSignature(parse, fn)
  OBVIOUS
<1>2. PICK params, k : params = built(a) /\ k = reached(a)
  OBVIOUS
<1>3. PICK b : b = parseTypeAfter(parse, "->", k)
  OBVIOUS
<1>4. PICK v, i : v = built(b) /\ i = reached(b)
  OBVIOUS
<1>5. PICK c : c = parseBlock(parse, i)
  OBVIOUS
<1>6. PICK body, j : body = built(c) /\ j = reached(c)
  OBVIOUS
<1>7. Accepted(a) /\ Accepted(b) /\ Accepted(c)
  BY <1>1, <1>2, <1>3, <1>4, <1>5, FunctionShape
<1>8. p \in Nat /\ fn \in Nat /\ fn >= p /\ fn <= p + 1
  <2>1. p \in Nat /\ fn \in Nat
    BY PositionFacts
  <2> QED
    BY <2>1
<1>9. At(fn) = "fn" /\ At(fn + 1) = "Identifier" /\ At(fn + 2) = "LeftParen"
  BY <1>1, <1>7, <1>8, SignatureBuilt
<1>10. PICK close \in Positions :
          /\ close >= fn + 3 /\ Wholes(params) /\ Listed(params, {}, fn + 3, close)
          /\ At(close) = "RightParen" /\ k = close + 1
  BY <1>1, <1>2, <1>7, <1>8, SignatureBuilt
<1>11. k \in Positions /\ close \in Nat
  BY <1>10, NextPosition
<1>12. k > p
  BY <1>8, <1>10, <1>11
<1>13. Wholes(v) /\ Optional(v, "->", k, i) /\ i \in Positions /\ i >= k
  BY <1>3, <1>4, <1>7, <1>11, <1>12, TypeAfterBuilt
<1>14. i \in Nat /\ k \in Nat /\ i > p
  <2>1. i \in Nat /\ k \in Nat
    BY <1>11, <1>13, PositionFacts
  <2> QED
    BY <1>8, <1>12, <1>13, <2>1
<1>15. Spans(body, i, j)
  BY <1>5, <1>6, <1>7, <1>13, <1>14, BlockBuilt
<1>16. j \in Nat /\ j \in Positions /\ i < j /\ body.from = i /\ body.to = j - 1 /\ Whole(body)
  BY <1>15, SpansIs
<1>17. PICK n : n = FunctionDecl(p, public, params, v, body)
  OBVIOUS
<1>18. r = Parsed(n, j)
  BY <1>1, <1>2, <1>3, <1>4, <1>5, <1>6, <1>7, <1>17 DEF parseFunctionDecl, Then
<1>19. /\ n.node = "FunctionDecl" /\ n.from = p /\ n.to = j - 1 /\ n.public = public
       /\ n.params = params /\ n.returnType = v /\ n.body = body /\ p < j
  BY <1>8, <1>14, <1>16, <1>17 DEF FunctionDecl
<1>20. CoversPart(n)
  <2>1. (IF n.public THEN n.from + 1 ELSE n.from) = fn
    BY <1>19
  <2>2. close \in fn + 3 .. n.to /\ n.body.from = i /\ n.to = n.body.to
    BY <1>8, <1>10, <1>11, <1>13, <1>14, <1>16, <1>19
  <2>3. /\ Listed(n.params, {}, fn + 3, close) /\ At(close) = "RightParen"
        /\ Optional(n.returnType, "->", close + 1, n.body.from)
    BY <1>10, <1>13, <1>19, <2>2
  <2>4. n.public => At(n.from) = "pub"
    BY <1>19
  <2> QED
    BY <1>9, <1>19, <2>1, <2>2, <2>3, <2>4 DEF CoversPart
<1>21. Stratified(n) /\ Parts(n) = Range(params) \cup Range(v) \cup {body}
  BY <1>19 DEF Stratified, Parts
<1>22. \A m \in Parts(n) : Whole(m)
  BY <1>10, <1>13, <1>16, <1>21, WholePart
<1>23. Spans(n, p, j)
  BY <1>16, <1>19, <1>20, <1>21, <1>22, SpansNode, CoversIs DEF PartNodes
<1> QED
  BY <1>18, <1>23, ResultIs

LEMMA DeclarationBuilt ==
    ASSUME IsFile, NEW p \in Positions, BuildsBehind(p),
           NEW r, r = parseDeclaration(parse, p), Accepted(r)
    PROVE  Spans(built(r), p, reached(r))
<1>1. CASE At(p) = "pub"
  <2>1. r = parseFunctionDecl(parse, TRUE, p, p + 1)
    <3>1. r = parseFunctionDecl(parse, At(p) = "pub", p, p + 1)
      BY <1>1, DeclarationShape
    <3>2. (At(p) = "pub") = TRUE
      BY <1>1
    <3> QED
      BY <3>1, <3>2
  <2>2. p + 1 \in Positions
    BY <1>1, NextPosition
  <2> QED
    BY <1>1, <2>1, <2>2, FunctionBuilt
<1>2. CASE At(p) # "pub"
  <2>1. r = parseFunctionDecl(parse, FALSE, p, p)
    <3>1. r = parseFunctionDecl(parse, At(p) = "pub", p, p)
      BY <1>2, DeclarationShape
    <3>2. (At(p) = "pub") = FALSE
      BY <1>2
    <3> QED
      BY <3>1, <3>2
  <2> QED
    BY <2>1, FunctionBuilt
<1> QED
  BY <1>1, <1>2

LEMMA DeclarationListBuilt ==
    ASSUME IsFile, NEW p \in Positions, BuildsBehind(p)
    PROVE  Builds(DeclarationList, p)
<1>1. PICK r : r = parseDeclarations(parse, p)
  OBVIOUS
<1>2. call(parse, DeclarationList, p) = r
  BY <1>1, ParseUnfolds, RunIs, RoutineFacts
<1> SUFFICES ASSUME Accepted(r)
             PROVE  Wholes(built(r)) /\ Sequenced(built(r), Separators, p, reached(r))
  BY <1>2, FitsIs DEF Builds
<1>3. PICK s : s = skipSeparators(p)
  OBVIOUS
<1>4. /\ s \in Positions /\ s >= p
      /\ \A k \in Positions : p <= k /\ k < s => At(k) \in {"Newline", "Semicolon"}
  BY <1>3, SeparatorFacts
<1>5. s \in Nat /\ p \in Nat /\ p <= s /\ \A k \in Positions : p <= k /\ k < s => At(k) \in Separators
  BY <1>4, PositionFacts DEF Separators
<1>6. CASE At(s) = "EndOfFile"
  <2>1. PICK none : none = <<>>
    OBVIOUS
  <2>2. r = Parsed(none, s)
    BY <1>1, <1>3, <1>6, <2>1 DEF parseDeclarations
  <2>3. Sequenced(none, Separators, p, s)
    BY <1>4, <1>5, <2>1, SequencedNone
  <2> QED
    BY <2>1, <2>2, <2>3, NoNodes, ResultIs
<1>7. CASE At(s) # "EndOfFile"
  <2>1. PICK a : a = parseDeclaration(parse, s)
    OBVIOUS
  <2>2. PICK x, i : x = built(a) /\ i = reached(a)
    OBVIOUS
  <2>3. PICK b : b = call(parse, DeclarationList, i)
    OBVIOUS
  <2>4. Accepted(a) /\ Accepted(b)
    BY <1>1, <1>3, <1>7, <2>1, <2>2, <2>3, DeclarationsShape
  <2>5. BuildsBehind(s)
    BY <1>4, BuildsLater
  <2>6. Spans(x, s, i)
    BY <1>4, <2>1, <2>2, <2>4, <2>5, DeclarationBuilt
  <2>7. i \in Positions /\ i \in Nat /\ s < i /\ x.from = s /\ x.to = i - 1 /\ Whole(x)
    BY <2>6, SpansIs
  <2>8. PICK others, q : others = built(b) /\ q = reached(b)
    OBVIOUS
  <2>9. Wholes(others) /\ Sequenced(others, Separators, i, q) /\ q \in Positions
    <3>1. i > p
      BY <1>5, <2>7
    <3> QED
      BY <2>3, <2>4, <2>7, <2>8, <3>1, BuiltBehind, FitsIs, RoutineFacts
  <2>10. x.to + 1 = i /\ s <= x.to /\ x.to \in Int
    BY <1>5, <2>7
  <2>11. PICK nodes : nodes = <<x>> \o others
    OBVIOUS
  <2>12. Sequenced(nodes, Separators, p, q)
    BY <1>4, <1>5, <2>7, <2>9, <2>10, <2>11, SequencedMore
  <2>13. Wholes(nodes)
    BY <2>7, <2>9, <2>11, MoreNodes
  <2>14. r = Parsed(nodes, q)
    BY <1>1, <1>3, <1>7, <2>1, <2>2, <2>3, <2>4, <2>8, <2>11 DEF parseDeclarations, Then
  <2> QED
    BY <2>12, <2>13, <2>14, ResultIs
<1> QED
  BY <1>6, <1>7

LEMMA BuiltBefore ==
    ASSUME IsFile, NEW r \in Routines, NEW p \in Positions,
           \A h \in Routines : \A q \in Positions : Before(h, q, r, p) => Builds(h, q)
    PROVE  Builds(r, p)
<1>1. BuildsBehind(p)
  BY DEF BuildsBehind, Before
<1>2. \A h \in Routines : Rank(h) < Rank(r) => Builds(h, p)
  BY DEF Before
<1>3. \A t \in 1 .. 8 : t \in Routines
  BY RoutineFacts
<1>4. CASE r = Expression
  <2>1. Builds(1, p)
    BY <1>2, <1>3, <1>4, Ranks
  <2> QED
    BY <1>1, <1>4, <2>1, ExpressionBuilt
<1>5. CASE r \in 1 .. 7
  <2>1. r + 1 \in 1 .. 8 /\ Rank(r + 1) < Rank(r)
    BY <1>5, Ranks
  <2>2. Builds(r + 1, p)
    BY <1>2, <1>3, <2>1
  <2> QED
    BY <1>1, <1>5, <2>2, TierBuilt
<1>6. CASE r = ExpressionList
  <2>1. Builds(Expression, p)
    BY <1>2, <1>6, Ranks, RoutineFacts
  <2> QED
    BY <1>1, <1>6, <2>1, ExpressionListBuilt
<1>7. CASE r = TypeList
  <2>1. Builds(TypeSyntax, p)
    BY <1>2, <1>7, Ranks, RoutineFacts
  <2> QED
    BY <1>1, <1>7, <2>1, TypeListBuilt
<1>8. CASE r = StatementList
  <2>1. Builds(Expression, p)
    BY <1>2, <1>8, Ranks, RoutineFacts
  <2> QED
    BY <1>1, <1>8, <2>1, StatementListBuilt
<1>9. CASE \E tier \in 1 .. 7 : r = Rest(tier)
  BY <1>1, <1>9, RestBuilt
<1>10. CASE r \in {UnaryTier, SuffixList, TypeSyntax, ElseList, ParamList, DeclarationList}
  BY <1>1, <1>10, UnaryBuilt, SuffixListBuilt, TypeBuilt, ElseListBuilt, ParamListBuilt,
     DeclarationListBuilt
<1> QED
  BY <1>4, <1>5, <1>6, <1>7, <1>8, <1>9, <1>10, EveryRoutine

\* Every routine of the parser builds what stands for the tokens it read,
\* wherever in a file it is called.
THEOREM ParserBuildsTheText ==
    ASSUME IsFile
    PROVE  \A r \in Routines : \A p \in Positions : Builds(r, p)
<1> DEFINE G == {x \in Routines \X Positions : Builds(x[1], x[2])}
<1>1. \A r \in Routines : \A p \in Positions : <<r, p>> \in G <=> Builds(r, p)
  BY Zenon
<1> HIDE DEF G
<1>2. ASSUME NEW r \in Routines, NEW p \in Positions,
             \A h \in Routines : \A q \in Positions : Before(h, q, r, p) => <<h, q>> \in G
      PROVE  <<r, p>> \in G
  <2>1. \A h \in Routines : \A q \in Positions : Before(h, q, r, p) => Builds(h, q)
    BY <1>1, <1>2
  <2>2. Builds(r, p)
    BY <2>1, BuiltBefore
  <2> QED
    BY <1>1, <2>2
<1>3. \A r \in Routines : \A p \in Positions : <<r, p>> \in G
  BY <1>2, AlongTheCalls
<1> QED
  BY <1>1, <1>3

----------------------------------------------------------------------------
(* A node is longer than the nodes below it, but for an expression         *)
(* statement and an if, which may be as long as their one part.             *)

Tighter(m, n) == n.from <= m.from /\ m.to <= n.to /\ (n.from < m.from \/ m.to < n.to)

Extent(n) == n.from \in Nat /\ n.to \in Nat /\ 1 <= n.from /\ n.from <= n.to /\ n.to <= Len(tokens)

LEMMA ExtentIs ==
    ASSUME IsFile, NEW n, Within(n, 1, Len(tokens) + 1)
    PROVE  Extent(n)
<1>1. Len(tokens) \in Nat
  BY DEF IsFile, IsText
<1>2. n.from \in Nat /\ 1 <= n.from /\ n.from <= Len(tokens) /\ n.to \in n.from .. Len(tokens) + 1 - 1
  BY <1>1 DEF Within
<1> QED
  BY <1>1, <1>2 DEF Extent

\* A part of a list between two tokens of its node.
LEMMA ListedTighter ==
    ASSUME NEW n, Extent(n), NEW nodes, NEW gap, NEW i \in Nat, Listed(nodes, gap, i, n.to), n.from < i,
           NEW m \in Range(nodes)
    PROVE  Tighter(m, n)
<1>1. PICK k \in DOMAIN nodes : m = nodes[k]
  BY DEF Range
<1>2. Within(m, i, n.to)
  BY <1>1 DEF Listed
<1>3. m.from \in i .. n.to - 1 /\ m.to \in m.from .. n.to - 1 /\ n.from \in Nat /\ n.to \in Nat
  BY <1>2 DEF Within, Extent
<1> QED
  BY <1>3 DEF Tighter

\* The first and the second part of a node.
LEMMA TwoTighter ==
    ASSUME NEW n, NEW a, NEW b, Extent(n), Extent(a), Extent(b),
           n.from <= a.from, a.to < b.from, b.to <= n.to
    PROVE  Tighter(a, n) /\ Tighter(b, n)
<1>1. n.from \in Nat /\ n.to \in Nat /\ a.from \in Nat /\ a.to \in Nat /\ a.from <= a.to
  BY DEF Extent
<1>2. b.from \in Nat /\ b.to \in Nat /\ b.from <= b.to
  BY DEF Extent
<1>3. a.to < n.to /\ n.from < b.from
  BY <1>1, <1>2
<1> QED
  BY <1>1, <1>2, <1>3 DEF Tighter

LEMMA TypeTighter ==
    ASSUME NEW n, Extent(n), n.node \in TypeNodes, CoversType(n), \A m \in Parts(n) : Extent(m),
           NEW m \in Parts(n)
    PROVE  Tighter(m, n)
<1>0. n.from \in Nat /\ n.to \in Nat /\ n.from <= n.to
  BY DEF Extent
<1>1. CASE n.node \in {"NamedType", "UnitType"}
  BY <1>1 DEF Parts
<1>2. CASE n.node = "GenericType"
  <2>1. Listed(n.arguments, {"Newline"}, n.from + 2, n.to) /\ Parts(n) = Range(n.arguments)
    BY <1>2 DEF CoversType, Parts
  <2>2. n.from + 2 \in Nat /\ n.from < n.from + 2
    BY <1>0
  <2> QED
    BY <2>1, <2>2, ListedTighter
<1>3. CASE n.node = "ReferenceType"
  <2>1. n.referent.from = (IF n.mutable THEN n.from + 2 ELSE n.from + 1) /\ n.to = n.referent.to
    BY <1>3 DEF CoversType
  <2>2. Parts(n) = {n.referent}
    BY <1>3 DEF Parts
  <2> QED
    BY <1>0, <2>1, <2>2 DEF Tighter
<1>4. CASE n.node = "SliceType"
  <2>1. n.element.from = n.from + 1 /\ n.to = n.element.to + 1 /\ Parts(n) = {n.element}
    BY <1>4 DEF CoversType, Parts
  <2>2. Extent(n.element)
    BY <2>1
  <2> QED
    BY <1>0, <2>1, <2>2 DEF Tighter, Extent
<1>5. CASE n.node = "ArrayType"
  <2>1. /\ n.element.from = n.from + 1 /\ n.length = n.element.to + 2 /\ n.to = n.length + 1
        /\ Parts(n) = {n.element}
    BY <1>5 DEF CoversType, Parts
  <2>2. Extent(n.element)
    BY <2>1
  <2> QED
    BY <1>0, <2>1, <2>2 DEF Tighter, Extent
<1> QED
  BY <1>1, <1>2, <1>3, <1>4, <1>5 DEF TypeNodes

LEMMA AtomTighter ==
    ASSUME NEW n, Extent(n), n.node \in AtomNodes, CoversAtom(n), \A m \in Parts(n) : Extent(m),
           NEW m \in Parts(n)
    PROVE  Tighter(m, n)
<1>0. n.from \in Nat /\ n.to \in Nat /\ n.from <= n.to
  BY DEF Extent
<1>1. CASE n.node \in {"Identifier", "Literal", "Unit"}
  BY <1>1 DEF Parts
<1>2. CASE n.node = "Paren"
  <2>1. n.inner.from = n.from + 1 /\ n.to = n.inner.to + 1 /\ Parts(n) = {n.inner}
    BY <1>2 DEF CoversAtom, Parts
  <2>2. Extent(n.inner)
    BY <2>1
  <2> QED
    BY <1>0, <2>1, <2>2 DEF Tighter, Extent
<1>3. CASE n.node = "ArrayLiteral"
  <2>1. Listed(n.elements, {}, n.from + 1, n.to) /\ Parts(n) = Range(n.elements)
    BY <1>3 DEF CoversAtom, Parts
  <2>2. n.from + 1 \in Nat /\ n.from < n.from + 1
    BY <1>0
  <2> QED
    BY <2>1, <2>2, ListedTighter
<1> QED
  BY <1>1, <1>2, <1>3 DEF AtomNodes

LEMMA OperatorTighter ==
    ASSUME NEW n, Extent(n), n.node \in OperatorNodes, CoversOperator(n), \A m \in Parts(n) : Extent(m),
           NEW m \in Parts(n)
    PROVE  Tighter(m, n)
<1>0. n.from \in Nat /\ n.to \in Nat /\ n.from <= n.to
  BY DEF Extent
<1>1. CASE n.node = "Call"
  <2>1. n.from = n.callee.from /\ Listed(n.arguments, {}, n.callee.to + 2, n.to)
    BY <1>1 DEF CoversOperator
  <2>2. Parts(n) = {n.callee} \cup Range(n.arguments)
    BY <1>1 DEF Parts
  <2>3. Extent(n.callee)
    BY <2>2
  <2>4. PICK i : i = n.callee.to + 2
    OBVIOUS
  <2>5. i \in Nat /\ n.from < i /\ n.callee.to \in Nat
    BY <2>1, <2>3, <2>4 DEF Extent
  <2>6. i <= n.to
    BY <2>1, <2>4 DEF Listed
  <2>7. CASE m = n.callee
    BY <2>1, <2>4, <2>5, <2>6, <2>7, <1>0 DEF Tighter
  <2>8. CASE m \in Range(n.arguments)
    BY <2>1, <2>4, <2>5, <2>8, ListedTighter
  <2> QED
    BY <2>2, <2>7, <2>8
<1>2. CASE n.node = "Index"
  <2>1. /\ n.from = n.object.from /\ n.index.from = n.object.to + 2 /\ n.to = n.index.to + 1
        /\ Parts(n) = {n.object, n.index}
    BY <1>2 DEF CoversOperator, Parts
  <2>2. Extent(n.object) /\ Extent(n.index)
    BY <2>1
  <2>3. n.from <= n.object.from /\ n.object.to < n.index.from /\ n.index.to <= n.to
    BY <2>1, <2>2 DEF Extent
  <2> QED
    BY <2>1, <2>2, <2>3, TwoTighter
<1>3. CASE n.node = "Member"
  <2>1. n.from = n.object.from /\ n.to = n.object.to + 2 /\ Parts(n) = {n.object}
    BY <1>3 DEF CoversOperator, Parts
  <2>2. Extent(n.object)
    BY <2>1
  <2> QED
    BY <2>1, <2>2 DEF Tighter, Extent
<1>4. CASE n.node = "ErrorPropagation"
  <2>1. n.from = n.operand.from /\ n.to = n.operand.to + 1 /\ Parts(n) = {n.operand}
    BY <1>4 DEF CoversOperator, Parts
  <2>2. Extent(n.operand)
    BY <2>1
  <2> QED
    BY <2>1, <2>2 DEF Tighter, Extent
<1>5. CASE n.node = "Unary"
  <2>1. n.operand.from \in {n.from + 1, n.from + 2} /\ n.to = n.operand.to
    BY <1>5 DEF CoversOperator
  <2>2. Parts(n) = {n.operand}
    BY <1>5 DEF Parts
  <2> QED
    BY <1>0, <2>1, <2>2 DEF Tighter
<1>6. CASE n.node = "Binary"
  <2>1. /\ n.from = n.left.from /\ n.right.from = n.left.to + 2 /\ n.to = n.right.to
        /\ Parts(n) = {n.left, n.right}
    BY <1>6 DEF CoversOperator, Parts
  <2>2. Extent(n.left) /\ Extent(n.right)
    BY <2>1
  <2>3. n.from <= n.left.from /\ n.left.to < n.right.from /\ n.right.to <= n.to
    BY <2>1, <2>2 DEF Extent
  <2> QED
    BY <2>1, <2>2, <2>3, TwoTighter
<1>7. CASE n.node = "Assignment"
  <2>1. /\ n.from = n.target.from /\ n.value.from = n.target.to + 2 /\ n.to = n.value.to
        /\ Parts(n) = {n.target, n.value}
    BY <1>7 DEF CoversOperator, Parts
  <2>2. Extent(n.target) /\ Extent(n.value)
    BY <2>1
  <2>3. n.from <= n.target.from /\ n.target.to < n.value.from /\ n.value.to <= n.to
    BY <2>1, <2>2 DEF Extent
  <2> QED
    BY <2>1, <2>2, <2>3, TwoTighter
<1> QED
  BY <1>1, <1>2, <1>3, <1>4, <1>5, <1>6, <1>7 DEF OperatorNodes

LEMMA StatementTighter ==
    ASSUME NEW n, Extent(n), n.node \in StatementNodes \ {"ExprStmt", "If"}, CoversStatement(n),
           \A m \in Parts(n) : Extent(m), NEW m \in Parts(n)
    PROVE  Tighter(m, n)
<1>0. n.from \in Nat /\ n.to \in Nat /\ n.from <= n.to
  BY DEF Extent
<1>1. CASE n.node = "Block"
  <2>1. Sequenced(n.statements, Separators, n.from + 1, n.to) /\ Parts(n) = Range(n.statements)
    BY <1>1 DEF CoversStatement, Parts
  <2>2. PICK k \in DOMAIN n.statements : m = n.statements[k]
    BY <2>1 DEF Range
  <2>3. Within(m, n.from + 1, n.to)
    BY <2>1, <2>2 DEF Sequenced
  <2> QED
    BY <1>0, <2>3 DEF Within, Tighter
<1>2. CASE n.node = "VarDecl"
  <2>1. /\ Optional(n.type, "Colon", n.from + 2, n.initializer.from - 1) /\ n.to = n.initializer.to
    BY <1>2 DEF CoversStatement
  <2>2. Parts(n) = Range(n.type) \cup {n.initializer}
    BY <1>2 DEF Parts
  <2>3. Extent(n.initializer)
    BY <2>2
  <2>4. PICK i : i = n.initializer.from
    OBVIOUS
  <2>5. i \in Nat /\ i <= n.to /\ n.initializer.to = n.to
    BY <2>1, <2>3, <2>4 DEF Extent
  <2>6. CASE n.type = <<>>
    <3>1. n.from + 2 = i - 1 /\ Range(n.type) = {}
      BY <2>1, <2>4, <2>6, NoNodes DEF Optional
    <3> QED
      BY <1>0, <2>2, <2>4, <2>5, <3>1 DEF Tighter
  <2>7. CASE n.type # <<>>
    <3>1. /\ DOMAIN n.type = {1} /\ n.type[1].from = n.from + 3 /\ i - 1 = n.type[1].to + 1
      BY <1>0, <2>1, <2>4, <2>7 DEF Optional
    <3>2. Range(n.type) = {n.type[1]}
      BY <3>1 DEF Range
    <3>3. Extent(n.type[1])
      BY <2>2, <3>2
    <3>4. PICK t : t = n.type[1]
      OBVIOUS
    <3>5. t.from \in Nat /\ t.to \in Nat /\ t.from <= t.to /\ t.from = n.from + 3 /\ i = t.to + 2
      BY <2>5, <3>1, <3>3, <3>4 DEF Extent
    <3>6. t.to < n.to /\ n.from < t.from /\ n.from < i
      BY <1>0, <2>5, <3>5
    <3>7. Tighter(t, n) /\ Tighter(n.initializer, n)
      BY <1>0, <2>4, <2>5, <3>5, <3>6 DEF Tighter
    <3> QED
      BY <2>2, <3>2, <3>4, <3>7
  <2> QED
    BY <2>6, <2>7
<1>3. CASE n.node = "Return"
  <2>1. Parts(n) = Range(n.value)
    BY <1>3 DEF Parts
  <2>2. CASE n.value = <<>>
    BY <2>1, <2>2, NoNodes
  <2>3. CASE n.value # <<>>
    <3>1. DOMAIN n.value = {1} /\ n.value[1].from = n.from + 1 /\ n.to = n.value[1].to
      BY <1>3, <2>3 DEF CoversStatement
    <3>2. m = n.value[1]
      BY <2>1, <3>1 DEF Range
    <3> QED
      BY <1>0, <3>1, <3>2 DEF Tighter
  <2> QED
    BY <2>2, <2>3
<1>4. CASE n.node = "While"
  <2>1. /\ n.condition.from = n.from + 1 /\ n.body.from = n.condition.to + 1 /\ n.to = n.body.to
        /\ Parts(n) = {n.condition, n.body}
    BY <1>4 DEF CoversStatement, Parts
  <2>2. Extent(n.condition) /\ Extent(n.body)
    BY <2>1
  <2>3. n.from <= n.condition.from /\ n.condition.to < n.body.from /\ n.body.to <= n.to
    BY <1>0, <2>1, <2>2 DEF Extent
  <2> QED
    BY <2>1, <2>2, <2>3, TwoTighter
<1>5. CASE n.node = "For"
  <2>1. /\ n.iterable.from = n.from + 3 /\ n.body.from = n.iterable.to + 1 /\ n.to = n.body.to
        /\ Parts(n) = {n.iterable, n.body}
    BY <1>5 DEF CoversStatement, Parts
  <2>2. Extent(n.iterable) /\ Extent(n.body)
    BY <2>1
  <2>3. n.from <= n.iterable.from /\ n.iterable.to < n.body.from /\ n.body.to <= n.to
    BY <1>0, <2>1, <2>2 DEF Extent
  <2> QED
    BY <2>1, <2>2, <2>3, TwoTighter
<1> QED
  BY <1>1, <1>2, <1>3, <1>4, <1>5 DEF StatementNodes

LEMMA PartTighter ==
    ASSUME NEW n, Extent(n), n.node \in PartNodes, CoversPart(n), \A m \in Parts(n) : Extent(m),
           NEW m \in Parts(n)
    PROVE  Tighter(m, n)
<1>0. n.from \in Nat /\ n.to \in Nat /\ n.from <= n.to
  BY DEF Extent
<1>1. CASE n.node = "Branch"
  <2>1. /\ n.condition.from \in {n.from + 1, n.from + 2} /\ n.body.from = n.condition.to + 1
        /\ n.to = n.body.to
    BY <1>1 DEF CoversPart
  <2>2. Parts(n) = {n.condition, n.body}
    BY <1>1 DEF Parts
  <2>3. Extent(n.condition) /\ Extent(n.body)
    BY <2>2
  <2>4. n.from <= n.condition.from /\ n.condition.to < n.body.from /\ n.body.to <= n.to
    BY <1>0, <2>1, <2>3 DEF Extent
  <2> QED
    BY <2>2, <2>3, <2>4, TwoTighter
<1>2. CASE n.node = "Else"
  <2>1. n.body.from = n.from + 1 /\ n.to = n.body.to /\ Parts(n) = {n.body}
    BY <1>2 DEF CoversPart, Parts
  <2> QED
    BY <1>0, <2>1 DEF Tighter
<1>3. CASE n.node = "Param"
  <2>1. n.type.from = n.from + 2 /\ n.to = n.type.to /\ Parts(n) = {n.type}
    BY <1>3 DEF CoversPart, Parts
  <2> QED
    BY <1>0, <2>1 DEF Tighter
<1>4. CASE n.node = "FunctionDecl"
  <2>1. PICK fn : fn = IF n.public THEN n.from + 1 ELSE n.from
    OBVIOUS
  <2>2. PICK close \in fn + 3 .. n.to :
           /\ Listed(n.params, {}, fn + 3, close)
           /\ Optional(n.returnType, "->", close + 1, n.body.from)
    BY <1>4, <2>1 DEF CoversPart
  <2>3. n.to = n.body.to
    BY <1>4 DEF CoversPart
  <2>4. Parts(n) = Range(n.params) \cup Range(n.returnType) \cup {n.body}
    BY <1>4 DEF Parts
  <2>5. Extent(n.body)
    BY <2>4
  <2>6. PICK i : i = n.body.from
    OBVIOUS
  <2>7. /\ fn \in Nat /\ n.from <= fn /\ close \in Nat /\ fn + 3 <= close /\ close <= n.to
        /\ i \in Nat /\ i <= n.to
    BY <1>0, <2>1, <2>2, <2>3, <2>5, <2>6 DEF Extent
  <2>8. CASE m \in Range(n.params)
    <3>1. PICK k \in DOMAIN n.params : m = n.params[k]
      BY <2>8 DEF Range
    <3>2. Within(m, fn + 3, close)
      BY <2>2, <3>1 DEF Listed
    <3> QED
      BY <1>0, <2>7, <3>2 DEF Within, Tighter
  <2>9. close + 1 <= i /\ \A t \in Range(n.returnType) : Tighter(t, n)
    <3>1. CASE n.returnType = <<>>
      <4>1. close + 1 = i /\ Range(n.returnType) = {}
        BY <2>2, <2>6, <3>1, NoNodes DEF Optional
      <4> QED
        BY <2>7, <4>1
    <3>2. CASE n.returnType # <<>>
      <4>1. DOMAIN n.returnType = {1} /\ n.returnType[1].from = close + 2 /\ i = n.returnType[1].to + 1
        BY <2>2, <2>6, <2>7, <3>2 DEF Optional
      <4>2. Range(n.returnType) = {n.returnType[1]}
        BY <4>1 DEF Range
      <4>3. PICK t : t = n.returnType[1]
        OBVIOUS
      <4>4. Extent(t)
        BY <2>4, <4>2, <4>3
      <4>5. t.from \in Nat /\ t.to \in Nat /\ t.from <= t.to /\ t.from = close + 2 /\ i = t.to + 1
        BY <4>1, <4>3, <4>4 DEF Extent
      <4> QED
        BY <1>0, <2>7, <4>2, <4>3, <4>5 DEF Tighter
    <3> QED
      BY <3>1, <3>2
  <2>10. CASE m = n.body
    BY <1>0, <2>3, <2>6, <2>7, <2>9, <2>10 DEF Tighter
  <2> QED
    BY <2>4, <2>8, <2>9, <2>10
<1> QED
  BY <1>1, <1>2, <1>3, <1>4 DEF PartNodes

----------------------------------------------------------------------------
(* So going down a tree comes to an end                                     *)

Size(n) == 2 * (n.to - n.from) + IF n.node \in {"ExprStmt", "If"} THEN 1 ELSE 0

LEMMA SizeIs ==
    ASSUME IsFile, NEW n, Extent(n)
    PROVE  Size(n) \in Nat /\ Size(n) <= 2 * Len(tokens) - 1
<1>1. Len(tokens) \in Nat
  BY DEF IsFile, IsText
<1>2. n.from \in Nat /\ n.to \in Nat /\ 1 <= n.from /\ n.from <= n.to /\ n.to <= Len(tokens)
  BY DEF Extent
<1>3. PICK d : d = n.to - n.from
  OBVIOUS
<1>4. d \in Nat /\ d <= Len(tokens) - 1
  BY <1>1, <1>2, <1>3
<1>5. Size(n) \in {2 * d, 2 * d + 1}
  BY <1>3 DEF Size
<1> QED
  BY <1>1, <1>4, <1>5

LEMMA TighterSmaller ==
    ASSUME NEW n, NEW m, Extent(n), Extent(m),
           \/ Tighter(m, n)
           \/ /\ n.node \in {"ExprStmt", "If"} /\ m.node \notin {"ExprStmt", "If"}
              /\ n.from <= m.from /\ m.to <= n.to
    PROVE  Size(m) < Size(n)
<1>1. n.from \in Nat /\ n.to \in Nat /\ m.from \in Nat /\ m.to \in Nat /\ n.from <= n.to /\ m.from <= m.to
  BY DEF Extent
<1>2. PICK d, e : d = n.to - n.from /\ e = m.to - m.from
  OBVIOUS
<1>3. d \in Nat /\ e \in Nat
  BY <1>1, <1>2
<1>4. CASE Tighter(m, n)
  <2>1. e < d
    BY <1>1, <1>2, <1>4 DEF Tighter
  <2>2. Size(n) \in {2 * d, 2 * d + 1} /\ Size(m) \in {2 * e, 2 * e + 1}
    BY <1>2 DEF Size
  <2> QED
    BY <1>3, <2>1, <2>2
<1>5. CASE /\ n.node \in {"ExprStmt", "If"} /\ m.node \notin {"ExprStmt", "If"}
           /\ n.from <= m.from /\ m.to <= n.to
  <2>1. e <= d
    BY <1>1, <1>2, <1>5
  <2>2. Size(n) = 2 * d + 1 /\ Size(m) = 2 * e + 0
    BY <1>2, <1>5 DEF Size
  <2> QED
    BY <1>3, <2>1, <2>2
<1> QED
  BY <1>4, <1>5

LEMMA PartSmaller ==
    ASSUME IsFile, NEW n, Covers(n), Stratified(n), \A m \in Parts(n) : Covers(m), NEW m \in Parts(n)
    PROVE  Size(m) < Size(n)
<1>1. Extent(n) /\ \A x \in Parts(n) : Extent(x)
  BY ExtentIs DEF Covers
<1>2. CASE n.node \in TypeNodes
  BY <1>1, <1>2, CoversIs, TypeTighter, TighterSmaller
<1>3. CASE n.node \in AtomNodes
  BY <1>1, <1>3, CoversIs, AtomTighter, TighterSmaller
<1>4. CASE n.node \in OperatorNodes
  BY <1>1, <1>4, CoversIs, OperatorTighter, TighterSmaller
<1>5. CASE n.node \in StatementNodes \ {"ExprStmt", "If"}
  <2>1. CoversStatement(n)
    BY <1>5, CoversIs
  <2> QED
    BY <1>1, <1>5, <2>1, StatementTighter, TighterSmaller
<1>6. CASE n.node = "ExprStmt"
  <2>1. CoversStatement(n)
    BY <1>6, CoversIs DEF StatementNodes
  <2>2. n.from = n.expr.from /\ n.to = n.expr.to /\ Parts(n) = {n.expr} /\ Level(n.expr) >= 0
    BY <1>6, <2>1 DEF CoversStatement, Parts, Stratified
  <2>3. m.node \notin {"ExprStmt", "If"}
    <3>1. Level(m) # -1
      BY <2>2
    <3>2. m.node \in {"ExprStmt", "If"} => Level(m) = -1
      BY DEF Level, AtomNodes
    <3> QED
      BY <3>1, <3>2
  <2>4. n.from <= m.from /\ m.to <= n.to
    BY <1>1, <2>2 DEF Extent
  <2> QED
    BY <1>1, <1>6, <2>3, <2>4, TighterSmaller
<1>7. CASE n.node = "If"
  <2>1. CoversStatement(n)
    BY <1>7, CoversIs DEF StatementNodes
  <2>2. PICK L : L = n.branches \o n.final
    OBVIOUS
  <2>3. /\ \A branch \in Range(L) : branch.node \in {"Branch", "Else"}
        /\ Sequenced(L, {"Newline"}, n.from, n.to + 1)
    BY <1>7, <2>1, <2>2 DEF CoversStatement
  <2>4. Parts(n) = Range(L)
    BY <1>7, <2>2 DEF Parts
  <2>5. PICK k \in DOMAIN L : m = L[k]
    BY <2>4 DEF Range
  <2>6. Within(m, n.from, n.to + 1)
    BY <2>3, <2>5 DEF Sequenced
  <2>7. n.from <= m.from /\ m.to <= n.to
    BY <1>1, <2>6 DEF Within, Extent
  <2>8. m.node \notin {"ExprStmt", "If"}
    BY <2>3, <2>4
  <2> QED
    BY <1>1, <1>7, <2>7, <2>8, TighterSmaller
<1>8. CASE n.node \in PartNodes
  BY <1>1, <1>8, CoversIs, PartTighter, TighterSmaller
<1> QED
  BY <1>2, <1>3, <1>4, <1>5, <1>6, <1>7, <1>8 DEF Covers

\* What is so many steps below the roots of a tree.
Unrolls(f, roots, last) ==
    f = [k \in 0 .. last |-> IF k = 0 THEN roots ELSE f[k - 1] \cup UNION {Parts(m) : m \in f[k - 1]}]

LEMMA DownExists ==
    ASSUME NEW roots, NEW n \in Nat
    PROVE  \E f : Unrolls(f, roots, n)
<1> USE DEF Unrolls
<1> DEFINE Step(above) == above \cup UNION {Parts(m) : m \in above}
           G == {j \in Nat : \E f : Unrolls(f, roots, j)}
<1>1. 0 \in G
  <2>1. PICK f : f = [k \in 0 .. 0 |-> roots]
    OBVIOUS
  <2>2. f = [k \in 0 .. 0 |-> IF k = 0 THEN roots ELSE Step(f[k - 1])]
    BY <2>1
  <2> QED
    BY <2>2
<1>2. ASSUME NEW j \in 0 .. n, j \in G, j < n PROVE j + 1 \in G
  <2>1. PICK f : f = [k \in 0 .. j |-> IF k = 0 THEN roots ELSE Step(f[k - 1])]
    BY <1>2
  <2> HIDE DEF Step
  <2>2. PICK g : g = [k \in 0 .. j + 1 |-> IF k <= j THEN f[k] ELSE Step(f[j])]
    OBVIOUS
  <2>3. ASSUME NEW k \in 0 .. j + 1
        PROVE  (IF k <= j THEN f[k] ELSE Step(f[j])) = IF k = 0 THEN roots ELSE Step(g[k - 1])
    <3>1. CASE k = 0
      <4>1. f[0] = roots /\ 0 <= j
        BY <2>1
      <4> QED
        BY <3>1, <4>1
    <3>2. CASE k # 0 /\ k <= j
      <4>1. f[k] = Step(f[k - 1])
        BY <2>1, <3>2
      <4>2. g[k - 1] = f[k - 1]
        BY <2>2, <3>2
      <4> QED
        BY <3>2, <4>1, <4>2
    <3>3. CASE ~(k <= j)
      <4>1. k = j + 1 /\ k # 0 /\ k - 1 = j
        BY <3>3
      <4>2. g[k - 1] = f[j]
        BY <2>2, <4>1
      <4> QED
        BY <3>3, <4>1, <4>2
    <3> QED
      BY <3>1, <3>2, <3>3
  <2>4. g = [k \in 0 .. j + 1 |-> IF k = 0 THEN roots ELSE Step(g[k - 1])]
    BY <2>2, <2>3
  <2>5. j + 1 \in Nat
    OBVIOUS
  <2>6. Unrolls(g, roots, j + 1)
    BY <2>4 DEF Step
  <2> QED
    BY <2>5, <2>6
<1>3. n \in G
  <2> HIDE DEF G
  <2>1. \A k \in 0 .. n : k \in G
    BY <1>1, <1>2, EveryNumber
  <2> QED
    BY <2>1
<1> QED
  BY <1>3

LEMMA DownIs ==
    ASSUME IsFile, NEW roots
    PROVE  /\ Down(roots)[0] = roots
           /\ \A k \in 1 .. 2 * Len(tokens) :
                 Down(roots)[k] = Down(roots)[k - 1] \cup UNION {Parts(m) : m \in Down(roots)[k - 1]}
<1>1. 2 * Len(tokens) \in Nat
  BY DEF IsFile, IsText
<1>2. PICK n \in Nat : n = 2 * Len(tokens)
  BY <1>1
<1>3. PICK f : f = Down(roots) /\ Unrolls(f, roots, n)
  <2>1. Down(roots) = CHOOSE f : Unrolls(f, roots, 2 * Len(tokens))
    BY DEF Down, Unrolls
  <2>2. \E f : Unrolls(f, roots, n)
    BY DownExists
  <2> QED
    BY <1>2, <2>1, <2>2
<1>4. f[0] = roots
  BY <1>3 DEF Unrolls
<1>5. ASSUME NEW k \in 1 .. n PROVE f[k] = f[k - 1] \cup UNION {Parts(m) : m \in f[k - 1]}
  <2>1. k \in 0 .. n /\ k # 0
    OBVIOUS
  <2> QED
    BY <1>3, <2>1 DEF Unrolls
<1> QED
  BY <1>2, <1>3, <1>4, <1>5

\* All the nodes of whole trees are as they should be, and none is missing.
LEMMA NodesWhole ==
    ASSUME IsFile, NEW roots, \A n \in roots : Whole(n), NEW nodes, nodes = Nodes(roots)
    PROVE  \A n \in nodes : Covers(n) /\ Stratified(n) /\ Parts(n) \subseteq nodes
<1>1. PICK last, down : last = 2 * Len(tokens) /\ down = Down(roots)
  OBVIOUS
<1>2. last \in Nat
  BY <1>1 DEF IsFile, IsText
<1>3. /\ down[0] = roots
      /\ \A k \in 1 .. last : down[k] = down[k - 1] \cup UNION {Parts(m) : m \in down[k - 1]}
  BY <1>1, DownIs
<1>4. ASSUME NEW n, Whole(n)
      PROVE  /\ Covers(n) /\ Stratified(n) /\ (\A m \in Parts(n) : Whole(m))
             /\ Size(n) \in Nat /\ Size(n) <= last - 1 /\ \A m \in Parts(n) : Size(m) < Size(n)
  <2>1. PICK N : n \in N /\ Closed(N)
    BY <1>4 DEF Whole
  <2>2. Covers(n) /\ Stratified(n) /\ Parts(n) \subseteq N
    BY <2>1 DEF Closed
  <2>3. \A m \in Parts(n) : Whole(m) /\ Covers(m)
    BY <2>1, <2>2 DEF Closed, Whole
  <2>4. Size(n) \in Nat /\ Size(n) <= last - 1
    BY <1>1, <2>2, ExtentIs, SizeIs DEF Covers
  <2>5. \A m \in Parts(n) : Size(m) < Size(n)
    BY <2>2, <2>3, PartSmaller
  <2> QED
    BY <2>2, <2>3, <2>4, <2>5
<1> DEFINE Far(n, k) == Parts(n) \subseteq down[k] \/ Size(n) <= last - 1 - k
           G == {k \in Nat : \A n \in down[k] : Whole(n) /\ Far(n, k)}
<1>5. 0 \in G
  <2>1. ASSUME NEW n \in down[0] PROVE Whole(n) /\ Size(n) <= last - 1 - 0
    <3>1. Whole(n)
      BY <1>3
    <3> QED
      BY <1>2, <1>4, <3>1
  <2> QED
    BY <2>1
<1>6. ASSUME NEW k \in 0 .. last, k \in G, k < last PROVE k + 1 \in G
  <2>1. k + 1 \in 1 .. last /\ (k + 1) - 1 = k /\ k + 1 \in Nat
    BY <1>2, <1>6
  <2>2. PICK above, below : above = down[k] /\ below = down[k + 1]
    OBVIOUS
  <2>3. below = above \cup UNION {Parts(m) : m \in above}
    BY <1>3, <2>1, <2>2
  <2>4. \A n \in above : Whole(n) /\ (Parts(n) \subseteq above \/ Size(n) <= last - 1 - k)
    BY <1>6, <2>2
  <2>5. ASSUME NEW n \in below
        PROVE  Whole(n) /\ (Parts(n) \subseteq below \/ Size(n) <= last - 1 - (k + 1))
    <3>1. CASE n \in above
      <4>1. Parts(n) \subseteq below
        BY <2>3, <3>1
      <4> QED
        BY <2>4, <3>1, <4>1
    <3>2. CASE n \notin above
      <4>1. PICK m \in above : n \in Parts(m)
        BY <2>3, <3>2
      <4>2. Whole(m) /\ Size(m) <= last - 1 - k
        BY <2>4, <3>2, <4>1
      <4>3. Whole(n) /\ Size(n) < Size(m) /\ Size(m) \in Nat
        BY <1>4, <4>1, <4>2
      <4>4. Size(n) \in Nat
        BY <1>4, <4>3
      <4> QED
        BY <1>2, <4>2, <4>3, <4>4
    <3> QED
      BY <3>1, <3>2
  <2> QED
    BY <2>1, <2>2, <2>5
<1>7. last \in G
  <2> HIDE DEF G
  <2>1. \A k \in 0 .. last : k \in G
    BY <1>2, <1>5, <1>6, EveryNumber
  <2> QED
    BY <1>2, <2>1
<1>8. nodes = down[last]
  BY <1>1 DEF Nodes
<1>9. ASSUME NEW n \in nodes PROVE Covers(n) /\ Stratified(n) /\ Parts(n) \subseteq nodes
  <2>1. Whole(n) /\ (Parts(n) \subseteq nodes \/ Size(n) <= last - 1 - last)
    BY <1>7, <1>8
  <2>2. ~(Size(n) <= last - 1 - last)
    <3>1. Size(n) \in Nat
      BY <1>4, <2>1
    <3> QED
      BY <1>2, <3>1
  <2> QED
    BY <1>4, <2>1, <2>2
<1> QED
  BY <1>9

LEMMA FileBuilt ==
    ASSUME IsFile
    PROVE  TreeIsTheText
<1> SUFFICES ASSUME Accepted(Result)
             PROVE  LET declarations == Result.value.declarations
                        nodes        == Nodes(Range(declarations))
                    IN  /\ Sequenced(declarations, Separators, 1, Len(tokens) + 1)
                        /\ \A n \in nodes : Covers(n) /\ Stratified(n) /\ Parts(n) \subseteq nodes
  BY DEF TreeIsTheText
<1>1. PICK r : r = call(parse, DeclarationList, 1)
  OBVIOUS
<1>2. PICK v, q : v = built(r) /\ q = reached(r)
  OBVIOUS
<1>3. 1 \in Positions
  BY PositionFacts
<1>4. Accepted(r)
  BY <1>1, ParsedShape DEF Result, parseSourceFile, Then
<1>5. Wholes(v) /\ Sequenced(v, Separators, 1, q)
  BY <1>1, <1>2, <1>3, <1>4, ParserBuildsTheText, FitsIs, RoutineFacts DEF Builds
<1>6. q = Len(tokens) + 1
  <2>1. PICK E : E = call(derive, DeclarationList, 1)
    OBVIOUS
  <2>2. Reads(r, EndsAt(E, "EndOfFile"), {})
    BY <1>1, <1>3, <2>1, ParserReadsTheGrammar, DecidesIs, RoutineFacts
  <2>3. q \in E /\ At(q) = "EndOfFile"
    BY <1>2, <1>4, <2>2 DEF Reads, EndsAt
  <2>4. q \in Positions
    BY <1>3, <2>1, <2>3, EndsAhead, RoutineFacts
  <2> QED
    BY <2>3, <2>4, PositionFacts DEF End
<1>7. Result.value.declarations = v
  <2>1. Result = Parsed(SourceFile(v), q)
    BY <1>1, <1>2, <1>4 DEF Result, parseSourceFile, Then
  <2> QED
    BY <2>1 DEF Parsed, SourceFile
<1>8. \A n \in Range(v) : Whole(n)
  BY <1>5, WholePart
<1>9. PICK nodes : nodes = Nodes(Range(v))
  OBVIOUS
<1>10. \A n \in nodes : Covers(n) /\ Stratified(n) /\ Parts(n) \subseteq nodes
  BY <1>8, <1>9, NodesWhole
<1> QED
  BY <1>5, <1>6, <1>7, <1>9, <1>10

\* The tree of every accepted file is the parse the grammar means, whatever
\* its tokens and however many: each node covers its own tokens and the nodes
\* below it in the order of the grammar, every operator has its operands from
\* the right tiers, and nothing of the file is left out.
THEOREM TreesAreTheText == Spec => []TreeIsTheText
<1>1. Files => TreeIsTheText
  BY FileBuilt DEF Files
<1> QED
  BY <1>1, FilesAlways, PTL

=============================================================================
