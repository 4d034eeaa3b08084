------------------------------ MODULE ParseTree ------------------------------
(****************************************************************************)
(* The trees of the accepted files, against the tokens they stand for: what *)
(* each node is to be of the file, said of the node and of the nodes just   *)
(* below it.                                                                *)
(****************************************************************************)
EXTENDS ParserRun

----------------------------------------------------------------------------
(* Lists of nodes, from position i to before position j *)

Within(n, i, j) == n.from \in i .. j - 1 /\ n.to \in n.from .. j - 1

Only(kinds, i, j) == \A p \in i .. j - 1 : At(p) \in kinds

\* One behind the other, with nothing but `gap` before, between and behind.
Sequenced(nodes, gap, i, j) ==
    /\ i <= j
    /\ \A k \in DOMAIN nodes : Within(nodes[k], i, j)
    /\ \A k, m \in DOMAIN nodes : k < m => nodes[k].to < nodes[m].from
    /\ \A p \in i .. j - 1 :
          At(p) \in gap \/ \E k \in DOMAIN nodes : p \in nodes[k].from .. nodes[k].to

\* The same with a comma between each two.
Listed(nodes, gap, i, j) ==
    /\ i <= j
    /\ nodes = <<>> => i = j
    /\ nodes # <<>> => Only(gap, i, nodes[1].from) /\ Only(gap, nodes[Len(nodes)].to + 1, j)
    /\ \A k \in DOMAIN nodes : Within(nodes[k], i, j)
    /\ \A k \in 1 .. Len(nodes) - 1 :
          \E comma \in nodes[k].to + 1 .. nodes[k + 1].from - 1 :
             /\ At(comma) = "Comma"
             /\ Only(gap, nodes[k].to + 1, comma) /\ Only(gap, comma + 1, nodes[k + 1].from)

\* What may be left out; the token `kind` stands before it.
Optional(nodes, kind, i, j) ==
    IF nodes = <<>> THEN i = j
    ELSE DOMAIN nodes = {1} /\ At(i) = kind /\ nodes[1].from = i + 1 /\ j = nodes[1].to + 1

----------------------------------------------------------------------------
(* The tokens of a node and of the nodes below it *)

TypeNodes == {"NamedType", "UnitType", "GenericType", "ReferenceType", "SliceType", "ArrayType"}

CoversType(n) ==
    CASE n.node = "NamedType" -> At(n.from) = "Identifier" /\ n.to = n.from
      [] n.node = "UnitType" ->
            At(n.from) = "LeftParen" /\ n.to = n.from + 1 /\ At(n.to) = "RightParen"
      [] n.node = "GenericType" ->
            /\ At(n.from) = "Identifier" /\ At(n.from + 1) = "<" /\ n.arguments # <<>>
            /\ Listed(n.arguments, {"Newline"}, n.from + 2, n.to) /\ At(n.to) = ">"
      [] n.node = "ReferenceType" ->
            /\ At(n.from) = "&" /\ n.mutable = (At(n.from + 1) = "mut")
            /\ n.referent.from = (IF n.mutable THEN n.from + 2 ELSE n.from + 1)
            /\ n.to = n.referent.to
      [] n.node = "SliceType" ->
            /\ At(n.from) = "LeftBracket" /\ n.element.from = n.from + 1
            /\ n.to = n.element.to + 1 /\ At(n.to) = "RightBracket"
      [] n.node = "ArrayType" ->
            /\ At(n.from) = "LeftBracket" /\ n.element.from = n.from + 1
            /\ At(n.element.to + 1) = "Semicolon"
            /\ n.length = n.element.to + 2 /\ At(n.length) = "IntegerLiteral"
            /\ n.to = n.length + 1 /\ At(n.to) = "RightBracket"

AtomNodes == {"Identifier", "Literal", "Unit", "Paren", "ArrayLiteral"}

CoversAtom(n) ==
    CASE n.node = "Identifier" -> At(n.from) = "Identifier" /\ n.to = n.from
      [] n.node = "Literal" -> At(n.from) \in Literals /\ n.to = n.from
      [] n.node = "Unit" ->
            At(n.from) = "LeftParen" /\ n.to = n.from + 1 /\ At(n.to) = "RightParen"
      [] n.node = "Paren" ->
            /\ At(n.from) = "LeftParen" /\ n.inner.from = n.from + 1
            /\ n.to = n.inner.to + 1 /\ At(n.to) = "RightParen"
      [] n.node = "ArrayLiteral" ->
            /\ At(n.from) = "LeftBracket" /\ Listed(n.elements, {}, n.from + 1, n.to)
            /\ At(n.to) = "RightBracket"

OperatorNodes == {"Call", "Index", "Member", "ErrorPropagation", "Unary", "Binary", "Assignment"}

CoversOperator(n) ==
    CASE n.node = "Call" ->
            /\ n.from = n.callee.from /\ At(n.callee.to + 1) = "LeftParen"
            /\ Listed(n.arguments, {}, n.callee.to + 2, n.to) /\ At(n.to) = "RightParen"
      [] n.node = "Index" ->
            /\ n.from = n.object.from /\ At(n.object.to + 1) = "LeftBracket"
            /\ n.index.from = n.object.to + 2
            /\ n.to = n.index.to + 1 /\ At(n.to) = "RightBracket"
      [] n.node = "Member" ->
            /\ n.from = n.object.from /\ At(n.object.to + 1) = "Dot"
            /\ n.to = n.object.to + 2 /\ At(n.to) = "Identifier"
      [] n.node = "ErrorPropagation" ->
            n.from = n.operand.from /\ n.to = n.operand.to + 1 /\ At(n.to) = "?"
      [] n.node = "Unary" ->
            /\ IF n.op = "&mut"
               THEN At(n.from) = "&" /\ At(n.from + 1) = "mut" /\ n.operand.from = n.from + 2
               ELSE At(n.from) = n.op /\ n.operand.from = n.from + 1
            /\ n.to = n.operand.to
      [] n.node = "Binary" ->
            /\ n.from = n.left.from /\ At(n.left.to + 1) = n.op
            /\ n.right.from = n.left.to + 2 /\ n.to = n.right.to
      [] n.node = "Assignment" ->
            /\ n.from = n.target.from /\ At(n.target.to + 1) = "="
            /\ n.value.from = n.target.to + 2 /\ n.to = n.value.to

StatementNodes == {"Block", "ExprStmt", "VarDecl", "Return", "If", "While", "For"}

CoversStatement(n) ==
    CASE n.node = "Block" ->
            /\ At(n.from) = "LeftBrace" /\ Sequenced(n.statements, Separators, n.from + 1, n.to)
            /\ At(n.to) = "RightBrace"
      [] n.node = "ExprStmt" -> n.from = n.expr.from /\ n.to = n.expr.to
      [] n.node = "VarDecl" ->
            /\ At(n.from) = (IF n.mutable THEN "mut" ELSE "let") /\ At(n.from + 1) = "Identifier"
            /\ Optional(n.type, "Colon", n.from + 2, n.initializer.from - 1)
            /\ At(n.initializer.from - 1) = "=" /\ n.to = n.initializer.to
      [] n.node = "Return" ->
            /\ At(n.from) = "return"
            /\ IF n.value = <<>> THEN n.to = n.from
               ELSE DOMAIN n.value = {1} /\ n.value[1].from = n.from + 1 /\ n.to = n.value[1].to
      [] n.node = "If" ->
            /\ n.branches # <<>> /\ At(n.from) = "if"
            /\ \A k \in 2 .. Len(n.branches) : At(n.branches[k].from) = "else"
            /\ \A branch \in Range(n.branches \o n.final) : branch.node \in {"Branch", "Else"}
            /\ Sequenced(n.branches \o n.final, {"Newline"}, n.from, n.to + 1)
            /\ At(n.to) # "Newline"
      [] n.node = "While" ->
            /\ At(n.from) = "while" /\ n.condition.from = n.from + 1
            /\ n.body.from = n.condition.to + 1 /\ n.to = n.body.to
      [] n.node = "For" ->
            /\ At(n.from) = "for" /\ At(n.from + 1) = "Identifier" /\ At(n.from + 2) = "in"
            /\ n.iterable.from = n.from + 3
            /\ n.body.from = n.iterable.to + 1 /\ n.to = n.body.to

\* The parts of an if, of a declaration, and a declaration.
PartNodes == {"Branch", "Else", "Param", "FunctionDecl"}

CoversPart(n) ==
    CASE n.node = "Branch" ->
            /\ IF At(n.from) = "else"
               THEN At(n.from + 1) = "if" /\ n.condition.from = n.from + 2
               ELSE At(n.from) = "if" /\ n.condition.from = n.from + 1
            /\ n.body.from = n.condition.to + 1 /\ n.to = n.body.to
      [] n.node = "Else" ->
            At(n.from) = "else" /\ n.body.from = n.from + 1 /\ n.to = n.body.to
      [] n.node = "Param" ->
            /\ At(n.from) = "Identifier" /\ At(n.from + 1) = "Colon"
            /\ n.type.from = n.from + 2 /\ n.to = n.type.to
      [] n.node = "FunctionDecl" ->
            LET fn == IF n.public THEN n.from + 1 ELSE n.from
            IN  /\ n.public => At(n.from) = "pub"
                /\ At(fn) = "fn" /\ At(fn + 1) = "Identifier" /\ At(fn + 2) = "LeftParen"
                /\ \E close \in fn + 3 .. n.to :
                      /\ Listed(n.params, {}, fn + 3, close) /\ At(close) = "RightParen"
                      /\ Optional(n.returnType, "->", close + 1, n.body.from)
                /\ n.to = n.body.to

\* A node's span is its own tokens and the spans of the nodes below it, in the
\* order of the grammar, with line breaks only where the grammar has them.
Covers(n) ==
    /\ Within(n, 1, Len(tokens) + 1)
    /\ CASE n.node \in TypeNodes -> CoversType(n)
         [] n.node \in AtomNodes -> CoversAtom(n)
         [] n.node \in OperatorNodes -> CoversOperator(n)
         [] n.node \in StatementNodes -> CoversStatement(n)
         [] n.node \in PartNodes -> CoversPart(n)
         [] OTHER -> FALSE

----------------------------------------------------------------------------
(* The operands of an operator *)

\* The tier of the production that builds an expression; other nodes have none.
Level(e) ==
    CASE e.node = "Assignment" -> 0
      [] e.node = "Binary" -> CHOOSE tier \in DOMAIN Tiers : e.op \in Tiers[tier]
      [] e.node = "Unary" -> 8
      [] e.node \in {"Call", "Index", "Member", "ErrorPropagation"} -> 9
      [] e.node \in AtomNodes -> 10
      [] OTHER -> -1

\* The operands a production takes: the left one of a repeated operator may
\* be of its own tier, the right one is of a tighter one.
Stratified(e) ==
    CASE e.node = "Assignment" -> Level(e.target) > 0
      [] e.node = "Binary" -> /\ Level(e.left) >= Level(e) + (IF e.op = ".." THEN 1 ELSE 0)
                              /\ Level(e.right) > Level(e)
      [] e.node = "Unary" -> Level(e.operand) >= 8
      [] e.node = "Call" -> Level(e.callee) >= 9
      [] e.node \in {"Index", "Member"} -> Level(e.object) >= 9
      [] e.node = "ErrorPropagation" -> Level(e.operand) >= 9
      [] e.node = "ExprStmt" -> Level(e.expr) >= 0
      [] OTHER -> TRUE

----------------------------------------------------------------------------
(* All the nodes of a tree *)

\* The nodes just below a node.
Parts(n) ==
    CASE n.node \in {"NamedType", "UnitType", "Identifier", "Literal", "Unit"} -> {}
      [] n.node = "GenericType" -> Range(n.arguments)
      [] n.node = "ReferenceType" -> {n.referent}
      [] n.node \in {"SliceType", "ArrayType"} -> {n.element}
      [] n.node = "Paren" -> {n.inner}
      [] n.node = "ArrayLiteral" -> Range(n.elements)
      [] n.node = "Call" -> {n.callee} \cup Range(n.arguments)
      [] n.node = "Index" -> {n.object, n.index}
      [] n.node = "Member" -> {n.object}
      [] n.node \in {"ErrorPropagation", "Unary"} -> {n.operand}
      [] n.node = "Binary" -> {n.left, n.right}
      [] n.node = "Assignment" -> {n.target, n.value}
      [] n.node = "Block" -> Range(n.statements)
      [] n.node = "ExprStmt" -> {n.expr}
      [] n.node = "VarDecl" -> Range(n.type) \cup {n.initializer}
      [] n.node = "Return" -> Range(n.value)
      [] n.node = "If" -> Range(n.branches \o n.final)
      [] n.node \in {"Branch", "While"} -> {n.condition, n.body}
      [] n.node = "Else" -> {n.body}
      [] n.node = "For" -> {n.iterable, n.body}
      [] n.node = "Param" -> {n.type}
      [] n.node = "FunctionDecl" -> Range(n.params) \cup Range(n.returnType) \cup {n.body}

\* The roots of a tree and what is at most so many steps below them.
Down(roots) ==
    LET down[k \in 0 .. 2 * Len(tokens)] ==
            IF k = 0 THEN roots
            ELSE LET above == down[k - 1] IN above \cup UNION {Parts(n) : n \in above}
    IN  down

\* At most every second step goes down without leaving a token behind.
Nodes(roots) == Down(roots)[2 * Len(tokens)]

----------------------------------------------------------------------------

\* The tree of an accepted file is the parse the grammar means: each node's
\* span holds the node's own tokens and the nodes below it, each where the
\* grammar puts it (the spans that the queries answer with), every operator has
\* its operands from the tiers the grammar gives it, and nothing of the file is
\* left out of the tree but what separates.
TreeIsTheText == Accepted(Result) =>
    LET declarations == Result.value.declarations
        nodes        == Nodes(Range(declarations))
    IN  /\ Sequenced(declarations, Separators, 1, Len(tokens) + 1)
        /\ \A n \in nodes : Covers(n) /\ Stratified(n) /\ Parts(n) \subseteq nodes

=============================================================================
