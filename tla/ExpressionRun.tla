----------------------------- MODULE ExpressionRun -----------------------------
(****************************************************************************)
(* Statements that somebody writes, an expression at a time from its leaves *)
(* up, over a scope of names: each is checked as its place asks for, those  *)
(* that are accepted are lowered, and what was lowered is run.              *)
(****************************************************************************)
EXTENDS ExpressionLowering, TypingRules, Meaning

CONSTANT
    Families   \* records: the scope, the leaves and forms, the places, how many nodes and statements

ASSUME ExpressionRunAssumption ==
    \A f \in Families : f.nodes \in Nat /\ f.statements \in Nat /\ \A form \in f.forms : form.arity \in Nat

VARIABLES family,
          operands,    \* the expressions that are waiting for what holds them
          statements   \* the place and the checked expression of each

vars == <<symbols, family, operands, statements>>

Init ==
    /\ family \in Families
    /\ symbols = family.symbols
    /\ operands = <<>>
    /\ statements = <<>>

RECURSIVE NodesOf(_)

NodesOf(e) == {e} \cup UNION {NodesOf(e.of[k]) : k \in DOMAIN e.of}

RECURSIVE Size(_)

\* How many leaves and forms there are in it.
Size(e) ==
    FoldLeft(LAMBDA n, child : n + Size(child), IF e.node = "Call" THEN 0 ELSE 1, e.of)

Written == FoldLeft(LAMBDA n, e : n + Size(e), 0, operands)

Unknown(e) == e.node = "Identifier" /\ e.is \notin DOMAIN symbols

Wrong(e) == \E n \in NodesOf(e) : n.errors # <<>> \/ Unknown(n)

Accepted(statement) == ~Wrong(statement.checked)

\* Nothing that follows a mistake is of interest.
Open ==
    /\ Len(statements) < family.statements
    /\ \A k \in DOMAIN statements : Accepted(statements[k])

Leaf ==
    /\ Open
    /\ Written + Len(operands) < family.nodes
    /\ \E leaf \in family.leaves : operands' = Append(operands, leaf)
    /\ UNCHANGED <<symbols, family, statements>>

\* A form takes the last operands; a call has a name before them.
Form ==
    /\ Open
    /\ Written < family.nodes
    /\ \E form \in family.forms :
          /\ form.arity <= Len(operands)
          /\ LET kept  == Len(operands) - form.arity
                 taken == SubSeq(operands, kept + 1, Len(operands))
             IN  operands' = Append(SubSeq(operands, 1, kept),
                                    IF form.node = "Call" THEN Expr("Call", "", <<Identifier(form.is)>> \o taken)
                                    ELSE Expr(form.node, form.is, taken))
    /\ UNCHANGED <<symbols, family, statements>>

CheckedAt(place, e) ==
    CASE place.is = "let"        -> checkAgainst(e, place.type)
      [] place.is = "return"     -> checkReturnStmt(e, place.type, place.strParameters)
      [] place.is = "condition"  -> checkCondition(e)
      [] place.is = "for"        -> checkForStmt(e)
      [] place.is = "expression" -> inferExpr(e)

Statement ==
    /\ Open
    /\ Len(operands) = 1
    /\ \E place \in family.places :
          statements' = Append(statements, [place |-> place, source |-> operands[1],
                                            checked |-> CheckedAt(place, operands[1])])
    /\ operands' = <<>>
    /\ UNCHANGED <<symbols, family>>

Next == Leaf \/ Form \/ Statement

Spec == Init /\ [][Next]_vars

----------------------------------------------------------------------------
(* Which statements are accepted *)

\* A callee is no value: what it is named does not wait for anything.
RECURSIVE Deferred(_)

Deferred(e) ==
    CASE e.node \in {"Member", "ErrorPropagation"} -> TRUE
      [] e.node = "Unary" /\ e.is \in {"&", "&mut"} -> TRUE
      [] e.node = "Binary" /\ e.is = ".." -> TRUE
      [] e.node = "Identifier" -> IsA(e.is, {"Function", "Builtin"})
      [] e.node = "Call" ->
            \/ \E k \in 2 .. Len(e.of) : Deferred(e.of[k])
            \/ IF IsA(unwrapIdentifier(e.of[1]), {"Function", "Builtin"})
               THEN IsA(unwrapIdentifier(e.of[1]), {"Builtin"})
                    /\ unwrapIdentifier(e.of[1]) \notin {"slice", "len"}
               ELSE Deferred(e.of[1])
      [] e.node = "Assignment" /\ e.of[1].node = "Index"
         /\ ~IsA(unwrapIndexAssignmentRoot(e.of[1]), Bindings) -> TRUE
      [] OTHER -> \E k \in DOMAIN e.of : Deferred(e.of[k])

Legal(place, e) ==
    CASE place.is = "let" -> IF place.type = None THEN Alone(e) # None ELSE HasType(e, place.type)
      [] place.is = "return" ->
            /\ HasType(e, place.type)
            /\ place.type = Str /\ place.strParameters > 1 => unwrapParenExpr(e).node = "Literal"
      [] place.is = "condition"  -> HasType(e, Bool)
      [] place.is = "expression" -> Alone(e) # None
      [] place.is = "for" ->
            /\ e.node = "Binary" /\ e.is = ".."
            /\ Agree(e.of[1], e.of[2], {t \in NumericTypes : isInteger(t)})

\* The operands of a range are no deferred form where a loop takes it.
Settled(place, e) ==
    IF place.is = "for" /\ e.node = "Binary" /\ e.is = ".."
    THEN ~Deferred(e.of[1]) /\ ~Deferred(e.of[2])
    ELSE ~Deferred(e)

Latest == statements[Len(statements)]

\* Checking is as good as the rules: in whatever order operands and elements
\* give one another their contexts, a statement is accepted just when its
\* expression has a type that its place takes.
AcceptsWhatTheRulesAllow ==
    (statements # <<>> /\ Settled(Latest.place, Latest.source)) =>
        (Accepted(Latest) <=> Legal(Latest.place, Latest.source))

\* Errors that are about the form, whatever types are in it.
WhateverTheTypes ==
    {"InvalidArgumentCount", "InvalidAssignmentTarget", "UnsupportedForIterable", "UnsupportedStrReturn"}

\* The parts of an expression that its type depends on.
RECURSIVE Deciding(_)

Deciding(e) == {e} \cup (IF e.type = Unresolved THEN {}
                        ELSE UNION {Deciding(e.of[k]) : k \in DOMAIN e.of})

\* One mistake, one error: an error that is about a type is never reported on
\* top of another one, and nothing gets the error type without a report.
ErrorsAreRootCauses == statements # <<>> =>
    /\ Latest.checked.type = Error => Wrong(Latest.checked)
    /\ \A n \in NodesOf(Latest.checked) : \A k \in DOMAIN n.errors :
          n.errors[k] \notin WhateverTheTypes => k = 1 /\ \A m \in Deciding(n) \ {n} : m.errors = <<>> /\ ~Unknown(m)

----------------------------------------------------------------------------
(* What an accepted statement becomes *)

Lowering(place, e) ==
    CASE place.is = "let"        -> generateVarDeclStmt("x", IF place.type = None THEN e.type ELSE place.type, e)
      [] place.is = "return"     -> generateReturnStmt(e, place.type)
      [] place.is = "condition"  -> generateCondition(e)
      [] place.is = "expression" -> generateExprStmt(e)

RECURSIVE GenerableType(_), GenerableValue(_)

\* What the generator has no instructions for, so far: characters, values of
\* type unit, arrays of slices, and what is deferred.
GenerableType(t) ==
    \/ isNumeric(t) \/ t \in {Bool, Str}
    \/ /\ t.kind \in {"array", "slice"}
       /\ GenerableType(t.element) /\ ~typeContainsSlice(t.element)

\* The two forms that the checker accepts and the generator refuses: an element
\* of an array that is itself the element of a slice, and an element of an
\* array that a call returns or that is written out.
IndexesPastASlice(e) ==
    /\ e.node = "Index" /\ e.of[1].type.kind = "array"
    /\ LET array == unwrapParenExpr(e.of[1])
       IN  array.node = "Index" /\ array.of[1].type.kind = "slice"

IndexesAValue(e) ==
    /\ e.node = "Index" /\ e.of[1].type.kind = "array"
    /\ unwrapParenExpr(e.of[1]).node \in {"Call", "ArrayLiteral"}

GenerableValue(e) ==
    /\ e.node # "Unit" /\ GenerableType(e.type)
    /\ ~IndexesPastASlice(e) /\ ~IndexesAValue(e)
    /\ \A k \in DOMAIN e.of : (e.node = "Call" /\ k = 1) \/ GenerableValue(e.of[k])

\* A statement of its own may also assign, print, or call for nothing.
GenerableStatement(e) ==
    CASE e.node = "Assignment" ->
            /\ GenerableValue(e.of[2])
            /\ GenerableValue(e.of[1])
      [] e.node = "Call" /\ (isPrintBuiltinCall(e) \/ e.type = Unit) ->
            /\ \A k \in 2 .. Len(e.of) : GenerableValue(e.of[k])
            /\ isPrintBuiltinCall(e) =>
                  Len(e.of) = 2 /\ (e.of[2].type \in {Bool, Str} \/ isNumeric(e.of[2].type))
      [] OTHER -> GenerableValue(e)

Generable(statement) ==
    CASE statement.place.is = "for"        -> FALSE
      [] statement.place.is = "expression" -> 
            LET e == unwrapParenExpr(statement.checked)
            IN  GenerableStatement(e) /\ (isPrintBuiltinCall(e) => e = statement.checked)
      [] OTHER                             -> GenerableValue(statement.checked)

\* An accepted statement without one of those forms is never left for the
\* generator to refuse: wherever an array is indexed, through whatever levels,
\* parentheses, calls and assignments, it has an address.
AcceptedIsLowered ==
    (statements # <<>> /\ Accepted(Latest) /\ Generable(Latest)) => Lowering(Latest.place, Latest.checked).ok

----------------------------------------------------------------------------
(* What it does when it runs *)

Variables == {n \in DOMAIN symbols : IsA(n, Bindings)}

DeclaredAs(statement) ==
    IF statement.place.type = None THEN statement.checked.type ELSE statement.place.type

\* The values of fractions are left out: only what they are checked and lowered to.
HasFractions(e) == \E n \in NodesOf(e) : isFloat(n.type)

Runs == \A k \in DOMAIN statements :
            /\ Accepted(statements[k]) /\ Generable(statements[k])
            /\ ~HasFractions(statements[k].checked)

RunLowered ==
    LET start == Start([slot \in {Variable(n) : n \in Variables} |->
                            Encode(symbols[slot.name].type, symbols[slot.name].value)],
                       [n \in {f \in DOMAIN symbols : IsA(f, {"Function"})} |->
                            Encode(symbols[n].returns, symbols[n].result)])
    IN  FoldLeft(LAMBDA m, s : Execute(Lowering(s.place, s.checked).builder.code, m), start, statements)

\* One statement after another; `x` is what a declaration declares.
RunMeant ==
    LET One(world, s) ==
            Then(Evaluate(s.checked, world), LAMBDA w, v :
                 CASE s.place.is = "let" ->
                        Gives([w EXCEPT !.memory = ("x" :> Encode(DeclaredAs(s), v)) @@ @], v)
                   [] s.place.is \in {"return", "condition"} ->
                        Ends(Seen(w, "return", <<Encode(DeclaredAs(s), v)>>), "returned")
                   [] s.place.is = "expression" -> Gives(w, v))
        start == [memory |-> [n \in Variables |-> symbols[n].value], trace |-> <<>>, outcome |-> "running"]
    IN  FoldLeft(LAMBDA given, s : Then(given, LAMBDA w, v : One(w, s)),
                 Gives(start, Undef), statements).world

\* The lowered statements do what the written ones mean: the same calls with
\* the same arguments and the same output in the same order, the same value
\* returned, the same trap at the same point, and, where they run to their end,
\* the same in every variable.  Of statements whose arithmetic must fail when
\* they run it only says that they do the same until then.
RunsAsMeant == (statements # <<>> /\ Runs) =>
    LET meant == RunMeant
        m     == RunLowered
    IN  IF meant.outcome = "failed"
        THEN m.outcome # "undefined" => IsPrefix(meant.trace, m.trace)
        ELSE /\ m.trace = meant.trace
             /\ m.outcome = meant.outcome
             /\ m.outcome = "running" => \A n \in DOMAIN meant.memory :
                   m.memory[Variable(n)] = IF n = "x" THEN meant.memory[n]
                                           ELSE Encode(symbols[n].type, meant.memory[n])

\* What TYPE_SYSTEM.md promises of an overflow and of a division by zero: the
\* program fails there, and never goes on.  No run has it: the code does not
\* keep it.
FailsWhereItMust == (statements # <<>> /\ Runs /\ RunMeant.outcome = "failed") =>
    RunLowered.outcome = "trapped"

=============================================================================
