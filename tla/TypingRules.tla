------------------------------ MODULE TypingRules ------------------------------
(****************************************************************************)
(* When an expression has a type, said by rules that check nothing in any   *)
(* order, for expressions in which nothing is deferred: what TypeChecker's  *)
(* contexts and anchors come to.  A number that is made of literals only    *)
(* may have every numeric type they all fit; anything else has one type.    *)
(****************************************************************************)
EXTENDS TypeChecker

NumericTypes == {Scalar(k) : k \in IntegerKinds \cup {"f32", "f64"}}

\* The types that == compares.
Comparable == NumericTypes \cup {Bool, Scalar("char")}

\* The types of a number made of literals, when nothing asks for another.
Defaults == {I32, F64}

Values(type) ==
    LET width == Bits[type.kind]
    IN  IF isSignedInteger(type) THEN -(2 ^ (width - 1)) .. 2 ^ (width - 1) - 1 ELSE 0 .. 2 ^ width - 1

Comparison == {"==", "!=", "<", "<=", ">", ">="}

RECURSIVE Free(_), HasType(_, _), Alone(_)

\* Nothing in it but numbers fixes a type.
Free(e) ==
    CASE e.node = "Literal" -> e.is \in {"Integer", "Float"}
      [] e.node = "Paren"   -> Free(e.of[1])
      [] e.node = "Unary"   -> e.is = "-" /\ Free(e.of[1])
      [] e.node = "Binary"  -> e.is \in Arithmetic /\ Free(e.of[1]) /\ Free(e.of[2])
      [] OTHER -> FALSE

\* A number as a constant of a type, with the sign before it.
ConstantHas(literal, sign, type) ==
    CASE literal.is = "Integer" -> isInteger(type) /\ sign * literal.value \in Values(type)
      [] literal.is = "Float"   -> isFloat(type)

IsNumber(e) == e.node = "Literal" /\ e.is \in {"Integer", "Float"}

\* The operands have one type among `types`, the default one if both are free.
Agree(left, right, types) ==
    \E t \in types :
        /\ HasType(left, t) /\ HasType(right, t)
        /\ Free(left) /\ Free(right) => t \in Defaults

Element(base) == IF Alone(base).kind \in {"array", "slice"} THEN Alone(base).element ELSE None

\* A constant index is within the array, and never negative.
IndexInside(base, index) ==
    LET value == (IF IsNegated(index) THEN -1 ELSE 1) * Magnitude(index)
    IN  IsConstant(index) => value >= 0 /\ (Alone(base).kind = "array" => value < Alone(base).length)

\* A name is assigned to when it is mutable, and an element of an array when
\* the name at its root is; an element of a slice is not.
Assignable(target, value) ==
    LET name == unwrapIdentifier(target)
        root == unwrapIndexAssignmentRoot(target)
    IN  \/ /\ IsA(name, Bindings) /\ symbols[name].mutable
           /\ HasType(value, symbols[name].type)
        \/ /\ target.node = "Index" /\ Alone(target) # None
           /\ Alone(target.of[1]).kind = "array"
           /\ IsA(root, Bindings) /\ symbols[root].mutable
           /\ HasType(value, Alone(target))

CallHas(e, type) ==
    LET name == unwrapIdentifier(e.of[1])
        given == Arguments(e)
    IN  \/ /\ IsA(name, {"Function"})
           /\ type = symbols[name].returns
           /\ Len(given) = Len(symbols[name].parameters)
           /\ \A k \in DOMAIN given : HasType(given[k], symbols[name].parameters[k])
        \/ /\ IsA(name, {"Builtin"}) /\ name = "slice" /\ Len(given) = 1
           /\ IsA(unwrapIdentifier(given[1]), Bindings)
           /\ Alone(given[1]).kind = "array"
           /\ type = SliceOf(Alone(given[1]).element)
        \/ /\ IsA(name, {"Builtin"}) /\ name = "len" /\ Len(given) = 1
           /\ Alone(given[1]).kind \in {"array", "slice", "str"}
           /\ type = U64

HasType(e, type) ==
    CASE e.node = "Literal" ->
            IF IsNumber(e) THEN ConstantHas(e, 1, type)
            ELSE type = [Bool |-> Bool, Char |-> Scalar("char"), String |-> Str][e.is]
      [] e.node = "Unit"       -> type = Unit
      [] e.node = "Identifier" -> IsA(e.is, Bindings) /\ type = symbols[e.is].type
      [] e.node = "Paren"      -> HasType(e.of[1], type)
      [] e.node = "Unary" /\ e.is = "!" -> type = Bool /\ HasType(e.of[1], Bool)
      [] e.node = "Unary" /\ e.is = "-" ->
            /\ type.kind \in Negatable
            /\ IF IsNumber(unwrapParenExpr(e.of[1]))
               THEN ConstantHas(unwrapParenExpr(e.of[1]), -1, type)
               ELSE HasType(e.of[1], type)
      [] e.node = "Binary" /\ e.is \in Arithmetic ->
            /\ IF e.is = "%" THEN isInteger(type) ELSE isNumeric(type)
            /\ HasType(e.of[1], type) /\ HasType(e.of[2], type)
      [] e.node = "Binary" /\ e.is \in Comparison ->
            /\ type = Bool
            /\ Agree(e.of[1], e.of[2], IF e.is \in {"==", "!="} THEN Comparable ELSE NumericTypes)
      [] e.node = "Binary" /\ e.is \in {"&&", "||"} ->
            type = Bool /\ HasType(e.of[1], Bool) /\ HasType(e.of[2], Bool)
      [] e.node = "Call"       -> CallHas(e, type)
      [] e.node = "Assignment" -> type = Unit /\ Assignable(e.of[1], e.of[2])
      [] e.node = "ArrayLiteral" ->
            /\ type.kind = "array" /\ type.length = Len(e.of)
            /\ \A k \in DOMAIN e.of : HasType(e.of[k], type.element)
      [] e.node = "Index" ->
            /\ type = Element(e.of[1]) /\ type # None
            /\ isInteger(Alone(e.of[2]))
            /\ IndexInside(e.of[1], e.of[2])

\* The types that something other than a free number or an array may have.
Candidates(e) ==
    CASE e.node = "Identifier" -> IF IsA(e.is, Bindings) THEN {symbols[e.is].type} ELSE {}
      [] e.node = "Index"      -> {Element(e.of[1])}
      [] e.node = "Call"       ->
            LET name == unwrapIdentifier(e.of[1]) IN
            CASE IsA(name, {"Function"}) -> {symbols[name].returns}
              [] name = "slice" -> {SliceOf(Element(a)) : a \in {Arguments(e)[k] : k \in DOMAIN Arguments(e)}}
              [] OTHER          -> {U64}
      [] OTHER -> Comparable \cup {Str, Unit}

\* The one type of an expression where none is asked for; None when it has none.
Alone(e) ==
    CASE e.node = "Paren" -> Alone(e.of[1])
      [] e.node = "ArrayLiteral" ->
            LET fixed  == {k \in DOMAIN e.of : ~Free(e.of[k])}
                leader == Min(fixed \cup {Len(e.of)})
                type   == ArrayOf(Alone(e.of[IF fixed = {} THEN 1 ELSE leader]), Len(e.of))
            IN  IF e.of # <<>> /\ HasType(e, type) THEN type ELSE None
      [] OTHER ->
            LET types == {t \in (IF Free(e) THEN Defaults ELSE Candidates(e)) : HasType(e, t)}
            IN  IF types = {} THEN None ELSE CHOOSE t \in types : TRUE

=============================================================================
