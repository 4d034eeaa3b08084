----------------------------- MODULE TypeChecker -----------------------------
(****************************************************************************)
(* TypeChecker on expressions, and on the statements that hold them.  An    *)
(* expression is a tree; checking it gives the same tree back with what     *)
(* SemanticModel has then recorded of each node: its type, and the errors   *)
(* whose span it is.                                                        *)
(*                                                                          *)
(* An integer type has as few bits as Bits says, so that its limits and the *)
(* literals around them are within reach.  Types are compared by structure: *)
(* TypeTable shows that interning comes to that.  Where slices come from is *)
(* SliceProvenance's part of the same functions.                            *)
(****************************************************************************)
EXTENDS Integers, Sequences, FiniteSetsExt, SequencesExt

CONSTANT
    Bits   \* the width of each integer type

IntegerKinds == {"i8", "i16", "i32", "i64", "u8", "u16", "u32", "u64"}

SignedKinds == {"i8", "i16", "i32", "i64"}

ASSUME BitsAssumption ==
    /\ DOMAIN Bits = IntegerKinds
    /\ \A k \in IntegerKinds : Bits[k] \in Nat \ {0}

VARIABLE symbols   \* the symbol that each name resolves to

Scalar(kind) == [kind |-> kind]

None       == Scalar("none")         \* std::nullopt: no context, or nothing recorded
Unresolved == Scalar("unresolved")   \* not modelled by the language yet
Error      == Scalar("error")
Unit       == Scalar("unit")
I32        == Scalar("i32")
U64        == Scalar("u64")
F64        == Scalar("f64")
Bool       == Scalar("bool")
Str        == Scalar("str")

ArrayOf(element, length) == [kind |-> "array", element |-> element, length |-> length]

SliceOf(element) == [kind |-> "slice", element |-> element]

FloatKinds     == {"f32", "f64"}
NumericKinds   == IntegerKinds \cup FloatKinds
EqualityDomain == NumericKinds \cup {"bool", "char"}
Negatable      == SignedKinds \cup FloatKinds

isInteger(t)       == t.kind \in IntegerKinds
isSignedInteger(t) == t.kind \in SignedKinds
isFloat(t)         == t.kind \in FloatKinds
isNumeric(t)       == t.kind \in NumericKinds
isConcrete(t)      == t \notin {None, Unresolved, Error}

----------------------------------------------------------------------------
(* Expressions *)

Expr(node, is, of) == [node |-> node, is |-> is, of |-> of, type |-> None, errors |-> <<>>]

\* `value` is the magnitude of an integer, the truth of a Boolean.
Literal(is, value) == [node |-> "Literal", is |-> is, value |-> value, of |-> <<>>,
                       type |-> None, errors |-> <<>>]

Identifier(name) == Expr("Identifier", name, <<>>)

Typed(e, type) == [e EXCEPT !.type = type]

Report(e, error) == [e EXCEPT !.errors = Append(@, error)]

\* setExpressionType, for a node whose children have been checked.
Checked(e, children, type) == [e EXCEPT !.of = children, !.type = type]

Arithmetic == {"+", "-", "*", "/", "%"}

RECURSIVE unwrapParenExpr(_), canAcceptNumericContext(_), unwrapIndexAssignmentRoot(_)

unwrapParenExpr(e) == IF e.node = "Paren" THEN unwrapParenExpr(e.of[1]) ELSE e

\* The name an expression is, through parentheses; or no name.
unwrapIdentifier(e) ==
    LET inner == unwrapParenExpr(e) IN IF inner.node = "Identifier" THEN inner.is ELSE ""

unwrapIndexAssignmentRoot(e) ==
    LET inner == unwrapParenExpr(e)
    IN  IF inner.node = "Index" THEN unwrapIndexAssignmentRoot(inner.of[1])
        ELSE unwrapIdentifier(inner)

canAcceptNumericContext(e) ==
    \/ e.node = "Literal" /\ e.is \in {"Integer", "Float"}
    \/ /\ \/ e.node = "Paren"
          \/ e.node = "Unary" /\ e.is = "-"
          \/ e.node = "Binary" /\ e.is \in Arithmetic
       /\ \A k \in DOMAIN e.of : canAcceptNumericContext(e.of[k])

\* model.resolution and model.symbol
IsA(name, kinds) == name \in DOMAIN symbols /\ symbols[name].kind \in kinds

Bindings == {"Local", "Parameter"}

usableContext(expected) == IF isConcrete(expected) THEN expected ELSE None

arithmeticOperandContext(expected) == IF isNumeric(expected) THEN expected ELSE None

\* The first of the operands that decides a common type: an error before
\* what is not resolved, and `type` when all operands are concrete.
Decided(operands, type) ==
    IF Error \in {operands[k].type : k \in DOMAIN operands} THEN Error
    ELSE IF Unresolved \in {operands[k].type : k \in DOMAIN operands} THEN Unresolved ELSE type

----------------------------------------------------------------------------
(* Literals and names *)

integerLiteralFits(target, negative, magnitude) ==
    CASE ~isSignedInteger(target) -> ~negative /\ magnitude < 2 ^ Bits[target.kind]
      [] negative                 -> magnitude <= 2 ^ (Bits[target.kind] - 1)
      [] OTHER                    -> magnitude < 2 ^ (Bits[target.kind] - 1)

\* `at` is the node that takes the type, and the error if there is one.
checkIntegerLiteralValue(at, negative, magnitude, context) ==
    LET target == IF isInteger(context) THEN context ELSE I32
    IN  IF integerLiteralFits(target, negative, magnitude)
        THEN Typed(at, target)
        ELSE Report(Typed(at, Error), "LiteralOutOfRange")

floatLiteralType(context) == IF isFloat(context) THEN context ELSE F64

checkLiteralExpr(e, expected) ==
    CASE e.is = "Integer" -> checkIntegerLiteralValue(e, FALSE, e.value, usableContext(expected))
      [] e.is = "Float"   -> Typed(e, floatLiteralType(usableContext(expected)))
      [] e.is = "Bool"    -> Typed(e, Bool)
      [] e.is = "Char"    -> Typed(e, Scalar("char"))
      [] e.is = "String"  -> Typed(e, Str)

checkIdentifierExpr(e) ==
    Typed(e, IF e.is \notin DOMAIN symbols THEN Error
             ELSE IF IsA(e.is, Bindings) THEN symbols[e.is].type ELSE Unresolved)

----------------------------------------------------------------------------
(* Operators *)

RECURSIVE checkExpr(_, _), StampLiteral(_, _)

inferExpr(e) == checkExpr(e, None)

inferAll(es) == [k \in DOMAIN es |-> inferExpr(es[k])]

\* The literal under a minus, and its parentheses, take the constant's type.
StampLiteral(e, type) == Checked(e, [k \in DOMAIN e.of |-> StampLiteral(e.of[k], type)], type)

checkNegatedLiteral(e, literal, context) ==
    LET typed == IF literal.is = "Integer"
                 THEN checkIntegerLiteralValue(e, TRUE, literal.value, context)
                 ELSE Typed(e, floatLiteralType(context))
    IN  [typed EXCEPT !.of = <<StampLiteral(e.of[1], typed.type)>>]

checkOperand(e, operand, domain) ==
    LET result == Checked(e, <<operand>>, Decided(<<operand>>, operand.type))
    IN  IF isConcrete(operand.type) /\ operand.type.kind \notin domain
        THEN Report(Typed(result, Error), "InvalidUnaryOperand")
        ELSE result

checkUnaryExpr(e, expected) ==
    LET context == usableContext(expected)
        literal == unwrapParenExpr(e.of[1])
    IN  CASE e.is = "-" /\ literal.node = "Literal" /\ literal.is \in {"Integer", "Float"} ->
                checkNegatedLiteral(e, literal, context)
          [] e.is = "-" /\ ~(literal.node = "Literal" /\ literal.is \in {"Integer", "Float"}) ->
                checkOperand(e, checkExpr(e.of[1], IF context.kind \in Negatable THEN context ELSE None),
                             Negatable)
          [] e.is = "!" ->
                checkOperand(e, inferExpr(e.of[1]), {"bool"})
          [] e.is \in {"&", "&mut"} ->
                Checked(e, <<inferExpr(e.of[1])>>, Unresolved)

\* Fault: the fixed side anchors the flexible one on its right only.
checkMatchedLeftToRight(left, right, expected) ==
    LET first  == checkExpr(left, IF canAcceptNumericContext(left) THEN expected ELSE None)
        anchor == IF canAcceptNumericContext(left) THEN expected
                  ELSE arithmeticOperandContext(first.type)
    IN  <<first, checkExpr(right, IF canAcceptNumericContext(right) THEN anchor ELSE None)>>

\* The side that is fixed is checked first, and its type is the other's context.
checkMatchedOperands(left, right, expected) ==
    LET flexible == [l |-> canAcceptNumericContext(left), r |-> canAcceptNumericContext(right)]
        Anchored(fixed) == arithmeticOperandContext(inferExpr(fixed).type)
    IN  << checkExpr(left,  CASE flexible.l /\ ~flexible.r -> Anchored(right)
                              [] flexible.l /\ flexible.r  -> expected
                              [] OTHER -> None),
           checkExpr(right, CASE flexible.r /\ ~flexible.l -> Anchored(left)
                              [] flexible.l /\ flexible.r  -> expected
                              [] OTHER -> None) >>

resolveMatchedOperatorResult(e, operands, domain, resultIsOperandType) ==
    LET type == operands[1].type
        fits == type = operands[2].type /\ type.kind \in domain
    IN  IF Decided(operands, Unit) = Unit /\ ~fits
        THEN Report(Checked(e, operands, Error), "InvalidBinaryOperands")
        ELSE Checked(e, operands, Decided(operands, IF resultIsOperandType THEN type ELSE Bool))

checkBinaryExpr(e, expected) ==
    LET left  == e.of[1]
        right == e.of[2]
    IN  CASE e.is = ".." ->
                Checked(e, inferAll(e.of), Unresolved)
          [] e.is \in Arithmetic \ {"%"} ->
                resolveMatchedOperatorResult(
                    e, checkMatchedOperands(left, right, arithmeticOperandContext(expected)),
                    NumericKinds, TRUE)
          [] e.is = "%" ->
                resolveMatchedOperatorResult(
                    e, checkMatchedOperands(left, right, arithmeticOperandContext(expected)),
                    IntegerKinds, TRUE)
          [] e.is \in {"<", "<=", ">", ">="} ->
                resolveMatchedOperatorResult(e, checkMatchedOperands(left, right, None), NumericKinds, FALSE)
          [] e.is \in {"==", "!="} ->
                resolveMatchedOperatorResult(e, checkMatchedOperands(left, right, None),
                                             EqualityDomain, FALSE)
          [] e.is \in {"&&", "||"} ->
                resolveMatchedOperatorResult(e, inferAll(e.of), {"bool"}, FALSE)

----------------------------------------------------------------------------
(* Calls: the callee is the first child, the arguments are the others *)

Arguments(call) == Tail(call.of)

checkBuiltinCall(e) == Checked(e, inferAll(e.of), Unresolved)

\* slice and len: one argument of the right shape, or an error of their own.
checkOneArgument(e, children, fits, result, error) ==
    IF Len(children) # 2
    THEN Report(Checked(e, children, Error), "InvalidArgumentCount")
    ELSE IF ~isConcrete(children[2].type)
    THEN Checked(e, children, children[2].type)
    ELSE IF fits
    THEN Checked(e, children, result)
    ELSE Checked(e, <<children[1], Report(children[2], error)>>, Error)

\* The source of a slice is the name of an array.
checkSliceBuiltinCall(e) ==
    LET children == inferAll(e.of)
        type     == children[2].type
    IN  checkOneArgument(e, children, type.kind = "array" /\ IsA(unwrapIdentifier(e.of[2]), Bindings),
                         SliceOf(type.element), "InvalidSliceSource")

checkLenBuiltinCall(e) ==
    LET children == inferAll(e.of)
    IN  checkOneArgument(e, children, children[2].type.kind \in {"array", "slice", "str"}, U64,
                         "InvalidLenOperand")

\* Where a value must have a type: an error is not reported twice, and what is
\* not resolved is let through.
Mismatched(value, type) == isConcrete(value.type) /\ isConcrete(type) /\ value.type # type

\* Fault: an operand that is in error already is reported again.
RequireTypeOfAll(value, type) ==
    IF isConcrete(type) /\ value.type # type THEN Report(value, "TypeMismatch") ELSE value

RequireType(value, type) == IF Mismatched(value, type) THEN Report(value, "TypeMismatch") ELSE value

checkUserFunctionCall(e, signature) ==
    LET parameters == signature.parameters
        arguments  == Arguments(e)
        shared     == 1 .. Min({Len(parameters), Len(arguments)})
        checked    == [k \in DOMAIN arguments |->
                          IF k \in shared THEN RequireType(checkExpr(arguments[k], usableContext(parameters[k])),
                                                           parameters[k])
                          ELSE inferExpr(arguments[k])]
        result     == Checked(e, <<inferExpr(e.of[1])>> \o checked, Error)
    IN  CASE Len(parameters) # Len(arguments) -> Report(result, "InvalidArgumentCount")
          [] \E k \in shared : checked[k].type = Error \/ Mismatched(checked[k], parameters[k]) -> result
          [] OTHER -> Typed(result, signature.returns)

\* A callee that is no name of a function is an expression like any other.
checkOtherCall(e) ==
    LET children == inferAll(e.of)
        callee   == children[1]
    IN  IF isConcrete(callee.type)
        THEN Checked(e, [children EXCEPT ![1] = Report(callee, "NotCallable")], Error)
        ELSE Checked(e, children, callee.type)

checkCallExpr(e) ==
    LET name == unwrapIdentifier(e.of[1])
    IN  CASE IsA(name, {"Function"}) -> checkUserFunctionCall(e, symbols[name])
          [] IsA(name, {"Builtin"}) /\ name = "slice" -> checkSliceBuiltinCall(e)
          [] IsA(name, {"Builtin"}) /\ name = "len"   -> checkLenBuiltinCall(e)
          [] IsA(name, {"Builtin"}) /\ name \notin {"slice", "len"} -> checkBuiltinCall(e)
          [] ~IsA(name, {"Function", "Builtin"}) -> checkOtherCall(e)

----------------------------------------------------------------------------
(* Arrays *)

\* One context for all elements: the expected one, else the type of the first
\* element that is fixed.
checkElements(elements, context) ==
    LET fixed  == {k \in DOMAIN elements : ~canAcceptNumericContext(elements[k])}
        anchor == IF context # None \/ fixed = {} THEN context ELSE inferExpr(elements[Min(fixed)]).type
    IN  [k \in DOMAIN elements |->
            IF context = None /\ fixed # {} /\ k = Min(fixed) THEN inferExpr(elements[k])
            ELSE checkExpr(elements[k], anchor)]

checkArrayLiteralExpr(e, expected) ==
    LET context  == IF expected.kind = "array" THEN expected.element ELSE None
        elements == checkElements(e.of, context)
        odd      == {k \in DOMAIN elements : elements[k].type # elements[1].type}
    IN  CASE e.of = <<>> /\ context # None -> Typed(e, ArrayOf(context, 0))
          [] e.of = <<>> /\ context = None -> Report(Typed(e, Error), "AmbiguousEmptyArrayLiteral")
          [] e.of # <<>> /\ Decided(elements, Unit) # Unit ->
                Checked(e, elements, Decided(elements, Unit))
          [] e.of # <<>> /\ Decided(elements, Unit) = Unit /\ odd = {} ->
                Checked(e, elements, ArrayOf(elements[1].type, Len(elements)))
          [] e.of # <<>> /\ Decided(elements, Unit) = Unit /\ odd # {} ->
                Checked(e, [elements EXCEPT ![Min(odd)] = Report(@, "IncompatibleArrayElementType")],
                        Error)

\* tryDecodeConstantIndex: a literal, or one minus before it.
IsConstant(e) ==
    LET inner == unwrapParenExpr(e)
        under == IF inner.node = "Unary" /\ inner.is = "-" THEN unwrapParenExpr(inner.of[1]) ELSE inner
    IN  under.node = "Literal" /\ under.is = "Integer"

IsNegated(e) == unwrapParenExpr(e).node = "Unary"

Magnitude(e) ==
    LET inner == unwrapParenExpr(e) IN
    IF IsNegated(e) THEN unwrapParenExpr(inner.of[1]).value ELSE inner.value

outOfBounds(index, type) ==
    /\ IsConstant(index)
    /\ IF IsNegated(index) THEN Magnitude(index) # 0
       ELSE type.kind = "array" /\ Magnitude(index) >= type.length

checkIndexExpr(e) ==
    LET children == inferAll(e.of)
        type     == children[1].type
        index    == children[2]
        ReportAt(k, error) == Checked(e, [children EXCEPT ![k] = Report(@, error)], Error)
    IN  CASE Decided(children, Unit) # Unit -> Checked(e, children, Decided(children, Unit))
          [] Decided(children, Unit) = Unit /\ type.kind \notin {"array", "slice"} ->
                ReportAt(1, "InvalidIndexTarget")
          [] Decided(children, Unit) = Unit /\ type.kind \in {"array", "slice"} ->
                IF ~isInteger(index.type) THEN ReportAt(2, "InvalidIndexType")
                ELSE IF outOfBounds(index, type)
                THEN ReportAt(2, IF type.kind = "array" THEN "ArrayIndexOutOfBounds"
                                 ELSE "SliceIndexOutOfBounds")
                ELSE Checked(e, children, type.element)

----------------------------------------------------------------------------
(* Assignments: the target is the first child, the value the second *)

\* The value of an assignment whose target has a type: the assignment is a unit.
checkAssignedValue(e, target, type) ==
    LET value  == RequireType(checkExpr(e.of[2], usableContext(type)), type)
        failed == Error \in {value.type, type} \/ Mismatched(value, type)
    IN  Checked(e, <<target, value>>, IF failed THEN Error ELSE Unit)

\* An assignment that is wrong whatever its value is.
RejectTarget(e, target) == Checked(e, <<target, inferExpr(e.of[2])>>, Error)

checkVariableAssignmentTarget(e, symbol) ==
    LET target == inferExpr(e.of[1])
    IN  IF ~symbol.mutable THEN RejectTarget(e, Report(target, "AssignmentToImmutableBinding"))
        ELSE checkAssignedValue(e, target, target.type)

ReportObject(target, error) == [target EXCEPT !.of[1] = Report(@, error)]

checkIndexAssignmentTarget(e) ==
    LET target     == checkIndexExpr(e.of[1])
        root       == unwrapIndexAssignmentRoot(e.of[1].of[1])
        recognized == IsA(root, Bindings) /\ isConcrete(target.type)
    IN  CASE target.of[1].type.kind = "slice" ->
                RejectTarget(e, IF target.type = Error THEN target
                                ELSE ReportObject(target, "AssignmentThroughImmutableSlice"))
          [] target.of[1].type.kind # "slice" /\ ~recognized ->
                Checked(e, <<target, inferExpr(e.of[2])>>,
                        IF target.type = Error THEN Error ELSE Unresolved)
          [] target.of[1].type.kind # "slice" /\ recognized ->
                IF symbols[root].mutable THEN checkAssignedValue(e, target, target.type)
                ELSE RejectTarget(e, ReportObject(target, "AssignmentToImmutableBinding"))

checkInvalidAssignmentTarget(e) ==
    RejectTarget(e, Report(inferExpr(e.of[1]), "InvalidAssignmentTarget"))

checkDeferredAssignmentTarget(e) == Checked(e, inferAll(e.of), Unresolved)

checkAssignmentExpr(e) ==
    LET name == unwrapIdentifier(e.of[1])
    IN  CASE IsA(name, Bindings) -> checkVariableAssignmentTarget(e, symbols[name])
          [] IsA(name, {"Function", "Builtin"}) -> checkInvalidAssignmentTarget(e)
          [] name # "" /\ name \notin DOMAIN symbols -> RejectTarget(e, inferExpr(e.of[1]))
          [] e.of[1].node = "Index"  -> checkIndexAssignmentTarget(e)
          [] e.of[1].node = "Member" -> checkDeferredAssignmentTarget(e)
          [] OTHER -> checkInvalidAssignmentTarget(e)

----------------------------------------------------------------------------

\* What the object is, and what `?` is applied to, is checked; the rest waits
\* for structures and results.
checkDeferredExpr(e) == Checked(e, inferAll(e.of), Unresolved)

checkParenExpr(e, expected) ==
    LET inner == checkExpr(e.of[1], expected) IN Checked(e, <<inner>>, inner.type)

checkExpr(e, expected) ==
    CASE e.node = "Literal"      -> checkLiteralExpr(e, expected)
      [] e.node = "Unit"         -> Typed(e, Unit)
      [] e.node = "Identifier"   -> checkIdentifierExpr(e)
      [] e.node = "Paren"        -> checkParenExpr(e, expected)
      [] e.node = "Unary"        -> checkUnaryExpr(e, expected)
      [] e.node = "Binary"       -> checkBinaryExpr(e, expected)
      [] e.node = "Call"         -> checkCallExpr(e)
      [] e.node = "Assignment"   -> checkAssignmentExpr(e)
      [] e.node = "ArrayLiteral" -> checkArrayLiteralExpr(e, usableContext(expected))
      [] e.node = "Index"        -> checkIndexExpr(e)
      [] e.node \in {"Member", "ErrorPropagation"} -> checkDeferredExpr(e)

----------------------------------------------------------------------------
(* Statements that hold an expression *)

\* checkVarDecl against an annotation, checkReturnStmt against the declared type.
checkAgainst(e, declared) ==
    IF isConcrete(declared) THEN RequireType(checkExpr(e, declared), declared) ELSE inferExpr(e)

\* A literal comes from no parameter: it may be returned beside any number.
checkReturnStmt(e, declared, strParameters) ==
    LET value == checkAgainst(e, declared)
    IN  IF /\ declared = Str
           /\ strParameters > 1
           /\ unwrapParenExpr(e).node # "Literal"
           /\ ~Mismatched(value, declared)
        THEN Report(value, "UnsupportedStrReturn")
        ELSE value

checkCondition(e) == RequireType(checkExpr(e, Bool), Bool)

\* The type of the loop's variable is what its range resolves to; the range
\* itself stays unresolved.
checkIntegerRangeFor(e) ==
    resolveMatchedOperatorResult(e, checkMatchedOperands(e.of[1], e.of[2], None), IntegerKinds, TRUE)

checkForStmt(e) ==
    IF e.node = "Binary" /\ e.is = ".."
    THEN checkIntegerRangeFor(e)
    ELSE Report(inferExpr(e), "UnsupportedForIterable")

=============================================================================
