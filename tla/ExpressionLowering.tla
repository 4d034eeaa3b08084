-------------------------- MODULE ExpressionLowering --------------------------
(****************************************************************************)
(* LLVMExpressionLowering: the instructions emitted for a checked           *)
(* expression, in the order they are emitted, and the statements that hold  *)
(* one.  A builder has the code of the block it is in and the number of the *)
(* next value; lowering gives the builder it leaves and the value, or fails *)
(* (std::nullopt).  An expression of type unit has no value.                *)
(*                                                                          *)
(* The blocks of && and || are one instruction that holds the code of its   *)
(* right side; how blocks are linked is BlockLowering's subject.            *)
(****************************************************************************)
EXTENDS TypeChecker

IntType(width) == [llvm |-> "int", width |-> width]

NoType   == [llvm |-> "null"]
Void     == [llvm |-> "void"]
Pointer  == [llvm |-> "ptr"]
View     == [llvm |-> "view"]          \* {ptr, i64}: str and slices
Word     == IntType(Bits["i64"])
Int1     == IntType(1)

ArrayType(element, length) == [llvm |-> "array", element |-> element, length |-> length]

RECURSIVE lowerType(_), typeContainsSlice(_)

lowerType(t) ==
    CASE isInteger(t) -> IntType(Bits[t.kind])
      [] isFloat(t)   -> [llvm |-> t.kind]
      [] t = Bool     -> Int1
      [] t = Unit     -> Void
      [] t.kind \in {"str", "slice"} -> View
      [] t.kind = "array" -> IF lowerType(t.element) = NoType THEN NoType
                             ELSE ArrayType(lowerType(t.element), t.length)
      [] t.kind \in {"char", "unresolved", "error"} -> NoType

typeContainsSlice(t) == t.kind = "slice" \/ (t.kind = "array" /\ typeContainsSlice(t.element))

----------------------------------------------------------------------------
(* The builder *)

NoValue == [value |-> 0, type |-> Void]

Failed == [ok |-> FALSE]

Lowered(b, value) == [ok |-> TRUE, builder |-> b, value |-> value]

\* `with` is what the instruction holds besides the values it is given.
Emit(b, op, given, with, type) ==
    Lowered([code |-> Append(b.code, [op |-> op, given |-> given, with |-> with, to |-> b.next]),
             next |-> b.next + 1],
            [value |-> b.next, type |-> type])

\* An instruction that has an effect and no value.
Perform(b, op, given, with) == Lowered(Emit(b, op, given, with, Void).builder, NoValue)

\* Go on after what has been lowered.
After(lowered, Continue(_, _)) ==
    IF lowered.ok THEN Continue(lowered.builder, lowered.value) ELSE Failed

\* Go on with its value, which it must have.
With(lowered, Continue(_, _)) ==
    IF lowered.ok THEN IF lowered.value = NoValue THEN Failed
                       ELSE Continue(lowered.builder, lowered.value)
    ELSE Failed

RECURSIVE lowerExpr(_, _), lowerArrayBase(_, _), lowerArguments(_, _, _, _),
          lowerArrayLiteralIntoStorage(_, _, _, _)

slotType(name) == IF IsA(name, Bindings) THEN lowerType(symbols[name].type) ELSE NoType

----------------------------------------------------------------------------
(* Literals, names and operators *)

lowerLiteralExpr(e, b) ==
    IF lowerType(e.type) = NoType THEN Failed
    ELSE Emit(b, "constant", <<>>, IF isInteger(e.type) THEN e.value % 2 ^ Bits[e.type.kind] ELSE e.value,
              lowerType(e.type))

lowerIdentifierExpr(e, b) ==
    IF slotType(e.is) = NoType THEN Failed
    ELSE With(Emit(b, "slot", <<>>, e.is, Pointer), LAMBDA c, slot :
              Emit(c, "load", <<slot.value>>, "", slotType(e.is)))

lowerUnaryExpr(e, b) ==
    IF e.is \notin {"-", "!"} THEN Failed
    ELSE With(lowerExpr(e.of[1], b), LAMBDA c, operand :
         LET type == e.of[1].type IN
         CASE e.is = "-" /\ isSignedInteger(type) -> Emit(c, "neg", <<operand.value>>, operand.type, operand.type)
           [] e.is = "-" /\ isFloat(type)         -> Emit(c, "fneg", <<operand.value>>, operand.type, operand.type)
           [] e.is = "!" /\ type = Bool          -> Emit(c, "not", <<operand.value>>, operand.type, operand.type)
           [] OTHER -> Failed)

\* The instruction, or the predicate, that an operator has for its operands.
instruction(op, type) ==
    CASE op \in {"+", "-", "*", "==", "!="} /\ isInteger(type)            -> <<"i", op>>
      [] op \in {"==", "!="} /\ type = Bool                              -> <<"i", op>>
      [] op \in {"/", "%", "<", "<=", ">", ">="} /\ isInteger(type)       ->
            <<IF isSignedInteger(type) THEN "s" ELSE "u", op>>
      [] op \in (Arithmetic \ {"%"}) \cup {"==", "!=", "<", "<=", ">", ">="} /\ isFloat(type) -> <<"f", op>>
      [] OTHER -> <<>>

\* lhs decides which block is next; the phi takes the constant or the rhs.
lowerLogicalExpr(e, b) ==
    With(lowerExpr(e.of[1], b), LAMBDA c, lhs :
    With(lowerExpr(e.of[2], [c EXCEPT !.code = <<>>]), LAMBDA rhsBlock, rhs :
        Emit([c EXCEPT !.next = rhsBlock.next], "select", <<lhs.value>>,
             [and |-> e.is = "&&", code |-> rhsBlock.code, value |-> rhs.value], Int1)))

lowerBinaryExpr(e, b) ==
    CASE e.is = ".." -> Failed
      [] e.is \in {"&&", "||"} -> lowerLogicalExpr(e, b)
      [] OTHER ->
            With(lowerExpr(e.of[1], b), LAMBDA c, left :
            With(lowerExpr(e.of[2], c), LAMBDA d, right :
                LET selected == instruction(e.is, e.of[1].type) IN
                IF selected = <<>> THEN Failed
                ELSE Emit(d, "binary", <<left.value, right.value>>, [is |-> selected, type |-> left.type],
                          IF e.is \in Arithmetic THEN left.type ELSE Int1)))

----------------------------------------------------------------------------
(* Arrays and slices *)

\* The index as a word, after the check that it is in bounds.
lowerCheckedIndexBounds(b, index, type, length) ==
    With(Emit(b, "extend", <<index.value>>, [signed |-> isSignedInteger(type), from |-> index.type, to |-> Word], Word),
    LAMBDA c, wide :
        After(Perform(c, "check", <<index.value, wide.value, length.value>>,
                      [signed |-> isSignedInteger(type), from |-> index.type]),
              LAMBDA d, none : Lowered(d, wide)))

ElementAddress(b, base, index, element) ==
    Emit(b, "gep", <<base.value, index.value>>, "", [llvm |-> "ptr", to |-> element])

\* An address has the type of what it points to.
lowerArrayElementAddress(e, b) ==
    With(lowerArrayBase(e.of[1], b), LAMBDA c, base :
    With(lowerExpr(e.of[2], c), LAMBDA d, index :
    With(Emit(d, "constant", <<>>, base.type.to.length, Word), LAMBDA f, length :
    With(lowerCheckedIndexBounds(f, index, e.of[2].type, length), LAMBDA g, wide :
        ElementAddress(g, base, wide, base.type.to.element)))))

\* Fault: parentheses around the array are not seen through.
lowerBareArrayBase(e, b) ==
    CASE e.node = "Index" ->
            With(lowerArrayElementAddress(e, b), LAMBDA c, nested :
                IF nested.type.to.llvm = "array" THEN Lowered(c, nested) ELSE Failed)
      [] e.node = "Identifier" /\ slotType(e.is).llvm = "array" ->
            Emit(b, "slot", <<>>, e.is, [llvm |-> "ptr", to |-> slotType(e.is)])
      [] OTHER -> Failed

lowerArrayBase(e, b) ==
    CASE e.node = "Paren" -> lowerArrayBase(e.of[1], b)
      [] e.node = "Index" ->
            With(lowerArrayElementAddress(e, b), LAMBDA c, nested :
                IF nested.type.to.llvm = "array" THEN Lowered(c, nested) ELSE Failed)
      [] e.node = "Identifier" /\ slotType(e.is).llvm = "array" ->
            Emit(b, "slot", <<>>, e.is, [llvm |-> "ptr", to |-> slotType(e.is)])
      [] OTHER -> Failed

lowerSliceIndexExpr(e, b) ==
    LET element == lowerType(e.of[1].type.element) IN
    IF element = NoType THEN Failed
    ELSE With(lowerExpr(e.of[1], b), LAMBDA c, slice :
         With(Emit(c, "extract", <<slice.value>>, "data", Pointer), LAMBDA d, data :
         With(Emit(d, "extract", <<slice.value>>, "length", Word), LAMBDA f, length :
         With(lowerExpr(e.of[2], f), LAMBDA g, index :
         With(lowerCheckedIndexBounds(g, index, e.of[2].type, length), LAMBDA h, wide :
         With(ElementAddress(h, data, wide, element), LAMBDA i, address :
             Emit(i, "load", <<address.value>>, "", element)))))))

lowerIndexExpr(e, b) ==
    IF e.of[1].type.kind = "slice" THEN lowerSliceIndexExpr(e, b)
    ELSE With(lowerArrayElementAddress(e, b), LAMBDA c, address :
              Emit(c, "load", <<address.value>>, "", address.type.to))

\* Every element goes into its place in turn, a nested literal element by element.
lowerArrayLiteralIntoStorage(elements, k, storage, b) ==
    IF k > Len(elements) THEN Lowered(b, NoValue)
    ELSE LET element == storage.type.to.element IN
         With(Emit(b, "constant", <<>>, k - 1, Word), LAMBDA c, index :
         With(ElementAddress(c, storage, index, element), LAMBDA d, address :
         After(IF elements[k].node = "ArrayLiteral"
               THEN lowerArrayLiteralIntoStorage(elements[k].of, 1, address, d)
               ELSE With(lowerExpr(elements[k], d), LAMBDA f, value :
                         IF value.type # element THEN Failed
                         ELSE Perform(f, "store", <<value.value, address.value>>, "")),
               LAMBDA g, none : lowerArrayLiteralIntoStorage(elements, k + 1, storage, g))))

lowerArrayLiteralExpr(e, b) ==
    LET type == lowerType(e.type) IN
    IF type.llvm # "array" THEN Failed
    ELSE With(Emit(b, "alloca", <<>>, [name |-> "", type |-> type], [llvm |-> "ptr", to |-> type]), LAMBDA c, temporary :
         After(lowerArrayLiteralIntoStorage(e.of, 1, temporary, c), LAMBDA d, none :
             Emit(d, "load", <<temporary.value>>, "", type)))

----------------------------------------------------------------------------
(* Assignments *)

\* Fault: the value is evaluated before the bounds are checked.
lowerValueThenAddress(target, value, b) ==
    With(lowerExpr(value, b), LAMBDA c, rhs :
    With(lowerArrayElementAddress(target, c), LAMBDA d, address :
        Perform(d, "store", <<rhs.value, address.value>>, "")))

lowerIndexAssignmentExpr(target, value, b) ==
    With(lowerArrayElementAddress(target, b), LAMBDA c, address :
    With(lowerExpr(value, c), LAMBDA d, rhs :
        IF rhs.type # address.type.to THEN Failed
        ELSE Perform(d, "store", <<rhs.value, address.value>>, "")))

lowerAssignmentExpr(e, b) ==
    LET name == unwrapIdentifier(e.of[1]) IN
    CASE e.of[1].node = "Index" -> lowerIndexAssignmentExpr(e.of[1], e.of[2], b)
      [] e.of[1].node # "Index" /\ slotType(name) = NoType -> Failed
      [] e.of[1].node # "Index" /\ slotType(name) # NoType ->
            With(lowerExpr(e.of[2], b), LAMBDA c, rhs :
                IF rhs.type # slotType(name) THEN Failed
                ELSE With(Emit(c, "slot", <<>>, name, Pointer), LAMBDA d, slot :
                          Perform(d, "store", <<rhs.value, slot.value>>, "")))

----------------------------------------------------------------------------
(* Calls *)

lowerArguments(arguments, parameters, values, b) ==
    IF arguments = <<>> THEN Lowered(b, values)
    ELSE With(lowerExpr(Head(arguments), b), LAMBDA c, argument :
         IF argument.type # lowerType(Head(parameters)) THEN Failed
         ELSE lowerArguments(Tail(arguments), Tail(parameters), Append(values, argument.value), c))

lowerUserCall(e, name, b) ==
    LET signature == symbols[name] IN
    IF Len(Arguments(e)) # Len(signature.parameters) THEN Failed
    ELSE After(lowerArguments(Arguments(e), signature.parameters, <<>>, b), LAMBDA c, values :
         IF lowerType(signature.returns) = Void THEN Perform(c, "call", values, name)
         ELSE Emit(c, "call", values, name, lowerType(e.type)))

\* The kai_print_* function of each type, and how its argument is widened.
printFunction(type) ==
    CASE isSignedInteger(type) -> "i64"
      [] isInteger(type) /\ ~isSignedInteger(type) -> "u64"
      [] type = Bool -> "bool"
      [] isFloat(type) -> "f64"
      [] type = Str -> "str"
      [] OTHER -> ""

lowerPrintCall(e, b) ==
    IF Len(Arguments(e)) # 1 THEN Failed
    ELSE LET argument == Arguments(e)[1]
             function == printFunction(argument.type)
         IN  IF ~isConcrete(argument.type) THEN Failed
             ELSE With(lowerExpr(argument, b), LAMBDA c, value :
                  CASE function \in {"i64", "u64"} ->
                          With(Emit(c, "extend", <<value.value>>,
                                    [signed |-> function = "i64", from |-> value.type, to |-> Word], Word),
                          LAMBDA d, wide : Perform(d, "print", <<wide.value>>, [is |-> function, width |-> Word.width]))
                    [] function \in {"bool", "f64", "str"} -> Perform(c, "print", <<value.value>>, [is |-> function, width |-> 0])
                    [] function = "" -> Failed)

lowerSliceCall(e, b) ==
    IF Len(Arguments(e)) # 1 THEN Failed
    ELSE LET name == unwrapIdentifier(Arguments(e)[1]) IN
         IF slotType(name).llvm # "array" THEN Failed
         ELSE With(Emit(b, "slot", <<>>, name, Pointer), LAMBDA c, slot :
                   Emit(c, "view", <<slot.value>>, slotType(name).length, View))

\* The argument is evaluated for its effects even where the length is known.
lowerLenCall(e, b) ==
    IF Len(Arguments(e)) # 1 THEN Failed
    ELSE LET argument == Arguments(e)[1] IN
         CASE argument.type.kind = "array" /\ ~typeContainsSlice(argument.type) ->
                 After(lowerExpr(argument, b), LAMBDA c, discarded :
                     Emit(c, "constant", <<>>, argument.type.length, Word))
           [] argument.type.kind \in {"slice", "str"} ->
                 With(lowerExpr(argument, b), LAMBDA c, view :
                     Emit(c, "extract", <<view.value>>, "length", Word))
           [] OTHER -> Failed

lowerBuiltinCallExpr(e, name, b) ==
    CASE name = "print" -> lowerPrintCall(e, b)
      [] name = "slice" -> lowerSliceCall(e, b)
      [] name = "len"   -> lowerLenCall(e, b)
      [] OTHER -> Failed

lowerCallExpr(e, b) ==
    LET name == unwrapIdentifier(e.of[1])
    IN  CASE IsA(name, {"Builtin"})  -> lowerBuiltinCallExpr(e, name, b)
          [] IsA(name, {"Function"}) -> lowerUserCall(e, name, b)
          [] ~IsA(name, {"Builtin", "Function"}) -> Failed

isPrintBuiltinCall(e) ==
    e.node = "Call" /\ unwrapIdentifier(e.of[1]) = "print" /\ IsA("print", {"Builtin"})

----------------------------------------------------------------------------

\* Nothing in error is lowered, and nothing unresolved but a call of print.
lowerExpr(e, b) ==
    CASE e.type \in {None, Error} -> Failed
      [] e.type = Unresolved -> IF isPrintBuiltinCall(e) THEN lowerCallExpr(e, b) ELSE Failed
      [] isConcrete(e.type) ->
            CASE e.node = "Literal"      -> lowerLiteralExpr(e, b)
              [] e.node = "Paren"        -> lowerExpr(e.of[1], b)
              [] e.node = "Unary"        -> lowerUnaryExpr(e, b)
              [] e.node = "Binary"       -> lowerBinaryExpr(e, b)
              [] e.node = "Identifier"   -> lowerIdentifierExpr(e, b)
              [] e.node = "Assignment"   -> lowerAssignmentExpr(e, b)
              [] e.node = "Call"         -> lowerCallExpr(e, b)
              [] e.node = "Index"        -> lowerIndexExpr(e, b)
              [] e.node = "ArrayLiteral" -> lowerArrayLiteralExpr(e, b)
              [] e.node \in {"Member", "Unit", "ErrorPropagation"} -> Failed

----------------------------------------------------------------------------
(* Statements *)

NewBlock == [code |-> <<>>, next |-> 1]

isUnsupportedSliceCarryingType(t) == t.kind = "array" /\ typeContainsSlice(t)

\* An array literal goes straight into the slot, anything else by value.
generateVarDeclStmt(name, type, initializer) ==
    LET llvmType == lowerType(type)
        literal  == unwrapParenExpr(initializer)
        slot(b)  == Emit(b, "alloca", <<>>, [name |-> name, type |-> llvmType], [llvm |-> "ptr", to |-> llvmType])
    IN  CASE isUnsupportedSliceCarryingType(type) \/ llvmType \in {NoType, Void} -> Failed
          [] OTHER ->
                IF llvmType.llvm = "array" /\ literal.node = "ArrayLiteral"
                THEN With(slot(NewBlock), LAMBDA b, storage :
                          lowerArrayLiteralIntoStorage(literal.of, 1, storage, b))
                ELSE With(lowerExpr(initializer, NewBlock), LAMBDA b, value :
                          IF value.type # llvmType THEN Failed
                          ELSE With(slot(b), LAMBDA c, storage :
                                    Perform(c, "store", <<value.value, storage.value>>, "")))

generateExprStmt(e) == lowerExpr(e, NewBlock)

generateReturnStmt(e, returns) ==
    With(lowerExpr(e, NewBlock), LAMBDA b, result :
        IF result.type # lowerType(returns) THEN Failed
        ELSE Perform(b, "ret", <<result.value>>, ""))

\* The condition of an if or a while: a value for the branch.
generateCondition(e) ==
    With(lowerExpr(e, NewBlock), LAMBDA b, condition : Perform(b, "ret", <<condition.value>>, ""))

=============================================================================
