-------------------------------- MODULE Meaning --------------------------------
(****************************************************************************)
(* What a checked expression means: its value, and what it does on the way. *)
(* Operands are evaluated from left to right, each once; && and || stop at  *)
(* the left one when it decides; an index is checked before the element is  *)
(* used, and before the value that is to be assigned to it is evaluated.    *)
(* A division rounds towards zero; by zero it fails, and so does arithmetic *)
(* whose result is beyond the limits of its type (TYPE_SYSTEM.md, sections  *)
(* 8 and 9).  A slice is a view of its array: no copy.                      *)
(****************************************************************************)
EXTENDS TypeChecker, Machine

\* The integers of a type.
Limits(type) ==
    LET size == 2 ^ Bits[type.kind]
        half == IF isSignedInteger(type) THEN size \div 2 ELSE 0
    IN  -half .. size - half - 1

RECURSIVE Encode(_, _), Evaluate(_, _), EvaluateAll(_, _)

\* The bits of a value.
Encode(type, v) ==
    CASE isInteger(type)     -> v % 2 ^ Bits[type.kind]
      [] type.kind = "array" -> [k \in DOMAIN v |-> Encode(type.element, v[k])]
      [] OTHER -> v

\* A world: the value of each variable, what has been seen, how it ended.
Gives(world, value) == [world |-> world, value |-> value]

Ends(world, outcome) == Gives([world EXCEPT !.outcome = outcome], Undef)

Seen(world, event, with) == [world EXCEPT !.trace = Append(@, [event |-> event, with |-> with])]

Then(given, Continue(_, _)) ==
    IF given.world.outcome = "running" THEN Continue(given.world, given.value) ELSE given

EvaluateAll(es, world) ==
    FoldLeft(LAMBDA done, e : Then(done, LAMBDA w, values :
                 Then(Evaluate(e, w), LAMBDA x, v : Gives(x, Append(values, v)))),
             Gives(world, <<>>), es)

\* A number that its type can hold, or a failure.
Fits(type, n, world) ==
    IF n \in Limits(type) THEN Gives(world, n) ELSE Ends(world, "failed")

\* A remainder has the limits of the quotient it is the rest of.
Computes(op, type, a, b, world) ==
    CASE op \in {"/", "%"} /\ b = 0 -> Ends(world, "failed")
      [] op = "/" /\ b # 0 -> Fits(type, Quotient(a, b), world)
      [] op = "%" /\ b # 0 -> Then(Fits(type, Quotient(a, b), world), LAMBDA w, q : Gives(w, a - b * q))
      [] op = "+"  -> Fits(type, a + b, world)
      [] op = "-"  -> Fits(type, a - b, world)
      [] op = "*"  -> Fits(type, a * b, world)
      [] op = "==" -> Gives(world, Truth(a = b))
      [] op = "!=" -> Gives(world, Truth(a # b))
      [] op = "<"  -> Gives(world, Truth(a < b))
      [] op = "<=" -> Gives(world, Truth(a <= b))
      [] op = ">"  -> Gives(world, Truth(a > b))
      [] op = ">=" -> Gives(world, Truth(a >= b))

EvaluateBinary(e, world) ==
    Then(Evaluate(e.of[1], world), LAMBDA w, left :
        IF e.is \in {"&&", "||"}
        THEN IF (left = 1) # (e.is = "&&") THEN Gives(w, left) ELSE Evaluate(e.of[2], w)
        ELSE Then(Evaluate(e.of[2], w), LAMBDA x, right :
                  Computes(e.is, e.of[1].type, left, right, x)))

\* An index that is in bounds, or the end of the program.
Inside(index, length, world) ==
    IF index \in 0 .. length - 1 THEN Gives(world, index) ELSE Ends(world, "trapped")

Contents(type, v, world) ==
    IF type.kind = "slice" THEN At(world.memory[v.data.slot.name], v.data.path) ELSE v

EvaluateIndex(e, world) ==
    Then(Evaluate(e.of[1], world), LAMBDA w, base :
    Then(Evaluate(e.of[2], w), LAMBDA x, index :
        LET elements == Contents(e.of[1].type, base, x)
        IN  Then(Inside(index, Len(elements), x), LAMBDA y, inside :
                 Gives(y, elements[inside + 1]))))

EvaluateCall(e, world) ==
    LET name == unwrapIdentifier(e.of[1])
        SourceName == unwrapIdentifier(Arguments(e)[1])
    IN  IF name = "slice"
        THEN Gives(world, ViewOf(Address(Variable(SourceName), <<>>), Len(world.memory[SourceName])))
        ELSE Then(EvaluateAll(Arguments(e), world), LAMBDA w, values :
             CASE name = "print" -> Gives(Seen(w, "print", values), Undef)
               [] name = "len"   ->
                    Gives(w, IF Arguments(e)[1].type.kind = "array" THEN Len(values[1]) ELSE values[1].length)
               [] OTHER ->
                    Gives(Seen(w, name, [k \in DOMAIN values |->
                                            Encode(symbols[name].parameters[k], values[k])]),
                          symbols[name].result))

\* The variable and the path that an element of an array is at.
RECURSIVE Place(_, _)

Place(e, world) ==
    LET target == unwrapParenExpr(e)
    IN  IF target.node = "Identifier" THEN Gives(world, Address(Variable(target.is), <<>>))
        ELSE Then(Place(target.of[1], world), LAMBDA w, base :
             Then(Evaluate(target.of[2], w), LAMBDA x, index :
             Then(Inside(index, target.of[1].type.length, x), LAMBDA y, inside :
                  Gives(y, [base EXCEPT !.path = Append(@, inside)]))))

EvaluateAssignment(e, world) ==
    Then(Place(e.of[1], world), LAMBDA w, place :
    Then(Evaluate(e.of[2], w), LAMBDA x, v :
        Gives([x EXCEPT !.memory[place.slot.name] = Put(@, place.path, v)], Undef)))

Evaluate(e, world) ==
    CASE e.node = "Literal"      -> Gives(world, e.value)
      [] e.node = "Identifier"   -> Gives(world, world.memory[e.is])
      [] e.node = "Paren"        -> Evaluate(e.of[1], world)
      [] e.node = "Unary"        ->
            Then(Evaluate(e.of[1], world), LAMBDA w, v :
                 IF e.is = "-" THEN Fits(e.type, -v, w) ELSE Gives(w, 1 - v))
      [] e.node = "Binary"       -> EvaluateBinary(e, world)
      [] e.node = "Call"         -> EvaluateCall(e, world)
      [] e.node = "Assignment"   -> EvaluateAssignment(e, world)
      [] e.node = "ArrayLiteral" -> EvaluateAll(e.of, world)
      [] e.node = "Index"        -> EvaluateIndex(e, world)

=============================================================================
