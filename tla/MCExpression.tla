----------------------------- MODULE MCExpression -----------------------------
EXTENDS ExpressionRun

MCBits == [i8 |-> 2, i16 |-> 2, i32 |-> 3, i64 |-> 4, u8 |-> 2, u16 |-> 2, u32 |-> 3, u64 |-> 4]

I8  == Scalar("i8")
U8  == Scalar("u8")

Var(type, mutable, value) == [kind |-> "Local", type |-> type, mutable |-> mutable, value |-> value]

Fun(parameters, returns, result) ==
    [kind |-> "Function", parameters |-> parameters, returns |-> returns, result |-> result]

Prelude == [kind |-> "Builtin"]

Node(node, is, arity) == [node |-> node, is |-> is, arity |-> arity]

Operator(is) == Node("Binary", is, 2)

Call(name, arity) == Node("Call", name, arity)

Paren == Node("Paren", "", 1)

Place1(is, type) == [is |-> is, type |-> type, strParameters |-> 0]

Let(type)  == Place1("let", type)
Returns(type) == Place1("return", type)
Alike      == Place1("expression", None)
Condition  == Place1("condition", Bool)
For        == Place1("for", None)

Number(n) == Literal("Integer", n)

\* Literals at the limits of their types, and what anchors them.
Numbers == [
    symbols |-> [b |-> Var(I8, FALSE, -2), u |-> Var(U8, TRUE, 3), n |-> Var(I32, FALSE, 3)],
    leaves  |-> {Number(1), Number(2), Number(4), Literal("Float", 0), Literal("Bool", 1),
                 Identifier("b"), Identifier("u")},
    forms   |-> {Operator("+"), Operator("/"), Operator("<"), Operator("=="), Operator("&&"),
                 Node("Unary", "-", 1), Node("Unary", "!", 1), Paren},
    places  |-> {Let(None), Let(I8), Let(U8), Condition},
    nodes |-> 5, statements |-> 1]

Ranges == [
    symbols |-> [u |-> Var(U8, TRUE, 3), n |-> Var(I32, FALSE, 3), t |-> Var(Bool, FALSE, 1)],
    leaves  |-> {Number(1), Number(4), Literal("Float", 0), Identifier("u"), Identifier("n"),
                 Identifier("t"), Identifier("nowhere")},
    forms   |-> {Operator(".."), Operator("+"), Operator("<"), Node("Unary", "-", 1), Paren},
    places  |-> {For, Let(None)},
    nodes |-> 5, statements |-> 1]

\* Arrays that are written out, in arrays and where an array is expected.
Arrays == [
    symbols |-> [b |-> Var(I8, FALSE, -2), k |-> Var(ArrayOf(I8, 1), FALSE, <<1>>)],
    leaves  |-> {Number(1), Number(4), Literal("Float", 0), Identifier("b"), Identifier("k")},
    forms   |-> {Operator("+"), Node("Unary", "-", 1), Paren, Node("ArrayLiteral", "", 0),
                 Node("ArrayLiteral", "", 1), Node("ArrayLiteral", "", 2), Node("ArrayLiteral", "", 3)},
    places  |-> {Let(None), Let(ArrayOf(I8, 2)), Let(ArrayOf(ArrayOf(I8, 1), 2)),
                 Let(ArrayOf(I8, 0)), Let(I8)},
    nodes |-> 5, statements |-> 1]

Here(name) == ViewOf(Address(Variable(name), <<>>), 2)

\* Elements of arrays and of slices, and what they are assigned.
Elements == [
    symbols |-> [m |-> Var(ArrayOf(I8, 2), TRUE, <<1, -2>>),
                 g |-> Var(ArrayOf(ArrayOf(U8, 1), 2), TRUE, <<<<1>>, <<3>>>>),
                 k |-> Var(ArrayOf(I8, 2), FALSE, <<1, 0>>),
                 s |-> Var(SliceOf(I8), TRUE, Here("m")),
                 r |-> Var(SliceOf(ArrayOf(U8, 1)), TRUE, Here("g")),
                 i |-> Var(I8, TRUE, -1),
                 slice |-> Prelude, len |-> Prelude],
    leaves  |-> {Number(0), Number(2), Identifier("m"), Identifier("g"), Identifier("k"),
                 Identifier("s"), Identifier("r"), Identifier("i")},
    forms   |-> {Node("Index", "", 2), Node("Assignment", "", 2), Node("Unary", "-", 1), Paren,
                 Call("slice", 1), Call("len", 1)},
    places  |-> {Let(None), Alike},
    nodes |-> 5, statements |-> 1]

Given(name) == Expr("Call", "", <<Identifier(name)>>)

\* Nested elements, found and assigned by calls that can be seen.
Effects == [
    symbols |-> [g |-> Var(ArrayOf(ArrayOf(U8, 1), 2), TRUE, <<<<1>>, <<3>>>>),
                 s |-> Var(SliceOf(U8), FALSE, ViewOf(Address(Variable("g"), <<1>>), 1)),
                 zero |-> Fun(<<>>, U8, 0), one |-> Fun(<<>>, U8, 1), low |-> Fun(<<>>, I8, -1)],
    leaves  |-> {Identifier("g"), Identifier("s"), Given("zero"), Given("one"), Given("low")},
    forms   |-> {Node("Index", "", 2), Node("Assignment", "", 2), Node("ArrayLiteral", "", 1)},
    places  |-> {Alike, Let(None)},
    nodes |-> 7, statements |-> 1]

\* What is evaluated, in what order, and what is not.
Order == [
    symbols |-> [yes |-> Fun(<<>>, Bool, 1), no |-> Fun(<<>>, Bool, 0), two |-> Fun(<<>>, I8, -2),
                 more |-> Fun(<<I8, Bool>>, I8, -1), print |-> Prelude],
    leaves  |-> {Given("yes"), Given("no"), Given("two")},
    forms   |-> {Operator("&&"), Operator("||"), Operator("-"), Operator("/"), Operator("%"),
                 Operator("<"), Call("more", 2), Call("print", 1)},
    places  |-> {Alike, Returns(Bool)},
    nodes |-> 5, statements |-> 1]

\* Calls that do not fit.
Calls == [
    symbols |-> [n |-> Var(I32, TRUE, 3), b |-> Var(I8, FALSE, -2),
                 k |-> Var(ArrayOf(I8, 1), FALSE, <<1>>),
                 f |-> Fun(<<I8>>, I32, 1), e |-> Fun(<<>>, Unit, 0), slice |-> Prelude, len |-> Prelude],
    leaves  |-> {Number(1), Number(4), Identifier("n"), Identifier("b"), Identifier("k"), Given("e")},
    forms   |-> {Call("f", 0), Call("f", 1), Call("f", 2), Call("n", 1), Call("slice", 1),
                 Call("slice", 2), Call("len", 1), Operator("+"), Node("ArrayLiteral", "", 2)},
    places  |-> {Alike, Let(I8)},
    nodes |-> 5, statements |-> 1]

\* Forms that wait for the rest of the language.
Deferrals == [
    symbols |-> [n |-> Var(I32, TRUE, 3), f |-> Fun(<<I8>>, I32, 1), print |-> Prelude],
    leaves  |-> {Number(4), Literal("Char", 0), Identifier("n"), Identifier("f"), Identifier("nowhere"),
                 Expr("Unit", "", <<>>)},
    forms   |-> {Call("f", 1), Call("nowhere", 1), Call("print", 1), Operator("+"), Operator("=="),
                 Operator(".."), Node("Unary", "&", 1), Node("Member", "", 1), Node("Index", "", 2),
                 Node("Assignment", "", 2), Node("ErrorPropagation", "", 1),
                 Node("ArrayLiteral", "", 2)},
    places  |-> {Alike, Let(I8), For},
    nodes |-> 4, statements |-> 1]

Several(type) == [Returns(type) EXCEPT !.strParameters = 2]

Texts == [
    symbols |-> [t |-> Var(Str, TRUE, Here("t")), n |-> Var(I32, TRUE, 3),
                 f |-> Fun(<<Str>>, Str, Here("f")), len |-> Prelude, print |-> Prelude],
    leaves  |-> {Literal("String", Here("")), Identifier("t"), Identifier("n")},
    forms   |-> {Call("len", 1), Call("f", 1), Call("print", 1), Node("Assignment", "", 2), Operator("=="),
                 Paren},
    places  |-> {Returns(Str), Several(Str), Alike, Let(None), Let(Str)},
    nodes |-> 5, statements |-> 1]

\* Two statements: what a slice shows of the array after it has been assigned to.
Sequences == [
    symbols |-> [m |-> Var(ArrayOf(I8, 2), TRUE, <<1, -2>>),
                 s |-> Var(SliceOf(I8), TRUE, Here("m")), print |-> Prelude],
    leaves  |-> {Number(1), Identifier("m"), Identifier("s")},
    forms   |-> {Node("Index", "", 2), Node("Assignment", "", 2), Call("print", 1)},
    places  |-> {Alike},
    nodes |-> 5, statements |-> 2]

MCFamilies == {Numbers, Ranges, Arrays, Elements, Effects, Order, Calls, Deferrals, Texts, Sequences}
=============================================================================
