-------------------------------- MODULE Machine --------------------------------
(****************************************************************************)
(* What the instructions that the code generator emits do: an external      *)
(* part, LLVM, as far as the generator counts on it.  An integer is a bit   *)
(* pattern, a number below 2 ^ width, and wraps around; a division by zero, *)
(* or of the least number by minus one, has no defined outcome.  Memory has *)
(* slots; an address is a path into one.  What can be seen from outside is  *)
(* the calls, what is printed and what is returned, in order.               *)
(****************************************************************************)
EXTENDS Integers, Sequences, SequencesExt, TLC

Variable(name)    == [name |-> name, temporary |-> 0]
Temporary(number) == [name |-> "", temporary |-> number]

Address(slot, path) == [slot |-> slot, path |-> path]

\* The value of a str or a slice.
ViewOf(address, length) == [data |-> address, length |-> length]

Signed(pattern, width) == IF pattern >= 2 ^ (width - 1) THEN pattern - 2 ^ width ELSE pattern

Absolute(n) == IF n < 0 THEN -n ELSE n

\* Division that rounds towards zero.
Quotient(n, d) ==
    LET q == Absolute(n) \div Absolute(d) IN IF (n < 0) # (d < 0) THEN -q ELSE q

RECURSIVE At(_, _), Put(_, _, _), Blank(_), Execute(_, _)

\* The part of a value at a path, and the value with another part there.
At(v, path) == IF path = <<>> THEN v ELSE At(v[Head(path) + 1], Tail(path))

Put(v, path, part) ==
    IF path = <<>> THEN part ELSE [v EXCEPT ![Head(path) + 1] = Put(@, Tail(path), part)]

Undef == -1

Blank(type) ==
    IF type.llvm = "array" THEN [k \in 1 .. type.length |-> Blank(type.element)] ELSE Undef

\* A function that is called gives one of its own values back: `results`.
Start(memory, results) ==
    [values |-> <<>>, memory |-> memory, results |-> results, trace |-> <<>>, outcome |-> "running"]

Result(m, i, value) == [m EXCEPT !.values = (i.to :> value) @@ @]

Stop(m, outcome) == [m EXCEPT !.outcome = outcome]

Observe(m, event, given) == [m EXCEPT !.trace = Append(@, [event |-> event, with |-> given])]

Truth(condition) == IF condition THEN 1 ELSE 0

\* x and y as the operands of an instruction of some signedness and width.
Binary(m, i, x, y) ==
    LET width == i.with.type.width
        op    == i.with.is[2]
        Read(pattern) == IF i.with.is[1] = "s" THEN Signed(pattern, width) ELSE pattern
        a     == Read(x)
        b     == Read(y)
        least == -(2 ^ (width - 1))
        Number(n) == Result(m, i, n % 2 ^ width)
    IN  IF op \in {"/", "%"} /\ (b = 0 \/ (a = least /\ b = -1)) THEN Stop(m, "undefined")
        ELSE CASE op = "+"  -> Number(a + b)
               [] op = "-"  -> Number(a - b)
               [] op = "*"  -> Number(a * b)
               [] op = "/"  -> Number(Quotient(a, b))
               [] op = "%"  -> Number(a - b * Quotient(a, b))
               [] op = "==" -> Result(m, i, Truth(a = b))
               [] op = "!=" -> Result(m, i, Truth(a # b))
               [] op = "<"  -> Result(m, i, Truth(a < b))
               [] op = "<=" -> Result(m, i, Truth(a <= b))
               [] op = ">"  -> Result(m, i, Truth(a > b))
               [] op = ">=" -> Result(m, i, Truth(a >= b))

\* The right side is run when the left one does not decide.
Select(m, i, lhs) ==
    IF (lhs = 1) # i.with.and THEN Result(m, i, lhs)
    ELSE LET after == Execute(i.with.code, m)
         IN  IF after.outcome = "running" THEN Result(after, i, after.values[i.with.value]) ELSE after

Step(m, i) ==
    LET x(k) == m.values[i.given[k]]
    IN  CASE i.op = "constant" -> Result(m, i, i.with)
          [] i.op = "slot"     -> Result(m, i, Address(Variable(i.with), <<>>))
          [] i.op = "alloca"   ->
                LET slot == IF i.with.name = "" THEN Temporary(i.to) ELSE Variable(i.with.name)
                IN  Result([m EXCEPT !.memory = (slot :> Blank(i.with.type)) @@ @], i, Address(slot, <<>>))
          [] i.op = "load"     -> Result(m, i, At(m.memory[x(1).slot], x(1).path))
          [] i.op = "store"    -> [m EXCEPT !.memory[x(2).slot] = Put(@, x(2).path, x(1))]
          [] i.op = "neg"      -> Result(m, i, (-x(1)) % 2 ^ i.with.width)
          [] i.op = "not"      -> Result(m, i, 1 - x(1))
          [] i.op = "binary"   -> Binary(m, i, x(1), x(2))
          [] i.op = "select"   -> Select(m, i, x(1))
          [] i.op = "extend"   ->
                Result(m, i, IF i.with.signed THEN Signed(x(1), i.with.from.width) % 2 ^ i.with.to.width
                             ELSE x(1))
          [] i.op = "check"    ->
                IF (i.with.signed /\ Signed(x(1), i.with.from.width) < 0) \/ x(2) >= x(3)
                THEN Stop(m, "trapped") ELSE m
          [] i.op = "gep"      -> Result(m, i, [x(1) EXCEPT !.path = Append(@, x(2))])
          [] i.op = "view"     -> Result(m, i, ViewOf(x(1), i.with))
          [] i.op = "extract"  -> Result(m, i, IF i.with = "data" THEN x(1).data ELSE x(1).length)
          [] i.op = "call"     ->
                Result(Observe(m, i.with, [k \in DOMAIN i.given |-> x(k)]), i, m.results[i.with])
          [] i.op = "print"    ->
                Observe(m, "print", <<IF i.with.is = "i64" THEN Signed(x(1), i.with.width) ELSE x(1)>>)
          [] i.op = "ret"      -> Stop(Observe(m, "return", <<x(1)>>), "returned")

Execute(code, m) ==
    FoldLeft(LAMBDA n, i : IF n.outcome = "running" THEN Step(n, i) ELSE n, m, code)

=============================================================================
