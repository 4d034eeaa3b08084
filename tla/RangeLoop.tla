------------------------------ MODULE RangeLoop ------------------------------
(****************************************************************************)
(* The code LLVMCodeGenerator::generateForStmt emits for                    *)
(*     for i in start..limit { ... }                                        *)
(* as it runs: i lives in a slot of the element type's width, the           *)
(* comparison is the signed or the unsigned one, the increment wraps, and   *)
(* the body may assign the mutable binding that the range's end reads.      *)
(* A slot holds a bit pattern; Value is the integer it stands for.          *)
(****************************************************************************)
EXTENDS Integers

CONSTANTS
    Types,       \* the integer types: [half, signed], with 2 * half bit patterns
    MaxWrites    \* bound: assignments one iteration of the body makes to limit

ASSUME TypesAssumption ==
    \A t \in Types : /\ t.half \in Nat \ {0}
                     /\ t.signed \in BOOLEAN

ASSUME WritesAssumption == MaxWrites \in Nat

VARIABLES
    type,        \* the element type of the range
    phase,       \* where the generated code is
    limit,       \* the mutable binding the end expression reads
    induction,   \* the slot of i
    startValue,  \* the SSA values of the two bounds
    endValue,
    iterations,  \* completed iterations
    writes       \* assignments to limit so far in this iteration

loopVars == <<type, phase, limit, induction, startValue, endValue, iterations, writes>>

Bits(t) == 0..(2 * t.half - 1)

Value(t, b) == IF t.signed /\ b >= t.half THEN b - 2 * t.half ELSE b

Phases == {"start", "end", "condition", "body", "exit", "returned"}

----------------------------------------------------------------------------

\* CreateAdd with the constant 1, at the element type's width
Increment(t, b) == IF b = 2 * t.half - 1 THEN 0 ELSE b + 1

\* Fault: the unsigned comparison for every type.
BelowUnsigned(t, a, b) == a < b

\* CreateICmpSLT for a signed element type, CreateICmpULT for an unsigned one
Below(t, a, b) == Value(t, a) < Value(t, b)

LoopInit ==
    /\ type \in Types
    /\ phase = "start"
    /\ limit \in Bits(type)
    /\ induction = 0
    /\ startValue = 0
    /\ endValue = 0
    /\ iterations = 0
    /\ writes = 0

EvaluateStart ==
    /\ phase = "start"
    /\ phase' = "end"
    /\ startValue' \in Bits(type)
    /\ UNCHANGED <<type, limit, induction, endValue, iterations, writes>>

\* Fault: one past the end is kept, without a width.
EvaluatePastEnd ==
    /\ phase = "end"
    /\ phase' = "condition"
    /\ endValue' = limit + 1
    /\ induction' = startValue
    /\ UNCHANGED <<type, limit, startValue, iterations, writes>>

\* The end is evaluated in the preheader too; then start is stored and the
\* condition block entered.
EvaluateEnd ==
    /\ phase = "end"
    /\ phase' = "condition"
    /\ endValue' = limit
    /\ induction' = startValue
    /\ UNCHANGED <<type, limit, startValue, iterations, writes>>

\* Fault: the end is evaluated again before each iteration.
ConditionReadsLimit ==
    /\ phase = "condition"
    /\ phase' = IF Below(type, induction, limit) THEN "body" ELSE "exit"
    /\ UNCHANGED <<type, limit, induction, startValue, endValue, iterations, writes>>

Condition ==
    /\ phase = "condition"
    /\ phase' = IF Below(type, induction, endValue) THEN "body" ELSE "exit"
    /\ UNCHANGED <<type, limit, induction, startValue, endValue, iterations, writes>>

\* The body is free to assign limit, but no assignment can target i.
AssignLimit(b) ==
    /\ phase = "body"
    /\ writes < MaxWrites
    /\ limit' = b
    /\ writes' = writes + 1
    /\ UNCHANGED <<type, phase, induction, startValue, endValue, iterations>>

BodyReturns ==
    /\ phase = "body"
    /\ phase' = "returned"
    /\ UNCHANGED <<type, limit, induction, startValue, endValue, iterations, writes>>

\* Fault: the back edge passes the increment by.
BackEdgeWithoutIncrement ==
    /\ phase = "body"
    /\ phase' = "condition"
    /\ writes' = 0
    /\ UNCHANGED <<type, limit, induction, startValue, endValue, iterations>>

BodyFallsThrough ==
    /\ phase = "body"
    /\ phase' = "condition"
    /\ induction' = Increment(type, induction)
    /\ iterations' = iterations + 1
    /\ writes' = 0
    /\ UNCHANGED <<type, limit, startValue, endValue>>

LoopNext ==
    \/ EvaluateStart
    \/ EvaluateEnd
    \/ Condition
    \/ \E b \in Bits(type) : AssignLimit(b)
    \/ BodyReturns
    \/ BodyFallsThrough

\* The generated code is one thread and keeps running.
LoopSpec == LoopInit /\ [][LoopNext]_loopVars /\ WF_loopVars(LoopNext)

----------------------------------------------------------------------------
(* Properties *)

\* Types.
LoopTypeOK ==
    /\ type \in Types
    /\ phase \in Phases
    /\ limit \in Bits(type)
    /\ induction \in Bits(type)
    /\ startValue \in Bits(type)
    /\ endValue \in Bits(type)
    /\ iterations \in Nat
    /\ writes \in 0..MaxWrites

Started == phase \notin {"start", "end"}

First == Value(type, startValue)

Last == Value(type, endValue)

Current == Value(type, induction)

\* Half-open, without a wrap-around at the type's maximum: i counts up from the
\* start one at a time, the body only ever sees start <= i < end, and a loop
\* that is not left early stops at max(start, end) exactly, after as many
\* iterations as the range has elements.
CountsTheRange ==
    Started =>
        /\ Current = First + iterations
        /\ phase \in {"body", "returned"} => Current < Last
        /\ phase = "exit" => Current = IF First < Last THEN Last ELSE First

\* Every range is finished or left; no type's maximum makes a loop endless.
Terminates == <>(phase \in {"exit", "returned"})

\* The loop over the integers that this one stands for.
Abstract ==
    INSTANCE HalfOpenRange WITH
        state <- CASE ~Started             -> "before"
                   [] phase = "condition"  -> "between"
                   [] phase = "body"       -> "inBody"
                   [] phase = "exit"       -> "finished"
                   [] OTHER                -> "left",
        at    <- IF Started THEN Current ELSE 0,
        upTo  <- IF Started THEN Last ELSE 0

\* The machine-width loop implements the loop over the integers: both bounds are
\* read once, in the preheader, and the body sees each element of the range once.
ImplementsRange == Abstract!Spec
=============================================================================
