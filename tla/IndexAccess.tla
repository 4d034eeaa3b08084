----------------------------- MODULE IndexAccess -----------------------------
(****************************************************************************)
(* One element access xs[e1]...[en], or one assignment to such an element:  *)
(* TypeChecker's check of each index, then the code LLVMExpressionLowering  *)
(* emits for it, as it runs.  Every level evaluates its index once, checks  *)
(* it in 64 bits and traps or moves the element address; an assignment      *)
(* evaluates its right-hand side only then.                                 *)
(*                                                                          *)
(* Integers keep their width: an index is a bit pattern of its own type,    *)
(* half the number of patterns being the type's first negative one.         *)
(****************************************************************************)
EXTENDS Integers, Sequences

CONSTANTS
    Types,        \* the integer types an index expression can have: [half, signed]
    LiteralType,  \* the type of an integer literal without context (i32)
    WordHalf,     \* half the number of values of the 64-bit word
    Lengths,      \* bound: the lengths of arrays and slices considered
    MaxLevels,    \* bound: how deep arrays are nested
    MaxMagnitude  \* bound: the magnitudes of the integer literals considered

ASSUME WidthsAssumption ==
    /\ \A t \in Types : /\ t.half \in Nat \ {0}
                        /\ t.signed \in BOOLEAN
                        /\ t.half <= WordHalf
    /\ LiteralType \in Types
    /\ LiteralType.signed

ASSUME IndexBounds ==
    /\ WordHalf \in Nat \ {0}
    /\ Lengths \subseteq 0..(2 * WordHalf - 1)
    /\ MaxLevels \in Nat \ {0}
    /\ MaxMagnitude \in Nat

Words == 0..(2 * WordHalf - 1)

Bits(t) == 0..(2 * t.half - 1)

Value(t, b) == IF t.signed /\ b >= t.half THEN b - 2 * t.half ELSE b

VARIABLES
    root,      \* "array", "slice"
    dims,      \* the length of each level's array; a slice has one, at run time
    assigns,   \* the access is the target of an assignment
    indices,   \* the index expressions checked so far, innermost object first
    phase,     \* "checking", "rejected", "running", "trapped", "value", "done"
    level,     \* how many indices have been evaluated and found in bounds
    address    \* the element address, in elements of that level from the root

vars == <<root, dims, assigns, indices, phase, level, address>>

\* An index expression: a literal or a negated literal, or any other expression
\* with the value it will have at run time.
Constants == [constant : {TRUE}, negative : BOOLEAN, magnitude : 0..MaxMagnitude]

Dynamics == UNION {[constant : {FALSE}, type : {t}, bits : Bits(t)] : t \in Types}

----------------------------------------------------------------------------
(* TypeChecker *)

\* integerLiteralFits for a signed target
integerLiteralFits(negative, magnitude) ==
    IF negative THEN magnitude <= LiteralType.half ELSE magnitude < LiteralType.half

\* Fault: the length itself is let through.
outOfBoundsByOne(e, length) ==
    \/ e.negative /\ e.magnitude # 0
    \/ root = "array" /\ ~e.negative /\ e.magnitude > length

\* checkIndexExpr on a constant index: an array's own length, a slice's sign.
outOfBounds(e, length) ==
    \/ e.negative /\ e.magnitude # 0
    \/ root = "array" /\ ~e.negative /\ e.magnitude >= length

Accepts(e, length) ==
    e.constant => /\ integerLiteralFits(e.negative, e.magnitude)
                  /\ ~outOfBounds(e, length)

----------------------------------------------------------------------------
(* LLVMExpressionLowering *)

\* CreateNeg, in two's complement
Negate(t, b) == IF b = 0 THEN 0 ELSE 2 * t.half - b

TypeOf(e) == IF e.constant THEN LiteralType ELSE e.type

\* lowerExpr of the index: a negated literal is lowered as CreateNeg of its
\* magnitude's pattern.
Lowered(e) ==
    IF e.constant
    THEN IF e.negative THEN Negate(LiteralType, e.magnitude) ELSE e.magnitude
    ELSE e.bits

\* CreateSExtOrTrunc or CreateZExtOrTrunc to 64 bits
Extend(t, b) == IF t.signed /\ b >= t.half THEN b + 2 * (WordHalf - t.half) ELSE b

\* Fault: no sign test.
InBoundsUnsigned(t, b, length) == Extend(t, b) < length

\* lowerCheckedIndexBounds: isNonNegative at the index's own width, and an
\* unsigned 64-bit comparison.
InBounds(t, b, length) ==
    /\ t.signed => b < t.half
    /\ Extend(t, b) < length

----------------------------------------------------------------------------

Init ==
    /\ root \in {"array", "slice"}
    /\ assigns \in BOOLEAN
    /\ dims \in UNION {[1..n -> Lengths] : n \in 1..MaxLevels}
    \* A slice is indexed by value, once, and is no assignment target.
    /\ root = "slice" => Len(dims) = 1 /\ ~assigns
    /\ indices = <<>>
    /\ phase = "checking"
    /\ level = 0
    /\ address = 0

\* checkIndexExpr, innermost object first; the first error ends the compilation
\* and the last index starts the run.
checkIndexExpr(e) ==
    /\ phase = "checking"
    /\ indices' = Append(indices, e)
    /\ phase' = IF ~Accepts(e, dims[Len(indices) + 1]) THEN "rejected"
                ELSE IF Len(indices) + 1 = Len(dims) THEN "running" ELSE "checking"
    /\ UNCHANGED <<root, dims, assigns, level, address>>

\* Fault: an inner level is addressed from the root, not from the outer element.
addressFromRoot ==
    /\ phase = "running"
    /\ LET e == indices[level + 1]
       IN  IF InBounds(TypeOf(e), Lowered(e), dims[level + 1])
           THEN /\ address' = Extend(TypeOf(e), Lowered(e))
                /\ level' = level + 1
                /\ phase' = IF level + 1 < Len(dims) THEN "running"
                            ELSE IF assigns THEN "value" ELSE "done"
           ELSE /\ phase' = "trapped"
                /\ UNCHANGED <<address, level>>
    /\ UNCHANGED <<root, dims, assigns, indices>>

\* lowerArrayElementAddress, or lowerSliceIndexExpr: one level.
lowerElementAddress ==
    /\ phase = "running"
    /\ LET e == indices[level + 1]
           length == dims[level + 1]
           index == Extend(TypeOf(e), Lowered(e))
       IN  IF InBounds(TypeOf(e), Lowered(e), length)
           THEN /\ address' = address * length + index
                /\ level' = level + 1
                /\ phase' = IF level + 1 < Len(dims) THEN "running"
                            ELSE IF assigns THEN "value" ELSE "done"
           ELSE /\ phase' = "trapped"
                /\ UNCHANGED <<address, level>>
    /\ UNCHANGED <<root, dims, assigns, indices>>

\* lowerIndexAssignmentExpr: the value, then the store.
lowerIndexAssignmentExpr ==
    /\ phase = "value"
    /\ phase' = "done"
    /\ UNCHANGED <<root, dims, assigns, indices, level, address>>

Next ==
    \/ \E e \in Constants \cup Dynamics : checkIndexExpr(e)
    \/ lowerElementAddress
    \/ lowerIndexAssignmentExpr

Spec == Init /\ [][Next]_vars

----------------------------------------------------------------------------
(* Properties *)

\* Types.
TypeOK ==
    /\ root \in {"array", "slice"}
    /\ assigns \in BOOLEAN
    /\ dims \in Seq(Lengths)
    /\ indices \in Seq(Constants \cup Dynamics)
    /\ phase \in {"checking", "rejected", "running", "trapped", "value", "done"}
    /\ level \in Nat
    /\ address \in Nat

\* What the index means in the source program.
Meaning(e) ==
    IF e.constant
    THEN IF e.negative THEN -e.magnitude ELSE e.magnitude
    ELSE Value(e.type, e.bits)

Within(k) == 0 <= Meaning(indices[k]) /\ Meaning(indices[k]) < dims[k]

\* The widened, unsigned comparison decides what the source means: an access
\* goes on past a level exactly when that index is an element of that array,
\* and traps at the first one that is not.
TrapsExactlyOutOfBounds ==
    /\ \A k \in 1..level : Within(k)
    /\ phase = "trapped" => ~Within(level + 1)

\* What checkIndexExpr does decide.  A constant index it rejects would have
\* trapped, or does not fit its type; one it lets through traps in no array but
\* an empty one, and there only when it is written -0.
ConstantsDecidedAtCompileTime ==
    /\ phase = "rejected" =>
          LET e == indices[Len(indices)]
          IN  ~Within(Len(indices)) \/ ~integerLiteralFits(e.negative, e.magnitude)
    /\ phase = "trapped" /\ root = "array" /\ indices[level + 1].constant =>
          /\ dims[level + 1] = 0
          /\ indices[level + 1].negative

\* The number of elements of the nested arrays down to level k.
Elements[k \in 0..Len(dims)] == IF k = 0 THEN 1 ELSE Elements[k - 1] * dims[k]

\* Row-major position of the first k indices.
Position[k \in 0..Len(indices)] ==
    IF k = 0 THEN 0 ELSE Position[k - 1] * dims[k] + Meaning(indices[k])

\* The address a load or a store uses is the element the source names, and lies
\* inside the root binding's own allocation, at every nesting depth.
AddressInsideRoot ==
    /\ address = Position[level]
    /\ address < Elements[level]
=============================================================================
