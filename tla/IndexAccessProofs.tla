--------------------------- MODULE IndexAccessProofs ---------------------------
(* IndexAccess for every set of index types, every word at least as wide, and *)
(* every nesting depth: what is out of bounds traps, and the address of what  *)
(* is not lies inside the root and is the row-major position of the element.  *)
EXTENDS IndexAccess, SequenceTheorems, WellFoundedInduction, TLAPS

----------------------------------------------------------------------------
(* The generated check, and the lowering of a literal *)

\* lowerCheckedIndexBounds: the sign test at the index's own width and one
\* unsigned comparison of the widened pattern decide 0 <= index < length, and the
\* widened pattern is then the index itself.
THEOREM BoundsCheckExact ==
    ASSUME NEW t \in Types, NEW b \in Bits(t), NEW length \in Nat
    PROVE  /\ InBounds(t, b, length) <=> 0 <= Value(t, b) /\ Value(t, b) < length
           /\ InBounds(t, b, length) => Extend(t, b) = Value(t, b)
<1>1. t.half \in Nat \ {0} /\ t.signed \in BOOLEAN
  BY WidthsAssumption
<1>2. CASE t.signed
  BY <1>1, <1>2 DEF Bits, InBounds, Value, Extend
<1>3. CASE ~t.signed
  BY <1>1, <1>3 DEF Bits, InBounds, Value, Extend
<1> QED
  BY <1>1, <1>2, <1>3

LEMMA ConstantFields ==
    ASSUME NEW e \in Constants
    PROVE  e.constant /\ e.negative \in BOOLEAN /\ e.magnitude \in Nat
<1>1. e.constant = TRUE /\ e.negative \in BOOLEAN /\ e.magnitude \in 0..MaxMagnitude
  BY DEF Constants
<1>2. e.magnitude \in Nat
  BY <1>1, IndexBounds
<1> QED
  BY <1>1, <1>2

LEMMA DynamicFields ==
    ASSUME NEW e \in Dynamics
    PROVE  ~e.constant /\ e.type \in Types /\ e.bits \in Bits(e.type)
<1>1. PICK t \in Types : e \in [constant : {FALSE}, type : {t}, bits : Bits(t)]
  BY DEF Dynamics
<1> QED
  BY <1>1

\* A literal that fits, negated or not, is lowered to the pattern of its value.
LEMMA LoweredLiteral ==
    ASSUME NEW e \in Constants, integerLiteralFits(e.negative, e.magnitude)
    PROVE  /\ Lowered(e) \in Bits(LiteralType)
           /\ Value(LiteralType, Lowered(e)) = Meaning(e)
<1>1. /\ LiteralType.half \in Nat \ {0}
      /\ LiteralType.signed
      /\ e.constant /\ e.negative \in BOOLEAN /\ e.magnitude \in Nat
  BY WidthsAssumption, ConstantFields
<1>2. CASE e.negative
  BY <1>1, <1>2 DEF Lowered, Negate, Bits, Value, Meaning, integerLiteralFits
<1>3. CASE ~e.negative
  BY <1>1, <1>3 DEF Lowered, Bits, Value, Meaning, integerLiteralFits
<1> QED
  BY <1>1, <1>2, <1>3

\* Any index the type checker let through stands for its source meaning.
LEMMA LoweredMeaning ==
    ASSUME NEW e \in Constants \cup Dynamics, NEW length, Accepts(e, length)
    PROVE  /\ TypeOf(e) \in Types
           /\ Lowered(e) \in Bits(TypeOf(e))
           /\ Value(TypeOf(e), Lowered(e)) = Meaning(e)
<1>1. CASE e \in Constants
  <2>1. e.constant
    BY <1>1, ConstantFields
  <2>2. TypeOf(e) = LiteralType /\ LiteralType \in Types
    BY <2>1, WidthsAssumption DEF TypeOf
  <2>3. integerLiteralFits(e.negative, e.magnitude)
    BY <2>1 DEF Accepts
  <2> QED
    BY <1>1, <2>2, <2>3, LoweredLiteral
<1>2. CASE e \in Dynamics
  <2>1. ~e.constant /\ e.type \in Types /\ e.bits \in Bits(e.type)
    BY <1>2, DynamicFields
  <2> QED
    BY <2>1 DEF TypeOf, Lowered, Meaning
<1> QED
  BY <1>1, <1>2

----------------------------------------------------------------------------
(* The invariant: how far the check and the run have got *)

AcceptedAt(k) == Accepts(indices[k], dims[k])

Accepted(n) == \A k \in 1..n : AcceptedAt(k)

Progress ==
    /\ Len(indices) <= Len(dims)
    /\ level <= Len(dims)
    /\ phase = "checking" => level = 0 /\ Len(indices) < Len(dims) /\ Accepted(Len(indices))
    /\ phase = "rejected" => /\ level = 0
                             /\ Len(indices) \in 1..Len(dims)
                             /\ ~AcceptedAt(Len(indices))
    /\ phase \in {"running", "trapped", "value", "done"} =>
          Len(indices) = Len(dims) /\ Accepted(Len(dims))
    /\ phase \in {"running", "trapped"} => level < Len(dims)

IInv == TypeOK /\ Progress /\ TrapsExactlyOutOfBounds

\* What is known of the index at a level that has been checked.
LEMMA IndexAt ==
    ASSUME TypeOK, NEW k \in 1..Len(indices), NEW j \in 1..Len(dims)
    PROVE  /\ indices[k] \in Constants \cup Dynamics
           /\ dims[j] \in Nat
<1>1. indices \in Seq(Constants \cup Dynamics) /\ dims \in Seq(Lengths)
  BY DEF TypeOK
<1>2. indices[k] \in Constants \cup Dynamics
  BY <1>1, ElementOfSeq
<1>3. dims[j] \in Lengths
  BY <1>1, ElementOfSeq
<1>4. dims[j] \in Nat
  <2>1. dims[j] \in 0..(2 * WordHalf - 1)
    BY <1>3, IndexBounds
  <2> QED
    BY <2>1, IndexBounds
<1> QED
  BY <1>2, <1>4

LEMMA InvInit == Init => IInv
<1> SUFFICES ASSUME Init PROVE IInv
  OBVIOUS
<1>1. PICK n \in 1..MaxLevels : dims \in [1..n -> Lengths]
  BY DEF Init
<1>2. dims \in Seq(Lengths) /\ Len(dims) = n
  BY <1>1, IndexBounds
<1>3. Len(indices) = 0 /\ indices = <<>>
  BY DEF Init
<1>4. TypeOK
  BY <1>2 DEF Init, TypeOK
<1>5. Progress
  BY <1>2, <1>3, IndexBounds DEF Init, Progress, Accepted
<1>6. TrapsExactlyOutOfBounds
  BY DEF Init, TrapsExactlyOutOfBounds
<1> QED
  BY <1>4, <1>5, <1>6 DEF IInv

LEMMA CheckStep ==
    ASSUME IInv, NEW e \in Constants \cup Dynamics, checkIndexExpr(e)
    PROVE  IInv'
<1>1. /\ phase = "checking" /\ level = 0 /\ Len(indices) < Len(dims)
      /\ dims \in Seq(Lengths) /\ indices \in Seq(Constants \cup Dynamics)
  BY DEF IInv, TypeOK, Progress, checkIndexExpr
<1>2. Len(dims) \in Nat /\ Len(indices) \in Nat
  BY <1>1
<1>3. PICK n \in Nat : n = Len(indices) + 1
  BY <1>2
<1>4. /\ indices' \in Seq(Constants \cup Dynamics)
      /\ Len(indices') = n
      /\ indices'[n] = e
      /\ \A k \in 1..(n - 1) : indices'[k] = indices[k]
  BY <1>1, <1>2, <1>3, AppendProperties DEF checkIndexExpr
<1>5. /\ dims' = dims /\ level' = level /\ root' = root
      /\ phase' = IF ~Accepts(e, dims[n]) THEN "rejected"
                  ELSE IF n = Len(dims) THEN "running" ELSE "checking"
  BY <1>3 DEF checkIndexExpr
<1>6. TypeOK'
  BY <1>4, <1>5 DEF IInv, TypeOK, checkIndexExpr
<1>7. AcceptedAt(n)' <=> Accepts(e, dims[n])
  BY <1>4, <1>5 DEF AcceptedAt, Accepts, outOfBounds
<1>8. \A k \in 1..(n - 1) : AcceptedAt(k)'
  <2>1. \A k \in 1..(n - 1) : AcceptedAt(k)
    BY <1>1, <1>2, <1>3 DEF IInv, Progress, Accepted
  <2> QED
    BY <2>1, <1>4, <1>5 DEF AcceptedAt, Accepts, outOfBounds
<1>9. Accepts(e, dims[n]) => Accepted(n)'
  BY <1>3, <1>7, <1>8 DEF Accepted
<1>10. Progress'
  <2>1. CASE Accepts(e, dims[n]) /\ n = Len(dims)
    <3>1. phase' = "running" /\ Accepted(Len(dims))' /\ Len(indices') = Len(dims')
      BY <2>1, <1>4, <1>5, <1>9
    <3> QED
      BY <3>1, <1>1, <1>2, <1>3, <1>5 DEF Progress
  <2>2. CASE Accepts(e, dims[n]) /\ n # Len(dims)
    <3>1. phase' = "checking" /\ Accepted(Len(indices))'
      BY <2>2, <1>4, <1>5, <1>9
    <3> QED
      BY <3>1, <1>1, <1>2, <1>3, <1>4, <1>5 DEF Progress
  <2>3. CASE ~Accepts(e, dims[n])
    <3>1. phase' = "rejected" /\ ~AcceptedAt(Len(indices))'
      BY <2>3, <1>4, <1>5, <1>7
    <3> QED
      BY <3>1, <1>1, <1>2, <1>3, <1>4, <1>5 DEF Progress
  <2> QED
    BY <2>1, <2>2, <2>3
<1>11. TrapsExactlyOutOfBounds'
  BY <1>1, <1>5 DEF TrapsExactlyOutOfBounds
<1> QED
  BY <1>6, <1>10, <1>11 DEF IInv

LEMMA AddressStep == IInv /\ lowerElementAddress => IInv'
<1> SUFFICES ASSUME IInv, lowerElementAddress PROVE IInv'
  OBVIOUS
<1> DEFINE k == level + 1
           e == indices[k]
           t == TypeOf(e)
           b == Lowered(e)
<1>1. /\ phase = "running" /\ level \in Nat /\ level < Len(dims)
      /\ Len(indices) = Len(dims) /\ Accepted(Len(dims)) /\ address \in Nat
      /\ dims \in Seq(Lengths) /\ indices \in Seq(Constants \cup Dynamics)
  BY DEF IInv, TypeOK, Progress, lowerElementAddress
<1>2. k \in 1..Len(dims) /\ Len(dims) \in Nat
  BY <1>1
<1>3. e \in Constants \cup Dynamics /\ dims[k] \in Nat
  BY <1>1, <1>2, IndexAt DEF IInv
<1>4. Accepts(e, dims[k])
  BY <1>1, <1>2 DEF Accepted, AcceptedAt
<1>5. t \in Types /\ b \in Bits(t) /\ Value(t, b) = Meaning(e)
  BY <1>3, <1>4, LoweredMeaning
<1>6. /\ InBounds(t, b, dims[k]) <=> Within(k)
      /\ InBounds(t, b, dims[k]) => Extend(t, b) = Value(t, b)
  BY <1>3, <1>5, BoundsCheckExact DEF Within
<1>7. dims' = dims /\ indices' = indices /\ root' = root /\ assigns' = assigns
  BY DEF lowerElementAddress
<1>8. \A j : Within(j)' <=> Within(j)
  BY <1>7 DEF Within, Meaning
<1>9. Accepted(Len(dims))'
  BY <1>1, <1>7 DEF Accepted, AcceptedAt, Accepts, outOfBounds
<1>10. CASE InBounds(t, b, dims[k])
  <2>1. /\ address' = address * dims[k] + Extend(t, b)
        /\ level' = k
        /\ phase' = IF k < Len(dims) THEN "running" ELSE IF assigns THEN "value" ELSE "done"
    BY <1>10 DEF lowerElementAddress
  <2>2. Extend(t, b) \in Nat
    <3>1. t.half \in Nat \ {0}
      BY <1>5, WidthsAssumption
    <3>2. Value(t, b) \in Int
      BY <1>5, <3>1 DEF Value, Bits
    <3>3. 0 <= Value(t, b)
      BY <1>5, <1>6, <1>10 DEF Within
    <3> QED
      BY <1>6, <1>10, <3>2, <3>3
  <2>3. address' \in Nat
    BY <1>1, <1>3, <2>1, <2>2
  <2>4. TypeOK'
    BY <1>1, <1>7, <2>1, <2>3 DEF IInv, TypeOK
  <2>5. Progress'
    BY <1>1, <1>2, <1>7, <1>9, <2>1 DEF Progress
  <2>6. \A j \in 1..k : Within(j)
    BY <1>1, <1>6, <1>10 DEF IInv, TrapsExactlyOutOfBounds
  <2>7. TrapsExactlyOutOfBounds'
    BY <1>8, <2>1, <2>6 DEF TrapsExactlyOutOfBounds
  <2> QED
    BY <2>4, <2>5, <2>7 DEF IInv
<1>11. CASE ~InBounds(t, b, dims[k])
  <2>1. phase' = "trapped" /\ address' = address /\ level' = level
    BY <1>11 DEF lowerElementAddress
  <2>2. TypeOK'
    BY <1>7, <2>1 DEF IInv, TypeOK
  <2>3. Progress'
    BY <1>1, <1>7, <1>9, <2>1 DEF Progress
  <2>4. TrapsExactlyOutOfBounds'
    BY <1>6, <1>8, <1>11, <2>1 DEF IInv, TrapsExactlyOutOfBounds
  <2> QED
    BY <2>2, <2>3, <2>4 DEF IInv
<1> QED
  BY <1>10, <1>11

LEMMA InvStep == IInv /\ [Next]_vars => IInv'
<1> SUFFICES ASSUME IInv, [Next]_vars PROVE IInv'
  OBVIOUS
<1>1. ASSUME NEW e \in Constants \cup Dynamics, checkIndexExpr(e) PROVE IInv'
  BY <1>1, CheckStep
<1>2. CASE lowerElementAddress
  BY <1>2, AddressStep
<1>3. CASE lowerIndexAssignmentExpr
  BY <1>3 DEF lowerIndexAssignmentExpr, IInv, TypeOK, Progress, Accepted, AcceptedAt, Accepts,
              outOfBounds, TrapsExactlyOutOfBounds, Within, Meaning
<1>4. CASE UNCHANGED vars
  BY <1>4 DEF vars, IInv, TypeOK, Progress, Accepted, AcceptedAt, Accepts,
              outOfBounds, TrapsExactlyOutOfBounds, Within, Meaning
<1> QED
  BY <1>1, <1>2, <1>3, <1>4 DEF Next

LEMMA Invariance == Spec => []IInv
BY InvInit, InvStep, PTL DEF Spec

\* Types, at every width and nesting depth.
THEOREM TypeCorrect == Spec => []TypeOK
<1>1. IInv => TypeOK
  BY DEF IInv
<1> QED
  BY <1>1, Invariance, PTL

\* Every level's check lets exactly the elements of that level's array through.
THEOREM BoundsSafety == Spec => []TrapsExactlyOutOfBounds
<1>1. IInv => TrapsExactlyOutOfBounds
  BY DEF IInv
<1> QED
  BY <1>1, Invariance, PTL

\* checkIndexExpr: what it rejects would have trapped or does not fit; what it
\* lets through traps in an array only as -0 in an empty one.
THEOREM ConstantsDecided == Spec => []ConstantsDecidedAtCompileTime
<1>1. IInv => ConstantsDecidedAtCompileTime
  <2> SUFFICES ASSUME IInv PROVE ConstantsDecidedAtCompileTime
    OBVIOUS
  <2>1. ASSUME phase = "rejected"
        PROVE  LET e == indices[Len(indices)]
               IN  ~Within(Len(indices)) \/ ~integerLiteralFits(e.negative, e.magnitude)
    <3> DEFINE n == Len(indices)
               e == indices[n]
    <3>1. n \in 1..Len(dims) /\ ~Accepts(e, dims[n]) /\ n \in 1..Len(indices)
      BY <2>1 DEF IInv, Progress, AcceptedAt
    <3>2. e \in Constants \cup Dynamics /\ dims[n] \in Nat
      BY <3>1, IndexAt DEF IInv
    <3>3. e.constant /\ e \in Constants
      BY <3>1, <3>2, DynamicFields DEF Accepts
    <3>4. e.negative \in BOOLEAN /\ e.magnitude \in Nat
      BY <3>3, ConstantFields
    <3>5. outOfBounds(e, dims[n]) => ~Within(n)
      BY <3>2, <3>3, <3>4 DEF outOfBounds, Within, Meaning
    <3> QED
      BY <3>1, <3>3, <3>5 DEF Accepts
  <2>2. ASSUME phase = "trapped", root = "array", indices[level + 1].constant
        PROVE  dims[level + 1] = 0 /\ indices[level + 1].negative
    <3> DEFINE n == level + 1
               e == indices[n]
    <3>1. n \in 1..Len(dims) /\ n \in 1..Len(indices) /\ Accepts(e, dims[n])
      BY <2>2 DEF IInv, Progress, TypeOK, Accepted, AcceptedAt
    <3>2. e \in Constants \cup Dynamics /\ dims[n] \in Nat
      BY <3>1, IndexAt DEF IInv
    <3>3. e \in Constants
      BY <2>2, <3>2, DynamicFields
    <3>4. e.negative \in BOOLEAN /\ e.magnitude \in Nat
      BY <3>3, ConstantFields
    <3>5. ~Within(n) /\ ~outOfBounds(e, dims[n])
      BY <2>2, <3>1 DEF IInv, TrapsExactlyOutOfBounds, Accepts
    <3> QED
      BY <2>2, <3>2, <3>4, <3>5 DEF outOfBounds, Within, Meaning
  <2> QED
    BY <2>1, <2>2 DEF ConstantsDecidedAtCompileTime
<1> QED
  BY <1>1, Invariance, PTL

----------------------------------------------------------------------------
(* Recursion over the levels *)

\* The least-number principle, for a set instead of a predicate.
LEMMA LeastNumber ==
    ASSUME NEW T \in SUBSET Nat, T # {}
    PROVE  \E m \in T : \A k \in T : m <= k
<1> DEFINE R == {p \in Nat \X Nat : p[1] < p[2]}
<1>1. IsWellFoundedOn(R, Nat)
  BY NatLessThanWellFounded DEF OpToRel
<1>2. \A x, y \in Nat : <<x, y>> \in R <=> x < y
  OBVIOUS
<1> HIDE DEF R
<1>3. PICK m \in T : \A k \in T : <<k, m>> \notin R
  BY <1>1, WFMin
<1>4. \A k \in T : ~(k < m)
  BY <1>2, <1>3
<1> QED
  BY <1>4

\* The step functions, and the values up to n they unroll to.
Steps(n, S) == [(1..n) \X S -> S]

Unrolled(n, S, c, F) ==
    {f \in [0..n -> S] : f[0] = c /\ \A k \in 1..n : f[k] = F[<<k, f[k - 1]>>]}

\* What is defined from a first value and a step from each to the next exists.
LEMMA BoundedRecursion ==
    ASSUME NEW n \in Nat, NEW S, NEW c \in S, NEW F \in Steps(n, S)
    PROVE  Unrolled(n, S, c, F) # {}
<1>0. F \in [(1..n) \X S -> S]
  BY DEF Steps
<1> SUFFICES \E f \in [0..n -> S] : f[0] = c /\ \A k \in 1..n : f[k] = F[<<k, f[k - 1]>>]
  BY DEF Unrolled
<1> DEFINE Upto(m, f) == f[0] = c /\ \A k \in 1..m : f[k] = F[<<k, f[k - 1]>>]
           T == {m \in 0..n : ~\E f \in [0..m -> S] : Upto(m, f)}
<1>1. 0 \notin T
  <2>1. [i \in 0..0 |-> c] \in [0..0 -> S] /\ Upto(0, [i \in 0..0 |-> c])
    OBVIOUS
  <2> QED
    BY <2>1
<1>2. ASSUME NEW m \in 1..n, m - 1 \notin T
      PROVE  m \notin T
  <2>1. PICK f \in [0..(m - 1) -> S] : Upto(m - 1, f)
    BY <1>2
  <2>2. f[m - 1] \in S /\ F[<<m, f[m - 1]>>] \in S
    BY <1>0
  <2> DEFINE g == [i \in 0..m |-> IF i < m THEN f[i] ELSE F[<<m, f[m - 1]>>]]
  <2>3. g \in [0..m -> S]
    BY <2>2
  <2>4. \A i \in 0..(m - 1) : g[i] = f[i]
    OBVIOUS
  <2>5. g[m] = F[<<m, f[m - 1]>>]
    OBVIOUS
  <2>6. \A k \in 1..m : g[k] = F[<<k, g[k - 1]>>]
    <3> HIDE DEF g
    <3> TAKE k \in 1..m
    <3>1. k - 1 \in 0..(m - 1) /\ (k = m \/ k \in 1..(m - 1))
      OBVIOUS
    <3>2. CASE k = m
      BY <2>4, <2>5, <3>1, <3>2
    <3>3. CASE k \in 1..(m - 1)
      <4>1. f[k] = F[<<k, f[k - 1]>>]
        BY <2>1, <3>3
      <4>2. k \in 0..(m - 1)
        BY <3>3
      <4> QED
        BY <2>4, <3>1, <4>1, <4>2
    <3> QED
      BY <3>1, <3>2, <3>3
  <2>7. g[0] = c
    BY <2>1, <2>4
  <2> HIDE DEF g
  <2> QED
    BY <2>3, <2>6, <2>7
<1>3. T = {}
  <2> SUFFICES ASSUME T # {} PROVE FALSE
    OBVIOUS
  <2>1. T \in SUBSET Nat
    OBVIOUS
  <2>2. PICK m \in T : \A k \in T : m <= k
    <3> HIDE DEF T
    <3> QED
      BY <2>1, LeastNumber
  <2>3. m \in 1..n
    <3>1. \A k \in T : k \in 0..n
      OBVIOUS
    <3>2. m \in 0..n /\ m # 0
      <4> HIDE DEF T
      <4> QED
        BY <1>1, <2>2, <3>1
    <3> QED
      BY <3>2
  <2>4. m - 1 \notin T
    <3>1. ~(m <= m - 1)
      BY <2>3
    <3> QED
      BY <2>2, <3>1
  <2> HIDE DEF T
  <2> QED
    BY <1>2, <2>2, <2>3, <2>4
<1>4. n \in 0..n
  OBVIOUS
<1> QED
  BY <1>3, <1>4

\* The recursive definitions mean what they say.
LEMMA RowMajor ==
    TypeOK => /\ Elements[0] = 1
              /\ \A k \in 1..Len(dims) : Elements[k] = Elements[k - 1] * dims[k]
              /\ Len(indices) <= Len(dims) =>
                   /\ Position[0] = 0
                   /\ \A k \in 1..Len(indices) :
                         Position[k] = Position[k - 1] * dims[k] + Meaning(indices[k])
<1> SUFFICES ASSUME TypeOK
             PROVE  /\ Elements[0] = 1
                    /\ \A k \in 1..Len(dims) : Elements[k] = Elements[k - 1] * dims[k]
                    /\ Len(indices) <= Len(dims) =>
                         /\ Position[0] = 0
                         /\ \A k \in 1..Len(indices) :
                               Position[k] = Position[k - 1] * dims[k] + Meaning(indices[k])
  OBVIOUS
<1> DEFINE n == Len(dims)
           m == Len(indices)
<1>1. /\ n \in Nat /\ m \in Nat
      /\ \A j \in 1..n : dims[j] \in Nat
  <2>1. n \in Nat /\ m \in Nat /\ dims \in Seq(Lengths)
    BY DEF TypeOK
  <2>2. ASSUME NEW j \in 1..n
        PROVE  dims[j] \in Nat
    <3>1. dims[j] \in Lengths
      BY <2>1, ElementOfSeq
    <3>2. dims[j] \in 0..(2 * WordHalf - 1)
      BY <3>1, IndexBounds
    <3> QED
      BY <3>2, IndexBounds
  <2> QED
    BY <2>1, <2>2
<1>2. \A k \in 1..m : Meaning(indices[k]) \in Int
  <2> TAKE k \in 1..m
  <2>1. indices[k] \in Constants \cup Dynamics
    BY ElementOfSeq DEF TypeOK
  <2>2. CASE indices[k] \in Constants
    BY <2>2, ConstantFields DEF Meaning
  <2>3. CASE indices[k] \in Dynamics
    <3>1. /\ ~indices[k].constant /\ indices[k].type \in Types
          /\ indices[k].bits \in Bits(indices[k].type)
          /\ indices[k].type.half \in Nat \ {0}
      BY <2>3, DynamicFields, WidthsAssumption
    <3> QED
      BY <3>1 DEF Meaning, Value, Bits
  <2> QED
    BY <2>1, <2>2, <2>3
<1>3. Elements = [k \in 0..n |-> IF k = 0 THEN 1 ELSE Elements[k - 1] * dims[k]]
  <2> DEFINE Step == [x \in (1..n) \X Int |-> x[2] * dims[x[1]]]
  <2>1. /\ n \in Nat /\ 1 \in Int
        /\ Step \in [(1..n) \X Int -> Int]
    BY <1>1
  <2>2. \A k \in 1..n, v \in Int : Step[<<k, v>>] = v * dims[k]
    OBVIOUS
  <2>3. \E f \in [0..n -> Int] : f[0] = 1 /\ \A k \in 1..n : f[k] = Step[<<k, f[k - 1]>>]
    <3>1. Step \in Steps(n, Int)
      BY <2>1 DEF Steps
    <3>2. PICK f \in Unrolled(n, Int, 1, Step) : TRUE
      <4> HIDE DEF Step, n
      <4> QED
        BY <2>1, <3>1, BoundedRecursion
    <3> QED
      BY <3>2 DEF Unrolled
  <2>4. PICK f \in [0..n -> Int] : f[0] = 1 /\ \A k \in 1..n : f[k] = Step[<<k, f[k - 1]>>]
    BY <2>3
  <2>5. \A k \in 0..n : f[k] = IF k = 0 THEN 1 ELSE f[k - 1] * dims[k]
    <3> HIDE DEF Step, n
    <3> TAKE k \in 0..n
    <3>1. CASE k = 0
      BY <2>4, <3>1
    <3>2. CASE k # 0
      <4>1. k \in 1..n /\ k - 1 \in 0..n
        BY <2>1, <3>2
      <4> QED
        BY <2>2, <2>4, <3>2, <4>1
    <3> QED
      BY <3>1, <3>2
  <2>6. f = [k \in 0..n |-> IF k = 0 THEN 1 ELSE f[k - 1] * dims[k]]
    BY <2>4, <2>5
  <2> QED
    BY <2>6 DEF Elements
<1>4. /\ Elements[0] = 1
      /\ \A k \in 1..n : Elements[k] = Elements[k - 1] * dims[k]
  <2>1. 0 \in 0..n /\ \A k \in 1..n : k \in 0..n /\ k # 0
    BY <1>1
  <2> HIDE DEF n
  <2> QED
    BY <1>3, <2>1
<1>5. ASSUME m <= n
      PROVE  Position = [k \in 0..m |-> IF k = 0 THEN 0
                                        ELSE Position[k - 1] * dims[k] + Meaning(indices[k])]
  <2> DEFINE Step == [x \in (1..m) \X Int |-> x[2] * dims[x[1]] + Meaning(indices[x[1]])]
  <2>0. \A k \in 1..m : dims[k] \in Nat
    <3>1. \A k \in 1..m : k \in 1..n
      BY <1>1, <1>5
    <3> QED
      BY <1>1, <3>1
  <2>1. /\ m \in Nat /\ 0 \in Int
        /\ Step \in [(1..m) \X Int -> Int]
    BY <1>1, <1>2, <2>0
  <2>2. \A k \in 1..m, v \in Int : Step[<<k, v>>] = v * dims[k] + Meaning(indices[k])
    OBVIOUS
  <2>3. \E f \in [0..m -> Int] : f[0] = 0 /\ \A k \in 1..m : f[k] = Step[<<k, f[k - 1]>>]
    <3>1. Step \in Steps(m, Int)
      BY <2>1 DEF Steps
    <3>2. PICK f \in Unrolled(m, Int, 0, Step) : TRUE
      <4> HIDE DEF Step, m
      <4> QED
        BY <2>1, <3>1, BoundedRecursion
    <3> QED
      BY <3>2 DEF Unrolled
  <2>4. PICK f \in [0..m -> Int] : f[0] = 0 /\ \A k \in 1..m : f[k] = Step[<<k, f[k - 1]>>]
    BY <2>3
  <2>5. \A k \in 0..m : f[k] = IF k = 0 THEN 0 ELSE f[k - 1] * dims[k] + Meaning(indices[k])
    <3> HIDE DEF Step, m
    <3> TAKE k \in 0..m
    <3>1. CASE k = 0
      BY <2>4, <3>1
    <3>2. CASE k # 0
      <4>1. k \in 1..m /\ k - 1 \in 0..m
        BY <2>1, <3>2
      <4> QED
        BY <2>2, <2>4, <3>2, <4>1
    <3> QED
      BY <3>1, <3>2
  <2>6. f = [k \in 0..m |-> IF k = 0 THEN 0 ELSE f[k - 1] * dims[k] + Meaning(indices[k])]
    BY <2>4, <2>5
  <2> QED
    BY <2>6 DEF Position
<1>6. ASSUME m <= n
      PROVE  /\ Position[0] = 0
             /\ \A k \in 1..m : Position[k] = Position[k - 1] * dims[k] + Meaning(indices[k])
  <2>1. 0 \in 0..m /\ \A k \in 1..m : k \in 0..m /\ k # 0
    BY <1>1
  <2> HIDE DEF m
  <2> QED
    BY <1>5, <1>6, <2>1
<1> QED
  BY <1>4, <1>6

----------------------------------------------------------------------------
(* The address *)

Named == address = Position[level] /\ Elements[level] \in Nat /\ address < Elements[level]

AddressInv == IInv /\ Named

\* The i-th element of the a-th of e arrays of l elements is one of their e * l.
LEMMA InsideNested ==
    ASSUME NEW a \in Nat, NEW e \in Nat, NEW l \in Nat, NEW i \in Nat, a < e, i < l
    PROVE  a * l + i \in Nat /\ e * l \in Nat /\ a * l + i < e * l
<1>1. a + 1 <= e /\ e - (a + 1) \in Nat
  OBVIOUS
<1>2. PICK d \in Nat : e = a + 1 + d
  BY <1>1
<1>3. d * l \in Nat /\ a * l \in Nat
  OBVIOUS
<1>4. e * l = a * l + l + d * l
  BY <1>2
<1> QED
  BY <1>3, <1>4

\* No level evaluated: the root itself.
LEMMA NamedAtRoot == TypeOK /\ Len(indices) <= Len(dims) /\ level = 0 /\ address = 0 => Named
<1> SUFFICES ASSUME TypeOK, Len(indices) <= Len(dims), level = 0, address = 0
             PROVE  Named
  OBVIOUS
<1>1. Elements[0] = 1 /\ Position[0] = 0
  BY RowMajor
<1> QED
  BY <1>1 DEF Named

LEMMA NamedStep == AddressInv /\ lowerElementAddress => Named'
<1> SUFFICES ASSUME AddressInv, lowerElementAddress PROVE Named'
  OBVIOUS
<1> DEFINE k == level + 1
           e == indices[k]
           t == TypeOf(e)
           b == Lowered(e)
<1>1. /\ level \in Nat /\ level < Len(dims) /\ Len(indices) = Len(dims) /\ address \in Nat
      /\ Accepted(Len(dims)) /\ TypeOK
      /\ dims \in Seq(Lengths)
  BY DEF AddressInv, IInv, TypeOK, Progress, lowerElementAddress
<1>2. k \in 1..Len(dims) /\ Len(dims) \in Nat /\ k - 1 = level
  BY <1>1
<1>3. e \in Constants \cup Dynamics /\ dims[k] \in Nat
  BY <1>1, <1>2, IndexAt
<1>4. t \in Types /\ b \in Bits(t) /\ Value(t, b) = Meaning(e)
  <2>1. Accepts(e, dims[k])
    BY <1>1, <1>2 DEF Accepted, AcceptedAt
  <2> QED
    BY <1>3, <2>1, LoweredMeaning
<1>5. /\ InBounds(t, b, dims[k]) <=> 0 <= Meaning(e) /\ Meaning(e) < dims[k]
      /\ InBounds(t, b, dims[k]) => Extend(t, b) = Meaning(e)
  BY <1>3, <1>4, BoundsCheckExact
<1>6. Elements' = Elements /\ Position' = Position
  <2>1. dims' = dims /\ indices' = indices
    BY DEF lowerElementAddress
  <2> QED
    BY <2>1 DEF Elements, Position, Meaning
<1>7. /\ Elements[k] = Elements[level] * dims[k]
      /\ Position[k] = Position[level] * dims[k] + Meaning(e)
  BY <1>1, <1>2, RowMajor
<1>8. CASE InBounds(t, b, dims[k])
  <2>1. address' = address * dims[k] + Meaning(e) /\ level' = k
    BY <1>5, <1>8 DEF lowerElementAddress
  <2>2. Meaning(e) \in Nat
    <3>1. t.half \in Nat \ {0}
      BY <1>4, WidthsAssumption
    <3>2. Value(t, b) \in Int
      BY <1>4, <3>1 DEF Value, Bits
    <3> QED
      BY <1>4, <1>5, <1>8, <3>2
  <2>3. address = Position[level] /\ Elements[level] \in Nat /\ address < Elements[level]
    BY DEF AddressInv, Named
  <2>4. Elements[k] \in Nat /\ address' < Elements[k]
    <3>1. PICK a \in Nat, l \in Nat, i \in Nat : a = address /\ l = dims[k] /\ i = Meaning(e)
      BY <1>1, <1>3, <2>2
    <3>2. PICK n \in Nat : n = Elements[level]
      BY <2>3
    <3>3. a < n /\ i < l
      BY <1>5, <1>8, <2>3, <3>1, <3>2
    <3>4. n * l \in Nat /\ a * l + i < n * l
      BY <3>3, InsideNested
    <3> QED
      BY <1>7, <2>1, <3>1, <3>2, <3>4
  <2>5. address' = Position[k]
    BY <1>7, <2>1, <2>3
  <2> QED
    BY <1>6, <2>1, <2>4, <2>5 DEF Named
<1>9. CASE ~InBounds(t, b, dims[k])
  <2>1. address' = address /\ level' = level
    BY <1>9 DEF lowerElementAddress
  <2> QED
    BY <1>6, <2>1 DEF AddressInv, Named
<1> QED
  BY <1>8, <1>9

LEMMA AddressInvStep == AddressInv /\ [Next]_vars => AddressInv'
<1> SUFFICES ASSUME AddressInv, [Next]_vars PROVE AddressInv'
  OBVIOUS
<1>1. IInv'
  BY InvStep DEF AddressInv
<1>2. ASSUME NEW e \in Constants \cup Dynamics, checkIndexExpr(e) PROVE Named'
  <2>1. level = 0 /\ address' = address /\ level' = level
    BY <1>2 DEF checkIndexExpr, AddressInv, IInv, Progress
  <2>2. address = 0
    BY <2>1, RowMajor DEF AddressInv, Named, IInv, Progress
  <2>3. (TypeOK /\ Len(indices) <= Len(dims) /\ level = 0 /\ address = 0)'
    BY <1>1, <2>1, <2>2 DEF IInv, Progress
  <2>4. (TypeOK /\ Len(indices) <= Len(dims) /\ level = 0 /\ address = 0 => Named)'
    BY NamedAtRoot, PTL
  <2> QED
    BY <2>3, <2>4
<1>3. ASSUME lowerElementAddress PROVE Named'
  BY <1>3, NamedStep
<1>4. ASSUME lowerIndexAssignmentExpr \/ UNCHANGED vars PROVE Named'
  <2>1. dims' = dims /\ indices' = indices /\ level' = level /\ address' = address
    BY <1>4 DEF lowerIndexAssignmentExpr, vars
  <2>2. Elements' = Elements /\ Position' = Position
    BY <2>1 DEF Elements, Position, Meaning
  <2> QED
    BY <2>1, <2>2 DEF AddressInv, Named
<1>5. Named'
  BY <1>2, <1>3, <1>4 DEF Next
<1> QED
  BY <1>1, <1>5 DEF AddressInv

\* lowerArrayElementAddress, at every nesting depth: the address in use is the
\* element the source names, inside the root binding's allocation.
THEOREM AddressesStayInside == Spec => []AddressInsideRoot
<1>1. Init => AddressInv
  <2>1. Init => IInv
    BY InvInit
  <2>2. IInv /\ Init => Named
    BY NamedAtRoot DEF IInv, Progress, Init
  <2> QED
    BY <2>1, <2>2 DEF AddressInv
<1>2. AddressInv => AddressInsideRoot
  BY DEF AddressInv, Named, AddressInsideRoot
<1> QED
  BY <1>1, <1>2, AddressInvStep, PTL DEF Spec
=============================================================================
