--------------------------- MODULE ResolutionProofs ---------------------------
(****************************************************************************)
(* Types and names, for every file.  An annotation's type is explained by   *)
(* the annotation one level further in; two annotations of one type are     *)
(* explained by one entry of one table, and two entries are never equal.    *)
(*                                                                          *)
(* Names mean what the text says.  Each scope on the stack holds the first  *)
(* declarations of one block around the current position (Scopes), so a     *)
(* lookup finds the innermost of them; and nothing declared after a use is  *)
(* a candidate for its meaning (Positions).  On top of that,                *)
(* no two declarations share a position (OwnPositions), so that a report    *)
(* belongs to one of them and a signature to one function (FileInv).        *)
(****************************************************************************)
EXTENDS Resolution, SequenceTheorems, WellFoundedInduction, TLAPS

----------------------------------------------------------------------------
(* The tables of types *)

\* The smallest element of a set of numbers
LEMMA FirstOf ==
    ASSUME NEW S \in SUBSET Nat, S # {}
    PROVE  First(S) \in S /\ \A j \in S : First(S) <= j
<1> DEFINE R == {p \in Nat \X Nat : p[1] < p[2]}
<1>1. IsWellFoundedOn(R, Nat)
  BY NatLessThanWellFounded DEF OpToRel
<1>2. \A x, y \in Nat : <<x, y>> \in R <=> x < y
  OBVIOUS
<1> HIDE DEF R
<1>3. \E x \in S : \A y \in S : ~(<<y, x>> \in R)
  BY <1>1, WFMin
<1>4. PICK x \in S : \A y \in S : <<y, x>> \notin R
  BY <1>3
<1>5. \A y \in S : x <= y
  <2> TAKE y \in S
  <2>1. ~(y < x)
    BY <1>2, <1>4
  <2> QED
    BY <2>1
<1> QED
  BY <1>5 DEF First

\* A table that has no entry twice has none after an entry it lacked was added.
LEMMA NewEntry ==
    ASSUME NEW S, NEW table \in Seq(S), NEW e \in S, NoEntryTwice(table),
           \A i \in DOMAIN table : table[i] # e
    PROVE  /\ Append(table, e) \in Seq(S)
           /\ NoEntryTwice(Append(table, e))
           /\ DOMAIN Append(table, e) = 1..(Len(table) + 1)
           /\ Append(table, e)[Len(table) + 1] = e
           /\ \A i \in DOMAIN table : Append(table, e)[i] = table[i]
<1>1. /\ Append(table, e) \in Seq(S)
      /\ DOMAIN Append(table, e) = 1..(Len(table) + 1)
      /\ Append(table, e)[Len(table) + 1] = e
      /\ \A i \in 1..Len(table) : Append(table, e)[i] = table[i]
  BY AppendProperties
<1>2. DOMAIN table = 1..Len(table)
  OBVIOUS
<1> QED
  BY <1>1, <1>2 DEF NoEntryTwice

\* An interner returns an entry with what it was given, and changes no other.
Interned(table, extended, e, i) ==
    /\ i \in DOMAIN extended
    /\ i \in Nat
    /\ extended[i] = e
    /\ NoEntryTwice(extended)
    /\ \A j \in DOMAIN table : j \in DOMAIN extended /\ extended[j] = table[j]

LEMMA ArrayInterned ==
    ASSUME TableInv, NEW type \in TypeSet, NEW length \in Nat
    PROVE  LET made == internArray(type, length)
           IN  /\ made.table \in Seq([elementType : TypeSet, length : Nat])
               /\ \E i \in Nat :
                     /\ made.type = ArrayType(i)
                     /\ Interned(arrayTypes, made.table,
                                 [elementType |-> type, length |-> length], i)
<1> DEFINE e == [elementType |-> type, length |-> length]
           same == SameArray(type, length)
           Entries == [elementType : TypeSet, length : Nat]
<1>1. arrayTypes \in Seq(Entries) /\ NoEntryTwice(arrayTypes)
  BY DEF TableInv
<1>2. e \in Entries
  OBVIOUS
<1>3. CASE same = {}
  <2>1. \A i \in DOMAIN arrayTypes : arrayTypes[i] # e
    BY <1>3 DEF SameArray
  <2>2. internArray(type, length) = [type |-> ArrayType(Len(arrayTypes) + 1),
                                     table |-> Append(arrayTypes, e)]
    BY <1>3 DEF internArray
  <2>3. Len(arrayTypes) + 1 \in Nat /\ DOMAIN arrayTypes = 1..Len(arrayTypes)
    BY <1>1
  <2> DEFINE extended == Append(arrayTypes, e)
             i == Len(arrayTypes) + 1
  <2> HIDE DEF e, Entries
  <2>4. /\ extended \in Seq(Entries)
        /\ NoEntryTwice(extended)
        /\ DOMAIN extended = 1..i
        /\ extended[i] = e
        /\ \A j \in DOMAIN arrayTypes : extended[j] = arrayTypes[j]
    BY <1>1, <1>2, <2>1, NewEntry
  <2> USE DEF e, Entries
  <2>5. /\ internArray(type, length).type = ArrayType(i)
        /\ internArray(type, length).table = extended
    BY <2>2
  <2>6. Interned(arrayTypes, extended, e, i)
    BY <2>3, <2>4 DEF Interned
  <2> HIDE DEF extended, i
  <2> QED
    BY <2>4, <2>5, <2>6 DEF Interned
<1>4. CASE same # {}
  <2>1. same \subseteq DOMAIN arrayTypes /\ DOMAIN arrayTypes \subseteq Nat
    BY <1>1 DEF SameArray
  <2>2. First(same) \in same
    BY <1>4, <2>1, FirstOf
  <2>3. internArray(type, length) = [type |-> ArrayType(First(same)), table |-> arrayTypes]
    BY <1>4 DEF internArray
  <2> DEFINE i == First(same)
  <2>4. i \in Nat /\ i \in DOMAIN arrayTypes /\ arrayTypes[i] = e
    BY <2>1, <2>2 DEF SameArray
  <2> HIDE DEF i
  <2>5. Interned(arrayTypes, arrayTypes, e, i)
    BY <1>1, <2>4 DEF Interned
  <2>6. internArray(type, length).type = ArrayType(i)
        /\ internArray(type, length).table = arrayTypes
    BY <2>3 DEF i
  <2>7. Interned(arrayTypes, internArray(type, length).table, e, i)
    BY <2>5, <2>6
  <2> QED
    BY <1>1, <2>4, <2>6, <2>7
<1> QED
  BY <1>3, <1>4

LEMMA SliceInterned ==
    ASSUME TableInv, NEW type \in TypeSet
    PROVE  LET made == internSlice(type)
           IN  /\ made.table \in Seq(TypeSet)
               /\ \E i \in Nat : /\ made.type = SliceType(i)
                                 /\ Interned(sliceTypes, made.table, type, i)
<1> DEFINE same == SameSlice(type)
<1>1. sliceTypes \in Seq(TypeSet) /\ NoEntryTwice(sliceTypes)
  BY DEF TableInv
<1>2. CASE same = {}
  <2>1. \A i \in DOMAIN sliceTypes : sliceTypes[i] # type
    BY <1>2 DEF SameSlice
  <2>2. internSlice(type) = [type |-> SliceType(Len(sliceTypes) + 1),
                             table |-> Append(sliceTypes, type)]
    BY <1>2 DEF internSlice
  <2>3. Len(sliceTypes) + 1 \in Nat /\ DOMAIN sliceTypes = 1..Len(sliceTypes)
    BY <1>1
  <2> QED
    BY <1>1, <2>1, <2>2, <2>3, NewEntry DEF Interned
<1>3. CASE same # {}
  <2>1. same \subseteq DOMAIN sliceTypes /\ DOMAIN sliceTypes \subseteq Nat
    BY <1>1 DEF SameSlice
  <2>2. First(same) \in same
    BY <1>3, <2>1, FirstOf
  <2>3. internSlice(type) = [type |-> SliceType(First(same)), table |-> sliceTypes]
    BY <1>3 DEF internSlice
  <2> DEFINE i == First(same)
  <2>4. i \in Nat /\ i \in DOMAIN sliceTypes /\ sliceTypes[i] = type
    BY <2>1, <2>2 DEF SameSlice
  <2> HIDE DEF i
  <2>5. Interned(sliceTypes, sliceTypes, type, i)
    BY <1>1, <2>4 DEF Interned
  <2> QED
    BY <1>1, <2>3, <2>4, <2>5 DEF i
<1> QED
  BY <1>2, <1>3

----------------------------------------------------------------------------

LEMMA Kinds ==
    /\ \A n : Scalar(n).kind = "scalar"
    /\ \A i : ArrayType(i).kind = "array" /\ ArrayType(i).id = i
    /\ \A i : SliceType(i).kind = "slice" /\ SliceType(i).id = i
    /\ \A l : ArrayWrap(l).kind = "array" /\ ArrayWrap(l).length = l
    /\ SliceWrap.kind = "slice"
BY DEF Scalar, ArrayType, SliceType, ArrayWrap, SliceWrap

LEMMA SameWraps ==
    ASSUME NEW s \in Seq(WrapSet), NEW t \in Seq(WrapSet), NEW v \in WrapSet, NEW w \in WrapSet
    PROVE  Append(s, v) = Append(t, w) <=> s = t /\ v = w
BY AppendInjective

\* Two annotations explained by the same tables and by annotations that satisfy
\* OneTypePerShape satisfy it too.
LEMMA SameShape ==
    ASSUME NEW arrays, NEW slices, NoEntryTwice(arrays), NoEntryTwice(slices),
           OneTypePerShape, resolved \subseteq Annotations,
           NEW a \in Annotations, Explained(a, arrays, slices),
           NEW c \in Annotations, Explained(c, arrays, slices)
    PROVE  a.type = c.type <=> a.base = c.base /\ a.wraps = c.wraps
<1> DEFINE Bare(x) == x.wraps = <<>> /\ x.type = Scalar(x.base)
           Outer(x) == x.wraps[Len(x.wraps)]
           Over(x, b) == /\ Proper(b.type)
                         /\ x.base = b.base
                         /\ x.wraps = Append(b.wraps, Outer(x))
           IsArray(x, b, i) == /\ Over(x, b)
                               /\ i \in DOMAIN arrays
                               /\ Outer(x) = ArrayWrap(Outer(x).length)
                               /\ x.type = ArrayType(i)
                               /\ arrays[i] = [elementType |-> b.type, length |-> Outer(x).length]
           IsSlice(x, b, i) == /\ Over(x, b)
                               /\ i \in DOMAIN slices
                               /\ Outer(x) = SliceWrap
                               /\ x.type = SliceType(i)
                               /\ slices[i] = b.type
           Wrapped(x) == \E b \in resolved : (\E i \in DOMAIN arrays : IsArray(x, b, i))
                                             \/ (\E i \in DOMAIN slices : IsSlice(x, b, i))
<1>1. \A x \in {a, c} : Bare(x) \/ Wrapped(x)
  BY DEF Explained
<1>2. \A x \in Annotations, b \in resolved : Over(x, b) =>
          x.wraps # <<>> /\ b.wraps \in Seq(WrapSet) /\ Outer(x) \in WrapSet
  <2> TAKE x \in Annotations, b \in resolved
  <2> HAVE Over(x, b)
  <2>1. b.wraps \in Seq(WrapSet) /\ x.wraps \in Seq(WrapSet)
    BY DEF Annotations
  <2>2. Len(Append(b.wraps, Outer(x))) = Len(b.wraps) + 1
    BY <2>1, AppendProperties
  <2>3. Len(x.wraps) \in Nat /\ Len(x.wraps) # 0
    BY <2>1, <2>2
  <2> QED
    BY <2>1, <2>3
<1>3. \A x, y \in {a, c} : \A b, d \in resolved :
          Over(x, b) /\ Over(y, d) =>
              (x.wraps = y.wraps <=> b.wraps = d.wraps /\ Outer(x) = Outer(y))
  <2> TAKE x, y \in {a, c}
  <2> TAKE b, d \in resolved
  <2> HAVE Over(x, b) /\ Over(y, d)
  <2>1. /\ b.wraps \in Seq(WrapSet) /\ d.wraps \in Seq(WrapSet)
        /\ Outer(x) \in WrapSet /\ Outer(y) \in WrapSet
    BY <1>2
  <2> HIDE DEF Outer
  <2>2. x.wraps = Append(b.wraps, Outer(x)) /\ y.wraps = Append(d.wraps, Outer(y))
    OBVIOUS
  <2>3. PICK s, t : s = b.wraps /\ t = d.wraps
    OBVIOUS
  <2>4. PICK v, w : v = Outer(x) /\ w = Outer(y)
    OBVIOUS
  <2>5. Append(s, v) = Append(t, w) <=> s = t /\ v = w
    <3>1. s \in Seq(WrapSet) /\ t \in Seq(WrapSet) /\ v \in WrapSet /\ w \in WrapSet
      BY <2>1, <2>3, <2>4
    <3> QED
      BY <3>1, SameWraps
  <2> QED
    BY <2>2, <2>3, <2>4, <2>5, Zenon
<1>4. \A x, y \in {a, c} : \A b, d \in resolved :
          Over(x, b) /\ Over(y, d) =>
              (x.base = y.base /\ x.wraps = y.wraps <=> b.type = d.type /\ Outer(x) = Outer(y))
  <2> TAKE x, y \in {a, c}
  <2> TAKE b, d \in resolved
  <2> HAVE Over(x, b) /\ Over(y, d)
  <2>1. b.type = d.type <=> b.base = d.base /\ b.wraps = d.wraps
    BY DEF OneTypePerShape
  <2>2. x.wraps = y.wraps <=> b.wraps = d.wraps /\ Outer(x) = Outer(y)
    BY <1>3, ZenonT(30)
  <2> QED
    BY <2>1, <2>2
<1> HIDE DEF Over, Outer
<1>5. CASE Bare(a) /\ Bare(c)
  BY <1>5 DEF Scalar
<1>6. ASSUME NEW x \in {a, c}, NEW y \in {a, c}, Bare(x), Wrapped(y)
      PROVE  x.type # y.type /\ x.wraps # y.wraps
  <2>1. y.wraps # <<>>
    BY <1>2, <1>6
  <2> QED
    BY <1>6, <2>1, Kinds
<1>7. CASE Wrapped(a) /\ Wrapped(c)
  <2>1. PICK b \in resolved : (\E i \in DOMAIN arrays : IsArray(a, b, i))
                              \/ (\E i \in DOMAIN slices : IsSlice(a, b, i))
    BY <1>7
  <2>2. PICK d \in resolved : (\E i \in DOMAIN arrays : IsArray(c, d, i))
                              \/ (\E i \in DOMAIN slices : IsSlice(c, d, i))
    BY <1>7
  <2>3. a.base = c.base /\ a.wraps = c.wraps <=> b.type = d.type /\ Outer(a) = Outer(c)
    BY <1>4, <2>1, <2>2
  <2>4. ASSUME NEW i \in DOMAIN arrays, IsArray(a, b, i),
               NEW j \in DOMAIN arrays, IsArray(c, d, j)
        PROVE  a.type = c.type <=> b.type = d.type /\ Outer(a) = Outer(c)
    <3>1. a.type = c.type <=> i = j
      BY <2>4, Kinds
    <3>2. i = j <=> arrays[i] = arrays[j]
      BY DEF NoEntryTwice
    <3>3. arrays[i] = arrays[j] <=> b.type = d.type /\ Outer(a).length = Outer(c).length
      BY <2>4
    <3>4. Outer(a).length = Outer(c).length <=> Outer(a) = Outer(c)
      BY <2>4 DEF ArrayWrap
    <3> QED
      BY <3>1, <3>2, <3>3, <3>4
  <2>5. ASSUME NEW i \in DOMAIN slices, IsSlice(a, b, i),
               NEW j \in DOMAIN slices, IsSlice(c, d, j)
        PROVE  a.type = c.type <=> b.type = d.type /\ Outer(a) = Outer(c)
    <3>1. a.type = c.type <=> i = j
      BY <2>5, Kinds
    <3>2. i = j <=> slices[i] = slices[j]
      BY DEF NoEntryTwice
    <3> QED
      BY <2>5, <3>1, <3>2
  <2>6. \A x, y \in {a, c} : \A p, q \in resolved :
            \A i \in DOMAIN arrays, j \in DOMAIN slices :
                IsArray(x, p, i) /\ IsSlice(y, q, j) => x.type # y.type /\ Outer(x) # Outer(y)
    BY Kinds
  <2> HIDE DEF IsArray, IsSlice
  <2> QED
    BY <2>1, <2>2, <2>3, <2>4, <2>5, <2>6
<1> QED
  BY <1>1, <1>5, <1>6, <1>7

----------------------------------------------------------------------------

LEMMA TableInitInv == TypeInit => TableInv
<1> SUFFICES ASSUME TypeInit PROVE TableInv
  OBVIOUS
<1>1. /\ arrayTypes = <<>> /\ sliceTypes = <<>> /\ resolved = {}
      /\ annotation = NoAnnotation /\ here = 0
  BY DEF TypeInit
<1> QED
  BY <1>1 DEF TableInv, NoEntryTwice, OneTypePerShape

Grows(old, new) == \A i \in DOMAIN old : i \in DOMAIN new /\ new[i] = old[i]

\* What every step that resolves a type has in common
LEMMA Added ==
    ASSUME TableInv,
           resolved' = resolved \cup {annotation'},
           annotation' \in Annotations,
           here' \in Nat,
           arrayTypes' \in Seq([elementType : TypeSet, length : Nat]),
           sliceTypes' \in Seq(TypeSet),
           NoEntryTwice(arrayTypes'), NoEntryTwice(sliceTypes'),
           Grows(arrayTypes, arrayTypes'), Grows(sliceTypes, sliceTypes'),
           Proper(annotation'.type) => Explained(annotation', arrayTypes', sliceTypes')
    PROVE  TableInv'
<1>1. resolved \subseteq Annotations /\ OneTypePerShape
      /\ \A a \in resolved : Proper(a.type) => Explained(a, arrayTypes, sliceTypes)
  BY DEF TableInv
<1>2. ASSUME NEW a \in resolved, Proper(a.type)
      PROVE  Explained(a, arrayTypes', sliceTypes')
  <2>1. Explained(a, arrayTypes, sliceTypes)
    BY <1>1, <1>2
  <2>2. CASE a.wraps = <<>> /\ a.base \in Primitives /\ a.type = Scalar(a.base)
    BY <2>2 DEF Explained
  <2> DEFINE w == a.wraps[Len(a.wraps)]
             Over(b) == Proper(b.type) /\ a.base = b.base /\ a.wraps = Append(b.wraps, w)
  <2>3. ASSUME NEW b \in resolved, Over(b), w = ArrayWrap(w.length),
               NEW i \in DOMAIN arrayTypes, a.type = ArrayType(i),
               arrayTypes[i] = [elementType |-> b.type, length |-> w.length]
        PROVE  Explained(a, arrayTypes', sliceTypes')
    <3>1. i \in DOMAIN arrayTypes' /\ arrayTypes'[i] = arrayTypes[i]
      BY DEF Grows
    <3> QED
      BY <2>3, <3>1 DEF Explained
  <2>4. ASSUME NEW b \in resolved, Over(b), w = SliceWrap,
               NEW i \in DOMAIN sliceTypes, a.type = SliceType(i), sliceTypes[i] = b.type
        PROVE  Explained(a, arrayTypes', sliceTypes')
    <3>1. i \in DOMAIN sliceTypes' /\ sliceTypes'[i] = sliceTypes[i]
      BY DEF Grows
    <3> QED
      BY <2>4, <3>1 DEF Explained
  <2> QED
    BY <2>1, <2>2, <2>3, <2>4 DEF Explained
<1>3. \A a \in resolved' : Proper(a.type) => Explained(a, arrayTypes', sliceTypes')
  BY <1>2
<1>4. resolved' \subseteq Annotations
  BY <1>1
<1>5. \A a, c \in resolved' : Proper(a.type) /\ Proper(c.type) =>
          (a.type = c.type <=> a.base = c.base /\ a.wraps = c.wraps)
  BY <1>1, <1>3, <1>4, SameShape
<1>6. OneTypePerShape'
  BY <1>5 DEF OneTypePerShape
<1>7. \A a \in resolved' : Proper(a.type) => Explained(a, arrayTypes, sliceTypes)'
  BY <1>3, ZenonT(30) DEF Explained
<1> QED
  BY <1>4, <1>6, <1>7 DEF TableInv, NoEntryTwice

LEMMA InnermostStep ==
    ASSUME TableInv, NEW base, NEW type \in TypeSet,
           base \in Primitives \cup UnknownNames \cup {"deferred"},
           Proper(type) => base \in Primitives /\ type = Scalar(base),
           Innermost(base, type)
    PROVE  TableInv'
<1>1. annotation' = [at |-> here + 1, base |-> base, wraps |-> <<>>, type |-> type]
      /\ resolved' = resolved \cup {annotation'} /\ UNCHANGED tables
  BY DEF Innermost, Return
<1>2. here' \in Nat /\ annotation' \in Annotations
  BY <1>1 DEF Annotations, TableInv, Innermost, Return
<1>3. Proper(annotation'.type) => Explained(annotation', arrayTypes', sliceTypes')
  BY <1>1 DEF Explained
<1>4. Grows(arrayTypes, arrayTypes') /\ Grows(sliceTypes, sliceTypes')
  BY <1>1 DEF Grows, tables
<1> QED
  BY <1>1, <1>2, <1>3, <1>4, Added DEF TableInv, tables

\* A step that wraps the annotation so far in an array or a slice.
LEMMA WrapStep ==
    ASSUME TableInv, NEW w \in WrapSet, NEW type \in TypeSet, Wrap(w, type),
           arrayTypes' \in Seq([elementType : TypeSet, length : Nat]),
           sliceTypes' \in Seq(TypeSet),
           NoEntryTwice(arrayTypes'), NoEntryTwice(sliceTypes'),
           Grows(arrayTypes, arrayTypes'), Grows(sliceTypes, sliceTypes'),
           Proper(type) =>
               /\ Proper(annotation.type)
               /\ \/ /\ w = ArrayWrap(w.length)
                     /\ \E i \in DOMAIN arrayTypes' :
                           /\ type = ArrayType(i)
                           /\ arrayTypes'[i] = [elementType |-> annotation.type,
                                                length |-> w.length]
                  \/ /\ w = SliceWrap
                     /\ \E i \in DOMAIN sliceTypes' :
                           type = SliceType(i) /\ sliceTypes'[i] = annotation.type
    PROVE  TableInv'
<1>1. annotation \in resolved /\ annotation \in Annotations
  BY DEF TableInv, Wrap
<1>2. /\ annotation' = [at |-> annotation.at, base |-> annotation.base,
                        wraps |-> Append(annotation.wraps, w), type |-> type]
      /\ resolved' = resolved \cup {annotation'}
  BY DEF Wrap, Return
<1>3. annotation.wraps \in Seq(WrapSet)
  BY <1>1 DEF Annotations
<1>4. /\ Append(annotation.wraps, w) \in Seq(WrapSet)
      /\ Append(annotation.wraps, w)[Len(Append(annotation.wraps, w))] = w
  BY <1>3, AppendProperties
<1>5. here' \in Nat /\ annotation' \in Annotations
  BY <1>1, <1>2, <1>4 DEF Annotations, TableInv, Wrap, Return
<1>6. Proper(annotation'.type) => Explained(annotation', arrayTypes', sliceTypes')
  BY <1>1, <1>2, <1>4 DEF Explained
<1> QED
  BY <1>2, <1>5, <1>6, Added

\* The four callers of those two.
LEMMA TableStep ==
    ASSUME TypeTableAssumption, TableInv, resolveTypeSyntax
    PROVE  TableInv'
<1> USE DEF TypeTableAssumption
<1>1. /\ arrayTypes \in Seq([elementType : TypeSet, length : Nat]) /\ NoEntryTwice(arrayTypes)
      /\ sliceTypes \in Seq(TypeSet) /\ NoEntryTwice(sliceTypes)
      /\ Grows(arrayTypes, arrayTypes) /\ Grows(sliceTypes, sliceTypes)
  BY DEF TableInv, Grows
<1>2. ErrorType \in TypeSet /\ Unresolved \in TypeSet /\ ~Proper(ErrorType) /\ ~Proper(Unresolved)
  BY DEF ErrorType, Unresolved, TypeSet, Proper
<1>3. CASE resolveNamedTypeSyntax
  <2>1. ASSUME NEW name \in Primitives, Innermost(name, Scalar(name))
        PROVE  TableInv'
    BY <2>1, InnermostStep DEF Scalar, TypeSet
  <2>2. ASSUME NEW name \in UnknownNames, Innermost(name, ErrorType)
        PROVE  TableInv'
    BY <1>2, <2>2, InnermostStep
  <2> QED
    BY <1>3, <2>1, <2>2 DEF resolveNamedTypeSyntax
<1>4. CASE resolveDeferredTypeSyntax
  BY <1>2, <1>4, InnermostStep DEF resolveDeferredTypeSyntax
<1>6. CASE resolveArrayTypeSyntax
  <2>1. PICK length \in Lengths :
            LET element == annotation.type
                interned == internArray(element, length)
            IN  \/ /\ ~Proper(element)
                   /\ Wrap(ArrayWrap(length), element)
                   /\ UNCHANGED tables
                \/ /\ Proper(element)
                   /\ length > LargestLength
                   /\ Wrap(ArrayWrap(length), ErrorType)
                   /\ UNCHANGED tables
                \/ /\ Proper(element)
                   /\ length <= LargestLength
                   /\ Wrap(ArrayWrap(length), interned.type)
                   /\ arrayTypes' = interned.table
                   /\ UNCHANGED sliceTypes
    BY <1>6 DEF resolveArrayTypeSyntax
  <2>2. ArrayWrap(length) \in WrapSet /\ ArrayWrap(length).length = length
    BY DEF ArrayWrap, WrapSet
  <2>3. annotation.type \in TypeSet
    BY <2>1 DEF Wrap, TableInv, Annotations
  <2>4. CASE UNCHANGED tables /\ \/ /\ ~Proper(annotation.type)
                                    /\ Wrap(ArrayWrap(length), annotation.type)
                                 \/ Wrap(ArrayWrap(length), ErrorType)
    BY <1>1, <1>2, <2>2, <2>3, <2>4, WrapStep DEF tables
  <2> DEFINE made == internArray(annotation.type, length)
  <2>5. CASE /\ Proper(annotation.type)
             /\ Wrap(ArrayWrap(length), made.type)
             /\ arrayTypes' = made.table
             /\ UNCHANGED sliceTypes
    <3>1. PICK i \in Nat :
              /\ made.type = ArrayType(i)
              /\ Interned(arrayTypes, made.table,
                          [elementType |-> annotation.type, length |-> length], i)
      BY <2>3, ArrayInterned
    <3>2. made.table \in Seq([elementType : TypeSet, length : Nat])
      BY <2>3, ArrayInterned
    <3>3. ArrayType(i) \in TypeSet
      BY DEF ArrayType, TypeSet
    <3> HIDE DEF made
    <3>4. /\ i \in DOMAIN arrayTypes'
          /\ arrayTypes'[i] = [elementType |-> annotation.type, length |-> length]
          /\ NoEntryTwice(arrayTypes')
          /\ Grows(arrayTypes, arrayTypes')
      BY <2>5, <3>1 DEF Interned, Grows
    <3> QED
      BY <1>1, <2>2, <2>5, <3>1, <3>2, <3>3, <3>4, WrapStep
  <2> QED
    BY <2>1, <2>4, <2>5
<1>7. CASE resolveSliceTypeSyntax
  <2>1. SliceWrap \in WrapSet
    BY DEF SliceWrap, WrapSet
  <2>2. annotation.type \in TypeSet
    BY <1>7 DEF resolveSliceTypeSyntax, Wrap, TableInv, Annotations
  <2>3. CASE UNCHANGED tables /\ ~Proper(annotation.type) /\ Wrap(SliceWrap, annotation.type)
    BY <1>1, <2>1, <2>2, <2>3, WrapStep DEF tables
  <2> DEFINE made == internSlice(annotation.type)
  <2>4. CASE /\ Proper(annotation.type)
             /\ Wrap(SliceWrap, made.type)
             /\ sliceTypes' = made.table
             /\ UNCHANGED arrayTypes
    <3>1. PICK i \in Nat : /\ made.type = SliceType(i)
                           /\ Interned(sliceTypes, made.table, annotation.type, i)
      BY <2>2, SliceInterned
    <3>2. made.table \in Seq(TypeSet)
      BY <2>2, SliceInterned
    <3>3. SliceType(i) \in TypeSet
      BY DEF SliceType, TypeSet
    <3> HIDE DEF made
    <3>4. /\ i \in DOMAIN sliceTypes' /\ sliceTypes'[i] = annotation.type
          /\ NoEntryTwice(sliceTypes')
          /\ Grows(sliceTypes, sliceTypes')
      BY <2>4, <3>1 DEF Interned, Grows
    <3> QED
      BY <1>1, <2>1, <2>4, <3>1, <3>2, <3>3, <3>4, WrapStep
  <2> QED
    BY <1>7, <2>3, <2>4 DEF resolveSliceTypeSyntax
<1> QED
  BY <1>3, <1>4, <1>6, <1>7 DEF resolveTypeSyntax

\* Steps that only take the annotation's type leave the invariant alone.
LEMMA OtherStepInv ==
    ASSUME TableInv, OtherStep
    PROVE  TableInv'
<1>1. /\ UNCHANGED <<arrayTypes, sliceTypes, resolved>>
      /\ annotation' \in {annotation, NoAnnotation}
      /\ here' \in {here, here + 1}
  BY DEF OtherStep, tables
<1>2. here' \in Nat /\ annotation' \in resolved \cup {NoAnnotation}
  BY <1>1 DEF TableInv
<1> QED
  BY <1>1, <1>2 DEF TableInv, OneTypePerShape, NoEntryTwice, Explained

LEMMA TableStutterInv ==
    ASSUME TableInv, UNCHANGED <<tables, annotation, resolved, here>>
    PROVE  TableInv'
BY DEF TableInv, tables, OneTypePerShape, NoEntryTwice, Explained

\* Whatever annotations a file has, in whatever order, with whatever else happening
\* between them: types are equal exactly when they are written alike.
THEOREM TypesAreInterned == TypeSpec => []OneTypePerShape
<1>1. TableInv /\ [resolveTypeSyntax \/ OtherStep]_<<tables, annotation, resolved, here>> => TableInv'
  BY TypeTableAssumption, TableStep, OtherStepInv, TableStutterInv
<1>2. TableInv => OneTypePerShape
  BY DEF TableInv
<1> QED
  BY TableInitInv, <1>1, <1>2, PTL DEF TypeSpec

----------------------------------------------------------------------------
(* Lists, whatever they hold *)

LEMMA ListFacts ==
    ASSUME NEW s, IsList(s)
    PROVE  Len(s) \in Nat /\ DOMAIN s = 1..Len(s)
BY DEF IsList

LEMMA AppendList ==
    ASSUME NEW s, IsList(s), NEW e
    PROVE  /\ IsList(Append(s, e))
           /\ Len(Append(s, e)) = Len(s) + 1
           /\ DOMAIN Append(s, e) = 1..(Len(s) + 1)
           /\ \A i \in DOMAIN s : Append(s, e)[i] = s[i]
           /\ Append(s, e)[Len(s) + 1] = e
<1> DEFINE S == {s[i] : i \in DOMAIN s} \cup {e}
           t == Append(s, e)
<1>1. s \in Seq(S)
  BY SeqMonotonic DEF IsList
<1>2. e \in S
  OBVIOUS
<1> HIDE DEF S
<1>3. /\ t \in Seq(S)
      /\ Len(t) = Len(s) + 1
      /\ DOMAIN t = 1..(Len(s) + 1)
      /\ \A i \in 1..Len(s) : t[i] = s[i]
      /\ t[Len(s) + 1] = e
  BY <1>1, <1>2, AppendProperties
<1> HIDE DEF t
<1>4. t \in Seq({t[i] : i \in DOMAIN t})
  BY <1>3
<1>5. DOMAIN s = 1..Len(s)
  BY <1>1
<1> QED
  BY <1>3, <1>4, <1>5 DEF IsList, t

LEMMA FirstIs ==
    ASSUME NEW S \in SUBSET Nat, NEW m \in S, \A j \in S : m <= j
    PROVE  First(S) = m
<1>1. S # {}
  OBVIOUS
<1>2. First(S) \in S /\ \A j \in S : First(S) <= j
  BY <1>1, FirstOf
<1>3. First(S) <= m /\ m <= First(S)
  BY <1>2
<1>4. First(S) \in Nat /\ m \in Nat
  BY <1>2
<1> QED
  BY <1>3, <1>4

\* A larger number does not change the first one.
LEMMA FirstStays ==
    ASSUME NEW S \in SUBSET Nat, S # {}, NEW m \in Nat, \A j \in S : j < m
    PROVE  First(S \cup {m}) = First(S)
<1>1. First(S) \in S /\ \A j \in S : First(S) <= j
  BY FirstOf
<1> DEFINE f == First(S)
<1>2. \A j \in S \cup {m} : f <= j
  <2> HIDE DEF f
  <2>1. f \in Nat /\ f < m /\ \A j \in S : f <= j
    BY <1>1 DEF f
  <2> QED
    BY <2>1
<1> QED
  BY <1>1, <1>2, FirstIs

\* The largest element of a set of numbers below a bound
LEMMA LastOf ==
    ASSUME NEW n \in Nat, NEW S \in SUBSET (1..n), S # {}
    PROVE  \E m \in S : \A j \in S : j <= m
<1> DEFINE T == {k \in 0..n : n - k \in S}
<1>1. PICK i \in S : TRUE
  OBVIOUS
<1>2. n - i \in T
  BY <1>1
<1>3. T \in SUBSET Nat /\ T # {}
  <2>1. T \subseteq Nat
    OBVIOUS
  <2> HIDE DEF T
  <2> QED
    BY <1>2, <2>1
<1>4. First(T) \in T /\ \A k \in T : First(T) <= k
  BY <1>3, FirstOf
<1> DEFINE m == n - First(T)
<1>5. m \in S
  BY <1>4
<1>6. \A j \in S : j <= m
  <2> TAKE j \in S
  <2>1. n - j \in T
    OBVIOUS
  <2>2. First(T) <= n - j /\ First(T) \in 0..n
    BY <1>4, <2>1
  <2> QED
    BY <2>2
<1> QED
  BY <1>5, <1>6

----------------------------------------------------------------------------
(* Scopes and what they hold *)

LEMMA DeclaredFacts ==
    ASSUME IInv, NEW block, NEW name
    PROVE  /\ Declared(block, name) \subseteq 1..Len(symbols)
           /\ Declared(block, name) \in SUBSET Nat
           /\ Declared(block, name) # {} =>
                  /\ First(Declared(block, name)) \in Declared(block, name)
                  /\ First(Declared(block, name)) \in 1..Len(symbols)
<1>1. DOMAIN symbols = 1..Len(symbols) /\ Len(symbols) \in Nat
  BY ListFacts DEF IInv, Lists
<1>2. Declared(block, name) \subseteq 1..Len(symbols)
  BY <1>1 DEF Declared
<1>3. Declared(block, name) \in SUBSET Nat
  BY <1>1, <1>2
<1> QED
  BY <1>2, <1>3, FirstOf

LEMMA ScopeFacts ==
    ASSUME IInv, NEW block, NEW name \in Names
    PROVE  /\ ScopeOf(block) \in [Names -> 0..Len(symbols)]
           /\ ScopeOf(block)[name] = NoSymbol <=> Declared(block, name) = {}
           /\ Declared(block, name) # {} =>
                  ScopeOf(block)[name] = First(Declared(block, name))
<1>1. Len(symbols) \in Nat
  BY ListFacts DEF IInv, Lists
<1>2. \A n : Declared(block, n) # {} => First(Declared(block, n)) \in 1..Len(symbols)
  BY DeclaredFacts
<1> QED
  BY <1>1, <1>2 DEF ScopeOf, NoSymbol

LEMMA ScopeSame ==
    ASSUME UNCHANGED <<symbols, blockOf>>, NEW block
    PROVE  ScopeOf(block)' = ScopeOf(block)
<1>1. \A n : Declared(block, n)' = Declared(block, n)
  BY DEF Declared
<1> QED
  BY <1>1 DEF ScopeOf

LEMMA ScopeAppend ==
    ASSUME IInv, NEW symbol, NEW into, symbol.name \in Names, addSymbol(symbol, into), NEW block
    PROVE  ScopeOf(block)' =
               IF block = into /\ ScopeOf(block)[symbol.name] = NoSymbol
               THEN [ScopeOf(block) EXCEPT ![symbol.name] = Len(symbols) + 1]
               ELSE ScopeOf(block)
<1> DEFINE new == Len(symbols) + 1
<1>1. /\ Len(symbols) \in Nat /\ DOMAIN symbols = 1..Len(symbols)
      /\ Len(blockOf) = Len(symbols) /\ blockOf \in Seq(DOMAIN enclosing)
  BY ListFacts DEF IInv, Lists, Chains, TypeOK
<1>2. IsList(blockOf)
  BY <1>1 DEF IsList
<1>3. /\ DOMAIN symbols' = 1..new
      /\ \A i \in DOMAIN symbols : symbols'[i] = symbols[i] /\ blockOf'[i] = blockOf[i]
      /\ symbols'[new] = symbol /\ blockOf'[new] = into
  BY <1>1, <1>2, AppendList, ListFacts DEF addSymbol, IInv, Lists
<1>4. \A n : Declared(block, n)' =
          Declared(block, n) \cup (IF block = into /\ symbol.name = n THEN {new} ELSE {})
  BY <1>1, <1>3 DEF Declared
<1>5. \A n \in Names : Declared(block, n)' # {} =>
          First(Declared(block, n)') =
              IF Declared(block, n) = {} THEN new ELSE First(Declared(block, n))
  <2> TAKE n \in Names
  <2> HAVE Declared(block, n)' # {}
  <2>1. Declared(block, n) \in SUBSET Nat /\ \A j \in Declared(block, n) : j < new
    BY <1>1, DeclaredFacts
  <2>2. CASE Declared(block, n) = {}
    <3>1. Declared(block, n)' = {new}
      BY <1>4, <2>2
    <3> QED
      BY <1>1, <2>2, <3>1, FirstIs
  <2>3. CASE Declared(block, n) # {}
    <3>1. First(Declared(block, n) \cup {new}) = First(Declared(block, n))
      BY <1>1, <2>1, <2>3, FirstStays
    <3> QED
      BY <1>4, <2>3, <3>1
  <2> QED
    BY <2>2, <2>3
<1>6. \A n \in Names : ScopeOf(block)'[n] =
          IF block = into /\ n = symbol.name /\ ScopeOf(block)[n] = NoSymbol
          THEN new ELSE ScopeOf(block)[n]
  <2> TAKE n \in Names
  <2>1. ScopeOf(block)[n] = NoSymbol <=> Declared(block, n) = {}
    BY ScopeFacts
  <2> QED
    BY <1>4, <1>5, <2>1 DEF ScopeOf
<1> QED
  BY <1>6 DEF ScopeOf

----------------------------------------------------------------------------
(* Lookups *)

\* The use that is about to be recorded.
NewUse(name) ==
    [name |-> name, at |-> here + 1, symbol |-> lookupIdentifier(name), block |-> Block,
     initializes |-> IF doing = "initializer" THEN local.at ELSE 0]

\* The chain of scopes finds the innermost block that declares the name.
LEMMA LookupIs ==
    ASSUME IInv, doing # "file", NEW name \in Names
    PROVE  /\ (\A k \in DOMAIN chain : Declared(chain[k], name) = {}) =>
                  lookupIdentifier(name) = NoSymbol
           /\ \A k \in DOMAIN chain :
                  /\ Declared(chain[k], name) # {}
                  /\ \A j \in DOMAIN chain : j > k => Declared(chain[j], name) = {}
                  => lookupIdentifier(name) = First(Declared(chain[k], name))
<1> DEFINE n == Len(scopeStack)
           holding == {i \in DOMAIN scopeStack : scopeStack[i][name] # NoSymbol}
<1>1. /\ n \in Nat /\ DOMAIN scopeStack = 1..n
      /\ Len(chain) = n + 1 /\ DOMAIN chain = 1..(n + 1)
      /\ \A i \in 1..n : scopeStack[i] = ScopeOf(chain[i])
      /\ scope = ScopeOf(chain[n + 1])
  <2>1. scopeStack \in Seq([Names -> 0..Len(symbols)]) /\ chain \in Seq(DOMAIN enclosing)
    BY DEF IInv, TypeOK
  <2>2. /\ Len(chain) = n + 1
        /\ \A i \in DOMAIN scopeStack : scopeStack[i] = ScopeOf(chain[i])
        /\ scope = ScopeOf(chain[Len(chain)])
    BY DEF IInv, Scopes, Block
  <2>3. n \in Nat /\ DOMAIN scopeStack = 1..n /\ DOMAIN chain = 1..Len(chain)
    BY <2>1
  <2> QED
    BY <2>2, <2>3
<1>2. \A k \in 1..(n + 1) :
          /\ ScopeOf(chain[k])[name] = NoSymbol <=> Declared(chain[k], name) = {}
          /\ Declared(chain[k], name) # {} =>
                 ScopeOf(chain[k])[name] = First(Declared(chain[k], name))
  BY ScopeFacts
<1>3. holding \subseteq 1..n
  BY <1>1
<1>4. \A i \in 1..n : i \in holding <=> Declared(chain[i], name) # {}
  BY <1>1, <1>2
<1>5. ASSUME \A k \in DOMAIN chain : Declared(chain[k], name) = {}
      PROVE  lookupIdentifier(name) = NoSymbol
  <2>1. holding = {}
    BY <1>1, <1>3, <1>4, <1>5
  <2>2. scope[name] = NoSymbol
    BY <1>1, <1>2, <1>5
  <2> QED
    BY <2>1, <2>2 DEF lookupIdentifier
<1>6. ASSUME NEW k \in DOMAIN chain, Declared(chain[k], name) # {},
             \A j \in DOMAIN chain : j > k => Declared(chain[j], name) = {}
      PROVE  lookupIdentifier(name) = First(Declared(chain[k], name))
  <2>1. CASE k = n + 1
    BY <1>1, <1>2, <1>6, <2>1 DEF lookupIdentifier
  <2>2. CASE k # n + 1
    <3>1. k \in 1..n /\ k \in holding
      BY <1>1, <1>4, <1>6, <2>2
    <3>2. scope[name] = NoSymbol
      BY <1>1, <1>2, <1>6, <3>1
    <3>3. \A j \in holding : j <= k
      <4> TAKE j \in holding
      <4>1. j \in 1..n /\ ~(j > k)
        BY <1>1, <1>3, <1>4, <1>6
      <4> QED
        BY <3>1, <4>1
    <3> HIDE DEF holding
    <3>4. (CHOOSE i \in holding : \A j \in holding : j <= i) = k
      <4>1. \A i \in holding : (\A j \in holding : j <= i) => i = k
        BY <1>1, <1>3, <3>1, <3>3
      <4> QED
        BY <3>1, <3>3, <4>1
    <3>5. lookupIdentifier(name) = scopeStack[k][name]
      BY <3>1, <3>2, <3>4 DEF lookupIdentifier, holding
    <3> QED
      BY <1>1, <1>2, <1>6, <3>1, <3>5
  <2> QED
    BY <2>1, <2>2
<1> QED
  BY <1>5, <1>6

\* When it is recorded, every use has its meaning.
LEMMA LookupIsMeaning ==
    ASSUME IInv, NEW name \in Names,
           doing \in {"statements", "initializer", "iterable"}
    PROVE  lookupIdentifier(name) = Meaning(NewUse(name))
<1> DEFINE u == NewUse(name)
           nearest == {id \in Candidates(u) :
                          \A other \in Candidates(u) : blockOf[other] <= blockOf[id]}
<1>1. /\ Len(symbols) \in Nat /\ DOMAIN symbols = 1..Len(symbols)
      /\ Len(chain) \in Nat /\ DOMAIN chain = 1..Len(chain)
      /\ Len(chain) > 2
      /\ Block = chain[Len(chain)]
      /\ enclosing[Block] = {chain[j] : j \in DOMAIN chain}
      /\ \A j, k \in DOMAIN chain : j < k => chain[j] < chain[k]
      /\ \A j \in DOMAIN chain : chain[j] \in Nat
      /\ here \in Nat
  <2>1. DOMAIN symbols = 1..Len(symbols) /\ Len(symbols) \in Nat
    BY ListFacts DEF IInv, Lists
  <2>2. chain \in Seq(DOMAIN enclosing) /\ DOMAIN enclosing = 1..Len(enclosing)
    BY ListFacts DEF IInv, Lists, TypeOK
  <2>3. /\ Len(chain) \in Nat /\ DOMAIN chain = 1..Len(chain)
        /\ \A j \in DOMAIN chain : chain[j] \in Nat
    BY <2>2
  <2>4. Len(chain) > 2 /\ here \in Nat
    BY DEF IInv, Scopes, TableInv
  <2>5. /\ \A j, k \in DOMAIN chain : j < k => chain[j] < chain[k]
        /\ \A i \in DOMAIN chain : enclosing[chain[i]] = {chain[j] : j \in 1..i}
    BY DEF IInv, Chains
  <2>6. Len(chain) \in DOMAIN chain
    BY <2>3, <2>4
  <2> QED
    BY <2>1, <2>3, <2>4, <2>5, <2>6 DEF Block
<1>2. \A id \in DOMAIN symbols :
          symbols[id].at < here + 1 /\ (u.initializes # 0 => symbols[id].at # u.initializes)
  BY <1>1 DEF IInv, Positions, NewUse
<1>3. u.name = name /\ u.block = Block /\ u.at = here + 1
  BY DEF NewUse
<1>4. \A id : id \in Candidates(u) <=> \E j \in DOMAIN chain : id \in Declared(chain[j], name)
  BY <1>1, <1>2, <1>3 DEF Candidates, Declared
<1>5. \A j : \A id \in Declared(chain[j], name) : blockOf[id] = chain[j]
  BY DEF Declared
<1> HIDE DEF u
<1>6. CASE \A k \in DOMAIN chain : Declared(chain[k], name) = {}
  <2>1. nearest = {}
    BY <1>4, <1>6
  <2> QED
    BY <1>6, <2>1, LookupIs DEF Meaning, u
<1>7. CASE \E k \in DOMAIN chain : Declared(chain[k], name) # {}
  <2> DEFINE K == {k \in DOMAIN chain : Declared(chain[k], name) # {}}
  <2>1. K \in SUBSET (1..Len(chain)) /\ K # {}
    BY <1>1, <1>7
  <2>2. PICK k \in K : \A j \in K : j <= k
    BY <1>1, <2>1, LastOf
  <2>3. k \in DOMAIN chain /\ Declared(chain[k], name) # {}
    BY <2>2
  <2>4. \A j \in DOMAIN chain : j > k => Declared(chain[j], name) = {}
    BY <1>1, <2>2
  <2>5. \A j \in DOMAIN chain : Declared(chain[j], name) # {} => chain[j] <= chain[k]
    BY <1>1, <2>3, <2>4
  <2>6. nearest = Declared(chain[k], name)
    <3>1. ASSUME NEW id \in nearest
          PROVE  id \in Declared(chain[k], name)
      <4>1. PICK j \in DOMAIN chain : id \in Declared(chain[j], name)
        BY <1>4, <3>1
      <4>2. PICK top \in Declared(chain[k], name) : TRUE
        BY <2>3
      <4>3. chain[k] <= chain[j]
        BY <1>4, <1>5, <2>3, <3>1, <4>1, <4>2
      <4>4. chain[j] <= chain[k]
        BY <2>5, <4>1
      <4>5. chain[j] = chain[k]
        BY <1>1, <2>3, <4>3, <4>4
      <4> QED
        BY <4>1, <4>5
    <3>2. ASSUME NEW id \in Declared(chain[k], name)
          PROVE  id \in nearest
      <4>1. id \in Candidates(u)
        BY <1>4, <2>3, <3>2
      <4>2. \A other \in Candidates(u) : blockOf[other] <= blockOf[id]
        BY <1>4, <1>5, <2>3, <2>5, <3>2
      <4> QED
        BY <4>1, <4>2
    <3> QED
      BY <3>1, <3>2
  <2>7. Meaning(u) = First(Declared(chain[k], name))
    BY <2>3, <2>6 DEF Meaning
  <2>8. lookupIdentifier(name) = First(Declared(chain[k], name))
    BY <2>3, <2>4, LookupIs
  <2> QED
    BY <2>7, <2>8 DEF u
<1> QED
  BY <1>6, <1>7

SameUnknown ==
    \A at : ErrorAt(SemanticError("UnknownIdentifier", at, 0))'
                <=> ErrorAt(SemanticError("UnknownIdentifier", at, 0))

\* A use keeps its meaning while nothing is added that its text could mean.
LEMMA MeaningKept ==
    ASSUME \A use \in resolutions : use.block \in DOMAIN enclosing,
           \A b \in DOMAIN enclosing : enclosing'[b] = enclosing[b],
           \A id \in DOMAIN symbols :
               /\ id \in DOMAIN symbols'
               /\ symbols'[id] = symbols[id]
               /\ blockOf'[id] = blockOf[id],
           \A id \in DOMAIN symbols' \ DOMAIN symbols : \A use \in resolutions :
               \/ blockOf'[id] \notin enclosing[use.block]
               \/ ~(symbols'[id].at < use.at)
               \/ use.initializes # 0 /\ symbols'[id].at = use.initializes,
           NEW use \in resolutions
    PROVE  Meaning(use)' = Meaning(use)
<1>1. Candidates(use)' = Candidates(use)
  BY DEF Candidates
<1>2. \A id \in Candidates(use) : blockOf'[id] = blockOf[id]
  BY DEF Candidates
<1> QED
  BY <1>1, <1>2 DEF Meaning

\* ... and no unknown identifier is reported or forgotten.
LEMMA UsesKept ==
    ASSUME IInv, resolutions' = resolutions,
           \A b \in DOMAIN enclosing : enclosing'[b] = enclosing[b],
           \A id \in DOMAIN symbols :
               /\ id \in DOMAIN symbols'
               /\ symbols'[id] = symbols[id]
               /\ blockOf'[id] = blockOf[id],
           \A id \in DOMAIN symbols' \ DOMAIN symbols : \A use \in resolutions :
               \/ blockOf'[id] \notin enclosing[use.block]
               \/ ~(symbols'[id].at < use.at)
               \/ use.initializes # 0 /\ symbols'[id].at = use.initializes,
           SameUnknown
    PROVE  ResolvesLexically'
<1>1. \A use \in resolutions : Meaning(use)' = Meaning(use)
  <2>1. \A use \in resolutions : use.block \in DOMAIN enclosing
    BY DEF IInv, Positions
  <2> QED
    BY <2>1, MeaningKept
<1> QED
  BY <1>1 DEF IInv, ResolvesLexically, SameUnknown

----------------------------------------------------------------------------
(* What a step may add to the errors, the annotation and the symbols *)

Reports ==
    \/ errors' = errors
    \/ \E e : /\ errors' = Append(errors, e)
              /\ e.kind # "UnknownIdentifier"
              /\ e.at \in 0..here'

LEMMA ErrorStep ==
    ASSUME IInv, here' \in Nat, here <= here', Reports
    PROVE  SameUnknown /\ IsList(errors') /\ \A i \in DOMAIN errors' : errors'[i].at \in 0..here'
<1>1. IsList(errors) /\ here \in Nat /\ \A i \in DOMAIN errors : errors[i].at \in 0..here
  BY DEF IInv, Lists, Positions, TableInv
<1>2. CASE errors' = errors
  <2>1. SameUnknown
    BY <1>2 DEF SameUnknown, ErrorAt
  <2> QED
    BY <1>1, <1>2, <2>1
<1>3. CASE \E e : /\ errors' = Append(errors, e)
                  /\ e.kind # "UnknownIdentifier"
                  /\ e.at \in 0..here'
  <2>1. PICK e : /\ errors' = Append(errors, e)
                 /\ e.kind # "UnknownIdentifier"
                 /\ e.at \in 0..here'
    BY <1>3
  <2>2. /\ IsList(errors')
        /\ DOMAIN errors' = 1..(Len(errors) + 1)
        /\ \A i \in DOMAIN errors : errors'[i] = errors[i]
        /\ errors'[Len(errors) + 1] = e
    BY <1>1, <2>1, AppendList
  <2>3. Len(errors) \in Nat /\ DOMAIN errors = 1..Len(errors)
    BY <1>1, ListFacts
  <2>4. \A i \in DOMAIN errors' : errors'[i].at \in 0..here'
    BY <1>1, <2>1, <2>2, <2>3
  <2>5. \A at : SemanticError("UnknownIdentifier", at, 0) # e
    BY <2>1 DEF SemanticError
  <2>6. SameUnknown
    BY <2>2, <2>3, <2>5 DEF SameUnknown, ErrorAt
  <2> QED
    BY <2>2, <2>4, <2>6
<1> QED
  BY <1>2, <1>3 DEF Reports

LEMMA DuplicateReports ==
    ASSUME NEW existing, NEW at \in 0..here', errors' = DuplicateError(existing, at)
    PROVE  Reports
BY DEF Reports, DuplicateError, SemanticError

LEMMA ResolveStep ==
    ASSUME IInv, resolveTypeSyntax
    PROVE  here' = here + 1 /\ annotation'.at \in 0..here' /\ Reports
<1>1. here \in Nat /\ annotation.at \in 0..here
  BY DEF IInv, TableInv, Positions
<1>2. CASE resolveNamedTypeSyntax \/ resolveDeferredTypeSyntax
  BY <1>1, <1>2 DEF resolveNamedTypeSyntax, resolveDeferredTypeSyntax, Innermost, Return,
                    Reports, SemanticError
<1>3. CASE resolveArrayTypeSyntax \/ resolveSliceTypeSyntax
  BY <1>1, <1>3 DEF resolveArrayTypeSyntax, resolveSliceTypeSyntax, Wrap, Return, Reports
<1> QED
  BY <1>2, <1>3 DEF resolveTypeSyntax

----------------------------------------------------------------------------
(* Steps that add no symbol and enter no block *)

LEMMA QuietStep ==
    ASSUME IInv, TableInv', Reports, here' \in {here, here + 1},
           UNCHANGED <<pass, functions, symbols, topLevelNames, preludeScope, scope, scopeStack,
                       body, parameter, historyVars>>,
           annotation'.at \in 0..here',
           declaring' \in DeclarationSet,
           local' \in LocalSet,
           IsList(declaring'.parameters),
           \A p \in DOMAIN declaring'.parameters :
               /\ declaring'.parameters[p].name \in Names
               /\ declaring'.parameters[p].at \in 0..here',
           declaring'.at \in 0..here',
           declaring' # NoDeclaration =>
               /\ pass = "collect"
               /\ declaring'.name \in Names
               /\ declaring'.existing = topLevelNames[declaring'.name],
           doing' = "file" <=> doing = "file",
           doing' \in {"annotation", "initializer", "iterable"} =>
               /\ parameter = Len(Function.parameters)
               /\ local'.name \in Names
               /\ local'.at \in 1..here'
               /\ \A id \in DOMAIN symbols : symbols[id].at < local'.at,
           doing' \in {"annotation", "initializer"} =>
               \A use \in resolutions : use.at > local'.at => use.initializes = local'.at,
           doing' = "statements" =>
               doing = "statements" \/ parameter = Len(Function.parameters)
    PROVE  IInv'
<1>1. here \in Nat /\ here' \in Nat /\ here <= here'
  BY DEF IInv, TableInv
<1>2. SameUnknown /\ IsList(errors') /\ \A i \in DOMAIN errors' : errors'[i].at \in 0..here'
  BY <1>1, ErrorStep
<1>3. UNCHANGED <<resolutions, blockOf, enclosing, chain>>
  BY DEF historyVars
<1>4. TypeOK'
  <2>1. declaring' \in DeclarationSet' /\ local' \in LocalSet'
    BY DEF DeclarationSet, LocalSet, TypeSet
  <2> QED
    BY <1>3, <2>1 DEF IInv, TypeOK
<1>5. Lists'
  BY <1>2, <1>3 DEF IInv, Lists
<1>6. Chains'
  BY <1>3 DEF IInv, Chains
<1>7. Scopes'
  <2>1. \A b : ScopeOf(b)' = ScopeOf(b)
    BY <1>3, ScopeSame
  <2>2. Block' = Block
    BY <1>3 DEF Block
  <2>3. pass = "collect" => doing' = "file"
    BY DEF IInv, Scopes
  <2>4. doing' # "file" =>
            /\ Len(chain) = Len(scopeStack) + 1
            /\ Len(chain) > 2
            /\ \A i \in DOMAIN scopeStack : scopeStack[i] = ScopeOf(chain[i])
            /\ scope = ScopeOf(Block)
    BY DEF IInv, Scopes
  <2>5. /\ topLevelNames = ScopeOf(FileBlock)
        /\ pass = "bodies" => preludeScope = ScopeOf(PreludeBlock)
        /\ pass = "collect" =>
              resolutions = {} /\ \A id \in DOMAIN symbols : blockOf[id] = FileBlock
        /\ doing' = "file" => Len(chain) = 2
    BY DEF IInv, Scopes
  <2>6. doing' # "file" => \A i \in DOMAIN scopeStack : scopeStack[i] = ScopeOf(chain[i])'
    BY <1>3, <2>1, <2>4
  <2>7. doing' # "file" => scope = ScopeOf(Block)'
    BY <2>1, <2>2, <2>4
  <2>8. declaring' # NoDeclaration' =>
            /\ pass = "collect"
            /\ declaring'.name \in Names
            /\ declaring'.existing = topLevelNames[declaring'.name]
    BY DEF NoDeclaration, Unresolved
  <2> QED
    BY <1>3, <2>1, <2>3, <2>4, <2>5, <2>6, <2>7, <2>8 DEF Scopes
<1>8. Positions'
  <2>1. Block' = Block /\ Function' = Function
    BY <1>3 DEF Block, Function
  <2>2. /\ \A id \in DOMAIN symbols : symbols[id].at \in 0..here'
        /\ \A use \in resolutions : use.at \in 0..here' /\ use.block \in DOMAIN enclosing
        /\ \A f \in DOMAIN functions : \A p \in DOMAIN functions[f].parameters :
              functions[f].parameters[p].at \in 0..here'
    BY <1>1 DEF IInv, Positions
  <2>3. doing' = "statements" /\ parameter < Len(Function.parameters) =>
            \A use \in resolutions : Block \notin enclosing[use.block]
    BY DEF IInv, Positions, Lists
  <2> QED
    BY <1>2, <1>3, <2>1, <2>2, <2>3 DEF Positions
<1>9. ResolvesLexically'
  BY <1>2, <1>3, UsesKept
<1> QED
  BY <1>4, <1>5, <1>6, <1>7, <1>8, <1>9 DEF IInv

\* What QuietStep asks of the declarations under way holds of those already there.
LEMMA UnderWay ==
    ASSUME IInv, here' \in {here, here + 1}
    PROVE  /\ here \in Nat /\ here' \in Nat
           /\ annotation.at \in 0..here'
           /\ annotation.type \in TypeSet
           /\ declaring \in DeclarationSet
           /\ local \in LocalSet
           /\ IsList(declaring.parameters)
           /\ \A p \in DOMAIN declaring.parameters :
                 /\ declaring.parameters[p].name \in Names
                 /\ declaring.parameters[p].at \in 0..here'
           /\ declaring.at \in 0..here'
           /\ declaring # NoDeclaration =>
                 /\ pass = "collect"
                 /\ declaring.name \in Names
                 /\ declaring.existing = topLevelNames[declaring.name]
           /\ pass = "collect" => doing = "file"
           /\ doing \in {"annotation", "initializer", "iterable"} =>
                 /\ parameter = Len(Function.parameters)
                 /\ local.name \in Names
                 /\ local.at \in 1..here'
                 /\ \A id \in DOMAIN symbols : symbols[id].at < local.at
           /\ doing \in {"annotation", "initializer"} =>
                 \A use \in resolutions : use.at > local.at => use.initializes = local.at
<1>1. here \in Nat /\ here' \in Nat /\ here <= here'
  BY DEF IInv, TableInv
<1>2. /\ annotation.at \in 0..here
      /\ \A p \in DOMAIN declaring.parameters : declaring.parameters[p].at \in 0..here
      /\ declaring.at \in 0..here
      /\ doing \in {"annotation", "initializer", "iterable"} =>
            /\ parameter = Len(Function.parameters)
            /\ local.name \in Names
            /\ local.at \in 1..here
            /\ \A id \in DOMAIN symbols : symbols[id].at < local.at
      /\ doing \in {"annotation", "initializer"} =>
            \A use \in resolutions : use.at > local.at => use.initializes = local.at
  BY DEF IInv, Positions
<1>3. /\ IsList(declaring.parameters)
      /\ \A p \in DOMAIN declaring.parameters : declaring.parameters[p].name \in Names
  BY DEF IInv, Lists
<1>4. /\ declaring # NoDeclaration =>
            /\ pass = "collect"
            /\ declaring.name \in Names
            /\ declaring.existing = topLevelNames[declaring.name]
      /\ pass = "collect" => doing = "file"
  BY DEF IInv, Scopes
<1>5. declaring \in DeclarationSet /\ local \in LocalSet
  BY DEF IInv, TypeOK
<1>6. annotation.type \in TypeSet
  <2>1. annotation \in Annotations \/ annotation = NoAnnotation
    BY DEF IInv, TableInv
  <2>2. CASE annotation \in Annotations
    BY <2>2 DEF Annotations
  <2>3. CASE annotation = NoAnnotation
    <3>1. annotation.type = Unresolved
      BY <2>3 DEF NoAnnotation
    <3>2. Unresolved \in TypeSet
      BY DEF Unresolved, TypeSet
    <3> QED
      BY <3>1, <3>2
  <2> QED
    BY <2>1, <2>2, <2>3
<1> QED
  BY <1>1, <1>2, <1>3, <1>4, <1>5, <1>6

LEMMA TypesResolved ==
    ASSUME TypeTableAssumption, IInv, resolveSignatureType \/ resolveLocalType
    PROVE  IInv'
<1>1. /\ resolveTypeSyntax
      /\ UNCHANGED <<collectVars, symbols, walkVars, historyVars>>
  BY DEF resolveSignatureType, resolveLocalType
<1>2. UNCHANGED <<pass, declaring, functions, symbols, topLevelNames, preludeScope, scope,
                  scopeStack, doing, local, body, parameter, historyVars>>
  BY <1>1 DEF collectVars, walkVars
<1>3. TableInv'
  BY <1>1, TableStep DEF IInv
<1>4. here' = here + 1 /\ annotation'.at \in 0..here' /\ Reports
  BY <1>1, ResolveStep
<1> QED
  BY <1>2, <1>3, <1>4, UnderWay, QuietStep

LEMMA FunctionBegun ==
    ASSUME IInv, NEW name \in Names, collectFunctionDecl(name)
    PROVE  IInv'
<1>1. /\ pass = "collect"
      /\ here' = here + 1
      /\ declaring' = [name |-> name, at |-> here + 1, existing |-> topLevelNames[name],
                       parameters |-> <<>>, types |-> <<>>]
      /\ errors' = DuplicateError(topLevelNames[name], here + 1)
      /\ UNCHANGED <<tables, annotation, resolved>>
      /\ UNCHANGED <<pass, functions, symbols, topLevelNames, preludeScope, scope,
                     scopeStack, doing, local, body, parameter, historyVars>>
  BY DEF collectFunctionDecl, ReadOn, walkVars
<1>2. TableInv'
  BY <1>1, OtherStepInv DEF IInv, OtherStep
<1>3. here \in Nat
  BY DEF IInv, TableInv
<1>4. Reports
  BY <1>1, <1>3, DuplicateReports
<1>5. IsList(declaring'.parameters) /\ DOMAIN declaring'.parameters = {}
  BY <1>1 DEF IsList
<1>6. declaring'.at \in 0..here' /\ declaring'.name = name
      /\ declaring'.existing = topLevelNames[name]
  BY <1>1, <1>3
<1>7. declaring' \in DeclarationSet
  <2>1. topLevelNames[name] \in Nat
    <3>1. topLevelNames \in [Names -> 0..Len(symbols)] /\ Len(symbols) \in Nat
      BY ListFacts DEF IInv, TypeOK, Lists
    <3> QED
      BY <3>1
  <2>2. <<>> \in Seq([name : Names, at : Nat]) /\ <<>> \in Seq(TypeSet)
    OBVIOUS
  <2>3. declaring' = [name |-> name, at |-> here + 1, existing |-> topLevelNames[name],
                      parameters |-> <<>>, types |-> <<>>]
    BY <1>1
  <2>4. \A existing \in Nat, parameters \in Seq([name : Names, at : Nat]), types \in Seq(TypeSet),
           at \in Nat :
            [name |-> name, at |-> at, existing |-> existing, parameters |-> parameters,
             types |-> types] \in DeclarationSet
    BY DEF DeclarationSet
  <2>5. here + 1 \in Nat
    BY <1>3
  <2>6. [name |-> name, at |-> here + 1, existing |-> topLevelNames[name], parameters |-> <<>>,
         types |-> <<>>] \in DeclarationSet
    BY <2>1, <2>2, <2>4, <2>5
  <2> QED
    BY <2>3, <2>6
<1> QED
  BY <1>1, <1>2, <1>4, <1>5, <1>6, <1>7, UnderWay, QuietStep

LEMMA ParameterRead ==
    ASSUME IInv, NEW name \in Names, resolveParameter(name)
    PROVE  IInv'
<1> DEFINE p == [name |-> name, at |-> annotation.at]
<1>1. /\ declaring # NoDeclaration
      /\ declaring' = [declaring EXCEPT
                          !.parameters = Append(@, p),
                          !.types = Append(@, annotation.type)]
      /\ annotation' = NoAnnotation
      /\ UNCHANGED <<tables, errors, resolved, here>>
      /\ UNCHANGED <<pass, functions, symbols, topLevelNames, preludeScope, scope,
                     scopeStack, doing, local, body, parameter, historyVars>>
  BY DEF resolveParameter, walkVars
<1>2. TableInv'
  BY <1>1, OtherStepInv DEF IInv, OtherStep
<1>3. Reports
  BY <1>1 DEF Reports
<1>4. /\ declaring'.parameters = Append(declaring.parameters, p)
      /\ declaring'.at = declaring.at /\ declaring'.name = declaring.name
      /\ declaring'.existing = declaring.existing
  BY <1>1 DEF IInv, TypeOK, DeclarationSet
<1>5. declaring' \in DeclarationSet
  <2>1. here \in Nat /\ annotation.at \in Nat /\ annotation.type \in TypeSet
    BY <1>1, UnderWay
  <2>2. p \in [name : Names, at : Nat]
    BY <2>1
  <2>3. /\ Append(declaring.parameters, p) \in Seq([name : Names, at : Nat])
        /\ Append(declaring.types, annotation.type) \in Seq(TypeSet)
    BY <2>1, <2>2, AppendProperties DEF IInv, TypeOK, DeclarationSet
  <2> QED
    BY <1>1, <2>3 DEF IInv, TypeOK, DeclarationSet
<1>6. /\ IsList(declaring'.parameters)
      /\ \A i \in DOMAIN declaring'.parameters :
            /\ declaring'.parameters[i].name \in Names
            /\ declaring'.parameters[i].at \in 0..here'
  <2>1. IsList(declaring.parameters)
    BY <1>1, UnderWay
  <2>2. DOMAIN declaring.parameters = 1..Len(declaring.parameters)
        /\ Len(declaring.parameters) \in Nat
    BY <2>1, ListFacts
  <2>3. \A i \in DOMAIN declaring.parameters :
            /\ declaring.parameters[i].name \in Names
            /\ declaring.parameters[i].at \in 0..here'
    BY <1>1, UnderWay
  <2>4. annotation.at \in 0..here'
    BY <1>1, UnderWay
  <2> QED
    BY <1>4, <2>1, <2>2, <2>3, <2>4, AppendList
<1>7. annotation'.at \in 0..here'
  <2>1. annotation'.at = 0 /\ here' \in Nat
    BY <1>1, UnderWay DEF NoAnnotation
  <2> QED
    BY <2>1
<1> QED
  BY <1>1, <1>2, <1>3, <1>4, <1>5, <1>6, <1>7, UnderWay, QuietStep

LEMMA DeclarationBegun ==
    ASSUME IInv, NEW name \in Names, varDecl(name) \/ beginFor(name)
    PROVE  IInv'
<1>1. /\ AtStatement
      /\ here' = here + 1
      /\ doing' \in {"annotation", "iterable"}
      /\ local' = [name |-> name, at |-> here + 1, type |-> Unresolved]
      /\ UNCHANGED <<tables, errors, annotation, resolved>>
      /\ UNCHANGED <<pass, declaring, functions, symbols, topLevelNames, preludeScope, scope,
                     scopeStack, body, parameter, historyVars>>
  BY DEF varDecl, beginFor, ReadOn, Begin, collectVars
<1>2. TableInv'
  BY <1>1, OtherStepInv DEF IInv, OtherStep
<1>3. Reports
  BY <1>1 DEF Reports
<1>4. here \in Nat
  BY DEF IInv, TableInv
<1>5. local' \in LocalSet
  <2>1. Unresolved \in TypeSet
    BY DEF Unresolved, TypeSet
  <2>2. here + 1 \in Nat
    BY <1>4
  <2> QED
    BY <1>1, <2>1, <2>2 DEF LocalSet
<1>6. /\ local'.name \in Names
      /\ local'.at = here + 1
      /\ local'.at \in 1..here'
      /\ \A id \in DOMAIN symbols : symbols[id].at < local'.at
      /\ \A use \in resolutions : ~(use.at > local'.at)
  <2>1. /\ \A id \in DOMAIN symbols : symbols[id].at \in 0..here
        /\ \A use \in resolutions : use.at \in 0..here
    BY DEF IInv, Positions
  <2> QED
    BY <1>1, <1>4, <2>1
<1>7. doing = "statements" /\ parameter = Len(Function.parameters)
  BY <1>1 DEF AtStatement
<1> QED
  BY <1>1, <1>2, <1>3, <1>5, <1>6, <1>7, UnderWay, QuietStep

LEMMA LocalTyped ==
    ASSUME IInv, declareLocalType
    PROVE  IInv'
<1>1. /\ doing = "annotation"
      /\ doing' = "initializer"
      /\ local' = [local EXCEPT !.type = annotation.type]
      /\ annotation' = NoAnnotation
      /\ UNCHANGED <<tables, errors, resolved, here>>
      /\ UNCHANGED <<pass, declaring, functions, symbols, topLevelNames, preludeScope, scope,
                     scopeStack, body, parameter, historyVars>>
  BY DEF declareLocalType, collectVars
<1>2. TableInv'
  BY <1>1, OtherStepInv DEF IInv, OtherStep
<1>3. Reports
  BY <1>1 DEF Reports
<1>4. /\ local' \in LocalSet
      /\ local'.name = local.name /\ local'.at = local.at
  <2>1. local \in LocalSet /\ annotation.type \in TypeSet
    BY <1>1, UnderWay
  <2> QED
    BY <1>1, <2>1 DEF LocalSet
<1>5. annotation'.at \in 0..here'
  <2>1. annotation'.at = 0 /\ here' \in Nat
    BY <1>1, UnderWay DEF NoAnnotation
  <2> QED
    BY <2>1
<1> QED
  BY <1>1, <1>2, <1>3, <1>4, <1>5, UnderWay, QuietStep

----------------------------------------------------------------------------
(* A use *)

LEMMA UseStep ==
    ASSUME IInv, NEW name \in Names, analyzeIdentifierExpr(name)
    PROVE  IInv'
<1> DEFINE u == NewUse(name)
           found == lookupIdentifier(name)
           unknown == SemanticError("UnknownIdentifier", here + 1, 0)
<1>1. /\ AtStatement \/ doing \in {"initializer", "iterable"}
      /\ here' = here + 1
      /\ resolutions' = resolutions \cup {u}
      /\ errors' = IF found = NoSymbol THEN Append(errors, unknown) ELSE errors
      /\ UNCHANGED <<tables, annotation, resolved>>
      /\ UNCHANGED <<pass, declaring, functions, topLevelNames, preludeScope, symbols, scope,
                     scopeStack, doing, local, body, parameter, blockOf, enclosing, chain>>
  BY DEF analyzeIdentifierExpr, ReadOn, collectVars, walkVars, NewUse
<1>2. doing \in {"statements", "initializer", "iterable"}
  BY <1>1 DEF AtStatement
<1>3. u = [name |-> name, at |-> here + 1, symbol |-> found, block |-> Block,
           initializes |-> IF doing = "initializer" THEN local.at ELSE 0]
  BY DEF NewUse
<1>4. here \in Nat /\ here' \in Nat
  BY <1>1 DEF IInv, TableInv
<1>5. TableInv'
  BY <1>1, OtherStepInv DEF IInv, OtherStep
<1>6. /\ IsList(errors')
      /\ \A i \in DOMAIN errors' : errors'[i].at \in 0..here'
      /\ \A e : e # unknown =>
            ((\E i \in DOMAIN errors' : errors'[i] = e) <=> \E i \in DOMAIN errors : errors[i] = e)
      /\ (\E i \in DOMAIN errors' : errors'[i] = unknown) <=> found = NoSymbol
  <2>1. /\ IsList(errors) /\ \A i \in DOMAIN errors : errors[i].at \in 0..here
        /\ DOMAIN errors = 1..Len(errors) /\ Len(errors) \in Nat
    BY ListFacts DEF IInv, Lists, Positions
  <2>2. unknown.at = here + 1
    BY DEF SemanticError
  <2>3. \A i \in DOMAIN errors : errors[i] # unknown
    BY <1>4, <2>1, <2>2
  <2> HIDE DEF unknown, found
  <2>4. CASE found = NoSymbol
    <3>1. errors' = Append(errors, unknown)
      BY <1>1, <2>4
    <3>2. /\ IsList(errors')
          /\ DOMAIN errors' = 1..(Len(errors) + 1)
          /\ \A i \in DOMAIN errors : errors'[i] = errors[i]
          /\ errors'[Len(errors) + 1] = unknown
      BY <2>1, <3>1, AppendList
    <3>3. \A i \in DOMAIN errors' : i \in DOMAIN errors \/ i = Len(errors) + 1
      BY <2>1, <3>2
    <3>4. \A i \in DOMAIN errors' : errors'[i].at \in 0..here'
      BY <1>1, <1>4, <2>1, <2>2, <3>2, <3>3
    <3>5. DOMAIN errors \subseteq DOMAIN errors' /\ Len(errors) + 1 \in DOMAIN errors'
      BY <2>1, <3>2
    <3> QED
      BY <2>4, <3>2, <3>3, <3>4, <3>5
  <2>5. CASE found # NoSymbol
    <3>1. errors' = errors
      BY <1>1, <2>5
    <3>2. \A i \in DOMAIN errors : errors[i].at \in 0..here'
      BY <1>1, <1>4, <2>1
    <3> QED
      BY <2>1, <2>3, <2>5, <3>1, <3>2
  <2> QED
    BY <2>4, <2>5
<1>7. TypeOK' /\ Lists' /\ Chains'
  <2>1. TypeOK'
    BY <1>1 DEF IInv, TypeOK, DeclarationSet, LocalSet, TypeSet
  <2>2. Lists'
    BY <1>1, <1>6 DEF IInv, Lists
  <2>3. Chains'
    BY <1>1 DEF IInv, Chains
  <2> QED
    BY <2>1, <2>2, <2>3
<1>8. Scopes'
  <2>1. \A b : ScopeOf(b)' = ScopeOf(b)
    BY <1>1, ScopeSame
  <2>2. Block' = Block
    BY <1>1 DEF Block
  <2>3. pass # "collect"
    BY <1>2 DEF IInv, Scopes
  <2>4. declaring' # NoDeclaration' => declaring # NoDeclaration
    BY <1>1 DEF NoDeclaration, Unresolved
  <2> QED
    BY <1>1, <2>1, <2>2, <2>3, <2>4 DEF IInv, Scopes
<1>9. Positions'
  <2>1. Block' = Block /\ Function' = Function
    BY <1>1 DEF Block, Function
  <2>2. u.at \in 0..here' /\ u.block \in DOMAIN enclosing
    <3>1. Len(chain) \in DOMAIN chain /\ chain \in Seq(DOMAIN enclosing)
      BY DEF IInv, TypeOK, Chains, FileBlock
    <3>2. Block \in DOMAIN enclosing
      BY <3>1 DEF Block
    <3> QED
      BY <1>1, <1>3, <1>4, <3>2
  <2>3. doing = "statements" => parameter = Len(Function.parameters)
    BY <1>1 DEF AtStatement
  <2>4. doing \in {"annotation", "initializer"} => u.initializes = local.at
    BY <1>2, <1>3
  <2>5. ~(parameter = Len(Function.parameters) /\ parameter < Len(Function.parameters))
    BY DEF IInv, Lists
  <2> HIDE DEF u
  <2>6. /\ \A id \in DOMAIN symbols : symbols[id].at \in 0..here'
        /\ \A use \in resolutions : use.at \in 0..here' /\ use.block \in DOMAIN enclosing
        /\ \A f \in DOMAIN functions : \A p \in DOMAIN functions[f].parameters :
              functions[f].parameters[p].at \in 0..here'
        /\ \A p \in DOMAIN declaring.parameters : declaring.parameters[p].at \in 0..here'
        /\ declaring.at \in 0..here'
        /\ annotation.at \in 0..here'
    BY <1>1, <1>4 DEF IInv, Positions
  <2>7. /\ doing \in {"annotation", "initializer", "iterable"} =>
              /\ parameter = Len(Function.parameters)
              /\ local.name \in Names
              /\ local.at \in 1..here'
              /\ \A id \in DOMAIN symbols : symbols[id].at < local.at
        /\ doing \in {"annotation", "initializer"} =>
              \A use \in resolutions' : use.at > local.at => use.initializes = local.at
    BY <1>1, <2>4, UnderWay
  <2>8. \A use \in resolutions' : use.at \in 0..here' /\ use.block \in DOMAIN enclosing
    BY <1>1, <2>2, <2>6
  <2> QED
    BY <1>1, <1>6, <2>1, <2>3, <2>5, <2>6, <2>7, <2>8 DEF Positions
<1>10. ResolvesLexically'
  <2>1. \A use : Candidates(use)' = Candidates(use)
    BY <1>1 DEF Candidates
  <2>2. \A use : Meaning(use)' = Meaning(use)
    BY <1>1, <2>1 DEF Meaning
  <2>3. ASSUME NEW use \in resolutions'
        PROVE  /\ use.symbol = Meaning(use)
               /\ (\E i \in DOMAIN errors' :
                      errors'[i] = SemanticError("UnknownIdentifier", use.at, 0))
                      <=> use.symbol = NoSymbol
    <3>1. CASE use = u
      <4>1. found = Meaning(u)
        BY <1>2, LookupIsMeaning
      <4>2. use.symbol = found /\ use.at = here + 1
        BY <1>3, <3>1
      <4> QED
        BY <1>6, <3>1, <4>1, <4>2
    <3>2. CASE use \in resolutions
      <4>1. use.at \in 0..here
        BY <3>2 DEF IInv, Positions
      <4>2. SemanticError("UnknownIdentifier", use.at, 0) # unknown
        BY <1>4, <4>1 DEF SemanticError
      <4>3. /\ use.symbol = Meaning(use)
            /\ (\E i \in DOMAIN errors :
                    errors[i] = SemanticError("UnknownIdentifier", use.at, 0))
                    <=> use.symbol = NoSymbol
        BY <3>2 DEF IInv, ResolvesLexically, ErrorAt
      <4> QED
        BY <1>6, <4>2, <4>3
    <3> QED
      BY <1>1, <3>1, <3>2
  <2> QED
    BY <2>2, <2>3 DEF ResolvesLexically, ErrorAt, SemanticError, NoSymbol
<1> QED
  BY <1>5, <1>7, <1>8, <1>9, <1>10 DEF IInv

----------------------------------------------------------------------------
(* Steps that declare a name *)

\* The blocks there are stay as they are.
BlocksKept ==
    /\ DOMAIN enclosing \subseteq DOMAIN enclosing'
    /\ \A b \in DOMAIN enclosing : enclosing'[b] = enclosing[b]

LEMMA SymbolStep ==
    ASSUME IInv, NEW symbol, NEW into \in DOMAIN enclosing', addSymbol(symbol, into), BlocksKept,
           symbol.kind \in {"Function", "Builtin", "Parameter", "Local"}, symbol.at \in 0..here
    PROVE  /\ Len(symbols) + 1 \in 0..Len(symbols')
           /\ [Names -> 0..Len(symbols)] \subseteq [Names -> 0..Len(symbols')]
           /\ IsList(symbols')
           /\ DOMAIN symbols' = DOMAIN symbols \cup {Len(symbols) + 1}
           /\ \A id \in DOMAIN symbols : symbols'[id] = symbols[id] /\ blockOf'[id] = blockOf[id]
           /\ symbols'[Len(symbols) + 1] = symbol /\ blockOf'[Len(symbols) + 1] = into
           /\ Len(blockOf') = Len(symbols')
           /\ blockOf' \in Seq(DOMAIN enclosing')
           /\ \A id \in DOMAIN symbols' :
                 /\ symbols'[id].kind \in {"Function", "Builtin", "Parameter", "Local"}
                 /\ symbols'[id].at \in 0..here
<1> DEFINE new == Len(symbols) + 1
<1>1. /\ IsList(symbols) /\ Len(blockOf) = Len(symbols) /\ blockOf \in Seq(DOMAIN enclosing)
      /\ symbols' = Append(symbols, symbol) /\ blockOf' = Append(blockOf, into)
  BY DEF IInv, Lists, Chains, TypeOK, addSymbol
<1>2. Len(symbols) \in Nat /\ DOMAIN symbols = 1..Len(symbols) /\ DOMAIN blockOf = 1..Len(symbols)
  BY <1>1, ListFacts
<1>3. /\ IsList(symbols') /\ Len(symbols') = new /\ DOMAIN symbols' = 1..new
      /\ \A i \in DOMAIN symbols : symbols'[i] = symbols[i]
      /\ symbols'[new] = symbol
  BY <1>1, AppendList
<1>4. blockOf \in Seq(DOMAIN enclosing')
  BY <1>1, SeqMonotonic DEF BlocksKept
<1>5. /\ blockOf' \in Seq(DOMAIN enclosing') /\ Len(blockOf') = new
      /\ \A i \in DOMAIN symbols : blockOf'[i] = blockOf[i]
      /\ blockOf'[new] = into
  BY <1>1, <1>2, <1>4, AppendProperties
<1>6. \A id \in DOMAIN symbols :
          /\ symbols[id].kind \in {"Function", "Builtin", "Parameter", "Local"}
          /\ symbols[id].at \in 0..here
  BY DEF IInv, TypeOK, Positions
<1>7. DOMAIN symbols' = DOMAIN symbols \cup {new}
  BY <1>2, <1>3
<1>8. [Names -> 0..Len(symbols)] \subseteq [Names -> 0..new]
  <2>1. 0..Len(symbols) \subseteq 0..new
    BY <1>2
  <2> QED
    BY <2>1
<1> QED
  BY <1>2, <1>3, <1>5, <1>6, <1>7, <1>8

\* The declaration's scope is its block's again, the others are as they were.
LEMMA ScopeDeclared ==
    ASSUME IInv, NEW symbol, NEW into, symbol.name \in Names, addSymbol(symbol, into)
    PROVE  /\ ScopeOf(into)' =
                  IF ScopeOf(into)[symbol.name] = NoSymbol
                  THEN [ScopeOf(into) EXCEPT ![symbol.name] = Len(symbols) + 1]
                  ELSE ScopeOf(into)
           /\ \A block : block # into => ScopeOf(block)' = ScopeOf(block)
BY ScopeAppend

LEMMA NoneTyped == NoDeclaration \in DeclarationSet /\ NoLocal \in LocalSet
<1>1. NoDeclaration \in DeclarationSet
  <2>1. <<>> \in Seq([name : Names, at : Nat]) /\ <<>> \in Seq(TypeSet)
    OBVIOUS
  <2> QED
    BY <2>1 DEF NoDeclaration, DeclarationSet, NoSymbol
<1>2. NoLocal \in LocalSet
  <2>1. Unresolved \in TypeSet
    BY DEF Unresolved, TypeSet
  <2> QED
    BY <2>1 DEF NoLocal, LocalSet
<1> QED
  BY <1>1, <1>2

LEMMA FunctionAdded ==
    ASSUME IInv, addFunction
    PROVE  IInv'
<1> DEFINE symbol == Symbol("Function", declaring.name, declaring.at, Unresolved, declaring.types)
           function == [name |-> declaring.name, at |-> declaring.at,
                        parameters |-> declaring.parameters]
<1>1. /\ declaring # NoDeclaration
      /\ addSymbol(symbol, FileBlock)
      /\ functions' = Append(functions, function)
      /\ topLevelNames' = IF declaring.existing = NoSymbol
                          THEN [topLevelNames EXCEPT ![declaring.name] = Len(symbols) + 1]
                          ELSE topLevelNames
      /\ declaring' = NoDeclaration
      /\ annotation' = NoAnnotation
      /\ UNCHANGED <<tables, errors, resolved, here, pass, preludeScope, scope, scopeStack,
                     doing, local, body, parameter, resolutions, enclosing, chain>>
  BY DEF addFunction, walkVars
<1>2. /\ pass = "collect" /\ doing = "file" /\ resolutions = {}
      /\ declaring.name \in Names /\ declaring.existing = topLevelNames[declaring.name]
      /\ \A id \in DOMAIN symbols : blockOf[id] = FileBlock
      /\ topLevelNames = ScopeOf(FileBlock)
      /\ Len(chain) = 2
  BY <1>1 DEF IInv, Scopes
<1>3. symbol.name = declaring.name /\ symbol.kind = "Function" /\ symbol.at = declaring.at
  BY DEF Symbol
<1> HIDE DEF symbol
<1>4. declaring.at \in 0..here /\ FileBlock \in DOMAIN enclosing' /\ BlocksKept
  <2>1. FileBlock \in DOMAIN enclosing
    BY ListFacts DEF IInv, Lists, Chains, FileBlock
  <2> QED
    BY <1>1, <2>1 DEF IInv, Positions, BlocksKept
<1>5. /\ Len(symbols) + 1 \in 0..Len(symbols')
      /\ [Names -> 0..Len(symbols)] \subseteq [Names -> 0..Len(symbols')]
      /\ IsList(symbols')
      /\ DOMAIN symbols' = DOMAIN symbols \cup {Len(symbols) + 1}
      /\ \A id \in DOMAIN symbols : symbols'[id] = symbols[id] /\ blockOf'[id] = blockOf[id]
      /\ blockOf'[Len(symbols) + 1] = FileBlock
      /\ Len(blockOf') = Len(symbols')
      /\ blockOf' \in Seq(DOMAIN enclosing')
      /\ \A id \in DOMAIN symbols' :
            /\ symbols'[id].kind \in {"Function", "Builtin", "Parameter", "Local"}
            /\ symbols'[id].at \in 0..here
  BY <1>1, <1>3, <1>4, SymbolStep
<1>6. TableInv'
  BY <1>1, OtherStepInv DEF IInv, OtherStep
<1>7. topLevelNames' = ScopeOf(FileBlock)'
  BY <1>1, <1>2, <1>3, ScopeDeclared
<1>8. NoDeclaration \in DeclarationSet /\ DOMAIN NoDeclaration.parameters = {}
      /\ NoDeclaration.at = 0 /\ NoDeclaration.parameters = <<>> /\ NoAnnotation.at = 0
  <2>1. NoDeclaration.at = 0 /\ NoDeclaration.parameters = <<>>
    BY DEF NoDeclaration
  <2>2. NoAnnotation.at = 0
    BY DEF NoAnnotation
  <2> QED
    BY <2>1, <2>2, NoneTyped
<1>9. /\ IsList(functions')
      /\ DOMAIN functions' = DOMAIN functions \cup {Len(functions) + 1}
      /\ \A f \in DOMAIN functions : functions'[f] = functions[f]
      /\ functions'[Len(functions) + 1] = function
      /\ Len(functions') = Len(functions) + 1 /\ Len(functions) \in Nat
  <2>1. IsList(functions) /\ Len(functions) \in Nat /\ DOMAIN functions = 1..Len(functions)
    BY ListFacts DEF IInv, Lists
  <2>2. 1..(Len(functions) + 1) = 1..Len(functions) \cup {Len(functions) + 1}
    BY <2>1
  <2> QED
    BY <1>1, <2>1, <2>2, AppendList
<1>10. TypeOK'
  <2>1. /\ topLevelNames \in [Names -> 0..Len(symbols)]
        /\ preludeScope \in [Names -> 0..Len(symbols)]
        /\ scope \in [Names -> 0..Len(symbols)]
        /\ scopeStack \in Seq([Names -> 0..Len(symbols)])
        /\ body \in 0..Len(functions)
        /\ pass \in {"collect", "bodies"}
        /\ local \in LocalSet
        /\ chain \in Seq(DOMAIN enclosing)
    BY DEF IInv, TypeOK
  <2>2. topLevelNames' \in [Names -> 0..Len(symbols')]
    BY <1>1, <1>5, <2>1
  <2>3. /\ preludeScope \in [Names -> 0..Len(symbols')]
        /\ scope \in [Names -> 0..Len(symbols')]
    BY <1>5, <2>1
  <2>4. scopeStack \in Seq([Names -> 0..Len(symbols')])
    BY <1>5, <2>1, SeqMonotonic
  <2>5. body \in 0..Len(functions')
    BY <1>9, <2>1
  <2> QED
    BY <1>1, <1>5, <1>8, <2>1, <2>2, <2>3, <2>4, <2>5 DEF TypeOK, DeclarationSet, LocalSet, TypeSet
<1>11. Lists'
  <2>1. /\ IsList(errors) /\ IsList(enclosing) /\ parameter \in Nat
        /\ IsList(declaring.parameters)
        /\ \A p \in DOMAIN declaring.parameters : declaring.parameters[p].name \in Names
        /\ \A f \in DOMAIN functions :
              /\ IsList(functions[f].parameters)
              /\ \A p \in DOMAIN functions[f].parameters : functions[f].parameters[p].name \in Names
    BY DEF IInv, Lists
  <2>2. function.parameters = declaring.parameters
    OBVIOUS
  <2>3. IsList(NoDeclaration.parameters)
    BY <1>8 DEF IsList
  <2> HIDE DEF function
  <2> QED
    BY <1>1, <1>2, <1>5, <1>8, <1>9, <2>1, <2>2, <2>3 DEF Lists
<1>12. Chains'
  BY <1>1, <1>5 DEF IInv, Chains
<1>13. Scopes'
  <2>1. \A id \in DOMAIN symbols' : blockOf'[id] = FileBlock
    BY <1>2, <1>5
  <2>2. declaring' = NoDeclaration'
    BY <1>1 DEF NoDeclaration, Unresolved
  <2> QED
    BY <1>1, <1>2, <1>7, <2>1, <2>2 DEF Scopes
<1>14. Positions'
  <2>1. /\ \A i \in DOMAIN errors : errors[i].at \in 0..here
        /\ \A f \in DOMAIN functions : \A p \in DOMAIN functions[f].parameters :
              functions[f].parameters[p].at \in 0..here
        /\ \A p \in DOMAIN declaring.parameters : declaring.parameters[p].at \in 0..here
    BY DEF IInv, Positions
  <2>2. function.parameters = declaring.parameters
    OBVIOUS
  <2>3. 0 \in 0..here
    BY DEF IInv, TableInv
  <2> HIDE DEF function
  <2>4. \A f \in DOMAIN functions' : \A p \in DOMAIN functions'[f].parameters :
            functions'[f].parameters[p].at \in 0..here
    BY <1>9, <2>1, <2>2
  <2> QED
    BY <1>1, <1>2, <1>5, <1>8, <2>1, <2>3, <2>4 DEF Positions
<1>15. ResolvesLexically'
  BY <1>1, <1>2 DEF ResolvesLexically
<1> QED
  BY <1>6, <1>10, <1>11, <1>12, <1>13, <1>14, <1>15 DEF IInv

LEMMA ConcatList ==
    ASSUME NEW s, IsList(s), NEW f, IsList(f)
    PROVE  /\ IsList(s \o f)
           /\ Len(s \o f) = Len(s) + Len(f)
           /\ \A i \in DOMAIN s : (s \o f)[i] = s[i]
           /\ \A i \in DOMAIN f : (s \o f)[Len(s) + i] = f[i]
<1> DEFINE S == {s[i] : i \in DOMAIN s} \cup {f[i] : i \in DOMAIN f}
           t == s \o f
<1>1. s \in Seq(S) /\ f \in Seq(S)
  <2>1. {s[i] : i \in DOMAIN s} \subseteq S /\ {f[i] : i \in DOMAIN f} \subseteq S
    OBVIOUS
  <2> HIDE DEF S
  <2> QED
    BY <2>1, SeqMonotonic DEF IsList
<1>2. DOMAIN s = 1..Len(s) /\ Len(s) \in Nat /\ DOMAIN f = 1..Len(f) /\ Len(f) \in Nat
  BY ListFacts
<1> HIDE DEF S
<1>3. /\ t \in Seq(S)
      /\ Len(t) = Len(s) + Len(f)
      /\ \A i \in 1..(Len(s) + Len(f)) : t[i] = IF i <= Len(s) THEN s[i] ELSE f[i - Len(s)]
  BY <1>1, ConcatProperties
<1> HIDE DEF t
<1>4. \A i \in 1..Len(s) : t[i] = s[i]
  BY <1>2, <1>3
<1>5. \A i \in 1..Len(f) : t[Len(s) + i] = f[i]
  BY <1>2, <1>3
<1>6. IsList(t)
  <2>1. Len(t) \in Nat /\ DOMAIN t = 1..Len(t)
    BY <1>3
  <2>2. \A i \in 1..Len(t) : t[i] \in {t[j] : j \in DOMAIN t}
    BY <2>1
  <2>3. t \in Seq({t[i] : i \in DOMAIN t})
    BY <1>3, <2>1, <2>2
  <2> QED
    BY <2>3 DEF IsList
<1> QED
  BY <1>2, <1>3, <1>4, <1>5, <1>6 DEF t

\* The prelude's symbols come after those of pass 1.
LEMMA PreludeSymbols ==
    ASSUME ResolutionAssumption, IInv, buildPreludeScope
    PROVE  LET n == Len(symbols)
               m == Len(Builtins)
           IN  /\ m \in Nat /\ n \in Nat /\ DOMAIN symbols = 1..n
               /\ IsList(symbols') /\ Len(symbols') = n + m /\ DOMAIN symbols' = 1..(n + m)
               /\ \A id \in 1..n : symbols'[id] = symbols[id] /\ blockOf'[id] = blockOf[id]
               /\ \A i \in 1..m : /\ symbols'[n + i] = Builtin(Builtins[i])
                                  /\ blockOf'[n + i] = PreludeBlock
               /\ Len(blockOf') = n + m /\ blockOf' \in Seq(DOMAIN enclosing)
               /\ \A id \in DOMAIN symbols' : id \in 1..n \/ \E i \in 1..m : id = n + i
<1> DEFINE n == Len(symbols)
           m == Len(Builtins)
           builtins == [i \in DOMAIN Builtins |-> Builtin(Builtins[i])]
           blocks == [i \in DOMAIN Builtins |-> PreludeBlock]
<1>1. symbols' = symbols \o builtins /\ blockOf' = blockOf \o blocks
  BY DEF buildPreludeScope
<1>2. /\ m \in Nat /\ DOMAIN Builtins = 1..m
      /\ \A i \in 1..m : Builtins[i] \in Names
  BY DEF ResolutionAssumption
<1>3. /\ n \in Nat /\ DOMAIN symbols = 1..n /\ IsList(symbols)
      /\ Len(blockOf) = n /\ blockOf \in Seq(DOMAIN enclosing)
  BY ListFacts DEF IInv, Lists, Chains, TypeOK
<1>4. /\ IsList(builtins) /\ Len(builtins) = m /\ DOMAIN builtins = 1..m
      /\ IsList(blocks) /\ Len(blocks) = m /\ DOMAIN blocks = 1..m
      /\ blocks \in Seq(DOMAIN enclosing)
      /\ \A i \in 1..m : builtins[i] = Builtin(Builtins[i]) /\ blocks[i] = PreludeBlock
  <2>1. PreludeBlock \in DOMAIN enclosing
    BY ListFacts DEF IInv, Lists, Chains, FileBlock, PreludeBlock
  <2> QED
    BY <1>2, <2>1 DEF IsList
<1> HIDE DEF builtins, blocks
<1>5. /\ IsList(symbols') /\ Len(symbols') = n + m /\ DOMAIN symbols' = 1..(n + m)
      /\ \A id \in 1..n : symbols'[id] = symbols[id] /\ blockOf'[id] = blockOf[id]
      /\ \A i \in 1..m : symbols'[n + i] = Builtin(Builtins[i]) /\ blockOf'[n + i] = PreludeBlock
      /\ Len(blockOf') = n + m /\ blockOf' \in Seq(DOMAIN enclosing)
  <2>1. /\ IsList(symbols') /\ Len(symbols') = n + m
        /\ \A id \in 1..n : symbols'[id] = symbols[id]
        /\ \A i \in 1..m : symbols'[n + i] = builtins[i]
    <3>1. /\ IsList(symbols \o builtins)
          /\ Len(symbols \o builtins) = Len(symbols) + Len(builtins)
          /\ \A i \in DOMAIN symbols : (symbols \o builtins)[i] = symbols[i]
          /\ \A i \in DOMAIN builtins : (symbols \o builtins)[Len(symbols) + i] = builtins[i]
      <4>1. IsList(symbols) /\ IsList(builtins)
        BY <1>3, <1>4
      <4>2. IsList(symbols \o builtins) /\ Len(symbols \o builtins) = Len(symbols) + Len(builtins)
        BY ONLY <4>1, ConcatList
      <4>3. \A i \in DOMAIN symbols : (symbols \o builtins)[i] = symbols[i]
        BY ONLY <4>1, ConcatList
      <4>4. \A i \in DOMAIN builtins : (symbols \o builtins)[Len(symbols) + i] = builtins[i]
        <5>1. /\ symbols \in Seq({symbols[i] : i \in DOMAIN symbols})
              /\ builtins \in Seq({builtins[i] : i \in DOMAIN builtins})
          BY <1>3, <1>4 DEF IsList
        <5> QED
          BY <5>1
      <4> QED
        BY <4>2, <4>3, <4>4
    <3> QED
      BY <1>1, <1>3, <1>4, <3>1
  <2>2. IsList(blockOf) /\ DOMAIN blockOf = 1..n
    BY <1>3 DEF IsList
  <2>3. /\ Len(blockOf') = n + m
        /\ \A id \in 1..n : blockOf'[id] = blockOf[id]
        /\ \A i \in 1..m : blockOf'[n + i] = blocks[i]
    <3>1. /\ Len(blockOf \o blocks) = Len(blockOf) + Len(blocks)
          /\ \A i \in DOMAIN blockOf : (blockOf \o blocks)[i] = blockOf[i]
          /\ \A i \in DOMAIN blocks : (blockOf \o blocks)[Len(blockOf) + i] = blocks[i]
      <4>1. IsList(blockOf) /\ IsList(blocks)
        BY <1>4, <2>2
      <4>2. Len(blockOf \o blocks) = Len(blockOf) + Len(blocks)
        BY ONLY <4>1, ConcatList
      <4>3. \A i \in DOMAIN blockOf : (blockOf \o blocks)[i] = blockOf[i]
        BY ONLY <4>1, ConcatList
      <4>4. \A i \in DOMAIN blocks : (blockOf \o blocks)[Len(blockOf) + i] = blocks[i]
        BY <1>3, <1>4
      <4> QED
        BY <4>2, <4>3, <4>4
    <3> QED
      BY <1>1, <1>3, <1>4, <2>2, <3>1
  <2>4. blockOf' \in Seq(DOMAIN enclosing)
    BY <1>1, <1>3, <1>4, ConcatProperties
  <2> QED
    BY <1>4, <2>1, <2>3, <2>4, ListFacts
<1>6. \A id \in DOMAIN symbols' : id \in 1..n \/ \E i \in 1..m : id = n + i
  <2> SUFFICES ASSUME NEW id \in 1..(n + m), id \notin 1..n
               PROVE  id - n \in 1..m /\ id = n + (id - n)
    BY <1>5
  <2> QED
    BY <1>2, <1>3
<1> QED
  BY <1>2, <1>3, <1>5, <1>6

LEMMA PreludeBuilt ==
    ASSUME ResolutionAssumption, IInv, buildPreludeScope
    PROVE  IInv'
<1> DEFINE n == Len(symbols)
           m == Len(Builtins)
<1>1. /\ pass = "collect" /\ declaring = NoDeclaration /\ pass' = "bodies"
      /\ preludeScope' = [name \in Names |->
             IF \E i \in DOMAIN Builtins : Builtins[i] = name
             THEN n + CHOOSE i \in DOMAIN Builtins : Builtins[i] = name
             ELSE NoSymbol]
      /\ UNCHANGED <<tables, errors, annotation, resolved, here, declaring, functions,
                     topLevelNames, scope, scopeStack, doing, local, body, parameter,
                     resolutions, enclosing, chain>>
  BY DEF buildPreludeScope, typeVars, walkVars, tables
<1>2. /\ doing = "file" /\ resolutions = {}
      /\ \A id \in DOMAIN symbols : blockOf[id] = FileBlock
      /\ topLevelNames = ScopeOf(FileBlock)
      /\ Len(chain) = 2
  BY <1>1 DEF IInv, Scopes
<1>3. /\ m \in Nat /\ DOMAIN Builtins = 1..m
      /\ \A i \in 1..m : Builtins[i] \in Names
      /\ \A i, j \in 1..m : Builtins[i] = Builtins[j] => i = j
  BY DEF ResolutionAssumption
<1>4. /\ n \in Nat /\ DOMAIN symbols = 1..n /\ IsList(symbols)
      /\ Len(blockOf) = n /\ blockOf \in Seq(DOMAIN enclosing)
  BY ListFacts DEF IInv, Lists, Chains, TypeOK
<1>5. /\ IsList(symbols') /\ Len(symbols') = n + m /\ DOMAIN symbols' = 1..(n + m)
      /\ \A id \in 1..n : symbols'[id] = symbols[id] /\ blockOf'[id] = blockOf[id]
      /\ \A i \in 1..m : symbols'[n + i] = Builtin(Builtins[i]) /\ blockOf'[n + i] = PreludeBlock
      /\ Len(blockOf') = n + m /\ blockOf' \in Seq(DOMAIN enclosing)
  BY PreludeSymbols
<1>6. \A id \in DOMAIN symbols' : id \in 1..n \/ \E i \in 1..m : id = n + i
  BY PreludeSymbols
<1>7. PreludeBlock # FileBlock
  BY DEF PreludeBlock, FileBlock
<1>8. ScopeOf(FileBlock)' = ScopeOf(FileBlock)
  <2>1. \A name : Declared(FileBlock, name)' = Declared(FileBlock, name)
    BY <1>3, <1>4, <1>5, <1>6, <1>7 DEF Declared
  <2> QED
    BY <2>1 DEF ScopeOf
<1>9. ASSUME NEW name \in Names
       PROVE  /\ preludeScope'[name] = ScopeOf(PreludeBlock)'[name]
              /\ preludeScope'[name] \in 0..(n + m)
  <2>1. \A id : id \in Declared(PreludeBlock, name)'
                    <=> \E i \in 1..m : id = n + i /\ Builtins[i] = name
    <3>1. \A i \in 1..m : Builtin(Builtins[i]).name = Builtins[i]
      BY DEF Builtin, Symbol
    <3>2. \A i \in 1..m : n + i \in DOMAIN symbols'
      BY <1>3, <1>4, <1>5
    <3>3. \A id : id \in Declared(PreludeBlock, name)'
              <=> id \in DOMAIN symbols' /\ blockOf'[id] = PreludeBlock /\ symbols'[id].name = name
      BY DEF Declared, PreludeBlock
    <3>4. \A id \in 1..n : blockOf'[id] # PreludeBlock
      BY <1>2, <1>4, <1>5, <1>7
    <3>5. \A i \in 1..m : blockOf'[n + i] = PreludeBlock /\ symbols'[n + i].name = Builtins[i]
      BY <1>5, <3>1
    <3>6. ASSUME NEW id, id \in Declared(PreludeBlock, name)'
          PROVE  \E i \in 1..m : id = n + i /\ Builtins[i] = name
      <4>1. id \in DOMAIN symbols' /\ blockOf'[id] = PreludeBlock /\ symbols'[id].name = name
        BY <3>3, <3>6
      <4>2. PICK i \in 1..m : id = n + i
        BY <1>6, <3>4, <4>1
      <4> QED
        BY <3>5, <4>1, <4>2
    <3>7. ASSUME NEW i \in 1..m, Builtins[i] = name PROVE n + i \in Declared(PreludeBlock, name)'
      BY <3>2, <3>3, <3>5, <3>7
    <3> QED
      BY <3>6, <3>7
  <2>2. CASE \E i \in 1..m : Builtins[i] = name
    <3>1. PICK i \in 1..m : Builtins[i] = name
      BY <2>2
    <3>2. (CHOOSE j \in DOMAIN Builtins : Builtins[j] = name) = i
      BY <1>3, <3>1
    <3>3. preludeScope'[name] = n + i
      BY <1>1, <1>3, <3>1, <3>2
    <3>4. Declared(PreludeBlock, name)' = {n + i}
      BY <1>3, <2>1, <3>1
    <3>5. n + i \in Nat /\ n + i \in 0..(n + m)
      BY <1>3, <1>4
    <3>6. First({n + i}) = n + i
      BY <3>5, FirstIs
    <3> QED
      BY <3>3, <3>4, <3>5, <3>6 DEF ScopeOf
  <2>3. CASE ~\E i \in 1..m : Builtins[i] = name
    <3>1. preludeScope'[name] = NoSymbol
      BY <1>1, <1>3, <2>3
    <3>2. Declared(PreludeBlock, name)' = {}
      BY <2>1, <2>3
    <3> QED
      BY <1>3, <1>4, <3>1, <3>2 DEF ScopeOf, NoSymbol
  <2> QED
    BY <2>2, <2>3
<1>10. preludeScope' = ScopeOf(PreludeBlock)' /\ preludeScope' \in [Names -> 0..Len(symbols')]
  <2>1. preludeScope' = [name \in Names |-> preludeScope'[name]]
    BY <1>1
  <2>2. ScopeOf(PreludeBlock)' = [name \in Names |-> ScopeOf(PreludeBlock)'[name]]
    BY DEF ScopeOf
  <2> QED
    BY <1>5, <1>9, <2>1, <2>2
<1>11. TableInv'
  BY <1>1, OtherStepInv DEF IInv, OtherStep
<1>12. TypeOK'
  <2>1. /\ topLevelNames \in [Names -> 0..n] /\ scope \in [Names -> 0..n]
        /\ scopeStack \in Seq([Names -> 0..n])
        /\ body \in 0..Len(functions)
        /\ declaring \in DeclarationSet
        /\ local \in LocalSet
        /\ chain \in Seq(DOMAIN enclosing)
        /\ \A id \in DOMAIN symbols :
              symbols[id].kind \in {"Function", "Builtin", "Parameter", "Local"}
    BY DEF IInv, TypeOK
  <2>2. [Names -> 0..n] \subseteq [Names -> 0..Len(symbols')]
    <3>1. 0..n \subseteq 0..(n + m)
      BY <1>3, <1>4
    <3> QED
      BY <1>5, <3>1
  <2>3. scopeStack \in Seq([Names -> 0..Len(symbols')])
    BY <2>1, <2>2, SeqMonotonic
  <2>4. \A id \in DOMAIN symbols' :
            symbols'[id].kind \in {"Function", "Builtin", "Parameter", "Local"}
    <3>1. \A i \in 1..m : Builtin(Builtins[i]).kind = "Builtin"
      BY DEF Builtin, Symbol
    <3> TAKE id \in DOMAIN symbols'
    <3>2. CASE id \in 1..n
      BY <1>4, <1>5, <2>1, <3>2
    <3>3. CASE \E i \in 1..m : id = n + i
      BY <1>5, <3>1, <3>3
    <3> QED
      BY <1>6, <3>2, <3>3
  <2> QED
    BY <1>1, <1>5, <1>10, <2>1, <2>2, <2>3, <2>4 DEF TypeOK, DeclarationSet, LocalSet, TypeSet
<1>13. Lists'
  BY <1>1, <1>5 DEF IInv, Lists
<1>14. Chains'
  BY <1>1, <1>5 DEF IInv, Chains
<1>15. Scopes'
  <2>1. declaring' = NoDeclaration'
    BY <1>1 DEF NoDeclaration, Unresolved
  <2> QED
    BY <1>1, <1>2, <1>8, <1>10, <2>1 DEF Scopes
<1>16. Positions'
  <2>1. \A id \in DOMAIN symbols' : symbols'[id].at \in 0..here
    <3>1. 0 \in 0..here
      BY DEF IInv, TableInv
    <3>2. \A id \in DOMAIN symbols : symbols[id].at \in 0..here
      BY DEF IInv, Positions
    <3>3. \A i \in 1..m : Builtin(Builtins[i]).at = 0
      BY DEF Builtin, Symbol
    <3> TAKE id \in DOMAIN symbols'
    <3>4. CASE id \in 1..n
      BY <1>4, <1>5, <3>2, <3>4
    <3>5. CASE \E i \in 1..m : id = n + i
      BY <1>5, <3>1, <3>3, <3>5
    <3> QED
      BY <1>6, <3>4, <3>5
  <2> QED
    BY <1>1, <1>2, <2>1 DEF IInv, Positions
<1>17. ResolvesLexically'
  BY <1>1, <1>2 DEF ResolvesLexically
<1> QED
  BY <1>11, <1>12, <1>13, <1>14, <1>15, <1>16, <1>17 DEF IInv

\* What the two steps that declare into the current scope have in common
LEMMA DeclaredHere ==
    ASSUME IInv, NEW kind \in {"Parameter", "Local"}, NEW name \in Names, NEW at \in 0..here, NEW type,
           doing \in {"statements", "initializer"},
           declareInScope(scope, kind, name, at, type, Block),
           UNCHANGED <<tables, annotation, resolved, here, collectVars, scopeStack, body,
                       resolutions, enclosing, chain>>,
           doing' = "statements",
           local' \in LocalSet,
           parameter' \in Nat,
           \A use \in resolutions :
               \/ Block \notin enclosing[use.block]
               \/ ~(at < use.at)
               \/ use.initializes # 0 /\ at = use.initializes,
           parameter' < Len(Function.parameters) =>
               \A use \in resolutions : Block \notin enclosing[use.block]
    PROVE  IInv'
<1> DEFINE symbol == Symbol(kind, name, at, type, <<>>)
           new == Len(symbols) + 1
<1>1. /\ addSymbol(symbol, Block)
      /\ errors' = DuplicateError(scope[name], at)
      /\ scope' = IF scope[name] = NoSymbol THEN [scope EXCEPT ![name] = new] ELSE scope
  BY DEF declareInScope
<1>2. symbol.name = name /\ symbol.kind = kind /\ symbol.at = at
  BY DEF Symbol
<1> HIDE DEF symbol
<1>3. UNCHANGED <<pass, declaring, functions, topLevelNames, preludeScope>>
  BY DEF collectVars
<1>4. /\ chain \in Seq(DOMAIN enclosing) /\ Len(chain) \in Nat /\ DOMAIN chain = 1..Len(chain)
      /\ Len(chain) > 2 /\ Len(chain) = Len(scopeStack) + 1
      /\ \A i, j \in DOMAIN chain : i < j => chain[i] < chain[j]
      /\ \A j \in DOMAIN chain : chain[j] \in Nat
      /\ chain[1] = PreludeBlock /\ chain[2] = FileBlock
      /\ DOMAIN scopeStack = 1..Len(scopeStack)
  <2>1. chain \in Seq(DOMAIN enclosing) /\ DOMAIN enclosing = 1..Len(enclosing)
    BY ListFacts DEF IInv, Lists, TypeOK
  <2>2. \A j \in DOMAIN chain : chain[j] \in Nat
    BY <2>1
  <2>3. scopeStack \in Seq([Names -> 0..Len(symbols)])
    BY DEF IInv, TypeOK
  <2> QED
    BY <2>1, <2>2, <2>3 DEF IInv, Scopes, Chains
<1>5. /\ Block = chain[Len(chain)] /\ Block \in DOMAIN enclosing'
      /\ \A i \in 1..(Len(chain) - 1) : chain[i] # Block
  <2>1. Len(chain) \in DOMAIN chain
    BY <1>4
  <2>2. \A i \in 1..(Len(chain) - 1) : i \in DOMAIN chain /\ chain[i] < chain[Len(chain)]
    BY <1>4, <2>1, SMTT(20)
  <2> QED
    BY <1>4, <2>1, <2>2 DEF Block
<1>6. BlocksKept
  BY DEF BlocksKept
<1>7. /\ Len(symbols) + 1 \in 0..Len(symbols')
      /\ [Names -> 0..Len(symbols)] \subseteq [Names -> 0..Len(symbols')]
      /\ IsList(symbols')
      /\ DOMAIN symbols' = DOMAIN symbols \cup {new}
      /\ \A id \in DOMAIN symbols : symbols'[id] = symbols[id] /\ blockOf'[id] = blockOf[id]
      /\ symbols'[new] = symbol /\ blockOf'[new] = Block
      /\ Len(blockOf') = Len(symbols')
      /\ blockOf' \in Seq(DOMAIN enclosing')
      /\ \A id \in DOMAIN symbols' :
            /\ symbols'[id].kind \in {"Function", "Builtin", "Parameter", "Local"}
            /\ symbols'[id].at \in 0..here
  BY <1>1, <1>2, <1>5, <1>6, SymbolStep
<1>8. scope' = ScopeOf(Block)' /\ \A b : b # Block => ScopeOf(b)' = ScopeOf(b)
  <2>1. PICK block : block = Block
    OBVIOUS
  <2>2. scope = ScopeOf(block) /\ Block' = block
    BY <2>1 DEF IInv, Scopes, Block
  <2>3. addSymbol(symbol, block)
    BY <1>1, <2>1
  <2>4. /\ ScopeOf(block)' = IF ScopeOf(block)[name] = NoSymbol
                             THEN [ScopeOf(block) EXCEPT ![name] = new]
                             ELSE ScopeOf(block)
        /\ \A b : b # block => ScopeOf(b)' = ScopeOf(b)
    BY <1>2, <2>3, ScopeDeclared
  <2>5. ScopeOf(Block)' = ScopeOf(block)'
    BY <2>2
  <2> QED
    BY <1>1, <2>1, <2>2, <2>4, <2>5
<1>9. here \in Nat
  BY DEF IInv, TableInv
<1>10. SameUnknown /\ IsList(errors') /\ \A i \in DOMAIN errors' : errors'[i].at \in 0..here'
  <2>1. Reports
    BY <1>1, DuplicateReports
  <2> QED
    BY <1>9, <2>1, ErrorStep
<1>11. TableInv'
  BY OtherStepInv DEF IInv, OtherStep
<1>12. TypeOK'
  <2>1. /\ topLevelNames \in [Names -> 0..Len(symbols)]
        /\ preludeScope \in [Names -> 0..Len(symbols)]
        /\ scope \in [Names -> 0..Len(symbols)]
        /\ scopeStack \in Seq([Names -> 0..Len(symbols)])
    BY DEF IInv, TypeOK
  <2>2. scope' \in [Names -> 0..Len(symbols')]
    BY <1>1, <1>7, <2>1
  <2>3. /\ preludeScope \in [Names -> 0..Len(symbols')]
        /\ topLevelNames \in [Names -> 0..Len(symbols')]
    BY <1>7, <2>1
  <2>4. scopeStack \in Seq([Names -> 0..Len(symbols')])
    BY <1>7, <2>1, SeqMonotonic
  <2>5. /\ pass \in {"collect", "bodies"}
        /\ declaring \in DeclarationSet
        /\ body \in 0..Len(functions)
    BY DEF IInv, TypeOK
  <2> QED
    BY <1>3, <1>4, <1>7, <2>2, <2>3, <2>4, <2>5 DEF TypeOK, DeclarationSet, LocalSet, TypeSet
<1>13. Lists'
  BY <1>3, <1>7, <1>10, SMTT(20) DEF IInv, Lists
<1>14. Chains'
  BY <1>7, SMTT(20) DEF IInv, Chains
<1>15. Scopes'
  <2>1. /\ topLevelNames = ScopeOf(FileBlock)
        /\ pass = "bodies" => preludeScope = ScopeOf(PreludeBlock)
        /\ pass = "collect" => doing = "file"
        /\ declaring # NoDeclaration => pass = "collect"
        /\ \A i \in DOMAIN scopeStack : scopeStack[i] = ScopeOf(chain[i])
    BY DEF IInv, Scopes
  <2>2. FileBlock # Block /\ PreludeBlock # Block
    BY <1>4, <1>5
  <2>3. \A i \in DOMAIN scopeStack : chain[i] # Block
    BY <1>4, <1>5
  <2>4. topLevelNames' = ScopeOf(FileBlock)' /\ (pass = "bodies" => preludeScope' = ScopeOf(PreludeBlock)')
    BY <1>3, <1>8, <2>1, <2>2
  <2>5. \A i \in DOMAIN scopeStack : ScopeOf(chain[i])' = ScopeOf(chain[i])
    <3> TAKE i \in DOMAIN scopeStack
    <3>1. PICK b : b = chain[i]
      OBVIOUS
    <3>2. ScopeOf(b)' = ScopeOf(b) /\ b = chain'[i]
      BY <1>8, <2>3, <3>1
    <3> QED
      BY <3>1, <3>2
  <2>6. declaring' # NoDeclaration' => declaring # NoDeclaration
    BY <1>3 DEF NoDeclaration, Unresolved
  <2> QED
    BY <1>3, <1>4, <1>8, <2>1, <2>4, <2>5, <2>6 DEF Scopes
<1>16. Positions'
  <2>1. Block' = Block /\ Function' = Function
    BY <1>3 DEF Block, Function
  <2> QED
    BY <1>3, <1>7, <1>10, <2>1 DEF IInv, Positions
<1>17. ResolvesLexically'
  <2>1. \A id \in DOMAIN symbols' \ DOMAIN symbols : id = new
    BY <1>7
  <2>2. \A id \in DOMAIN symbols' \ DOMAIN symbols : \A use \in resolutions :
            \/ blockOf'[id] \notin enclosing[use.block]
            \/ ~(symbols'[id].at < use.at)
            \/ use.initializes # 0 /\ symbols'[id].at = use.initializes
    BY <1>2, <1>7, <2>1
  <2> QED
    BY <1>7, <1>10, <2>2, UsesKept
<1> QED
  BY <1>11, <1>12, <1>13, <1>14, <1>15, <1>16, <1>17 DEF IInv

LEMMA ParameterDeclared ==
    ASSUME IInv, declareParameter
    PROVE  IInv'
<1> DEFINE p == Function.parameters[parameter + 1]
           type == symbols[declarationSymbol(Function.at)].parameterTypes[parameter + 1]
<1>1. /\ doing = "statements" /\ doing' = "statements"
      /\ parameter < Len(Function.parameters)
      /\ parameter' = parameter + 1
      /\ declareInScope(scope, "Parameter", p.name, p.at, type, Block)
      /\ UNCHANGED <<tables, annotation, resolved, here, collectVars, scopeStack, body,
                     resolutions, enclosing, chain>>
      /\ local' = local
  BY DEF declareParameter
<1>2. p.name \in Names /\ p.at \in 0..here /\ parameter' \in Nat
  <2>1. /\ body \in DOMAIN functions /\ parameter \in Nat
        /\ IsList(Function.parameters)
        /\ \A i \in DOMAIN Function.parameters : Function.parameters[i].name \in Names
    BY <1>1 DEF IInv, Lists, Function
  <2>2. \A i \in DOMAIN Function.parameters : Function.parameters[i].at \in 0..here
    BY <2>1 DEF IInv, Positions, Function
  <2>3. parameter + 1 \in DOMAIN Function.parameters
    BY <1>1, <2>1, ListFacts
  <2> QED
    BY <1>1, <2>1, <2>2, <2>3
<1>3. \A use \in resolutions : Block \notin enclosing[use.block]
  BY <1>1 DEF IInv, Positions
<1>4. local' \in LocalSet
  BY <1>1 DEF IInv, TypeOK
<1> HIDE DEF p, type
<1> QED
  BY <1>1, <1>2, <1>3, <1>4, DeclaredHere

LEMMA LocalDeclared ==
    ASSUME IInv, declareLocal
    PROVE  IInv'
<1>1. /\ doing = "initializer" /\ doing' = "statements"
      /\ declareInScope(scope, "Local", local.name, local.at, local.type, Block)
      /\ local' = NoLocal
      /\ parameter' = parameter
      /\ UNCHANGED <<tables, annotation, resolved, here, collectVars, scopeStack, body,
                     resolutions, enclosing, chain>>
  BY DEF declareLocal
<1>2. /\ local.name \in Names /\ local.at \in 1..here /\ here \in Nat
      /\ parameter = Len(Function.parameters) /\ parameter \in Nat
      /\ \A use \in resolutions : use.at > local.at => use.initializes = local.at
      /\ \A use \in resolutions : use.at \in Nat
  BY <1>1 DEF IInv, Positions, Lists, TableInv
<1>3. local.at \in 0..here
  BY <1>2
<1>4. \A use \in resolutions :
          ~(local.at < use.at) \/ (use.initializes # 0 /\ local.at = use.initializes)
  BY <1>2
<1>5. ~(parameter' < Len(Function.parameters))
  BY <1>1, <1>2
<1>6. local' \in LocalSet
  BY <1>1, NoneTyped
<1> QED
  BY <1>1, <1>2, <1>3, <1>4, <1>5, <1>6, DeclaredHere

----------------------------------------------------------------------------
(* Steps that enter a block or leave one *)

LEMMA EnterStep ==
    ASSUME IInv, EnterBlock
    PROVE  /\ BlocksKept
           /\ IsList(enclosing')
           /\ DOMAIN enclosing' = DOMAIN enclosing \cup {Len(enclosing) + 1}
           /\ Len(enclosing') >= FileBlock
           /\ \A b \in DOMAIN enclosing' : enclosing'[b] \subseteq DOMAIN enclosing'
           /\ chain' \in Seq(DOMAIN enclosing')
           /\ Len(chain') = Len(chain) + 1
           /\ Block' = Len(enclosing) + 1
           /\ \A i \in DOMAIN chain : chain'[i] = chain[i]
           /\ chain'[1] = PreludeBlock /\ chain'[2] = FileBlock
           /\ \A i, j \in DOMAIN chain' : i < j => chain'[i] < chain'[j]
           /\ \A i \in DOMAIN chain' : enclosing'[chain'[i]] = {chain'[j] : j \in 1..i}
           /\ \A use \in resolutions : Block' \notin enclosing[use.block]
<1> DEFINE nb == Len(enclosing) + 1
           around == {chain[i] : i \in DOMAIN chain} \cup {nb}
<1>1. /\ chain' = Append(chain, nb)
      /\ enclosing' = Append(enclosing, around)
  BY DEF EnterBlock
<1>2. /\ IsList(enclosing) /\ Len(enclosing) \in Nat /\ DOMAIN enclosing = 1..Len(enclosing)
      /\ chain \in Seq(DOMAIN enclosing)
      /\ Len(enclosing) >= FileBlock /\ Len(chain) >= FileBlock
      /\ \A b \in DOMAIN enclosing : enclosing[b] \subseteq DOMAIN enclosing
      /\ \A i, j \in DOMAIN chain : i < j => chain[i] < chain[j]
      /\ \A i \in DOMAIN chain : enclosing[chain[i]] = {chain[j] : j \in 1..i}
      /\ chain[1] = PreludeBlock /\ chain[2] = FileBlock
      /\ \A use \in resolutions : use.block \in DOMAIN enclosing
  BY ListFacts DEF IInv, Lists, TypeOK, Chains, Positions
<1>3. /\ Len(chain) \in Nat /\ DOMAIN chain = 1..Len(chain)
      /\ \A i \in DOMAIN chain : chain[i] \in 1..Len(enclosing)
  BY <1>2
<1> HIDE DEF around
<1>4. /\ IsList(enclosing') /\ Len(enclosing') = nb /\ DOMAIN enclosing' = 1..nb
      /\ \A b \in DOMAIN enclosing : enclosing'[b] = enclosing[b]
      /\ enclosing'[nb] = around
  BY <1>1, <1>2, AppendList
<1>5. /\ nb \in Nat /\ DOMAIN enclosing' = DOMAIN enclosing \cup {nb} /\ BlocksKept
  BY <1>2, <1>4 DEF BlocksKept
<1>6. /\ chain' \in Seq(DOMAIN enclosing')
      /\ Len(chain') = Len(chain) + 1
      /\ DOMAIN chain' = 1..(Len(chain) + 1)
      /\ \A i \in DOMAIN chain : chain'[i] = chain[i]
      /\ chain'[Len(chain) + 1] = nb
  <2>1. chain \in Seq(DOMAIN enclosing')
    BY <1>2, <1>5, SeqMonotonic
  <2>2. nb \in DOMAIN enclosing'
    BY <1>5
  <2> QED
    BY <1>1, <1>3, <2>1, <2>2, AppendProperties
<1>7. Block' = nb
  BY <1>6 DEF Block
<1>8. \A b \in DOMAIN enclosing' : enclosing'[b] \subseteq DOMAIN enclosing'
  <2>1. around \subseteq DOMAIN enclosing'
    BY <1>2, <1>3, <1>5 DEF around
  <2> QED
    BY <1>2, <1>4, <1>5, <2>1
<1>9. \A i, j \in DOMAIN chain' : i < j => chain'[i] < chain'[j]
  <2> SUFFICES ASSUME NEW i \in 1..(Len(chain) + 1), NEW j \in 1..(Len(chain) + 1), i < j
               PROVE  chain'[i] < chain'[j]
    BY <1>6
  <2>1. i \in DOMAIN chain
    BY <1>3
  <2>2. CASE j \in DOMAIN chain
    BY <1>2, <1>6, <2>1, <2>2
  <2>3. CASE j = Len(chain) + 1
    BY <1>2, <1>3, <1>6, <2>1, <2>3
  <2> QED
    BY <1>3, <2>2, <2>3
<1>10. \A i \in DOMAIN chain' : enclosing'[chain'[i]] = {chain'[j] : j \in 1..i}
  <2> SUFFICES ASSUME NEW i \in 1..(Len(chain) + 1)
               PROVE  enclosing'[chain'[i]] = {chain'[j] : j \in 1..i}
    BY <1>6
  <2>1. CASE i \in DOMAIN chain
    <3>1. chain'[i] = chain[i] /\ chain[i] \in DOMAIN enclosing
      BY <1>2, <1>3, <1>6, <2>1
    <3>2. \A j \in 1..i : chain'[j] = chain[j]
      BY <1>3, <1>6, <2>1
    <3>3. {chain'[j] : j \in 1..i} = {chain[j] : j \in 1..i}
      BY <3>2
    <3> QED
      BY <1>2, <1>4, <2>1, <3>1, <3>3
  <2>2. CASE i = Len(chain) + 1
    <3>1. enclosing'[chain'[i]] = around
      BY <1>4, <1>6, <2>2
    <3>2. around = {chain'[j] : j \in 1..(Len(chain) + 1)}
      BY <1>3, <1>6, SMTT(20) DEF around
    <3> QED
      BY <2>2, <3>1, <3>2
  <2> QED
    BY <1>3, <2>1, <2>2
<1>11. \A use \in resolutions : nb \notin enclosing[use.block]
  BY <1>2
<1>12. chain'[1] = PreludeBlock /\ chain'[2] = FileBlock
  BY <1>2, <1>3, <1>6 DEF FileBlock
<1>13. Len(enclosing') >= FileBlock
  BY <1>2, <1>4 DEF FileBlock
<1> QED
  BY <1>4, <1>5, <1>6, <1>7, <1>8, <1>9, <1>10, <1>11, <1>12, <1>13

LEMMA LeaveStep ==
    ASSUME IInv, LeaveBlock, Len(chain) > 2
    PROVE  /\ chain' \in Seq(DOMAIN enclosing)
           /\ Len(chain') = Len(chain) - 1
           /\ \A i \in 1..(Len(chain) - 1) : chain'[i] = chain[i]
           /\ chain'[1] = PreludeBlock /\ chain'[2] = FileBlock
           /\ \A i, j \in DOMAIN chain' : i < j => chain'[i] < chain'[j]
           /\ \A i \in DOMAIN chain' : enclosing[chain'[i]] = {chain'[j] : j \in 1..i}
<1> DEFINE n == Len(chain) - 1
<1>1. /\ chain \in Seq(DOMAIN enclosing)
      /\ \A i, j \in DOMAIN chain : i < j => chain[i] < chain[j]
      /\ \A i \in DOMAIN chain : enclosing[chain[i]] = {chain[j] : j \in 1..i}
      /\ chain[1] = PreludeBlock /\ chain[2] = FileBlock
  BY DEF IInv, TypeOK, Chains
<1>2. Len(chain) \in Nat /\ DOMAIN chain = 1..Len(chain) /\ n \in 2..Len(chain)
  BY <1>1
<1>3. /\ chain' \in Seq(DOMAIN enclosing) /\ Len(chain') = n /\ DOMAIN chain' = 1..n
      /\ \A i \in 1..n : chain'[i] = chain[i]
  <2>1. chain' = SubSeq(chain, 1, n)
    BY DEF LeaveBlock
  <2>2. \A i \in 1..n : chain[i] \in DOMAIN enclosing
    BY <1>1, <1>2
  <2>3. SubSeq(chain, 1, n) \in Seq(DOMAIN enclosing)
        /\ Len(SubSeq(chain, 1, n)) = n
        /\ \A i \in 1..n : SubSeq(chain, 1, n)[i] = chain[i]
    BY <1>1, <1>2, <2>2, SubSeqProperties
  <2> QED
    BY <2>1, <2>3
<1>4. \A i \in 1..n : {chain'[j] : j \in 1..i} = {chain[j] : j \in 1..i}
  <2> TAKE i \in 1..n
  <2>1. \A j \in 1..i : chain'[j] = chain[j]
    BY <1>2, <1>3
  <2> QED
    BY <2>1
<1>5. \A i, j \in 1..n : i < j => chain'[i] < chain'[j]
  BY <1>1, <1>2, <1>3
<1>6. \A i \in 1..n : enclosing[chain'[i]] = {chain'[j] : j \in 1..i}
  <2> TAKE i \in 1..n
  <2>1. i \in DOMAIN chain /\ chain'[i] = chain[i]
    BY <1>2, <1>3
  <2> QED
    BY <1>1, <1>4, <2>1
<1>7. chain'[1] = PreludeBlock /\ chain'[2] = FileBlock
  BY <1>1, <1>2, <1>3
<1> QED
  BY <1>3, <1>5, <1>6, <1>7

\* What the two steps that enter an empty block have in common
LEMMA EmptyBlockEntered ==
    ASSUME IInv, EnterBlock, pass = "bodies",
           scope' = EmptyScope,
           scopeStack' \in Seq([Names -> 0..Len(symbols)]),
           Len(scopeStack') = Len(chain),
           \A i \in DOMAIN scopeStack' : scopeStack'[i] = ScopeOf(chain[i]),
           doing' = "statements",
           here' \in {here, here + 1},
           body' \in DOMAIN functions,
           parameter' \in Nat,
           UNCHANGED <<tables, errors, annotation, resolved, collectVars, symbols, local,
                       resolutions, blockOf>>
    PROVE  IInv'
<1>1. UNCHANGED <<pass, declaring, functions, topLevelNames, preludeScope>>
  BY DEF collectVars
<1>2. /\ BlocksKept
      /\ IsList(enclosing')
      /\ DOMAIN enclosing' = DOMAIN enclosing \cup {Len(enclosing) + 1}
      /\ Len(enclosing') >= FileBlock
      /\ \A b \in DOMAIN enclosing' : enclosing'[b] \subseteq DOMAIN enclosing'
      /\ chain' \in Seq(DOMAIN enclosing')
      /\ Len(chain') = Len(chain) + 1
      /\ Block' = Len(enclosing) + 1
      /\ \A i \in DOMAIN chain : chain'[i] = chain[i]
      /\ chain'[1] = PreludeBlock /\ chain'[2] = FileBlock
      /\ \A i, j \in DOMAIN chain' : i < j => chain'[i] < chain'[j]
      /\ \A i \in DOMAIN chain' : enclosing'[chain'[i]] = {chain'[j] : j \in 1..i}
      /\ \A use \in resolutions : Block' \notin enclosing[use.block]
  BY EnterStep
<1>3. here \in Nat /\ here' \in Nat /\ here <= here'
  BY DEF IInv, TableInv
<1>4. /\ Len(symbols) \in Nat /\ Len(functions) \in Nat /\ DOMAIN functions = 1..Len(functions)
      /\ DOMAIN symbols = 1..Len(symbols) /\ DOMAIN enclosing = 1..Len(enclosing)
      /\ Len(chain) \in Nat /\ DOMAIN chain = 1..Len(chain) /\ Len(chain) >= 2
      /\ Len(blockOf) = Len(symbols) /\ blockOf \in Seq(DOMAIN enclosing)
  <2>1. chain \in Seq(DOMAIN enclosing) /\ Len(chain) >= FileBlock
    BY DEF IInv, TypeOK, Chains
  <2> QED
    BY <2>1, ListFacts DEF IInv, Lists, TypeOK, Chains, FileBlock
<1>5. \A b : ScopeOf(b)' = ScopeOf(b)
  BY ScopeSame
<1>6. ScopeOf(Block)' = EmptyScope
  <2>1. PICK block : block = Len(enclosing) + 1
    OBVIOUS
  <2>2. \A name : Declared(block, name) = {}
    BY <1>4, <2>1 DEF Declared
  <2>3. ScopeOf(block) = EmptyScope
    BY <2>2 DEF ScopeOf, EmptyScope
  <2>4. ScopeOf(Block)' = ScopeOf(block)'
    BY <1>2, <2>1
  <2>5. ScopeOf(block)' = ScopeOf(block)
    BY <1>5
  <2> QED
    BY <2>3, <2>4, <2>5
<1>7. TableInv'
  BY OtherStepInv DEF IInv, OtherStep
<1>8. TypeOK'
  <2>1. EmptyScope \in [Names -> 0..Len(symbols)]
    BY <1>4 DEF EmptyScope, NoSymbol
  <2>2. blockOf \in Seq(DOMAIN enclosing')
    BY <1>2, <1>4, SeqMonotonic
  <2>3. body' \in 0..Len(functions)
    BY <1>4
  <2>4. /\ topLevelNames \in [Names -> 0..Len(symbols)]
        /\ preludeScope \in [Names -> 0..Len(symbols)]
        /\ declaring \in DeclarationSet
        /\ local \in LocalSet
        /\ \A id \in DOMAIN symbols :
              symbols[id].kind \in {"Function", "Builtin", "Parameter", "Local"}
    BY DEF IInv, TypeOK
  <2> QED
    BY <1>1, <1>2, <2>1, <2>2, <2>3, <2>4 DEF TypeOK, DeclarationSet, LocalSet, TypeSet
<1>9. Lists'
  BY <1>1, <1>2 DEF IInv, Lists
<1>10. Chains'
  <2>1. Len(chain') >= FileBlock
    BY <1>2, <1>4 DEF FileBlock
  <2> QED
    BY <1>2, <1>4, <2>1 DEF Chains
<1>11. Scopes'
  <2>1. /\ topLevelNames = ScopeOf(FileBlock)
        /\ preludeScope = ScopeOf(PreludeBlock)
        /\ declaring = NoDeclaration
    BY DEF IInv, Scopes
  <2>2. topLevelNames' = ScopeOf(FileBlock)' /\ preludeScope' = ScopeOf(PreludeBlock)'
    BY <1>1, <1>5, <2>1
  <2>3. declaring' = NoDeclaration'
    BY <1>1, <2>1 DEF NoDeclaration, Unresolved
  <2>4. \A i \in DOMAIN scopeStack' : scopeStack'[i] = ScopeOf(chain[i])' /\ chain'[i] = chain[i]
    <3> TAKE i \in DOMAIN scopeStack'
    <3>1. i \in DOMAIN chain
      BY <1>4
    <3>2. chain'[i] = chain[i]
      BY <1>2, <3>1
    <3>3. PICK b : b = chain[i]
      OBVIOUS
    <3>4. ScopeOf(chain[i])' = ScopeOf(b)'
      BY <3>2, <3>3
    <3>5. ScopeOf(b)' = ScopeOf(b)
      BY <1>5
    <3> QED
      BY <3>2, <3>3, <3>4, <3>5
  <2>5. Len(chain') = Len(scopeStack') + 1 /\ Len(chain') > 2
    BY <1>2, <1>4
  <2> QED
    BY <1>1, <1>6, <2>2, <2>3, <2>4, <2>5 DEF Scopes
<1>12. Positions'
  <2>1. /\ \A id \in DOMAIN symbols : symbols[id].at \in 0..here'
        /\ \A use \in resolutions : use.at \in 0..here' /\ use.block \in DOMAIN enclosing
        /\ \A i \in DOMAIN errors : errors[i].at \in 0..here'
        /\ \A f \in DOMAIN functions : \A p \in DOMAIN functions[f].parameters :
              functions[f].parameters[p].at \in 0..here'
        /\ \A p \in DOMAIN declaring.parameters : declaring.parameters[p].at \in 0..here'
        /\ declaring.at \in 0..here'
        /\ annotation.at \in 0..here'
    BY <1>3 DEF IInv, Positions
  <2>2. \A use \in resolutions : use.block \in DOMAIN enclosing' /\ Block' \notin enclosing'[use.block]
    BY <1>2, <2>1 DEF BlocksKept
  <2> QED
    BY <1>1, <2>1, <2>2 DEF Positions
<1>13. ResolvesLexically'
  <2>1. SameUnknown
    BY DEF SameUnknown, ErrorAt
  <2> QED
    BY <1>2, <2>1, UsesKept DEF BlocksKept
<1> QED
  BY <1>7, <1>8, <1>9, <1>10, <1>11, <1>12, <1>13 DEF IInv

LEMMA BodyEntered ==
    ASSUME IInv, analyzeFunctionBody
    PROVE  IInv'
<1>1. /\ pass = "bodies" /\ doing = "file" /\ body < Len(functions)
      /\ body' = body + 1 /\ parameter' = 0
      /\ scope' = EmptyScope
      /\ scopeStack' = <<preludeScope, topLevelNames>>
      /\ doing' = "statements"
      /\ EnterBlock
      /\ here' = here
      /\ UNCHANGED <<tables, errors, annotation, resolved, collectVars, symbols, local,
                     resolutions, blockOf>>
  BY DEF analyzeFunctionBody, typeVars, tables
<1>2. /\ Len(chain) = 2 /\ chain[1] = PreludeBlock /\ chain[2] = FileBlock
      /\ topLevelNames = ScopeOf(FileBlock) /\ preludeScope = ScopeOf(PreludeBlock)
  BY <1>1 DEF IInv, Scopes, Chains
<1>3. /\ topLevelNames \in [Names -> 0..Len(symbols)] /\ preludeScope \in [Names -> 0..Len(symbols)]
      /\ body \in 0..Len(functions)
  BY DEF IInv, TypeOK
<1>4. /\ scopeStack' \in Seq([Names -> 0..Len(symbols)])
      /\ Len(scopeStack') = 2 /\ DOMAIN scopeStack' = 1..2
      /\ scopeStack'[1] = preludeScope /\ scopeStack'[2] = topLevelNames
  BY <1>1, <1>3
<1>5. \A i \in DOMAIN scopeStack' : scopeStack'[i] = ScopeOf(chain[i])
  <2> SUFFICES ASSUME NEW i \in 1..2
               PROVE  scopeStack'[i] = ScopeOf(chain[i])
    BY <1>4
  <2>1. i = 1 \/ i = 2
    OBVIOUS
  <2> QED
    BY <1>2, <1>4, <2>1
<1>6. body' \in DOMAIN functions
  BY <1>1, <1>3, ListFacts DEF IInv, Lists
<1> QED
  BY <1>1, <1>2, <1>4, <1>5, <1>6, EmptyBlockEntered

LEMMA NestedBlockEntered ==
    ASSUME IInv, analyzeNestedBlock
    PROVE  IInv'
<1>1. /\ doing = "statements" /\ doing' = doing
      /\ here' = here + 1
      /\ scopeStack' = Append(scopeStack, scope)
      /\ EnterBlock
      /\ scope' = EmptyScope
      /\ UNCHANGED <<tables, errors, annotation, resolved, collectVars, symbols, local,
                     body, parameter, resolutions, blockOf>>
  BY DEF analyzeNestedBlock, AtStatement, ReadOn, pushScope
<1>2. /\ Len(chain) = Len(scopeStack) + 1
      /\ \A i \in DOMAIN scopeStack : scopeStack[i] = ScopeOf(chain[i])
      /\ scope = ScopeOf(chain[Len(chain)])
      /\ pass # "collect"
      /\ scopeStack \in Seq([Names -> 0..Len(symbols)]) /\ scope \in [Names -> 0..Len(symbols)]
      /\ body \in DOMAIN functions /\ parameter \in Nat
      /\ pass \in {"collect", "bodies"}
  BY <1>1 DEF IInv, Scopes, TypeOK, Block, Lists
<1>3. /\ scopeStack' \in Seq([Names -> 0..Len(symbols)])
      /\ Len(scopeStack') = Len(scopeStack) + 1
      /\ DOMAIN scopeStack' = 1..(Len(scopeStack) + 1)
      /\ \A i \in 1..Len(scopeStack) : scopeStack'[i] = scopeStack[i]
      /\ scopeStack'[Len(scopeStack) + 1] = scope
      /\ DOMAIN scopeStack = 1..Len(scopeStack) /\ Len(scopeStack) \in Nat
  BY <1>1, <1>2, AppendProperties
<1>4. \A i \in DOMAIN scopeStack' : scopeStack'[i] = ScopeOf(chain[i])
  <2> SUFFICES ASSUME NEW i \in 1..(Len(scopeStack) + 1)
               PROVE  scopeStack'[i] = ScopeOf(chain[i])
    BY <1>3
  <2>1. i \in DOMAIN scopeStack \/ i = Len(scopeStack) + 1
    BY <1>3
  <2> QED
    BY <1>2, <1>3, <2>1
<1> QED
  BY <1>1, <1>2, <1>3, <1>4, EmptyBlockEntered

\* What popScope and finishFunctionBody have in common
LEMMA BlockLeft ==
    ASSUME IInv, doing = "statements", LeaveBlock, Len(chain) > 2,
           scope' \in [Names -> 0..Len(symbols)],
           scopeStack' \in Seq([Names -> 0..Len(symbols)]),
           \/ doing' = "file" /\ Len(chain) = 3
           \/ /\ doing' = "statements" /\ Len(chain) > 3
              /\ Len(scopeStack') = Len(chain) - 2
              /\ \A i \in DOMAIN scopeStack' : scopeStack'[i] = ScopeOf(chain[i])
              /\ scope' = ScopeOf(chain[Len(chain) - 1])
              /\ parameter = Len(Function.parameters),
           UNCHANGED <<tables, errors, annotation, resolved, here, collectVars, symbols, local,
                       body, parameter, resolutions, blockOf>>
    PROVE  IInv'
<1>1. /\ UNCHANGED <<pass, declaring, functions, topLevelNames, preludeScope>>
      /\ UNCHANGED enclosing
  BY DEF collectVars, LeaveBlock
<1>2. /\ chain' \in Seq(DOMAIN enclosing)
      /\ Len(chain') = Len(chain) - 1
      /\ \A i \in 1..(Len(chain) - 1) : chain'[i] = chain[i]
      /\ chain'[1] = PreludeBlock /\ chain'[2] = FileBlock
      /\ \A i, j \in DOMAIN chain' : i < j => chain'[i] < chain'[j]
      /\ \A i \in DOMAIN chain' : enclosing[chain'[i]] = {chain'[j] : j \in 1..i}
  BY LeaveStep
<1>3. Len(chain) \in Nat
  <2>1. chain \in Seq(DOMAIN enclosing)
    BY DEF IInv, TypeOK
  <2> QED
    BY <2>1
<1>4. \A b : ScopeOf(b)' = ScopeOf(b)
  BY ScopeSame
<1>5. TableInv'
  BY OtherStepInv DEF IInv, OtherStep
<1>6. TypeOK'
  <2>1. /\ topLevelNames \in [Names -> 0..Len(symbols)]
        /\ preludeScope \in [Names -> 0..Len(symbols)]
        /\ declaring \in DeclarationSet
        /\ local \in LocalSet
        /\ \A id \in DOMAIN symbols :
              symbols[id].kind \in {"Function", "Builtin", "Parameter", "Local"}
    BY DEF IInv, TypeOK
  <2> QED
    BY <1>1, <1>2, <2>1 DEF IInv, TypeOK, DeclarationSet, LocalSet, TypeSet
<1>7. Lists'
  BY <1>1 DEF IInv, Lists
<1>8. Chains'
  <2>1. Len(chain') >= FileBlock
    BY <1>2, <1>3 DEF FileBlock
  <2> QED
    BY <1>1, <1>2, <2>1 DEF IInv, Chains
<1>9. Scopes'
  <2>1. /\ topLevelNames = ScopeOf(FileBlock)
        /\ pass = "bodies" => preludeScope = ScopeOf(PreludeBlock)
        /\ pass # "collect"
        /\ declaring = NoDeclaration
    BY DEF IInv, Scopes
  <2>2. /\ topLevelNames' = ScopeOf(FileBlock)'
        /\ pass' = "bodies" => preludeScope' = ScopeOf(PreludeBlock)'
    BY <1>1, <1>4, <2>1
  <2>3. declaring' = NoDeclaration'
    BY <1>1, <2>1 DEF NoDeclaration, Unresolved
  <2>4. CASE doing' = "file" /\ Len(chain) = 3
    BY <1>1, <1>2, <2>1, <2>2, <2>3, <2>4 DEF Scopes
  <2>5. CASE /\ doing' = "statements" /\ Len(chain) > 3
             /\ Len(scopeStack') = Len(chain) - 2
             /\ \A i \in DOMAIN scopeStack' : scopeStack'[i] = ScopeOf(chain[i])
             /\ scope' = ScopeOf(chain[Len(chain) - 1])
    <3>1. ASSUME NEW i \in 1..(Len(chain) - 1)
          PROVE  ScopeOf(chain[i])' = ScopeOf(chain[i]) /\ chain'[i] = chain[i]
      <4>1. PICK b : b = chain[i]
        OBVIOUS
      <4>2. chain'[i] = chain[i]
        BY <1>2
      <4>3. ScopeOf(chain[i])' = ScopeOf(b)'
        BY <4>1, <4>2
      <4>4. ScopeOf(b)' = ScopeOf(b)
        BY <1>4
      <4> QED
        BY <4>1, <4>2, <4>3, <4>4
    <3>2. DOMAIN scopeStack' = 1..(Len(chain) - 2)
      BY <2>5
    <3>3. \A i \in DOMAIN scopeStack' : scopeStack'[i] = ScopeOf(chain[i])'
      <4> TAKE i \in DOMAIN scopeStack'
      <4>1. i \in 1..(Len(chain) - 1)
        BY <1>3, <3>2
      <4>2. ScopeOf(chain[i])' = ScopeOf(chain[i])
        BY <3>1, <4>1
      <4>3. scopeStack'[i] = ScopeOf(chain[i])
        BY <2>5
      <4> QED
        BY <4>2, <4>3
    <3>4. scope' = ScopeOf(Block)'
      <4> DEFINE i == Len(chain) - 1
      <4>1. i \in 1..(Len(chain) - 1) /\ Block' = chain'[i]
        BY <1>2, <1>3, <2>5 DEF Block
      <4>2. PICK b : b = chain[i]
        OBVIOUS
      <4>3. ScopeOf(Block)' = ScopeOf(b)'
        BY <1>2, <4>1, <4>2
      <4>4. ScopeOf(b)' = ScopeOf(b)
        BY <1>4
      <4> QED
        BY <2>5, <4>2, <4>3, <4>4
    <3>5. Len(chain') = Len(scopeStack') + 1 /\ Len(chain') > 2
      BY <1>2, <1>3, <2>5
    <3> QED
      BY <1>1, <2>1, <2>2, <2>3, <2>5, <3>3, <3>4, <3>5 DEF Scopes
  <2> QED
    BY <2>4, <2>5
<1>10. Positions'
  <2>1. Function' = Function
    BY <1>1 DEF Function
  <2>2. ~(parameter = Len(Function.parameters) /\ parameter < Len(Function.parameters))
    BY DEF IInv, Lists
  <2> QED
    BY <1>1, <2>1, <2>2 DEF IInv, Positions
<1>11. ResolvesLexically'
  <2>1. SameUnknown
    BY DEF SameUnknown, ErrorAt
  <2> QED
    BY <1>1, <2>1, UsesKept
<1> QED
  BY <1>5, <1>6, <1>7, <1>8, <1>9, <1>10, <1>11 DEF IInv

LEMMA BodyFinished ==
    ASSUME IInv, finishFunctionBody \/ popScope
    PROVE  IInv'
<1>1. /\ doing = "statements" /\ LeaveBlock /\ parameter = Len(Function.parameters)
      /\ UNCHANGED <<tables, errors, annotation, resolved, here, collectVars, symbols, local,
                     body, parameter, resolutions, blockOf>>
  BY DEF finishFunctionBody, popScope, AtStatement, typeVars, tables
<1>2. /\ Len(chain) = Len(scopeStack) + 1
      /\ Len(chain) > 2
      /\ \A i \in DOMAIN scopeStack : scopeStack[i] = ScopeOf(chain[i])
      /\ scopeStack \in Seq([Names -> 0..Len(symbols)]) /\ scope \in [Names -> 0..Len(symbols)]
  BY <1>1 DEF IInv, Scopes, TypeOK
<1>3. CASE finishFunctionBody
  <2>1. doing' = "file" /\ Len(scopeStack) = 2 /\ scope' = scope /\ scopeStack' = scopeStack
    BY <1>3 DEF finishFunctionBody
  <2> QED
    BY <1>1, <1>2, <2>1, BlockLeft
<1>4. CASE popScope
  <2> DEFINE n == Len(scopeStack) - 1
  <2>1. /\ doing' = doing /\ Len(scopeStack) > 2
        /\ scope' = scopeStack[Len(scopeStack)]
        /\ scopeStack' = SubSeq(scopeStack, 1, n)
    BY <1>4 DEF popScope, Last
  <2>2. Len(scopeStack) \in Nat /\ DOMAIN scopeStack = 1..Len(scopeStack) /\ n \in 2..Len(scopeStack)
    BY <1>2, <2>1
  <2>3. /\ scopeStack' \in Seq([Names -> 0..Len(symbols)])
        /\ Len(scopeStack') = n /\ DOMAIN scopeStack' = 1..n
        /\ \A i \in 1..n : scopeStack'[i] = scopeStack[i]
    BY <1>2, <2>1, <2>2
  <2>4. \A i \in DOMAIN scopeStack' : scopeStack'[i] = ScopeOf(chain[i])
    <3> TAKE i \in DOMAIN scopeStack'
    <3>1. i \in 1..n /\ i \in DOMAIN scopeStack
      BY <2>2, <2>3
    <3>2. scopeStack'[i] = scopeStack[i]
      BY <2>3, <3>1
    <3>3. scopeStack[i] = ScopeOf(chain[i])
      BY <1>2, <3>1
    <3> QED
      BY <3>2, <3>3
  <2>5. scope' \in [Names -> 0..Len(symbols)] /\ scope' = ScopeOf(chain[Len(chain) - 1])
    <3>1. Len(chain) - 1 = Len(scopeStack) /\ Len(scopeStack) \in DOMAIN scopeStack
      BY <1>2, <2>2
    <3>2. scopeStack[Len(scopeStack)] = ScopeOf(chain[Len(scopeStack)])
      BY <1>2, <3>1
    <3>3. scopeStack[Len(scopeStack)] \in [Names -> 0..Len(symbols)]
      BY <1>2, <3>1
    <3> QED
      BY <2>1, <3>1, <3>2, <3>3
  <2>6. Len(chain) > 3 /\ Len(scopeStack') = Len(chain) - 2
    BY <1>2, <2>1, <2>2, <2>3
  <2> QED
    BY <1>1, <1>2, <2>1, <2>3, <2>4, <2>5, <2>6, BlockLeft
<1> QED
  BY <1>3, <1>4

LEMMA ForEntered ==
    ASSUME IInv, enterFor
    PROVE  IInv'
<1> DEFINE new == Len(symbols) + 1
           symbol == Symbol("Local", local.name, local.at, Unresolved, <<>>)
<1>1. PICK nb : nb = Len(enclosing) + 1
  OBVIOUS
<1>2. /\ doing = "iterable" /\ doing' = "statements"
      /\ scopeStack' = Append(scopeStack, scope)
      /\ EnterBlock
      /\ addSymbol(symbol, nb)
      /\ errors' = DuplicateError(EmptyScope[local.name], local.at)
      /\ scope' = IF EmptyScope[local.name] = NoSymbol
                  THEN [EmptyScope EXCEPT ![local.name] = new]
                  ELSE EmptyScope
      /\ local' = NoLocal
      /\ UNCHANGED <<tables, annotation, resolved, here, collectVars, body, parameter, resolutions>>
  BY <1>1 DEF enterFor, pushScope, declareInScope
<1>3. UNCHANGED <<pass, declaring, functions, topLevelNames, preludeScope>>
  BY <1>2 DEF collectVars
<1>4. /\ local.name \in Names /\ local.at \in 1..here /\ here \in Nat
      /\ parameter = Len(Function.parameters) /\ parameter \in Nat
      /\ body \in DOMAIN functions
  BY <1>2 DEF IInv, Positions, Lists, TableInv
<1>5. symbol.name = local.name /\ symbol.kind = "Local" /\ symbol.at = local.at
  BY DEF Symbol
<1> HIDE DEF symbol
<1>6. /\ BlocksKept
      /\ IsList(enclosing')
      /\ DOMAIN enclosing' = DOMAIN enclosing \cup {nb}
      /\ Len(enclosing') >= FileBlock
      /\ \A b \in DOMAIN enclosing' : enclosing'[b] \subseteq DOMAIN enclosing'
      /\ chain' \in Seq(DOMAIN enclosing')
      /\ Len(chain') = Len(chain) + 1
      /\ Block' = nb
      /\ \A i \in DOMAIN chain : chain'[i] = chain[i]
      /\ chain'[1] = PreludeBlock /\ chain'[2] = FileBlock
      /\ \A i, j \in DOMAIN chain' : i < j => chain'[i] < chain'[j]
      /\ \A i \in DOMAIN chain' : enclosing'[chain'[i]] = {chain'[j] : j \in 1..i}
      /\ \A use \in resolutions : nb \notin enclosing[use.block]
  BY <1>1, <1>2, EnterStep
<1>7. /\ Len(symbols) \in Nat /\ DOMAIN symbols = 1..Len(symbols)
      /\ DOMAIN enclosing = 1..Len(enclosing) /\ Len(enclosing) \in Nat
      /\ Len(chain) \in Nat /\ DOMAIN chain = 1..Len(chain) /\ Len(chain) > 2
      /\ \A i \in DOMAIN chain : chain[i] \in DOMAIN enclosing
      /\ Len(enclosing) >= 2
      /\ Len(blockOf) = Len(symbols) /\ blockOf \in Seq(DOMAIN enclosing)
  <2>1. chain \in Seq(DOMAIN enclosing) /\ Len(chain) > 2
    BY <1>2 DEF IInv, TypeOK, Scopes
  <2> QED
    BY <2>1, ListFacts DEF IInv, Lists, TypeOK, Chains, FileBlock
<1>8. /\ Len(symbols) + 1 \in 0..Len(symbols')
      /\ [Names -> 0..Len(symbols)] \subseteq [Names -> 0..Len(symbols')]
      /\ IsList(symbols')
      /\ DOMAIN symbols' = DOMAIN symbols \cup {new}
      /\ \A id \in DOMAIN symbols : symbols'[id] = symbols[id] /\ blockOf'[id] = blockOf[id]
      /\ symbols'[new] = symbol /\ blockOf'[new] = nb
      /\ Len(blockOf') = Len(symbols')
      /\ blockOf' \in Seq(DOMAIN enclosing')
      /\ \A id \in DOMAIN symbols' :
            /\ symbols'[id].kind \in {"Function", "Builtin", "Parameter", "Local"}
            /\ symbols'[id].at \in 0..here
  <2>1. nb \in DOMAIN enclosing' /\ symbol.at \in 0..here
    BY <1>4, <1>5, <1>6
  <2> QED
    BY <1>2, <1>5, <1>6, <2>1, SymbolStep
<1>9. ScopeOf(nb) = EmptyScope /\ EmptyScope[local.name] = NoSymbol
      /\ EmptyScope \in [Names -> 0..Len(symbols)]
  <2>1. \A name : Declared(nb, name) = {}
    BY <1>1, <1>7 DEF Declared
  <2> QED
    BY <1>4, <1>7, <2>1 DEF ScopeOf, EmptyScope, NoSymbol
<1>10. scope' = ScopeOf(Block)' /\ \A b : b # nb => ScopeOf(b)' = ScopeOf(b)
  <2>1. /\ ScopeOf(nb)' = IF ScopeOf(nb)[local.name] = NoSymbol
                          THEN [ScopeOf(nb) EXCEPT ![local.name] = new]
                          ELSE ScopeOf(nb)
        /\ \A b : b # nb => ScopeOf(b)' = ScopeOf(b)
    <3>1. PICK name : name = local.name
      OBVIOUS
    <3> QED
      BY <1>2, <1>4, <1>5, ScopeDeclared
  <2>2. ScopeOf(Block)' = ScopeOf(nb)'
    BY <1>6
  <2> QED
    BY <1>2, <1>9, <2>1, <2>2
<1>11. SameUnknown /\ IsList(errors') /\ \A i \in DOMAIN errors' : errors'[i].at \in 0..here'
  <2>1. errors' = errors
    BY <1>2, <1>9 DEF DuplicateError
  <2> QED
    BY <1>2, <1>4, <2>1, ErrorStep DEF Reports
<1>12. TableInv'
  BY <1>2, OtherStepInv DEF IInv, OtherStep
<1>13. TypeOK'
  <2>1. /\ topLevelNames \in [Names -> 0..Len(symbols)]
        /\ preludeScope \in [Names -> 0..Len(symbols)]
        /\ scope \in [Names -> 0..Len(symbols)]
        /\ scopeStack \in Seq([Names -> 0..Len(symbols)])
        /\ pass \in {"collect", "bodies"}
        /\ declaring \in DeclarationSet
        /\ body \in 0..Len(functions)
    BY DEF IInv, TypeOK
  <2>2. scope' \in [Names -> 0..Len(symbols')]
    BY <1>2, <1>8, <1>9
  <2>3. /\ preludeScope \in [Names -> 0..Len(symbols')]
        /\ topLevelNames \in [Names -> 0..Len(symbols')]
    BY <1>8, <2>1
  <2>4. scopeStack' \in Seq([Names -> 0..Len(symbols')])
    <3>1. scopeStack \in Seq([Names -> 0..Len(symbols')]) /\ scope \in [Names -> 0..Len(symbols')]
      BY <1>8, <2>1, SeqMonotonic
    <3> QED
      BY <1>2, <3>1, AppendProperties
  <2>5. local' \in LocalSet
    BY <1>2, NoneTyped
  <2> QED
    BY <1>2, <1>3, <1>6, <1>8, <2>1, <2>2, <2>3, <2>4, <2>5 DEF TypeOK, DeclarationSet, LocalSet, TypeSet
<1>14. Lists'
  BY <1>2, <1>3, <1>4, <1>6, <1>8, <1>11 DEF IInv, Lists
<1>15. Chains'
  <2>1. Len(chain') >= FileBlock
    BY <1>6, <1>7 DEF FileBlock
  <2> QED
    BY <1>6, <1>8, <2>1 DEF Chains
<1>16. Scopes'
  <2>1. /\ topLevelNames = ScopeOf(FileBlock)
        /\ pass = "bodies" => preludeScope = ScopeOf(PreludeBlock)
        /\ pass # "collect"
        /\ declaring = NoDeclaration
        /\ \A i \in DOMAIN scopeStack : scopeStack[i] = ScopeOf(chain[i])
        /\ scope = ScopeOf(chain[Len(chain)])
        /\ Len(chain) = Len(scopeStack) + 1
    BY <1>2 DEF IInv, Scopes, Block
  <2>2. FileBlock # nb /\ PreludeBlock # nb
    BY <1>1, <1>7 DEF FileBlock, PreludeBlock
  <2>3. /\ topLevelNames' = ScopeOf(FileBlock)'
        /\ pass' = "bodies" => preludeScope' = ScopeOf(PreludeBlock)'
    BY <1>3, <1>10, <2>1, <2>2
  <2>4. declaring' = NoDeclaration'
    BY <1>3, <2>1 DEF NoDeclaration, Unresolved
  <2>5. /\ Len(scopeStack') = Len(scopeStack) + 1
        /\ DOMAIN scopeStack' = 1..(Len(scopeStack) + 1)
        /\ \A i \in 1..Len(scopeStack) : scopeStack'[i] = scopeStack[i]
        /\ scopeStack'[Len(scopeStack) + 1] = scope
        /\ DOMAIN scopeStack = 1..Len(scopeStack) /\ Len(scopeStack) \in Nat
    <3>1. scopeStack \in Seq([Names -> 0..Len(symbols)]) /\ scope \in [Names -> 0..Len(symbols)]
      BY DEF IInv, TypeOK
    <3> QED
      BY <1>2, <3>1, AppendProperties
  <2>6. \A i \in DOMAIN scopeStack' : scopeStack'[i] = ScopeOf(chain[i])' /\ chain'[i] = chain[i]
    <3> TAKE i \in DOMAIN scopeStack'
    <3>1. i \in DOMAIN chain
      BY <1>7, <2>1, <2>5
    <3>2. scopeStack'[i] = ScopeOf(chain[i])
      <4>1. i \in DOMAIN scopeStack \/ i = Len(scopeStack) + 1
        BY <2>5
      <4> QED
        BY <2>1, <2>5, <4>1
    <3>3. PICK b : b = chain[i]
      OBVIOUS
    <3>4. chain'[i] = b /\ b # nb
      BY <1>1, <1>6, <1>7, <3>1, <3>3
    <3>5. ScopeOf(chain[i])' = ScopeOf(b)'
      BY <3>4
    <3>6. ScopeOf(b)' = ScopeOf(b)
      BY <1>10, <3>4
    <3> QED
      BY <3>2, <3>3, <3>4, <3>5, <3>6
  <2>7. Len(chain') = Len(scopeStack') + 1 /\ Len(chain') > 2
    BY <1>6, <1>7, <2>1, <2>5
  <2> QED
    BY <1>2, <1>3, <1>10, <2>1, <2>3, <2>4, <2>6, <2>7 DEF Scopes
<1>17. Positions'
  <2>1. Function' = Function
    BY <1>2, <1>3 DEF Function
  <2>2. \A use \in resolutions : use.block \in DOMAIN enclosing'
    BY <1>6 DEF IInv, Positions
  <2>3. ~(parameter < Len(Function.parameters))
    BY <1>4
  <2> QED
    BY <1>2, <1>3, <1>8, <1>11, <2>1, <2>2, <2>3 DEF IInv, Positions
<1>18. ResolvesLexically'
  <2>1. \A id \in DOMAIN symbols' \ DOMAIN symbols : id = new
    BY <1>8
  <2>2. \A id \in DOMAIN symbols' \ DOMAIN symbols : \A use \in resolutions :
            blockOf'[id] \notin enclosing[use.block]
    BY <1>6, <1>8, <2>1
  <2> QED
    BY <1>2, <1>6, <1>8, <1>11, <2>2, UsesKept DEF BlocksKept
<1> QED
  BY <1>12, <1>13, <1>14, <1>15, <1>16, <1>17, <1>18 DEF IInv

----------------------------------------------------------------------------
(* The invariant and the theorems *)

LEMMA InvInit == Init => IInv
<1> SUFFICES ASSUME Init PROVE IInv
  OBVIOUS
<1>1. /\ TypeInit /\ errors = <<>> /\ annotation = NoAnnotation /\ here = 0
      /\ pass = "collect" /\ declaring = NoDeclaration /\ functions = <<>> /\ symbols = <<>>
      /\ topLevelNames = EmptyScope /\ preludeScope = EmptyScope /\ scope = EmptyScope
      /\ scopeStack = <<>> /\ doing = "file" /\ local = NoLocal /\ body = 0 /\ parameter = 0
      /\ resolutions = {} /\ blockOf = <<>>
      /\ enclosing = <<{PreludeBlock}, {PreludeBlock, FileBlock}>>
      /\ chain = <<PreludeBlock, FileBlock>>
  BY DEF Init, TypeInit
<1>2. /\ Len(enclosing) = 2 /\ DOMAIN enclosing = {1, 2}
      /\ enclosing[1] = {1} /\ enclosing[2] = {1, 2}
      /\ Len(chain) = 2 /\ DOMAIN chain = {1, 2} /\ chain[1] = 1 /\ chain[2] = 2
      /\ chain \in Seq(DOMAIN enclosing)
      /\ Len(symbols) = 0 /\ DOMAIN symbols = {} /\ DOMAIN functions = {} /\ Len(functions) = 0
      /\ DOMAIN errors = {}
  BY <1>1 DEF PreludeBlock, FileBlock
<1>3. /\ declaring.at = 0 /\ declaring.parameters = <<>> /\ DOMAIN declaring.parameters = {}
      /\ annotation.at = 0
  <2>1. declaring.at = 0 /\ declaring.parameters = <<>>
    BY <1>1 DEF NoDeclaration
  <2>2. annotation.at = 0
    BY <1>1 DEF NoAnnotation
  <2> QED
    BY <2>1, <2>2
<1>4. TableInv
  BY <1>1, TableInitInv
<1>5. TypeOK
  <2>1. EmptyScope \in [Names -> 0..Len(symbols)]
    BY <1>2 DEF EmptyScope, NoSymbol
  <2> QED
    BY <1>1, <1>2, <2>1, NoneTyped DEF TypeOK
<1>6. Lists
  BY <1>1, <1>2, <1>3 DEF Lists, IsList
<1>7. Chains
  <2>1. Len(blockOf) = Len(symbols)
    BY <1>1
  <2>2. \A i, j \in DOMAIN chain : i < j => chain[i] < chain[j]
    BY <1>2
  <2>3. \A i \in DOMAIN chain : enclosing[chain[i]] = {chain[j] : j \in 1..i}
    <3>1. \A j : j \in 1..1 <=> j = 1
      OBVIOUS
    <3>2. \A j : j \in 1..2 <=> j = 1 \/ j = 2
      OBVIOUS
    <3>3. enclosing[chain[1]] = {chain[j] : j \in 1..1}
      BY <1>2, <3>1
    <3>4. enclosing[chain[2]] = {chain[j] : j \in 1..2}
      BY <1>2, <3>2
    <3> QED
      BY <1>2, <3>3, <3>4
  <2>4. \A b \in DOMAIN enclosing : enclosing[b] \subseteq DOMAIN enclosing
    BY <1>2
  <2> QED
    BY <1>2, <2>1, <2>2, <2>3, <2>4 DEF Chains, PreludeBlock, FileBlock
<1>8. Scopes
  <2>1. \A block, name : Declared(block, name) = {}
    BY <1>2 DEF Declared
  <2>2. \A block : ScopeOf(block) = EmptyScope
    BY <2>1 DEF ScopeOf, EmptyScope
  <2> QED
    BY <1>1, <1>2, <2>2 DEF Scopes
<1>9. Positions
  BY <1>1, <1>2, <1>3 DEF Positions
<1>10. ResolvesLexically
  BY <1>1 DEF ResolvesLexically
<1> QED
  BY <1>4, <1>5, <1>6, <1>7, <1>8, <1>9, <1>10 DEF IInv

LEMMA InvStutter ==
    ASSUME IInv, UNCHANGED vars
    PROVE  IInv'
<1>1. UNCHANGED <<tables, errors, annotation, resolved, here, pass, declaring, functions, symbols,
                  topLevelNames, preludeScope, scope, scopeStack, doing, local, body, parameter,
                  resolutions, blockOf, enclosing, chain>>
  BY DEF vars, typeVars, tables, collectVars, walkVars, historyVars
<1>2. TableInv'
  BY <1>1, TableStutterInv DEF IInv
<1>3. Reports
  BY <1>1 DEF Reports
<1> QED
  BY <1>1, <1>2, <1>3, UnderWay, QuietStep DEF historyVars

LEMMA InvStep ==
    ASSUME TypeTableAssumption, ResolutionAssumption, IInv, [Next]_vars
    PROVE  IInv'
<1>1. CASE resolveSignatureType \/ resolveLocalType
  BY <1>1, TypesResolved
<1>2. CASE \E name \in Names : collectFunctionDecl(name)
  BY <1>2, FunctionBegun
<1>3. CASE \E name \in Names : resolveParameter(name)
  BY <1>3, ParameterRead
<1>4. CASE addFunction
  BY <1>4, FunctionAdded
<1>5. CASE buildPreludeScope
  BY <1>5, PreludeBuilt
<1>6. CASE analyzeFunctionBody
  BY <1>6, BodyEntered
<1>7. CASE declareParameter
  BY <1>7, ParameterDeclared
<1>8. CASE \E name \in Names : varDecl(name) \/ beginFor(name)
  BY <1>8, DeclarationBegun
<1>9. CASE declareLocalType
  BY <1>9, LocalTyped
<1>10. CASE declareLocal
  BY <1>10, LocalDeclared
<1>11. CASE \E name \in Names : analyzeIdentifierExpr(name)
  BY <1>11, UseStep
<1>12. CASE analyzeNestedBlock
  BY <1>12, NestedBlockEntered
<1>13. CASE enterFor
  BY <1>13, ForEntered
<1>14. CASE finishFunctionBody \/ popScope
  BY <1>14, BodyFinished
<1>15. CASE UNCHANGED vars
  BY <1>15, InvStutter
<1> QED
  BY <1>1, <1>2, <1>3, <1>4, <1>5, <1>6, <1>7, <1>8, <1>9, <1>10, <1>11, <1>12, <1>13, <1>14, <1>15
     DEF Next, collect, analyzeStatement

\* The scopes, the blocks and the positions of declarations and uses keep the relation
\* that every later lookup relies on, through both passes and whatever the file declares.
THEOREM Invariant == Spec => []IInv
<1>1. IInv /\ [Next]_vars => IInv'
  BY TypeTableAssumption, ResolutionAssumption, InvStep
<1> QED
  BY InvInit, <1>1, PTL DEF Spec

\* Whatever the file: however its functions, blocks and loops are nested and however
\* often a name is declared, a use of it keeps the symbol that lookupIdentifier found,
\* which is the one its text means, and it is reported exactly when there is none.
THEOREM NamesResolveLexically == Spec => []ResolvesLexically
<1>1. IInv => ResolvesLexically
  BY DEF IInv
<1> QED
  BY Invariant, <1>1, PTL

\* The symbols, scopes and blocks of the analyzer are well formed throughout: no scope
\* holds a symbol that addSymbol has not returned.
THEOREM WellTyped == Spec => []TypeOK
<1>1. IInv => TypeOK
  BY DEF IInv
<1> QED
  BY Invariant, <1>1, PTL

\* In a whole file, too, annotations have equal types exactly when they are written
\* alike: nothing the two passes do between annotations touches the two tables.
THEOREM OneTypePerShapeInAFile == Spec => []OneTypePerShape
<1>1. IInv => OneTypePerShape
  BY DEF IInv, TableInv
<1> QED
  BY Invariant, <1>1, PTL

----------------------------------------------------------------------------
(* Unknown types *)

LEMMA ErrorAppended ==
    ASSUME IInv, NEW e, errors' = Append(errors, e)
    PROVE  \E new : /\ new \notin DOMAIN errors
                    /\ DOMAIN errors' = DOMAIN errors \cup {new}
                    /\ errors'[new] = e
                    /\ \A i \in DOMAIN errors : errors'[i] = errors[i]
<1>1. IsList(errors)
  BY DEF IInv, Lists
<1>2. Len(errors) \in Nat /\ DOMAIN errors = 1..Len(errors)
  BY <1>1, ListFacts
<1> QED
  BY <1>1, <1>2, AppendList

\* What a call of resolveTypeSyntax returns and reports.
LEMMA Resolving ==
    ASSUME TypeTableAssumption, IInv, resolveTypeSyntax
    PROVE  /\ here \in Nat /\ here' = here + 1
           /\ annotation' # NoAnnotation
           /\ resolved' = resolved \cup {annotation'}
           /\ \/ /\ annotation = NoAnnotation
                 /\ annotation'.at = here + 1
                 /\ \/ annotation'.base \notin UnknownNames /\ errors' = errors
                    \/ /\ annotation'.base \in UnknownNames
                       /\ errors' = Append(errors, SemanticError("UnknownType", here + 1, 0))
              \/ /\ annotation \in resolved
                 /\ annotation # NoAnnotation
                 /\ annotation'.at = annotation.at
                 /\ annotation'.base = annotation.base
                 /\ Len(annotation.wraps) \in Nat
                 /\ Len(annotation'.wraps) = Len(annotation.wraps) + 1
                 /\ errors' = errors
<1>1. here \in Nat
  BY DEF IInv, TableInv
<1>2. ASSUME NEW base \in Primitives \cup UnknownNames \cup {"deferred"}, NEW type, Innermost(base, type)
      PROVE  /\ here' = here + 1 /\ annotation' # NoAnnotation
             /\ resolved' = resolved \cup {annotation'}
             /\ annotation = NoAnnotation /\ annotation'.at = here + 1 /\ annotation'.base = base
  <2>1. /\ here' = here + 1 /\ annotation = NoAnnotation /\ resolved' = resolved \cup {annotation'}
        /\ annotation' = [at |-> here + 1, base |-> base, wraps |-> <<>>, type |-> type]
    BY <1>2 DEF Innermost, Return
  <2>2. annotation'.at = here + 1 /\ annotation'.base = base
    BY <2>1
  <2>3. NoAnnotation.at = 0
    BY DEF NoAnnotation
  <2>4. annotation' # NoAnnotation
    BY <1>1, <2>2, <2>3
  <2> QED
    BY <2>1, <2>2, <2>4
<1>3. CASE resolveNamedTypeSyntax
  <2>1. CASE \E name \in Primitives : Innermost(name, Scalar(name)) /\ UNCHANGED errors
    BY <1>1, <1>2, <2>1 DEF TypeTableAssumption
  <2>2. CASE /\ \E name \in UnknownNames : Innermost(name, ErrorType)
             /\ errors' = Append(errors, SemanticError("UnknownType", here + 1, 0))
    BY <1>1, <1>2, <2>2
  <2> QED
    BY <1>3, <2>1, <2>2 DEF resolveNamedTypeSyntax
<1>4. CASE resolveDeferredTypeSyntax
  BY <1>1, <1>2, <1>4 DEF resolveDeferredTypeSyntax, TypeTableAssumption
<1>5. ASSUME NEW w \in WrapSet, NEW type, Wrap(w, type)
      PROVE  /\ here' = here + 1 /\ annotation' # NoAnnotation
             /\ resolved' = resolved \cup {annotation'}
             /\ annotation \in resolved /\ annotation # NoAnnotation
             /\ annotation'.at = annotation.at /\ annotation'.base = annotation.base
             /\ Len(annotation.wraps) \in Nat
             /\ Len(annotation'.wraps) = Len(annotation.wraps) + 1
             /\ errors' = errors
  <2>1. /\ here' = here + 1 /\ resolved' = resolved \cup {annotation'}
        /\ annotation # NoAnnotation /\ errors' = errors
        /\ annotation' = [at |-> annotation.at, base |-> annotation.base,
                          wraps |-> Append(annotation.wraps, w), type |-> type]
    BY <1>5 DEF Wrap, Return
  <2>2. annotation \in resolved /\ annotation \in Annotations
    BY <2>1 DEF IInv, TableInv
  <2>3. annotation.wraps \in Seq(WrapSet)
    BY <2>2 DEF Annotations
  <2>4. Len(Append(annotation.wraps, w)) = Len(annotation.wraps) + 1
        /\ Len(annotation.wraps) \in Nat
    BY <2>3, AppendProperties
  <2>5. annotation' # NoAnnotation
    <3>1. Len(annotation'.wraps) # 0
      BY <2>1, <2>4
    <3>2. Len(NoAnnotation.wraps) = 0
      BY DEF NoAnnotation
    <3> QED
      BY <3>1, <3>2
  <2> QED
    BY <2>1, <2>2, <2>4, <2>5
<1>6. CASE resolveArrayTypeSyntax
  <2>1. \A length \in Lengths : ArrayWrap(length) \in WrapSet
    BY DEF ArrayWrap, WrapSet, TypeTableAssumption
  <2>2. PICK length \in Lengths : \E type : Wrap(ArrayWrap(length), type)
    BY <1>6 DEF resolveArrayTypeSyntax
  <2>3. PICK type : Wrap(ArrayWrap(length), type)
    BY <2>2
  <2> QED
    BY <1>1, <1>5, <2>1, <2>3
<1>7. CASE resolveSliceTypeSyntax
  <2>1. SliceWrap \in WrapSet
    BY DEF SliceWrap, WrapSet
  <2>2. PICK type : Wrap(SliceWrap, type)
    BY <1>7 DEF resolveSliceTypeSyntax
  <2> QED
    BY <1>1, <1>5, <2>1, <2>2
<1> QED
  BY <1>3, <1>4, <1>6, <1>7 DEF resolveTypeSyntax

LEMMA UnknownResolved ==
    ASSUME TypeTableAssumption, IInv, UnknownInv, resolveTypeSyntax
    PROVE  UnknownInv'
<1>1. /\ here \in Nat /\ here' = here + 1 /\ resolved' = resolved \cup {annotation'}
  BY Resolving
<1>2. \A i \in DOMAIN errors : errors[i].at \in 0..here
  BY DEF IInv, Positions
<1>3. CASE /\ annotation \in resolved
           /\ annotation'.at = annotation.at /\ annotation'.base = annotation.base
           /\ errors' = errors
  BY <1>1, <1>3 DEF UnknownInv, ErrorAt
<1>4. CASE /\ annotation'.at = here + 1 /\ annotation'.base \notin UnknownNames
           /\ errors' = errors
  BY <1>1, <1>4 DEF UnknownInv, ErrorAt
<1>5. CASE /\ annotation'.at = here + 1 /\ annotation'.base \in UnknownNames
           /\ errors' = Append(errors, SemanticError("UnknownType", here + 1, 0))
  <2> DEFINE e == SemanticError("UnknownType", here + 1, 0)
  <2>1. e.kind = "UnknownType" /\ e.at = here + 1
    BY DEF SemanticError
  <2>2. PICK new : /\ new \notin DOMAIN errors
                   /\ DOMAIN errors' = DOMAIN errors \cup {new}
                   /\ errors'[new] = e
                   /\ \A i \in DOMAIN errors : errors'[i] = errors[i]
    BY <1>5, ErrorAppended
  <2>3. \A a \in resolved : a.at \in 1..here /\ a.at # here + 1
    BY <1>1 DEF UnknownInv
  <2>4. \A a \in resolved' : a.base \in UnknownNames =>
            \E i \in DOMAIN errors' : errors'[i] = SemanticError("UnknownType", a.at, 0)
    <3>1. \A a \in resolved : a.base \in UnknownNames =>
              \E i \in DOMAIN errors : errors[i] = SemanticError("UnknownType", a.at, 0)
      BY DEF UnknownInv, ErrorAt
    <3>2. errors'[new] = SemanticError("UnknownType", annotation'.at, 0)
      BY <1>5, <2>2
    <3> QED
      BY <1>1, <2>2, <3>1, <3>2
  <2> HIDE DEF e
  <2>5. \A i \in DOMAIN errors' : errors'[i].kind = "UnknownType" =>
            \E a \in resolved' : a.at = errors'[i].at /\ a.base \in UnknownNames
    BY <1>1, <1>5, <2>1, <2>2 DEF UnknownInv
  <2>6. \A i, j \in DOMAIN errors' :
            errors'[i].kind = "UnknownType" /\ errors'[j].kind = "UnknownType"
            /\ errors'[i].at = errors'[j].at => i = j
    <3>1. \A i \in DOMAIN errors : errors'[i].at # here + 1
      BY <1>1, <1>2, <2>2
    <3> QED
      BY <2>1, <2>2, <3>1 DEF UnknownInv
  <2>7. /\ \A a \in resolved' : a.at \in 1..here'
        /\ \A a, b \in resolved' : a.at = b.at => a.base = b.base
    BY <1>1, <1>5, <2>3 DEF UnknownInv
  <2> QED
    BY <2>4, <2>5, <2>6, <2>7 DEF UnknownInv, ErrorAt
<1> QED
  BY <1>3, <1>4, <1>5, Resolving

\* No other step resolves anything or reports an unknown type.
LEMMA UnknownElsewhere ==
    ASSUME IInv, UnknownInv, resolved' = resolved, here' \in {here, here + 1},
           \/ errors' = errors
           \/ \E e : errors' = Append(errors, e) /\ e.kind # "UnknownType"
    PROVE  UnknownInv'
<1>1. here \in Nat
  BY DEF IInv, TableInv
<1>2. \A a \in resolved' : a.at \in 1..here'
  BY <1>1 DEF UnknownInv
<1>3. CASE errors' = errors
  BY <1>2, <1>3 DEF UnknownInv, ErrorAt
<1>4. CASE \E e : errors' = Append(errors, e) /\ e.kind # "UnknownType"
  <2>1. PICK e : errors' = Append(errors, e) /\ e.kind # "UnknownType"
    BY <1>4
  <2>2. PICK new : /\ new \notin DOMAIN errors
                   /\ DOMAIN errors' = DOMAIN errors \cup {new}
                   /\ errors'[new] = e
                   /\ \A i \in DOMAIN errors : errors'[i] = errors[i]
    BY <2>1, ErrorAppended
  <2>3. \A a \in resolved : a.base \in UnknownNames =>
            \E i \in DOMAIN errors' : errors'[i] = SemanticError("UnknownType", a.at, 0)
    BY <2>2 DEF UnknownInv, ErrorAt
  <2> QED
    BY <1>2, <2>1, <2>2, <2>3 DEF UnknownInv, ErrorAt
<1> QED
  BY <1>3, <1>4

LEMMA ReportedOnce == UnknownInv => UnknownTypesReportedOnce
<1> SUFFICES ASSUME UnknownInv, NEW a \in resolved
             PROVE  LET Reports_(at) == {i \in DOMAIN errors : errors[i].kind = "UnknownType"
                                                               /\ errors[i].at = at}
                    IN  IF a.base \in UnknownNames
                        THEN \E i \in DOMAIN errors : Reports_(a.at) = {i}
                        ELSE Reports_(a.at) = {}
  BY DEF UnknownTypesReportedOnce
<1> DEFINE Found == {i \in DOMAIN errors : errors[i].kind = "UnknownType" /\ errors[i].at = a.at}
<1>1. CASE a.base \in UnknownNames
  <2>1. PICK i \in DOMAIN errors : errors[i] = SemanticError("UnknownType", a.at, 0)
    BY <1>1 DEF UnknownInv, ErrorAt
  <2>2. errors[i].kind = "UnknownType" /\ errors[i].at = a.at
    BY <2>1 DEF SemanticError
  <2>3. Found = {i}
    BY <2>2 DEF UnknownInv
  <2> QED
    BY <1>1, <2>3
<1>2. CASE a.base \notin UnknownNames
  <2>1. Found = {}
    BY <1>2 DEF UnknownInv
  <2> QED
    BY <1>2, <2>1
<1> QED
  BY <1>1, <1>2

----------------------------------------------------------------------------
(* Types of parameters *)

\* What is settled, and not being resolved any more, stays so.
FinalKept == \A at, type :
    Settled(at, type, resolved) /\ annotation.at # at =>
        Settled(at, type, resolved') /\ annotation'.at # at

LEMMA FinalQuiet ==
    ASSUME IInv, UnknownInv, resolved' = resolved, annotation' \in {annotation, NoAnnotation}
    PROVE  FinalKept
<1> SUFFICES ASSUME NEW at, NEW type, Settled(at, type, resolved), annotation.at # at
             PROVE  annotation'.at # at
  BY DEF FinalKept
<1>1. PICK a \in resolved : a.at = at
  BY DEF Settled
<1>2. at # 0 /\ NoAnnotation.at = 0
  <2>1. here \in Nat /\ at \in 1..here
    BY <1>1 DEF UnknownInv, IInv, TableInv
  <2>2. NoAnnotation.at = 0
    BY DEF NoAnnotation
  <2> QED
    BY <2>1, <2>2
<1> QED
  BY <1>2

LEMMA FinalResolving ==
    ASSUME TypeTableAssumption, IInv, IInv', UnknownInv, Signatures, resolveTypeSyntax
    PROVE  /\ FinalKept
           /\ \A b \in resolved' : b.at = annotation'.at => Len(b.wraps) <= Len(annotation'.wraps)
<1>1. /\ here \in Nat /\ resolved' = resolved \cup {annotation'}
      /\ \/ annotation = NoAnnotation /\ annotation'.at = here + 1
         \/ /\ annotation \in resolved
            /\ annotation # NoAnnotation
            /\ annotation'.at = annotation.at
            /\ Len(annotation.wraps) \in Nat
            /\ Len(annotation'.wraps) = Len(annotation.wraps) + 1
  BY Resolving
<1>2. \A a \in resolved : a.at \in 1..here
  BY DEF UnknownInv
<1>3. FinalKept
  <2> SUFFICES ASSUME NEW at, NEW type, Settled(at, type, resolved), annotation.at # at
               PROVE  Settled(at, type, resolved') /\ annotation'.at # at
    BY DEF FinalKept
  <2>1. at \in 1..here
    BY <1>2 DEF Settled
  <2>2. annotation'.at # at
    BY <1>1, <2>1
  <2> QED
    BY <1>1, <2>2 DEF Settled
<1>4. \A b \in resolved' : Len(b.wraps) \in Nat
  <2>1. \A b \in Annotations : Len(b.wraps) \in Nat
    BY DEF Annotations
  <2>2. resolved' \subseteq Annotations
    BY DEF IInv, TableInv, Annotations, TypeSet, WrapSet
  <2> QED
    BY <2>1, <2>2
<1>5. ASSUME NEW b \in resolved', b.at = annotation'.at
      PROVE  Len(b.wraps) <= Len(annotation'.wraps)
  <2>1. CASE b = annotation'
    BY <1>4, <2>1
  <2>2. CASE b \in resolved
    <3>1. annotation \in resolved /\ annotation # NoAnnotation /\ b.at = annotation.at
      BY <1>1, <1>2, <1>5, <2>2
    <3>2. Len(b.wraps) <= Len(annotation.wraps)
      BY <2>2, <3>1 DEF Signatures
    <3> QED
      BY <1>1, <1>4, <3>1, <3>2
  <2> QED
    BY <1>1, <2>1, <2>2
<1> QED
  BY <1>3, <1>5

\* A finished annotation's type is settled.
LEMMA AnnotationSettled ==
    ASSUME IInv, Signatures, annotation # NoAnnotation
    PROVE  Settled(annotation.at, annotation.type, resolved)
<1>1. annotation \in resolved
  BY DEF IInv, TableInv
<1> QED
  BY <1>1 DEF Signatures, Settled

\* Steps that declare nothing
LEMMA SignaturesKept ==
    ASSUME IInv, Signatures, FinalKept,
           annotation' # NoAnnotation =>
               \A b \in resolved' : b.at = annotation'.at => Len(b.wraps) <= Len(annotation'.wraps),
           UNCHANGED <<declaring, functions, symbols>>,
           pass' = "collect" => pass = "collect"
    PROVE  Signatures'
<1>1. \A p \in DOMAIN declaring.parameters : Final(declaring.parameters[p].at, declaring.types[p])'
  BY DEF Signatures, Final, FinalKept
<1>2. \A f \in DOMAIN functions : \A p \in DOMAIN functions[f].parameters :
          Final(functions[f].parameters[p].at, symbols[f].parameterTypes[p])'
  BY DEF Signatures, Final, FinalKept
<1>3. \A id \in DOMAIN symbols : symbols[id].kind = "Parameter" => Final(symbols[id].at, symbols[id].type)'
  BY DEF Signatures, Final, FinalKept
<1> QED
  BY <1>1, <1>2, <1>3 DEF Signatures, NoAnnotation, Unresolved

LEMMA SignatureBegun ==
    ASSUME IInv, UnknownInv, Signatures, NEW name \in Names, collectFunctionDecl(name)
    PROVE  Signatures'
<1>1. /\ declaring'.parameters = <<>> /\ declaring'.types = <<>>
      /\ UNCHANGED <<annotation, resolved, functions, symbols, pass>>
  BY DEF collectFunctionDecl
<1> QED
  BY <1>1 DEF Signatures, Final

LEMMA SequenceList ==
    ASSUME NEW S, NEW s \in Seq(S)
    PROVE  IsList(s)
<1>1. DOMAIN s = 1..Len(s) /\ Len(s) \in Nat /\ \A i \in 1..Len(s) : s[i] \in {s[j] : j \in DOMAIN s}
  OBVIOUS
<1>2. s = [i \in 1..Len(s) |-> s[i]]
  OBVIOUS
<1> QED
  BY <1>1, <1>2 DEF IsList

LEMMA SignatureRead ==
    ASSUME IInv, UnknownInv, Signatures, NEW name \in Names, resolveParameter(name)
    PROVE  Signatures'
<1> DEFINE p == [name |-> name, at |-> annotation.at]
<1>1. /\ annotation # NoAnnotation /\ annotation' = NoAnnotation
      /\ UNCHANGED <<resolved, functions, symbols, pass>>
      /\ declaring' = [declaring EXCEPT !.parameters = Append(@, p),
                                        !.types = Append(@, annotation.type)]
  BY DEF resolveParameter
<1>2. /\ declaring'.parameters = Append(declaring.parameters, p)
      /\ declaring'.types = Append(declaring.types, annotation.type)
  BY <1>1 DEF IInv, TypeOK, DeclarationSet
<1>3. FinalKept
  BY <1>1, FinalQuiet
<1>4. Settled(annotation.at, annotation.type, resolved) /\ annotation.at # 0
  <2>1. Settled(annotation.at, annotation.type, resolved)
    BY <1>1, AnnotationSettled
  <2>2. here \in Nat /\ annotation.at \in 1..here
    BY <2>1 DEF Settled, UnknownInv, IInv, TableInv
  <2> QED
    BY <2>1, <2>2
<1>5. /\ IsList(declaring.parameters) /\ IsList(declaring.types)
      /\ Len(declaring.types) = Len(declaring.parameters)
  <2>1. declaring.types \in Seq(TypeSet)
    BY DEF IInv, TypeOK, DeclarationSet
  <2> QED
    BY <2>1, SequenceList DEF IInv, Lists, Signatures
<1> DEFINE n == Len(declaring.parameters)
<1>6. /\ n \in Nat /\ DOMAIN declaring.parameters = 1..n
      /\ Len(declaring'.parameters) = n + 1 /\ Len(declaring'.types) = n + 1
      /\ DOMAIN declaring'.parameters = 1..(n + 1)
      /\ \A i \in 1..n : /\ declaring'.parameters[i] = declaring.parameters[i]
                         /\ declaring'.types[i] = declaring.types[i]
      /\ declaring'.parameters[n + 1] = p /\ declaring'.types[n + 1] = annotation.type
  <2>1. n \in Nat /\ DOMAIN declaring.parameters = 1..n /\ DOMAIN declaring.types = 1..n
    BY <1>5, ListFacts
  <2> QED
    BY <1>2, <1>5, <2>1, AppendList
<1>7. \A i \in DOMAIN declaring'.parameters :
          Final(declaring.parameters[i].at, declaring.types[i])'
  <2> TAKE i \in DOMAIN declaring'.parameters
  <2>1. CASE i \in 1..n
    <3>1. Settled(declaring.parameters[i].at, declaring.types[i], resolved)
          /\ annotation.at # declaring.parameters[i].at
      BY <1>6, <2>1 DEF Signatures, Final
    <3>2. Settled(declaring.parameters[i].at, declaring.types[i], resolved')
          /\ annotation'.at # declaring.parameters[i].at
      BY <1>3, <3>1 DEF FinalKept
    <3> QED
      BY <1>6, <2>1, <3>2 DEF Final
  <2>2. CASE i = n + 1
    <3>1. annotation'.at = 0 /\ p.at = annotation.at
      BY <1>1 DEF NoAnnotation
    <3> QED
      BY <1>1, <1>4, <1>6, <2>2, <3>1 DEF Final
  <2> QED
    BY <1>6, <2>1, <2>2
<1>8. \A f \in DOMAIN functions : \A q \in DOMAIN functions[f].parameters :
          Final(functions[f].parameters[q].at, symbols[f].parameterTypes[q])'
  BY <1>1, <1>3 DEF Signatures, Final, FinalKept
<1>9. \A id \in DOMAIN symbols : symbols[id].kind = "Parameter" => Final(symbols[id].at, symbols[id].type)'
  BY <1>1, <1>3 DEF Signatures, Final, FinalKept
<1>10. annotation' = NoAnnotation'
  BY <1>1 DEF NoAnnotation, Unresolved
<1> QED
  BY <1>1, <1>6, <1>7, <1>8, <1>9, <1>10 DEF Signatures

----------------------------------------------------------------------------
(* Steps that add symbols *)

LEMMA SymbolAdded ==
    ASSUME IInv, NEW symbol, NEW into, addSymbol(symbol, into)
    PROVE  /\ Len(symbols) \in Nat /\ DOMAIN symbols = 1..Len(symbols)
           /\ Len(symbols') = Len(symbols) + 1 /\ DOMAIN symbols' = 1..(Len(symbols) + 1)
           /\ \A id \in DOMAIN symbols : symbols'[id] = symbols[id] /\ blockOf'[id] = blockOf[id]
           /\ symbols'[Len(symbols) + 1] = symbol
           /\ blockOf'[Len(symbols) + 1] = into
<1>1. IsList(symbols) /\ IsList(blockOf) /\ Len(blockOf) = Len(symbols)
  BY SequenceList DEF IInv, Lists, Chains, TypeOK
<1>2. DOMAIN blockOf = DOMAIN symbols /\ DOMAIN symbols = 1..Len(symbols) /\ Len(symbols) \in Nat
  BY <1>1, ListFacts
<1>3. symbols' = Append(symbols, symbol) /\ blockOf' = Append(blockOf, into)
  BY DEF addSymbol
<1>4. /\ Len(symbols') = Len(symbols) + 1 /\ DOMAIN symbols' = 1..(Len(symbols) + 1)
      /\ \A id \in DOMAIN symbols : symbols'[id] = symbols[id]
      /\ symbols'[Len(symbols) + 1] = symbol
  BY <1>1, <1>3, AppendList
<1>5. /\ \A id \in DOMAIN blockOf : blockOf'[id] = blockOf[id]
      /\ blockOf'[Len(blockOf) + 1] = into
  BY <1>1, <1>3, AppendList
<1> QED
  BY <1>1, <1>2, <1>4, <1>5

\* The three ways pass 2 declares a name.
Declares(symbol, into) ==
    /\ addSymbol(symbol, into)
    /\ symbol.kind \in {"Parameter", "Local"}
    /\ UNCHANGED <<declaring, functions, annotation, resolved, here, pass, body>>
    /\ pass = "bodies"
    /\ symbol.name \in Names
    /\ errors' = DuplicateError(ScopeOf(into)[symbol.name], symbol.at)
    /\ into \notin {PreludeBlock, FileBlock}

LEMMA SignatureAdded ==
    ASSUME IInv, UnknownInv, Signatures, addFunction
    PROVE  Signatures'
<1> DEFINE symbol == Symbol("Function", declaring.name, declaring.at, Unresolved, declaring.types)
           function == [name |-> declaring.name, at |-> declaring.at,
                        parameters |-> declaring.parameters]
           n == Len(functions)
<1>1. /\ declaring # NoDeclaration /\ declaring' = NoDeclaration /\ annotation' = NoAnnotation
      /\ addSymbol(symbol, FileBlock) /\ functions' = Append(functions, function)
      /\ UNCHANGED <<resolved, pass>>
  BY DEF addFunction
<1>2. pass = "collect" /\ Len(symbols) = n
  BY <1>1 DEF IInv, Scopes, Signatures
<1>3. /\ n \in Nat /\ DOMAIN functions = 1..n
      /\ Len(functions') = n + 1 /\ DOMAIN functions' = 1..(n + 1)
      /\ \A f \in 1..n : functions'[f] = functions[f]
      /\ functions'[n + 1] = function
  BY <1>1, ListFacts, AppendList DEF IInv, Lists
<1>4. /\ symbol.kind = "Function" /\ symbol.at = declaring.at /\ symbol.parameterTypes = declaring.types
      /\ function.at = declaring.at /\ function.parameters = declaring.parameters
  BY DEF Symbol
<1> HIDE DEF symbol, function
<1>5. /\ DOMAIN symbols = 1..n /\ Len(symbols') = n + 1 /\ DOMAIN symbols' = 1..(n + 1)
      /\ \A f \in 1..n : symbols'[f] = symbols[f]
      /\ symbols'[n + 1] = symbol
  BY <1>1, <1>2, SymbolAdded
<1>6. FinalKept
  BY <1>1, FinalQuiet
<1>7. ASSUME NEW f \in 1..(n + 1)
      PROVE  /\ symbols'[f].at = functions'[f].at
             /\ \A p \in DOMAIN functions'[f].parameters :
                   Final(functions[f].parameters[p].at, symbols[f].parameterTypes[p])'
  <2>1. CASE f \in 1..n
    <3>1. symbols'[f] = symbols[f] /\ functions'[f] = functions[f] /\ f \in DOMAIN functions
      BY <1>3, <1>5, <2>1
    <3>2. symbols[f].at = functions[f].at
          /\ \A p \in DOMAIN functions[f].parameters :
                Final(functions[f].parameters[p].at, symbols[f].parameterTypes[p])
      BY <3>1 DEF Signatures
    <3> QED
      BY <1>6, <3>1, <3>2 DEF Final, FinalKept
  <2>2. CASE f = n + 1
    <3>1. symbols'[f] = symbol /\ functions'[f] = function
      BY <1>3, <1>5, <2>2
    <3>2. \A p \in DOMAIN declaring.parameters : Final(declaring.parameters[p].at, declaring.types[p])
      BY DEF Signatures
    <3> QED
      BY <1>4, <1>6, <3>1, <3>2 DEF Final, FinalKept
  <2> QED
    BY <1>3, <2>1, <2>2
<1>8. ASSUME NEW id \in 1..(n + 1)
      PROVE  /\ symbols'[id].kind = "Function" => id \in DOMAIN functions'
             /\ symbols'[id].kind = "Builtin" => symbols'[id].at = 0
             /\ symbols'[id].kind = "Parameter" => Final(symbols[id].at, symbols[id].type)'
  <2>1. CASE id \in 1..n
    <3>1. symbols'[id] = symbols[id] /\ id \in DOMAIN symbols
      BY <1>5, <2>1
    <3>2. /\ symbols[id].kind = "Builtin" => symbols[id].at = 0
          /\ symbols[id].kind = "Parameter" => Final(symbols[id].at, symbols[id].type)
      BY <3>1 DEF Signatures
    <3> QED
      BY <1>3, <1>6, <3>1, <3>2 DEF Final, FinalKept
  <2>2. CASE id = n + 1
    BY <1>3, <1>4, <1>5, <2>2
  <2> QED
    BY <1>3, <2>1, <2>2
<1>9. /\ declaring'.parameters = <<>> /\ declaring'.types = <<>>
      /\ annotation' = NoAnnotation'
  BY <1>1 DEF NoDeclaration, NoAnnotation, Unresolved
<1>10. Len(symbols') = Len(functions')
  BY <1>3, <1>5
<1> QED
  BY <1>3, <1>5, <1>7, <1>8, <1>9, <1>10 DEF Signatures

LEMMA SignaturesDeclared ==
    ASSUME IInv, UnknownInv, Signatures, NEW symbol, NEW into, Declares(symbol, into),
           symbol.kind = "Parameter" => Final(symbol.at, symbol.type)
    PROVE  Signatures'
<1> DEFINE n == Len(symbols)
<1>1. /\ n \in Nat /\ DOMAIN symbols = 1..n /\ DOMAIN symbols' = 1..(n + 1)
      /\ \A id \in DOMAIN symbols : symbols'[id] = symbols[id]
      /\ symbols'[n + 1] = symbol
  BY SymbolAdded DEF Declares
<1>2. /\ UNCHANGED <<declaring, functions, annotation, resolved, pass>> /\ pass = "bodies"
      /\ symbol.kind \in {"Parameter", "Local"}
  BY DEF Declares
<1>3. \A f \in DOMAIN functions :
          /\ f \in DOMAIN symbols'
          /\ symbols'[f].at = functions[f].at
          /\ \A p \in DOMAIN functions[f].parameters :
                Final(functions[f].parameters[p].at, symbols'[f].parameterTypes[p])
  BY <1>1 DEF Signatures
<1>4. \A id \in DOMAIN symbols' :
          /\ symbols'[id].kind = "Function" => id \in DOMAIN functions
          /\ symbols'[id].kind = "Builtin" => symbols'[id].at = 0
          /\ symbols'[id].kind = "Parameter" => Final(symbols'[id].at, symbols'[id].type)
  BY <1>1, <1>2 DEF Signatures
<1> HIDE DEF n
<1>5. NoAnnotation' = NoAnnotation
  BY DEF NoAnnotation, Unresolved
<1> QED
  BY <1>2, <1>3, <1>4, <1>5 DEF Signatures, Final

LEMMA SignaturesPrelude ==
    ASSUME ResolutionAssumption, IInv, UnknownInv, Signatures, buildPreludeScope
    PROVE  Signatures'
<1> DEFINE n == Len(symbols)
           m == Len(Builtins)
<1>1. /\ UNCHANGED <<declaring, functions, annotation, resolved>> /\ pass' = "bodies"
  BY DEF buildPreludeScope, typeVars
<1>2. /\ DOMAIN symbols = 1..n /\ n \in Nat /\ m \in Nat
      /\ DOMAIN symbols' = 1..(n + m)
      /\ \A id \in 1..n : symbols'[id] = symbols[id]
      /\ \A i \in 1..m : symbols'[n + i] = Builtin(Builtins[i])
      /\ \A id \in DOMAIN symbols' : id \in 1..n \/ \E i \in 1..m : id = n + i
  BY PreludeSymbols
<1>3. \A name : Builtin(name).kind = "Builtin" /\ Builtin(name).at = 0
  BY DEF Builtin, Symbol
<1>4. \A f \in DOMAIN functions :
          /\ f \in DOMAIN symbols'
          /\ symbols'[f].at = functions[f].at
          /\ \A p \in DOMAIN functions[f].parameters :
                Final(functions[f].parameters[p].at, symbols'[f].parameterTypes[p])
  BY <1>2 DEF Signatures
<1>5. \A id \in DOMAIN symbols' :
          /\ symbols'[id].kind = "Function" => id \in DOMAIN functions
          /\ symbols'[id].kind = "Builtin" => symbols'[id].at = 0
          /\ symbols'[id].kind = "Parameter" => Final(symbols'[id].at, symbols'[id].type)
  <2> TAKE id \in DOMAIN symbols'
  <2>1. CASE id \in 1..n
    BY <1>2, <2>1 DEF Signatures
  <2>2. ASSUME NEW i \in 1..m, id = n + i
        PROVE  symbols'[id].kind = "Builtin" /\ symbols'[id].at = 0
    BY <1>2, <1>3, <2>2
  <2> QED
    BY <1>2, <2>1, <2>2
<1>6. NoAnnotation' = NoAnnotation
  BY DEF NoAnnotation, Unresolved
<1> QED
  BY <1>1, <1>4, <1>5, <1>6 DEF Signatures, Final

LEMMA KeptTypes == IInv /\ Signatures => ParametersKeepTheirTypes
BY DEF Signatures, Final, Settled, ParametersKeepTheirTypes

----------------------------------------------------------------------------
(* Positions *)

LEMMA Places ==
    /\ \A f \in DOMAIN functions : \A p \in DOMAIN functions[f].parameters :
          /\ <<f, p>> \in ParameterPlaces
          /\ ParameterAt(<<f, p>>) = functions[f].parameters[p].at
    /\ \A place \in ParameterPlaces :
          /\ place[1] \in DOMAIN functions
          /\ place[2] \in DOMAIN functions[place[1]].parameters
          /\ place = <<place[1], place[2]>>
BY DEF ParameterPlaces, ParameterAt

\* A parameter is where its annotation, which is finished, is.
LEMMA PlaceFinal ==
    ASSUME IInv, UnknownInv, Signatures, NEW place \in ParameterPlaces
    PROVE  /\ here \in Nat
           /\ ParameterAt(place) \in 1..here
           /\ \E a \in resolved : a.at = ParameterAt(place)
           /\ annotation.at # ParameterAt(place)
<1>1. place[1] \in DOMAIN functions /\ place[2] \in DOMAIN functions[place[1]].parameters
  BY Places
<1>2. \E type : Final(ParameterAt(place), type)
  BY <1>1 DEF Signatures, ParameterAt
<1>3. here \in Nat /\ \A a \in resolved : a.at \in 1..here
  BY DEF IInv, TableInv, UnknownInv
<1> QED
  BY <1>2, <1>3 DEF Final, Settled

\* So is a parameter that has been read but belongs to no function yet.
LEMMA ReadFinal ==
    ASSUME IInv, UnknownInv, Signatures, NEW p \in DOMAIN declaring.parameters
    PROVE  /\ declaring.parameters[p].at \in 1..here
           /\ \E a \in resolved : a.at = declaring.parameters[p].at
           /\ annotation.at # declaring.parameters[p].at
<1>1. \E type : Final(declaring.parameters[p].at, type)
  BY DEF Signatures
<1>2. here \in Nat /\ \A a \in resolved : a.at \in 1..here
  BY DEF IInv, TableInv, UnknownInv
<1> QED
  BY <1>1, <1>2 DEF Final, Settled

\* Steps that leave the functions and the symbols alone
LEMMA PlacesKept ==
    ASSUME functions' = functions
    PROVE  /\ ParameterPlaces' = ParameterPlaces
           /\ \A place : ParameterAt(place)' = ParameterAt(place)
BY DEF ParameterPlaces, ParameterAt

LEMMA FunctionsApartKept ==
    ASSUME IInv, UnknownInv, FunctionsApart, functions' = functions, here' \in {here, here + 1},
           \A a \in resolved' \ resolved : a.at = here + 1 \/ \E b \in resolved : a.at = b.at
    PROVE  FunctionsApart'
<1>1. here \in Nat
  BY DEF IInv, TableInv
<1>2. \A f \in DOMAIN functions :
          functions[f].at \in 1..here' /\ \A a \in resolved' : a.at # functions[f].at
  BY <1>1 DEF FunctionsApart
<1> QED
  BY <1>2, PlacesKept DEF FunctionsApart

LEMMA LocalsApartKept ==
    ASSUME LocalsApart, UNCHANGED <<functions, symbols>>,
           doing' \in {"annotation", "initializer", "iterable"} =>
               \A place \in ParameterPlaces : ParameterAt(place) < local'.at
    PROVE  LocalsApart'
BY PlacesKept DEF LocalsApart

LEMMA SymbolsApartKept ==
    ASSUME SymbolsApart, UNCHANGED <<functions, symbols>>,
           \A place \in ParameterPlaces : IsDeclared(place) => IsDeclared(place)'
    PROVE  SymbolsApart'
BY PlacesKept DEF SymbolsApart

LEMMA DeclaringApartKept ==
    ASSUME DeclaringApart, UNCHANGED <<functions, declaring, resolved>>
    PROVE  DeclaringApart'
<1>1. NoDeclaration' = NoDeclaration
  BY DEF NoDeclaration, Unresolved
<1> QED
  BY <1>1, PlacesKept DEF DeclaringApart

LEMMA PositionsResolving ==
    ASSUME TypeTableAssumption, IInv, UnknownInv, OwnPositions, resolveTypeSyntax,
           UNCHANGED <<collectVars, symbols, walkVars, historyVars>>
    PROVE  OwnPositions'
<1>1. /\ here \in Nat /\ here' = here + 1 /\ resolved' = resolved \cup {annotation'}
      /\ annotation'.at = here + 1 \/ \E b \in resolved : annotation'.at = b.at
  BY Resolving
<1>2. UNCHANGED <<functions, declaring, symbols, doing, local, body, parameter>>
  BY DEF collectVars, walkVars
<1>3. DeclaringApart'
  <2>1. declaring.at # here + 1
    BY <1>1 DEF IInv, Positions
  <2>2. \A a \in resolved' : a.at # declaring.at
    BY <1>1, <2>1 DEF OwnPositions, DeclaringApart
  <2>3. NoDeclaration' = NoDeclaration
    BY DEF NoDeclaration, Unresolved
  <2> QED
    BY <1>2, <2>2, <2>3, PlacesKept DEF OwnPositions, DeclaringApart
<1>4. FunctionsApart'
  BY <1>1, <1>2, FunctionsApartKept DEF OwnPositions
<1>5. LocalsApart'
  BY <1>2, LocalsApartKept DEF OwnPositions, LocalsApart
<1>6. SymbolsApart'
  BY <1>2, SymbolsApartKept DEF OwnPositions, IsDeclared
<1> QED
  BY <1>3, <1>4, <1>5, <1>6 DEF OwnPositions

LEMMA PositionsBegun ==
    ASSUME IInv, UnknownInv, OwnPositions, NEW name \in Names, collectFunctionDecl(name)
    PROVE  OwnPositions'
<1>1. /\ here \in Nat /\ here' = here + 1
      /\ declaring'.at = here + 1 /\ declaring'.parameters = <<>>
      /\ UNCHANGED <<functions, resolved, symbols, doing, local, body, parameter>>
  BY DEF collectFunctionDecl, ReadOn, walkVars, IInv, TableInv
<1>2. DeclaringApart'
  BY <1>1 DEF DeclaringApart, OwnPositions, FunctionsApart, UnknownInv
<1>3. FunctionsApart'
  BY <1>1, FunctionsApartKept DEF OwnPositions
<1>4. LocalsApart'
  BY <1>1, LocalsApartKept DEF OwnPositions, LocalsApart
<1>5. SymbolsApart'
  BY <1>1, SymbolsApartKept DEF OwnPositions, IsDeclared
<1> QED
  BY <1>2, <1>3, <1>4, <1>5 DEF OwnPositions

LEMMA PositionRead ==
    ASSUME IInv, UnknownInv, Signatures, OwnPositions, NEW name \in Names, resolveParameter(name)
    PROVE  OwnPositions'
<1> DEFINE p == [name |-> name, at |-> annotation.at]
           n == Len(declaring.parameters)
<1>1. /\ declaring # NoDeclaration
      /\ declaring' = [declaring EXCEPT !.parameters = Append(@, p),
                                        !.types = Append(@, annotation.type)]
      /\ UNCHANGED <<here, functions, resolved, symbols, doing, local, body, parameter>>
  BY DEF resolveParameter, walkVars
<1>2. declaring'.parameters = Append(declaring.parameters, p) /\ declaring'.at = declaring.at
  BY <1>1 DEF IInv, TypeOK, DeclarationSet
<1>3. IsList(declaring.parameters)
  BY DEF IInv, Lists
<1>4. /\ n \in Nat /\ DOMAIN declaring.parameters = 1..n
      /\ DOMAIN declaring'.parameters = 1..(n + 1)
      /\ \A i \in 1..n : declaring'.parameters[i] = declaring.parameters[i]
      /\ declaring'.parameters[n + 1] = p
  BY <1>2, <1>3, AppendList, ListFacts
<1>5. p.at = annotation.at
  OBVIOUS
<1> HIDE DEF p, n
<1>6. DeclaringApart'
  <2>1. \A i, j \in 1..(n + 1) : declaring'.parameters[i].at = declaring'.parameters[j].at => i = j
    <3>1. \A i \in 1..n : declaring.parameters[i].at # p.at
      BY <1>4, <1>5, ReadFinal
    <3>2. \A i, j \in 1..n : declaring.parameters[i].at = declaring.parameters[j].at => i = j
      BY <1>4 DEF OwnPositions, DeclaringApart
    <3>3. \A i \in 1..(n + 1) : i \in 1..n \/ i = n + 1
      BY <1>4
    <3> QED
      BY <1>4, <3>1, <3>2, <3>3
  <2>2. \A place \in ParameterPlaces : \A i \in 1..(n + 1) :
            declaring'.parameters[i].at # ParameterAt(place)
    <3> TAKE place \in ParameterPlaces
    <3> TAKE i \in 1..(n + 1)
    <3>1. annotation.at # ParameterAt(place)
      BY PlaceFinal
    <3>2. CASE i \in 1..n
      BY <1>4, <3>2 DEF OwnPositions, DeclaringApart
    <3>3. CASE i = n + 1
      BY <1>4, <1>5, <3>1, <3>3
    <3> QED
      BY <1>4, <3>2, <3>3
  <2>3. declaring.at # 0
    BY <1>1 DEF OwnPositions, DeclaringApart
  <2> QED
    BY <1>1, <1>2, <1>4, <2>1, <2>2, <2>3, PlacesKept DEF OwnPositions, DeclaringApart
<1>7. FunctionsApart'
  BY <1>1, FunctionsApartKept DEF OwnPositions
<1>8. LocalsApart'
  BY <1>1, LocalsApartKept DEF OwnPositions, LocalsApart
<1>9. SymbolsApart'
  BY <1>1, SymbolsApartKept DEF OwnPositions, IsDeclared
<1> QED
  BY <1>6, <1>7, <1>8, <1>9 DEF OwnPositions

\* A declaration that begins is further on than every parameter.
LEMMA PositionsLocal ==
    ASSUME IInv, UnknownInv, Signatures, OwnPositions, NEW name \in Names,
           varDecl(name) \/ beginFor(name)
    PROVE  OwnPositions'
<1>1. /\ here \in Nat /\ here' = here + 1 /\ local'.at = here + 1
      /\ UNCHANGED <<functions, resolved, declaring, symbols, body, parameter>>
  BY DEF varDecl, beginFor, ReadOn, Begin, collectVars, IInv, TableInv
<1>2. \A place \in ParameterPlaces : ParameterAt(place) < local'.at
  BY <1>1, PlaceFinal
<1>3. DeclaringApart' /\ FunctionsApart'
  BY <1>1, DeclaringApartKept, FunctionsApartKept DEF OwnPositions
<1>4. LocalsApart'
  BY <1>1, <1>2, LocalsApartKept DEF OwnPositions
<1>5. SymbolsApart'
  BY <1>1, SymbolsApartKept DEF OwnPositions, IsDeclared
<1> QED
  BY <1>3, <1>4, <1>5 DEF OwnPositions

\* Steps that begin no declaration
LEMMA PositionsQuiet ==
    ASSUME IInv, UnknownInv, OwnPositions, UNCHANGED <<functions, resolved, declaring, symbols>>,
           here' \in {here, here + 1},
           doing' \in {"annotation", "initializer", "iterable"} =>
               doing \in {"annotation", "initializer", "iterable"} /\ local'.at = local.at,
           \/ UNCHANGED <<body, parameter>>
           \/ body' = body + 1
    PROVE  OwnPositions'
<1>1. DeclaringApart' /\ FunctionsApart'
  BY DeclaringApartKept, FunctionsApartKept DEF OwnPositions
<1>2. LocalsApart'
  <2>1. doing' \in {"annotation", "initializer", "iterable"} =>
            \A place \in ParameterPlaces : ParameterAt(place) < local'.at
    BY DEF OwnPositions, LocalsApart
  <2> QED
    BY <2>1, LocalsApartKept DEF OwnPositions
<1>3. SymbolsApart'
  <2>1. body \in Nat /\ \A place \in ParameterPlaces : place[1] \in Nat
    BY Places, ListFacts DEF IInv, TypeOK, Lists
  <2>2. \A place \in ParameterPlaces : IsDeclared(place) => IsDeclared(place)'
    BY <2>1 DEF IsDeclared
  <2> QED
    BY <2>2, SymbolsApartKept DEF OwnPositions
<1> QED
  BY <1>1, <1>2, <1>3 DEF OwnPositions

LEMMA PositionsPrelude ==
    ASSUME ResolutionAssumption, IInv, UnknownInv, Signatures, OwnPositions, buildPreludeScope
    PROVE  OwnPositions'
<1> DEFINE n == Len(symbols)
           m == Len(Builtins)
<1>1. UNCHANGED <<here, functions, resolved, declaring, doing, local, body, parameter>>
  BY DEF buildPreludeScope, typeVars, walkVars
<1>2. /\ DOMAIN symbols = 1..n /\ n \in Nat /\ m \in Nat
      /\ DOMAIN symbols' = 1..(n + m)
      /\ \A id \in 1..n : symbols'[id] = symbols[id]
      /\ \A i \in 1..m : symbols'[n + i] = Builtin(Builtins[i])
      /\ \A id \in DOMAIN symbols' : id \in 1..n \/ \E i \in 1..m : id = n + i
  BY PreludeSymbols
<1>3. \A id \in DOMAIN symbols' :
          \/ id \in DOMAIN symbols /\ symbols'[id] = symbols[id]
          \/ symbols'[id].kind = "Builtin" /\ symbols'[id].at = 0
  <2>1. \A name : Builtin(name).kind = "Builtin" /\ Builtin(name).at = 0
    BY DEF Builtin, Symbol
  <2> QED
    BY <1>2, <2>1
<1>4. \A id \in DOMAIN symbols : symbols[id].at # 0
  <2>1. \A f \in DOMAIN functions : symbols[f].at \in 1..here
    BY DEF OwnPositions, FunctionsApart, Signatures
  <2>2. DOMAIN functions = DOMAIN symbols
    BY <1>2, ListFacts DEF buildPreludeScope, Signatures, IInv, Lists
  <2> QED
    BY <2>1, <2>2
<1>5. DeclaringApart' /\ FunctionsApart'
  BY <1>1, DeclaringApartKept, FunctionsApartKept DEF OwnPositions
<1>6. LocalsApart'
  BY <1>1, <1>3, PlacesKept DEF OwnPositions, LocalsApart
<1>7. SymbolsApart'
  <2>1. \A place : IsDeclared(place)' = IsDeclared(place)
    BY <1>1 DEF IsDeclared
  <2> QED
    BY <1>1, <1>3, <1>4, <2>1, PlacesKept DEF OwnPositions, SymbolsApart
<1> QED
  BY <1>5, <1>6, <1>7 DEF OwnPositions

LEMMA PositionsFunction ==
    ASSUME IInv, UnknownInv, Signatures, OwnPositions, addFunction
    PROVE  OwnPositions'
<1> DEFINE symbol == Symbol("Function", declaring.name, declaring.at, Unresolved, declaring.types)
           function == [name |-> declaring.name, at |-> declaring.at,
                        parameters |-> declaring.parameters]
           n == Len(functions)
<1>1. /\ declaring # NoDeclaration /\ declaring' = NoDeclaration
      /\ addSymbol(symbol, FileBlock) /\ functions' = Append(functions, function)
      /\ UNCHANGED <<here, resolved, doing, local, body, parameter>>
  BY DEF addFunction, walkVars
<1>2. pass = "collect" /\ Len(symbols) = n /\ doing = "file"
  BY <1>1 DEF IInv, Scopes, Signatures
<1>3. /\ n \in Nat /\ DOMAIN functions = 1..n
      /\ DOMAIN functions' = 1..(n + 1)
      /\ \A f \in 1..n : functions'[f] = functions[f]
      /\ functions'[n + 1] = function
  BY <1>1, ListFacts, AppendList DEF IInv, Lists
<1>4. /\ symbol.kind = "Function" /\ symbol.at = declaring.at
      /\ function.at = declaring.at /\ function.parameters = declaring.parameters
  BY DEF Symbol
<1> HIDE DEF symbol, function
<1>5. /\ DOMAIN symbols = 1..n /\ DOMAIN symbols' = 1..(n + 1)
      /\ \A f \in 1..n : symbols'[f] = symbols[f]
      /\ symbols'[n + 1] = symbol
  BY <1>1, <1>2, SymbolAdded
<1>6. \A f \in 1..(n + 1) : f \in 1..n \/ f = n + 1
  BY <1>3
<1> HIDE DEF n
<1>7. here \in Nat /\ declaring.at \in 1..here
  BY <1>1 DEF IInv, TableInv, Positions, OwnPositions, DeclaringApart
<1>8. /\ \A place \in ParameterPlaces :
            place \in ParameterPlaces' /\ ParameterAt(place)' = ParameterAt(place)
      /\ \A place \in ParameterPlaces' :
            \/ place \in ParameterPlaces
            \/ /\ place[2] \in DOMAIN declaring.parameters
               /\ place = <<n + 1, place[2]>>
               /\ ParameterAt(place)' = declaring.parameters[place[2]].at
  <2>1. ASSUME NEW place \in ParameterPlaces
        PROVE  place \in ParameterPlaces' /\ ParameterAt(place)' = ParameterAt(place)
    <3>1. /\ place[1] \in 1..n /\ place[2] \in DOMAIN functions[place[1]].parameters
          /\ place = <<place[1], place[2]>>
      BY <1>3, Places
    <3>2. place[1] \in DOMAIN functions' /\ functions'[place[1]] = functions[place[1]]
      BY <1>3, <3>1
    <3> QED
      BY <3>1, <3>2 DEF ParameterPlaces, ParameterAt
  <2>2. ASSUME NEW place \in ParameterPlaces'
        PROVE  \/ place \in ParameterPlaces
               \/ /\ place[2] \in DOMAIN declaring.parameters
                  /\ place = <<n + 1, place[2]>>
                  /\ ParameterAt(place)' = declaring.parameters[place[2]].at
    <3>1. PICK f \in DOMAIN functions' : place \in {f} \X DOMAIN functions'[f].parameters
      BY DEF ParameterPlaces
    <3>2. /\ place = <<f, place[2]>> /\ place[1] = f
          /\ place[2] \in DOMAIN functions'[f].parameters
      BY <3>1
    <3>3. CASE f \in 1..n
      BY <1>3, <3>1, <3>3 DEF ParameterPlaces
    <3>4. CASE f = n + 1
      BY <1>3, <1>4, <3>2, <3>4 DEF ParameterAt
    <3> QED
      BY <1>3, <1>6, <3>3, <3>4
  <2> QED
    BY <2>1, <2>2
<1>9. DeclaringApart'
  <2>1. /\ declaring'.at = 0 /\ declaring'.parameters = <<>> /\ NoDeclaration' = NoDeclaration
    BY <1>1 DEF NoDeclaration, Unresolved
  <2>2. \A a \in resolved' : a.at # 0
    BY <1>1, <1>7 DEF UnknownInv
  <2>3. \A f \in DOMAIN functions' : functions'[f].at # 0
    BY <1>3, <1>4, <1>6, <1>7 DEF OwnPositions, FunctionsApart
  <2> QED
    BY <1>1, <2>1, <2>2, <2>3 DEF DeclaringApart
<1>10. FunctionsApart'
  <2>1. \A f \in DOMAIN functions' :
            functions'[f].at \in 1..here /\ \A a \in resolved : a.at # functions'[f].at
    BY <1>3, <1>4, <1>6, <1>7 DEF OwnPositions, FunctionsApart, DeclaringApart
  <2>2. ASSUME NEW place \in ParameterPlaces', NEW other \in ParameterPlaces',
               ParameterAt(place)' = ParameterAt(other)'
        PROVE  place = other
    <3>1. CASE place \in ParameterPlaces /\ other \in ParameterPlaces
      BY <1>8, <2>2, <3>1 DEF OwnPositions, FunctionsApart
    <3>2. CASE place \in ParameterPlaces /\ other \notin ParameterPlaces
      BY <1>8, <2>2, <3>2 DEF OwnPositions, DeclaringApart
    <3>3. CASE place \notin ParameterPlaces /\ other \in ParameterPlaces
      BY <1>8, <2>2, <3>3 DEF OwnPositions, DeclaringApart
    <3>4. CASE place \notin ParameterPlaces /\ other \notin ParameterPlaces
      BY <1>8, <2>2, <3>4 DEF OwnPositions, DeclaringApart
    <3> QED
      BY <3>1, <3>2, <3>3, <3>4
  <2> QED
    BY <1>1, <2>1, <2>2 DEF FunctionsApart
<1>11. LocalsApart'
  <2>1. ASSUME NEW place \in ParameterPlaces', NEW id \in DOMAIN symbols', symbols'[id].kind = "Local"
        PROVE  symbols'[id].at # ParameterAt(place)'
    <3>1. id \in DOMAIN functions /\ symbols'[id] = symbols[id] /\ id \in DOMAIN symbols
      BY <1>3, <1>4, <1>5, <1>6, <2>1
    <3>2. symbols'[id].at = functions[id].at
      BY <3>1 DEF Signatures
    <3>3. CASE place \in ParameterPlaces
      BY <1>8, <2>1, <3>1, <3>3 DEF OwnPositions, LocalsApart
    <3>4. CASE place \notin ParameterPlaces
      <4>1. \E a \in resolved : a.at = ParameterAt(place)'
        BY <1>8, <3>4, ReadFinal
      <4> QED
        BY <3>1, <3>2, <4>1 DEF OwnPositions, FunctionsApart
    <3> QED
      BY <3>3, <3>4
  <2> QED
    BY <1>1, <1>2, <2>1 DEF LocalsApart
<1>12. SymbolsApart'
  <2>1. \A place : IsDeclared(place)' = IsDeclared(place)
    BY <1>1 DEF IsDeclared
  <2>2. \A id \in DOMAIN symbols : symbols[id].at # declaring.at
    <3>1. \A f \in DOMAIN functions : symbols[f].at # declaring.at
      BY DEF Signatures, OwnPositions, DeclaringApart
    <3> QED
      BY <1>3, <1>5, <3>1
  <2>3. ASSUME NEW id \in DOMAIN symbols'
        PROVE  /\ symbols'[id].kind = "Parameter" =>
                      \E place \in ParameterPlaces :
                          IsDeclared(place)' /\ symbols'[id].at = ParameterAt(place)
               /\ symbols'[id].kind # "Builtin" =>
                      \A other \in DOMAIN symbols' : symbols'[other].at = symbols'[id].at => other = id
    <3>1. CASE id \in 1..n
      BY <1>4, <1>5, <1>6, <2>1, <2>2, <3>1 DEF OwnPositions, SymbolsApart
    <3>2. CASE id = n + 1
      BY <1>4, <1>5, <1>6, <2>2, <3>2
    <3> QED
      BY <1>5, <1>6, <3>1, <3>2
  <2> QED
    BY <1>8, <2>3 DEF SymbolsApart
<1> QED
  BY <1>9, <1>10, <1>11, <1>12 DEF OwnPositions

\* A name is declared in pass 2 at a position no symbol is at yet.
LEMMA PositionsDeclared ==
    ASSUME IInv, UnknownInv, Signatures, OwnPositions, NEW symbol, NEW into, Declares(symbol, into),
           doing' \notin {"annotation", "initializer", "iterable"},
           \A id \in DOMAIN symbols : symbols[id].at # symbol.at,
           symbol.kind = "Local" => \A place \in ParameterPlaces : symbol.at # ParameterAt(place),
           symbol.kind = "Parameter" =>
               \E place \in ParameterPlaces : IsDeclared(place)' /\ symbol.at = ParameterAt(place),
           \A place \in ParameterPlaces : IsDeclared(place) => IsDeclared(place)'
    PROVE  OwnPositions'
<1> DEFINE new == Len(symbols) + 1
<1>1. /\ DOMAIN symbols' = DOMAIN symbols \cup {new}
      /\ \A id \in DOMAIN symbols : symbols'[id] = symbols[id]
      /\ symbols'[new] = symbol
  <2>1. addSymbol(symbol, into)
    BY DEF Declares
  <2>2. /\ Len(symbols) \in Nat /\ DOMAIN symbols = 1..Len(symbols)
        /\ DOMAIN symbols' = 1..(Len(symbols) + 1)
        /\ \A id \in DOMAIN symbols : symbols'[id] = symbols[id]
        /\ symbols'[Len(symbols) + 1] = symbol
    BY <2>1, SymbolAdded
  <2> QED
    BY <2>2
<1> HIDE DEF new
<1>2. UNCHANGED <<functions, declaring, resolved, here>>
  BY DEF Declares
<1>3. DeclaringApart' /\ FunctionsApart'
  BY <1>2, DeclaringApartKept, FunctionsApartKept DEF OwnPositions
<1>4. LocalsApart'
  BY <1>1, <1>2, PlacesKept DEF OwnPositions, LocalsApart
<1>5. SymbolsApart'
  BY <1>1, <1>2, PlacesKept DEF OwnPositions, SymbolsApart
<1> QED
  BY <1>3, <1>4, <1>5 DEF OwnPositions

\* The next parameter, where it stands and what type its function's signature gives it.
LEMMA ParameterDeclares ==
    ASSUME IInv, UnknownInv, Signatures, OwnPositions, declareParameter
    PROVE  \E symbol, into :
               /\ Declares(symbol, into)
               /\ symbol.kind = "Parameter"
               /\ Final(symbol.at, symbol.type)
               /\ <<body, parameter + 1>> \in ParameterPlaces
               /\ symbol.at = ParameterAt(<<body, parameter + 1>>)
<1> DEFINE p == Function.parameters[parameter + 1]
           own == declarationSymbol(Function.at)
           type == symbols[own].parameterTypes[parameter + 1]
           symbol == Symbol("Parameter", p.name, p.at, type, <<>>)
<1>1. /\ doing = "statements"
      /\ parameter < Len(Function.parameters)
      /\ errors' = DuplicateError(scope[p.name], p.at)
      /\ addSymbol(symbol, Block)
      /\ UNCHANGED <<annotation, resolved, here, body>>
      /\ UNCHANGED <<pass, declaring, functions>>
  BY DEF declareParameter, declareInScope, collectVars
<1>2. /\ body \in DOMAIN functions /\ parameter \in Nat
      /\ parameter + 1 \in DOMAIN Function.parameters
      /\ p.name \in Names
  <2>1. /\ body \in DOMAIN functions /\ parameter \in Nat
        /\ IsList(Function.parameters)
        /\ \A i \in DOMAIN Function.parameters : Function.parameters[i].name \in Names
    BY <1>1 DEF IInv, Lists, Function
  <2>2. parameter + 1 \in DOMAIN Function.parameters
    BY <1>1, <2>1, ListFacts
  <2> QED
    BY <2>1, <2>2
<1>3. own = body
  <2>1. body \in DOMAIN symbols /\ symbols[body].at = Function.at
    BY <1>2 DEF Signatures, Function
  <2>2. \A id \in DOMAIN symbols : symbols[id].at = symbols[body].at => id = body
    <3>1. CASE symbols[body].kind # "Builtin"
      BY <2>1, <3>1 DEF OwnPositions, SymbolsApart
    <3>2. CASE symbols[body].kind = "Builtin"
      <4>1. symbols[body].at = 0
        BY <2>1, <3>2 DEF Signatures
      <4>2. symbols[body].at \in 1..here
        BY <1>2, <2>1 DEF OwnPositions, FunctionsApart, Function
      <4> QED
        BY <4>1, <4>2
    <3> QED
      BY <3>1, <3>2
  <2> QED
    BY <2>1, <2>2 DEF declarationSymbol
<1>4. Final(p.at, type)
  BY <1>2, <1>3 DEF Signatures, Function
<1>5. <<body, parameter + 1>> \in ParameterPlaces
      /\ p.at = ParameterAt(<<body, parameter + 1>>)
  BY <1>2, Places DEF Function
<1>6. /\ symbol.kind = "Parameter" /\ symbol.at = p.at /\ symbol.type = type /\ symbol.name = p.name
  BY DEF Symbol
<1> HIDE DEF symbol, p, type
<1>7. /\ pass = "bodies" /\ scope = ScopeOf(Block)
  BY <1>1 DEF IInv, TypeOK, Scopes
<1>8. Block \notin {PreludeBlock, FileBlock}
  <2>1. /\ Len(chain) > 2 /\ Len(chain) \in Nat /\ DOMAIN chain = 1..Len(chain)
        /\ \A i, j \in DOMAIN chain : i < j => chain[i] < chain[j]
        /\ chain[1] = PreludeBlock /\ chain[2] = FileBlock
    BY <1>1 DEF IInv, Scopes, Chains, TypeOK
  <2>2. chain[1] < chain[Len(chain)] /\ chain[2] < chain[Len(chain)]
    BY <2>1
  <2> QED
    BY <2>1, <2>2 DEF Block, PreludeBlock, FileBlock
<1>9. Declares(symbol, Block)
  BY <1>1, <1>2, <1>6, <1>7, <1>8 DEF Declares
<1> QED
  BY <1>4, <1>5, <1>6, <1>9

\* A local or the variable of a loop
LEMMA LocalDeclares ==
    ASSUME IInv, declareLocal \/ enterFor
    PROVE  \E symbol, into :
               /\ Declares(symbol, into)
               /\ symbol.kind = "Local"
               /\ symbol.at = local.at
               /\ doing \in {"initializer", "iterable"} /\ doing' = "statements"
               /\ UNCHANGED parameter
<1>1. doing \in {"initializer", "iterable"} /\ doing' = "statements" /\ parameter' = parameter
  BY DEF declareLocal, enterFor
<1>2. local.name \in Names
  BY <1>1 DEF IInv, Positions
<1>3. /\ pass = "bodies"
      /\ Len(chain) > 2 /\ Len(chain) \in Nat /\ DOMAIN chain = 1..Len(chain)
      /\ \A i, j \in DOMAIN chain : i < j => chain[i] < chain[j]
      /\ chain[1] = PreludeBlock /\ chain[2] = FileBlock
  BY <1>1 DEF IInv, Scopes, Chains, TypeOK
<1>4. UNCHANGED <<declaring, functions, annotation, resolved, here, pass, body>>
  BY DEF declareLocal, enterFor, collectVars
<1>5. CASE declareLocal
  <2> DEFINE symbol == Symbol("Local", local.name, local.at, local.type, <<>>)
  <2>1. errors' = DuplicateError(scope[local.name], local.at) /\ addSymbol(symbol, Block)
    BY <1>5 DEF declareLocal, declareInScope
  <2>2. symbol.kind = "Local" /\ symbol.at = local.at /\ symbol.name = local.name
    BY DEF Symbol
  <2> HIDE DEF symbol
  <2>3. scope = ScopeOf(Block)
    BY <1>1 DEF IInv, Scopes
  <2>4. Block \notin {PreludeBlock, FileBlock}
    <3>1. chain[1] < chain[Len(chain)] /\ chain[2] < chain[Len(chain)]
      BY <1>3
    <3> QED
      BY <1>3, <3>1 DEF Block, PreludeBlock, FileBlock
  <2>5. Declares(symbol, Block)
    BY <1>2, <1>3, <1>4, <2>1, <2>2, <2>3, <2>4 DEF Declares
  <2> QED
    BY <1>1, <2>2, <2>5
<1>6. CASE enterFor
  <2> DEFINE symbol == Symbol("Local", local.name, local.at, Unresolved, <<>>)
             nb == Len(enclosing) + 1
  <2>1. errors' = DuplicateError(EmptyScope[local.name], local.at) /\ addSymbol(symbol, nb)
    BY <1>6 DEF enterFor, declareInScope
  <2>2. symbol.kind = "Local" /\ symbol.at = local.at /\ symbol.name = local.name
    BY DEF Symbol
  <2>3. Len(enclosing) \in Nat /\ Len(enclosing) >= FileBlock /\ blockOf \in Seq(1..Len(enclosing))
    BY ListFacts DEF IInv, Lists, Chains, TypeOK
  <2>4. nb \notin {PreludeBlock, FileBlock}
    BY <2>3 DEF PreludeBlock, FileBlock
  <2>5. EmptyScope = ScopeOf(nb)
    <3>1. DOMAIN blockOf = DOMAIN symbols
      BY <2>3, ListFacts DEF IInv, Lists, Chains
    <3>2. \A id \in DOMAIN symbols : blockOf[id] # nb
      BY <2>3, <3>1
    <3>3. \A n \in Names : Declared(nb, n) = {}
      BY <3>2 DEF Declared
    <3> QED
      BY <3>3 DEF EmptyScope, ScopeOf
  <2> HIDE DEF symbol, nb
  <2>6. Declares(symbol, nb)
    BY <1>2, <1>3, <1>4, <2>1, <2>2, <2>4, <2>5 DEF Declares
  <2> QED
    BY <1>1, <2>2, <2>6
<1> QED
  BY <1>5, <1>6

LEMMA ParameterPositions ==
    ASSUME IInv, UnknownInv, Signatures, OwnPositions, declareParameter
    PROVE  Signatures' /\ OwnPositions'
<1>0. PICK place : place = <<body, parameter + 1>>
  OBVIOUS
<1>1. PICK symbol, into : /\ Declares(symbol, into)
                          /\ symbol.kind = "Parameter"
                          /\ Final(symbol.at, symbol.type)
                          /\ place \in ParameterPlaces
                          /\ symbol.at = ParameterAt(place)
  BY <1>0, ParameterDeclares
<1>2. body' = body /\ parameter' = parameter + 1 /\ doing' = "statements"
      /\ parameter \in Nat /\ here \in Nat
  BY DEF declareParameter, IInv, Lists, TableInv
<1>3. place[1] = body /\ place[2] = parameter + 1
  BY <1>0
<1>4. IsDeclared(place)' /\ ~IsDeclared(place)
  <2>1. body \in Nat
    BY ListFacts DEF IInv, TypeOK, Lists
  <2> QED
    BY <1>2, <1>3, <2>1 DEF IsDeclared
<1>5. \A other \in ParameterPlaces : IsDeclared(other) => IsDeclared(other)'
  <2>1. \A other \in ParameterPlaces : other[2] \in Nat
    BY Places, ListFacts DEF IInv, Lists
  <2> QED
    BY <1>2, <2>1 DEF IsDeclared
<1>6. /\ ParameterAt(place) \in 1..here
      /\ \E a \in resolved : a.at = ParameterAt(place)
  BY <1>1, PlaceFinal
<1>7. \A id \in DOMAIN symbols : symbols[id].at # symbol.at
  <2> TAKE id \in DOMAIN symbols
  <2>1. CASE symbols[id].kind = "Function"
    <3>1. id \in DOMAIN functions /\ symbols[id].at = functions[id].at
      BY <2>1 DEF Signatures
    <3> QED
      BY <1>1, <1>6, <3>1 DEF OwnPositions, FunctionsApart
  <2>2. CASE symbols[id].kind = "Builtin"
    BY <1>1, <1>2, <1>6, <2>2 DEF Signatures
  <2>3. CASE symbols[id].kind = "Local"
    BY <1>1, <2>3 DEF OwnPositions, LocalsApart
  <2>4. CASE symbols[id].kind = "Parameter"
    BY <1>1, <1>4, <2>4 DEF OwnPositions, SymbolsApart, FunctionsApart
  <2> QED
    BY <2>1, <2>2, <2>3, <2>4 DEF IInv, TypeOK
<1>8. Signatures'
  BY <1>1, SignaturesDeclared
<1>9. OwnPositions'
  BY <1>1, <1>2, <1>4, <1>5, <1>7, PositionsDeclared
<1> QED
  BY <1>8, <1>9

LEMMA LocalPositions ==
    ASSUME IInv, UnknownInv, Signatures, OwnPositions, declareLocal \/ enterFor
    PROVE  Signatures' /\ OwnPositions'
<1>1. PICK symbol, into : /\ Declares(symbol, into)
                          /\ symbol.kind = "Local"
                          /\ symbol.at = local.at
                          /\ doing \in {"initializer", "iterable"} /\ doing' = "statements"
                          /\ UNCHANGED parameter
  BY LocalDeclares
<1>2. here \in Nat /\ local.at \in 1..here /\ \A id \in DOMAIN symbols : symbols[id].at < local.at
  BY <1>1 DEF IInv, Positions, TableInv
<1>3. \A id \in DOMAIN symbols : symbols[id].at # symbol.at
  <2>1. \A id \in DOMAIN symbols : symbols[id].at \in Nat
    BY <1>2 DEF IInv, Positions
  <2> QED
    BY <1>1, <1>2, <2>1
<1>4. \A place \in ParameterPlaces : symbol.at # ParameterAt(place)
  <2>1. \A place \in ParameterPlaces : ParameterAt(place) \in 1..here /\ ParameterAt(place) < local.at
    BY <1>1, PlaceFinal DEF OwnPositions, LocalsApart
  <2> QED
    BY <1>1, <1>2, <2>1
<1>5. \A place \in ParameterPlaces : IsDeclared(place) => IsDeclared(place)'
  BY <1>1 DEF Declares, IsDeclared
<1>6. Signatures'
  BY <1>1, SignaturesDeclared
<1>7. OwnPositions'
  BY <1>1, <1>3, <1>4, <1>5, PositionsDeclared
<1> QED
  BY <1>6, <1>7

----------------------------------------------------------------------------
(* Duplicates *)

\* What was declared earlier in its block stays so when symbols are added.
LEMMA EarlierKept ==
    ASSUME IInv,
           \A id \in DOMAIN symbols :
               /\ id \in DOMAIN symbols'
               /\ symbols'[id] = symbols[id]
               /\ blockOf'[id] = blockOf[id],
           NEW id \in DOMAIN symbols
    PROVE  /\ Earlier(id)' = Earlier(id)
           /\ Earlier(id) # {} => FirstOfIts(id)' = FirstOfIts(id)
<1>1. Len(symbols) \in Nat /\ DOMAIN symbols = 1..Len(symbols)
  BY ListFacts DEF IInv, Lists
<1>2. \A other \in 1..(id - 1) : other \in DOMAIN symbols
  BY <1>1
<1>3. Earlier(id)' = Earlier(id)
  BY <1>2 DEF Earlier
<1>4. Earlier(id) # {} => First(Earlier(id)) \in DOMAIN symbols
  <2>1. Earlier(id) \in SUBSET Nat /\ Earlier(id) \subseteq DOMAIN symbols
    BY <1>1, <1>2 DEF Earlier
  <2> QED
    BY <2>1, FirstOf
<1> QED
  BY <1>3, <1>4 DEF FirstOfIts

\* A new symbol's earlier declarations are those of its name in its block.
LEMMA EarlierNew ==
    ASSUME IInv, NEW symbol, NEW into, addSymbol(symbol, into), NEW new, new = Len(symbols) + 1
    PROVE  /\ Earlier(new)' = Declared(into, symbol.name)
           /\ Declared(into, symbol.name) # {} =>
                  /\ First(Declared(into, symbol.name)) \in DOMAIN symbols
                  /\ FirstOfIts(new)' = symbols[First(Declared(into, symbol.name))].at
<1>1. /\ DOMAIN symbols = 1..Len(symbols) /\ Len(symbols) \in Nat
      /\ \A id \in DOMAIN symbols : symbols'[id] = symbols[id] /\ blockOf'[id] = blockOf[id]
      /\ symbols'[new] = symbol /\ blockOf'[new] = into
  BY SymbolAdded
<1>2. 1..(new - 1) = DOMAIN symbols
  BY <1>1
<1>3. Earlier(new)' = Declared(into, symbol.name)
  BY <1>1, <1>2 DEF Declared, Earlier
<1>4. Declared(into, symbol.name) # {} => First(Declared(into, symbol.name)) \in DOMAIN symbols
  <2>1. Declared(into, symbol.name) \in SUBSET Nat /\ Declared(into, symbol.name) \subseteq DOMAIN symbols
    BY DeclaredFacts DEF Declared
  <2> QED
    BY <2>1, FirstOf
<1> QED
  BY <1>1, <1>3, <1>4 DEF FirstOfIts

LEMMA DuplicatesQuiet ==
    ASSUME IInv, DuplicatesInv, UNCHANGED <<symbols, blockOf>>,
           \/ errors' = errors
           \/ \E e : errors' = Append(errors, e) /\ e.kind # "DuplicateSymbol",
           declaring' # NoDeclaration <=> declaring # NoDeclaration,
           declaring'.at = declaring.at, declaring'.existing = declaring.existing
    PROVE  DuplicatesInv'
<1>1. NoDeclaration' = NoDeclaration
  BY DEF NoDeclaration, Unresolved
<1>2. \A id : Earlier(id)' = Earlier(id) /\ FirstOfIts(id)' = FirstOfIts(id)
  BY DEF Earlier, FirstOfIts
<1>3. CASE errors' = errors
  BY <1>1, <1>2, <1>3 DEF DuplicatesInv, ErrorAt, DuplicateOf
<1>4. CASE \E e : errors' = Append(errors, e) /\ e.kind # "DuplicateSymbol"
  <2>1. PICK e : errors' = Append(errors, e) /\ e.kind # "DuplicateSymbol"
    BY <1>4
  <2>2. PICK new : /\ new \notin DOMAIN errors
                   /\ DOMAIN errors' = DOMAIN errors \cup {new}
                   /\ errors'[new] = e
                   /\ \A i \in DOMAIN errors : errors'[i] = errors[i]
    BY <2>1, ErrorAppended
  <2>3. \A error : ErrorAt(error) => ErrorAt(error)'
    BY <2>2 DEF ErrorAt
  <2> QED
    BY <1>1, <1>2, <2>1, <2>2, <2>3 DEF DuplicatesInv, DuplicateOf
<1> QED
  BY <1>3, <1>4

\* What DuplicateError adds to the reports.
LEMMA DuplicateReported ==
    ASSUME IInv, NEW existing, NEW at, errors' = DuplicateError(existing, at)
    PROVE  /\ \A error : ErrorAt(error) => ErrorAt(error)'
           /\ \A e : existing # NoSymbol /\ DuplicateOf(e, at, symbols[existing].at) => ErrorAt(e)'
           /\ \A i \in DOMAIN errors' :
                 \/ i \in DOMAIN errors /\ errors'[i] = errors[i]
                 \/ /\ existing # NoSymbol
                    /\ DuplicateOf(errors'[i], at, symbols[existing].at)
<1>1. CASE existing = NoSymbol
  BY <1>1 DEF DuplicateError, ErrorAt
<1>2. CASE existing # NoSymbol
  <2> DEFINE e == SemanticError("DuplicateSymbol", at, symbols[existing].at)
  <2>1. errors' = Append(errors, e)
    BY <1>2 DEF DuplicateError
  <2>2. PICK new : /\ new \notin DOMAIN errors
                   /\ DOMAIN errors' = DOMAIN errors \cup {new}
                   /\ errors'[new] = e
                   /\ \A i \in DOMAIN errors : errors'[i] = errors[i]
    BY <2>1, ErrorAppended
  <2>3. PICK error : error = e
    OBVIOUS
  <2>4. \A other : ErrorAt(other) => ErrorAt(other)'
    BY <2>2 DEF ErrorAt
  <2>5. ErrorAt(error)'
    BY <2>2, <2>3 DEF ErrorAt
  <2> QED
    BY <1>2, <2>2, <2>3, <2>4, <2>5 DEF DuplicateOf
<1> QED
  BY <1>1, <1>2

LEMMA DuplicatesBegun ==
    ASSUME IInv, DuplicatesInv, NEW name \in Names, collectFunctionDecl(name)
    PROVE  DuplicatesInv'
<1>1. PICK existing : existing = topLevelNames[name]
  OBVIOUS
<1>2. PICK at : at = here + 1
  OBVIOUS
<1>3. /\ declaring = NoDeclaration
      /\ declaring'.at = at /\ declaring'.existing = existing
      /\ errors' = DuplicateError(existing, at)
      /\ UNCHANGED <<symbols, blockOf>>
  BY <1>1, <1>2 DEF collectFunctionDecl, historyVars
<1>4. declaring' # NoDeclaration'
  <2>1. here \in Nat /\ NoDeclaration'.at = 0
    BY DEF IInv, TableInv, NoDeclaration, Unresolved
  <2> QED
    BY <1>2, <1>3, <2>1
<1>5. /\ \A error : ErrorAt(error) => ErrorAt(error)'
      /\ \A e : existing # NoSymbol /\ DuplicateOf(e, at, symbols[existing].at) => ErrorAt(e)'
      /\ \A i \in DOMAIN errors' :
            \/ i \in DOMAIN errors /\ errors'[i] = errors[i]
            \/ /\ existing # NoSymbol
               /\ DuplicateOf(errors'[i], at, symbols[existing].at)
  BY <1>3, DuplicateReported
<1>6. \A id : Earlier(id)' = Earlier(id) /\ FirstOfIts(id)' = FirstOfIts(id)
  BY <1>3 DEF Earlier, FirstOfIts
<1>7. ASSUME NEW id \in DOMAIN symbols, symbols[id].kind # "Builtin", Earlier(id) # {}
      PROVE  \A e : DuplicateOf(e, symbols[id].at, FirstOfIts(id)) => ErrorAt(e)'
  BY <1>5, <1>7 DEF DuplicatesInv, DuplicateOf
<1>8. \A i \in DOMAIN errors' : errors'[i].kind = "DuplicateSymbol" =>
          \/ \E id \in DOMAIN symbols : /\ symbols[id].kind # "Builtin"
                                        /\ Earlier(id) # {}
                                        /\ DuplicateOf(errors'[i], symbols[id].at, FirstOfIts(id))
          \/ /\ existing # NoSymbol
             /\ DuplicateOf(errors'[i], at, symbols[existing].at)
  BY <1>3, <1>5 DEF DuplicatesInv
<1> QED
  BY <1>3, <1>4, <1>5, <1>6, <1>7, <1>8 DEF DuplicatesInv, DuplicateOf

\* Every report has its declaration, every second declaration its report, when one
\* symbol more is declared.
LEMMA DuplicatesExtended ==
    ASSUME IInv, NEW symbol, NEW into, addSymbol(symbol, into), symbol.kind # "Builtin",
           NEW existing,
           existing # NoSymbol <=> Declared(into, symbol.name) # {},
           existing # NoSymbol => existing = First(Declared(into, symbol.name)),
           declaring' = NoDeclaration',
           \A error : ErrorAt(error) => ErrorAt(error)',
           \A e : existing # NoSymbol /\ DuplicateOf(e, symbol.at, symbols[existing].at) => ErrorAt(e)',
           \A id \in DOMAIN symbols : symbols[id].kind # "Builtin" /\ Earlier(id) # {} =>
               ErrorAt(SemanticError("DuplicateSymbol", symbols[id].at, FirstOfIts(id))),
           \A i \in DOMAIN errors' : errors'[i].kind = "DuplicateSymbol" =>
               \/ \E id \in DOMAIN symbols : /\ symbols[id].kind # "Builtin"
                                             /\ Earlier(id) # {}
                                             /\ DuplicateOf(errors'[i], symbols[id].at, FirstOfIts(id))
               \/ existing # NoSymbol /\ DuplicateOf(errors'[i], symbol.at, symbols[existing].at)
    PROVE  DuplicatesInv'
<1>1. PICK new : new = Len(symbols) + 1
  OBVIOUS
<1>2. /\ DOMAIN symbols' = DOMAIN symbols \cup {new}
      /\ \A id \in DOMAIN symbols : symbols'[id] = symbols[id] /\ blockOf'[id] = blockOf[id]
      /\ symbols'[new] = symbol
  <2>1. /\ Len(symbols) \in Nat /\ DOMAIN symbols = 1..Len(symbols)
        /\ DOMAIN symbols' = 1..(Len(symbols) + 1)
        /\ \A id \in DOMAIN symbols : symbols'[id] = symbols[id] /\ blockOf'[id] = blockOf[id]
        /\ symbols'[Len(symbols) + 1] = symbol
    BY SymbolAdded
  <2> QED
    BY <1>1, <2>1
<1>3. \A id \in DOMAIN symbols :
          Earlier(id)' = Earlier(id) /\ (Earlier(id) # {} => FirstOfIts(id)' = FirstOfIts(id))
  BY <1>2, EarlierKept
<1>4. /\ Earlier(new)' = Declared(into, symbol.name)
      /\ existing # NoSymbol => FirstOfIts(new)' = symbols[existing].at
  BY <1>1, EarlierNew
<1>5. \A id \in DOMAIN symbols' : symbols'[id].kind # "Builtin" /\ Earlier(id)' # {} =>
          \A e : DuplicateOf(e, symbols'[id].at, FirstOfIts(id)') => ErrorAt(e)'
  <2> TAKE id \in DOMAIN symbols'
  <2>1. CASE id \in DOMAIN symbols
    BY <1>2, <1>3, <2>1 DEF DuplicateOf
  <2>2. CASE id = new
    BY <1>2, <1>4, <2>2
  <2> QED
    BY <1>2, <2>1, <2>2
<1>6. \A i \in DOMAIN errors' : errors'[i].kind = "DuplicateSymbol" =>
          \E id \in DOMAIN symbols' : /\ symbols'[id].kind # "Builtin"
                                      /\ Earlier(id)' # {}
                                      /\ DuplicateOf(errors'[i], symbols'[id].at, FirstOfIts(id)')
  <2> TAKE i \in DOMAIN errors'
  <2> HAVE errors'[i].kind = "DuplicateSymbol"
  <2>1. ASSUME NEW id \in DOMAIN symbols, symbols[id].kind # "Builtin", Earlier(id) # {},
               DuplicateOf(errors'[i], symbols[id].at, FirstOfIts(id))
        PROVE  /\ symbols'[id].kind # "Builtin" /\ Earlier(id)' # {}
               /\ DuplicateOf(errors'[i], symbols'[id].at, FirstOfIts(id)')
    BY <1>2, <1>3, <2>1
  <2>2. ASSUME existing # NoSymbol, DuplicateOf(errors'[i], symbol.at, symbols[existing].at)
        PROVE  /\ symbols'[new].kind # "Builtin" /\ Earlier(new)' # {}
               /\ DuplicateOf(errors'[i], symbols'[new].at, FirstOfIts(new)')
    BY <1>2, <1>4, <2>2
  <2> QED
    BY <1>2, <2>1, <2>2
<1> QED
  BY <1>5, <1>6 DEF DuplicatesInv, DuplicateOf

LEMMA DuplicatesAdded ==
    ASSUME IInv, DuplicatesInv, addFunction
    PROVE  DuplicatesInv'
<1> DEFINE symbol == Symbol("Function", declaring.name, declaring.at, Unresolved, declaring.types)
<1>1. /\ declaring # NoDeclaration /\ declaring' = NoDeclaration
      /\ addSymbol(symbol, FileBlock) /\ errors' = errors
  BY DEF addFunction
<1>2. symbol.kind = "Function" /\ symbol.name = declaring.name /\ symbol.at = declaring.at
  BY DEF Symbol
<1> HIDE DEF symbol
<1>3. PICK existing : existing = declaring.existing
  OBVIOUS
<1>4. /\ existing # NoSymbol <=> Declared(FileBlock, symbol.name) # {}
      /\ existing # NoSymbol => existing = First(Declared(FileBlock, symbol.name))
  <2>1. declaring.name \in Names /\ existing = ScopeOf(FileBlock)[declaring.name]
    BY <1>1, <1>3 DEF IInv, Scopes
  <2> QED
    BY <1>2, <2>1, ScopeFacts
<1>5. NoDeclaration' = NoDeclaration
  BY DEF NoDeclaration, Unresolved
<1>6. \A error : ErrorAt(error) => ErrorAt(error)'
  BY <1>1 DEF ErrorAt
<1>7. \A e : existing # NoSymbol /\ DuplicateOf(e, symbol.at, symbols[existing].at) => ErrorAt(e)'
  BY <1>1, <1>2, <1>3, <1>6 DEF DuplicatesInv, DuplicateOf
<1>8. \A i \in DOMAIN errors' : errors'[i].kind = "DuplicateSymbol" =>
          \/ \E id \in DOMAIN symbols : /\ symbols[id].kind # "Builtin"
                                        /\ Earlier(id) # {}
                                        /\ DuplicateOf(errors'[i], symbols[id].at, FirstOfIts(id))
          \/ existing # NoSymbol /\ DuplicateOf(errors'[i], symbol.at, symbols[existing].at)
  BY <1>1, <1>2, <1>3 DEF DuplicatesInv
<1> QED
  BY <1>1, <1>2, <1>4, <1>5, <1>6, <1>7, <1>8, DuplicatesExtended DEF DuplicatesInv

LEMMA DuplicatesDeclared ==
    ASSUME IInv, DuplicatesInv, NEW symbol, NEW into, Declares(symbol, into)
    PROVE  DuplicatesInv'
<1>1. PICK existing : existing = ScopeOf(into)[symbol.name]
  OBVIOUS
<1>2. /\ addSymbol(symbol, into) /\ symbol.kind # "Builtin" /\ symbol.name \in Names
      /\ pass = "bodies" /\ declaring' = declaring
      /\ errors' = DuplicateError(existing, symbol.at)
  BY <1>1 DEF Declares
<1>3. declaring = NoDeclaration /\ NoDeclaration' = NoDeclaration
  BY <1>2 DEF NoDeclaration, Unresolved, IInv, Scopes
<1>4. /\ existing # NoSymbol <=> Declared(into, symbol.name) # {}
      /\ existing # NoSymbol => existing = First(Declared(into, symbol.name))
  BY <1>1, <1>2, ScopeFacts
<1>5. /\ \A error : ErrorAt(error) => ErrorAt(error)'
      /\ \A e : existing # NoSymbol /\ DuplicateOf(e, symbol.at, symbols[existing].at) => ErrorAt(e)'
      /\ \A i \in DOMAIN errors' :
            \/ i \in DOMAIN errors /\ errors'[i] = errors[i]
            \/ /\ existing # NoSymbol
               /\ DuplicateOf(errors'[i], symbol.at, symbols[existing].at)
  BY <1>2, DuplicateReported
<1>6. \A i \in DOMAIN errors' : errors'[i].kind = "DuplicateSymbol" =>
          \/ \E id \in DOMAIN symbols : /\ symbols[id].kind # "Builtin"
                                        /\ Earlier(id) # {}
                                        /\ DuplicateOf(errors'[i], symbols[id].at, FirstOfIts(id))
          \/ existing # NoSymbol /\ DuplicateOf(errors'[i], symbol.at, symbols[existing].at)
  BY <1>3, <1>5 DEF DuplicatesInv
<1> QED
  BY <1>2, <1>3, <1>4, <1>5, <1>6, DuplicatesExtended DEF DuplicatesInv

LEMMA DuplicatesPrelude ==
    ASSUME ResolutionAssumption, IInv, DuplicatesInv, buildPreludeScope
    PROVE  DuplicatesInv'
<1> DEFINE n == Len(symbols)
           m == Len(Builtins)
<1>1. errors' = errors /\ declaring = NoDeclaration /\ declaring' = declaring
      /\ NoDeclaration' = NoDeclaration
  BY DEF buildPreludeScope, typeVars, NoDeclaration, Unresolved
<1>2. /\ DOMAIN symbols = 1..n /\ n \in Nat /\ m \in Nat
      /\ DOMAIN symbols' = 1..(n + m)
      /\ \A id \in 1..n : symbols'[id] = symbols[id] /\ blockOf'[id] = blockOf[id]
      /\ \A i \in 1..m : symbols'[n + i] = Builtin(Builtins[i])
      /\ \A id \in DOMAIN symbols' : id \in 1..n \/ \E i \in 1..m : id = n + i
  BY PreludeSymbols
<1>3. \A id \in DOMAIN symbols' : id \in DOMAIN symbols \/ symbols'[id].kind = "Builtin"
  <2>1. \A name : Builtin(name).kind = "Builtin"
    BY DEF Builtin, Symbol
  <2> QED
    BY <1>2, <2>1
<1>4. \A id \in DOMAIN symbols :
          id \in DOMAIN symbols' /\ symbols'[id] = symbols[id] /\ blockOf'[id] = blockOf[id]
  BY <1>2
<1>5. \A id \in DOMAIN symbols :
          Earlier(id)' = Earlier(id) /\ (Earlier(id) # {} => FirstOfIts(id)' = FirstOfIts(id))
  BY <1>4, EarlierKept
<1>6. \A error : ErrorAt(error)' = ErrorAt(error)
  BY <1>1 DEF ErrorAt
<1>7. \A id \in DOMAIN symbols' : symbols'[id].kind # "Builtin" /\ Earlier(id)' # {} =>
          \A e : DuplicateOf(e, symbols'[id].at, FirstOfIts(id)') => ErrorAt(e)'
  BY <1>3, <1>4, <1>5, <1>6 DEF DuplicatesInv, DuplicateOf
<1>8. \A i \in DOMAIN errors' : errors'[i].kind = "DuplicateSymbol" =>
          \E id \in DOMAIN symbols' : /\ symbols'[id].kind # "Builtin"
                                      /\ Earlier(id)' # {}
                                      /\ DuplicateOf(errors'[i], symbols'[id].at, FirstOfIts(id)')
  BY <1>1, <1>4, <1>5 DEF DuplicatesInv, DuplicateOf
<1> QED
  BY <1>1, <1>7, <1>8 DEF DuplicatesInv, DuplicateOf

LEMMA DuplicatesFollow ==
    ASSUME IInv, Signatures, OwnPositions, DuplicatesInv
    PROVE  DuplicatesReported
<1>1. \A id \in DOMAIN symbols : declaring # NoDeclaration => declaring.at # symbols[id].at
  <2> TAKE id \in DOMAIN symbols
  <2> HAVE declaring # NoDeclaration
  <2>1. Len(symbols) = Len(functions) /\ id \in DOMAIN functions
    BY ListFacts DEF IInv, Scopes, Lists, Signatures
  <2> QED
    BY <2>1 DEF OwnPositions, DeclaringApart, Signatures
<1>2. SUFFICES ASSUME NEW id \in DOMAIN symbols, symbols[id].kind # "Builtin", NEW related
               PROVE  ErrorAt(SemanticError("DuplicateSymbol", symbols[id].at, related)) <=>
                          /\ Earlier(id) # {}
                          /\ related = FirstOfIts(id)
  BY DEF DuplicatesReported, FirstOfIts
<1>3. ASSUME ErrorAt(SemanticError("DuplicateSymbol", symbols[id].at, related))
      PROVE  Earlier(id) # {} /\ related = FirstOfIts(id)
  <2>1. PICK i \in DOMAIN errors : errors[i] = SemanticError("DuplicateSymbol", symbols[id].at, related)
    BY <1>3 DEF ErrorAt
  <2>2. errors[i].kind = "DuplicateSymbol" /\ errors[i].at = symbols[id].at /\ errors[i].related = related
    BY <2>1 DEF SemanticError
  <2>3. ASSUME declaring # NoDeclaration, NEW first, DuplicateOf(errors[i], declaring.at, first)
        PROVE  FALSE
    <3>1. errors[i].at = declaring.at
      BY <2>3 DEF DuplicateOf, SemanticError
    <3> QED
      BY <1>1, <2>2, <2>3, <3>1
  <2>4. PICK other \in DOMAIN symbols : /\ symbols[other].kind # "Builtin"
                                        /\ Earlier(other) # {}
                                        /\ DuplicateOf(errors[i], symbols[other].at, FirstOfIts(other))
    BY <2>2, <2>3 DEF DuplicatesInv
  <2>5. errors[i].at = symbols[other].at /\ errors[i].related = FirstOfIts(other)
    BY <2>4 DEF DuplicateOf, SemanticError
  <2>6. other = id
    BY <1>2, <2>2, <2>5 DEF OwnPositions, SymbolsApart
  <2> QED
    BY <2>2, <2>4, <2>5, <2>6
<1>4. ASSUME Earlier(id) # {}, related = FirstOfIts(id)
      PROVE  ErrorAt(SemanticError("DuplicateSymbol", symbols[id].at, related))
  BY <1>2, <1>4 DEF DuplicatesInv
<1> QED
  BY <1>3, <1>4

----------------------------------------------------------------------------
(* Every step of the analyzer *)

LEMMA ReportsOther ==
    ASSUME NEW existing, NEW at, errors' = DuplicateError(existing, at)
    PROVE  \/ errors' = errors
           \/ \E e : errors' = Append(errors, e) /\ e.kind # "UnknownType"
BY DEF DuplicateError, SemanticError

LEMMA FileResolving ==
    ASSUME TypeTableAssumption, IInv, IInv', FileInv, resolveTypeSyntax,
           UNCHANGED <<collectVars, symbols, walkVars, historyVars>>
    PROVE  FileInv'
<1>1. UnknownInv'
  BY UnknownResolved DEF FileInv
<1>2. UNCHANGED <<pass, declaring, functions, blockOf>>
  BY DEF collectVars, historyVars
<1>3. Signatures'
  BY <1>2, FinalResolving, SignaturesKept DEF FileInv
<1>4. OwnPositions'
  BY PositionsResolving DEF FileInv
<1>5. \/ errors' = errors
      \/ \E e : errors' = Append(errors, e) /\ e.kind # "DuplicateSymbol"
  BY Resolving DEF SemanticError
<1>6. DuplicatesInv'
  BY <1>2, <1>5, DuplicatesQuiet DEF FileInv, NoDeclaration, Unresolved
<1> QED
  BY <1>1, <1>3, <1>4, <1>6 DEF FileInv

LEMMA FileCollect ==
    ASSUME IInv, FileInv, NEW name \in Names, collectFunctionDecl(name) \/ resolveParameter(name)
    PROVE  FileInv'
<1>1. CASE collectFunctionDecl(name)
  <2>1. here' = here + 1 /\ resolved' = resolved /\ errors' = DuplicateError(topLevelNames[name], here + 1)
    BY <1>1 DEF collectFunctionDecl, ReadOn
  <2>2. UnknownInv'
    BY <2>1, ReportsOther, UnknownElsewhere DEF FileInv
  <2> QED
    BY <1>1, <2>2, SignatureBegun, PositionsBegun, DuplicatesBegun DEF FileInv
<1>2. CASE resolveParameter(name)
  <2> DEFINE p == [name |-> name, at |-> annotation.at]
  <2>1. /\ UNCHANGED <<here, resolved, errors, symbols, blockOf>>
        /\ declaring # NoDeclaration
        /\ declaring' = [declaring EXCEPT !.parameters = Append(@, p),
                                          !.types = Append(@, annotation.type)]
    BY <1>2 DEF resolveParameter, historyVars
  <2>2. /\ declaring'.at = declaring.at /\ declaring'.existing = declaring.existing
        /\ declaring'.parameters = Append(declaring.parameters, p)
    BY <2>1 DEF IInv, TypeOK, DeclarationSet
  <2>3. declaring' # NoDeclaration
    <3>1. IsList(declaring.parameters)
      BY DEF IInv, Lists
    <3>2. Len(declaring'.parameters) # 0
      BY <2>2, <3>1, ListFacts, AppendList
    <3>3. Len(NoDeclaration.parameters) = 0
      BY DEF NoDeclaration
    <3> QED
      BY <3>2, <3>3
  <2>4. UnknownInv'
    BY <2>1, UnknownElsewhere DEF FileInv
  <2>5. DuplicatesInv'
    BY <2>1, <2>2, <2>3, DuplicatesQuiet DEF FileInv
  <2> QED
    BY <1>2, <2>4, <2>5, SignatureRead, PositionRead DEF FileInv
<1> QED
  BY <1>1, <1>2

LEMMA FileSymbols ==
    ASSUME ResolutionAssumption, IInv, FileInv, addFunction \/ buildPreludeScope
    PROVE  FileInv'
<1>1. UNCHANGED <<here, resolved, errors>>
  BY DEF addFunction, buildPreludeScope, typeVars
<1>2. UnknownInv'
  BY <1>1, UnknownElsewhere DEF FileInv
<1>3. CASE addFunction
  BY <1>2, <1>3, SignatureAdded, PositionsFunction, DuplicatesAdded DEF FileInv
<1>4. CASE buildPreludeScope
  BY <1>2, <1>4, SignaturesPrelude, PositionsPrelude, DuplicatesPrelude DEF FileInv
<1> QED
  BY <1>3, <1>4

LEMMA FileDeclares ==
    ASSUME IInv, FileInv, declareParameter \/ declareLocal \/ enterFor
    PROVE  FileInv'
<1>1. Signatures' /\ OwnPositions'
  BY ParameterPositions, LocalPositions DEF FileInv
<1>2. PICK symbol, into : Declares(symbol, into)
  BY ParameterDeclares, LocalDeclares DEF FileInv
<1>3. UnknownInv'
  <2>1. here' = here /\ resolved' = resolved
        /\ errors' = DuplicateError(ScopeOf(into)[symbol.name], symbol.at)
    BY <1>2 DEF Declares
  <2> QED
    BY <2>1, ReportsOther, UnknownElsewhere DEF FileInv
<1>4. DuplicatesInv'
  BY <1>2, DuplicatesDeclared DEF FileInv
<1> QED
  BY <1>1, <1>3, <1>4 DEF FileInv

\* Nothing is declared, and no annotation is read.
FileQuiet ==
    /\ UNCHANGED <<resolved, declaring, functions, symbols, blockOf, pass>>
    /\ here' \in {here, here + 1}
    /\ annotation' \in {annotation, NoAnnotation}
    /\ \/ errors' = errors
       \/ errors' = Append(errors, SemanticError("UnknownIdentifier", here + 1, 0))

LEMMA FileUnchanged ==
    ASSUME IInv, FileInv, FileQuiet, OwnPositions'
    PROVE  FileInv'
<1>1. UnknownInv'
  BY UnknownElsewhere DEF FileInv, FileQuiet, SemanticError
<1>2. Signatures'
  <2>1. FinalKept
    BY FinalQuiet DEF FileInv, FileQuiet
  <2>2. annotation' # NoAnnotation =>
            \A b \in resolved' : b.at = annotation'.at => Len(b.wraps) <= Len(annotation'.wraps)
    BY DEF FileInv, Signatures, FileQuiet
  <2> QED
    BY <2>1, <2>2, SignaturesKept DEF FileInv, FileQuiet
<1>3. DuplicatesInv'
  BY DuplicatesQuiet DEF FileInv, FileQuiet, SemanticError, NoDeclaration, Unresolved
<1> QED
  BY <1>1, <1>2, <1>3 DEF FileInv

LEMMA FileBegins ==
    ASSUME IInv, FileInv, NEW name \in Names, varDecl(name) \/ beginFor(name)
    PROVE  FileInv'
<1>1. FileQuiet
  BY DEF varDecl, beginFor, Begin, ReadOn, collectVars, historyVars, FileQuiet
<1> QED
  BY <1>1, FileUnchanged, PositionsLocal DEF FileInv

LEMMA FileWalks ==
    ASSUME IInv, FileInv,
           \/ analyzeFunctionBody \/ finishFunctionBody \/ declareLocalType \/ analyzeNestedBlock
           \/ popScope \/ UNCHANGED vars
           \/ \E name \in Names : analyzeIdentifierExpr(name)
    PROVE  FileInv'
<1>1. CASE analyzeFunctionBody
  <2>1. FileQuiet /\ doing' = "statements" /\ body' = body + 1
    BY <1>1 DEF analyzeFunctionBody, typeVars, collectVars, FileQuiet
  <2> QED
    BY <2>1, PositionsQuiet, FileUnchanged DEF FileInv, FileQuiet
<1>2. CASE finishFunctionBody
  <2>1. FileQuiet /\ doing' = "file" /\ UNCHANGED <<body, parameter>>
    BY <1>2 DEF finishFunctionBody, typeVars, collectVars, FileQuiet
  <2> QED
    BY <2>1, PositionsQuiet, FileUnchanged DEF FileInv, FileQuiet
<1>3. CASE declareLocalType
  <2>1. /\ FileQuiet /\ UNCHANGED <<body, parameter>>
        /\ doing = "annotation" /\ local' = [local EXCEPT !.type = annotation.type]
    BY <1>3 DEF declareLocalType, collectVars, historyVars, FileQuiet
  <2>2. local'.at = local.at
    BY <2>1 DEF IInv, TypeOK, LocalSet
  <2> QED
    BY <2>1, <2>2, PositionsQuiet, FileUnchanged DEF FileInv, FileQuiet
<1>4. CASE analyzeNestedBlock
  <2>1. FileQuiet /\ UNCHANGED <<doing, local, body, parameter>>
    BY <1>4 DEF analyzeNestedBlock, ReadOn, collectVars, FileQuiet
  <2> QED
    BY <2>1, PositionsQuiet, FileUnchanged DEF FileInv, FileQuiet
<1>5. CASE popScope
  <2>1. FileQuiet /\ UNCHANGED <<doing, local, body, parameter>>
    BY <1>5 DEF popScope, typeVars, collectVars, FileQuiet
  <2> QED
    BY <2>1, PositionsQuiet, FileUnchanged DEF FileInv, FileQuiet
<1>6. CASE UNCHANGED vars
  <2>1. FileQuiet /\ UNCHANGED <<doing, local, body, parameter>>
    BY <1>6 DEF vars, typeVars, collectVars, walkVars, historyVars, FileQuiet
  <2> QED
    BY <2>1, PositionsQuiet, FileUnchanged DEF FileInv, FileQuiet
<1>7. CASE \E name \in Names : analyzeIdentifierExpr(name)
  <2>1. FileQuiet /\ UNCHANGED <<doing, local, body, parameter>>
    BY <1>7 DEF analyzeIdentifierExpr, ReadOn, collectVars, walkVars, FileQuiet
  <2> QED
    BY <2>1, PositionsQuiet, FileUnchanged DEF FileInv, FileQuiet
<1> QED
  BY <1>1, <1>2, <1>3, <1>4, <1>5, <1>6, <1>7

LEMMA FileStep ==
    ASSUME TypeTableAssumption, ResolutionAssumption, IInv, IInv', FileInv, [Next]_vars
    PROVE  FileInv'
<1>1. CASE resolveSignatureType \/ resolveLocalType
  BY <1>1, FileResolving DEF resolveSignatureType, resolveLocalType
<1>2. CASE \E name \in Names : collectFunctionDecl(name) \/ resolveParameter(name)
  BY <1>2, FileCollect
<1>3. CASE addFunction \/ buildPreludeScope
  BY <1>3, FileSymbols
<1>4. CASE declareParameter \/ declareLocal \/ enterFor
  BY <1>4, FileDeclares
<1>5. CASE \E name \in Names : varDecl(name) \/ beginFor(name)
  BY <1>5, FileBegins
<1>6. CASE \/ analyzeFunctionBody \/ finishFunctionBody \/ declareLocalType \/ analyzeNestedBlock
           \/ popScope \/ UNCHANGED vars
           \/ \E name \in Names : analyzeIdentifierExpr(name)
  BY <1>6, FileWalks
<1> QED
  BY <1>1, <1>2, <1>3, <1>4, <1>5, <1>6 DEF Next, collect, analyzeStatement

LEMMA FileInit == Init => FileInv
<1> SUFFICES ASSUME Init
             PROVE  FileInv
  OBVIOUS
<1>1. /\ annotation = NoAnnotation /\ resolved = {} /\ errors = <<>> /\ symbols = <<>>
      /\ functions = <<>> /\ declaring = NoDeclaration /\ pass = "collect"
  BY DEF Init, TypeInit
<1>2. NoDeclaration.parameters = <<>> /\ NoDeclaration.types = <<>>
  BY DEF NoDeclaration
<1>3. ParameterPlaces = {}
  BY <1>1 DEF ParameterPlaces
<1>4. UnknownInv
  BY <1>1 DEF UnknownInv
<1>5. Signatures
  BY <1>1, <1>2 DEF Signatures
<1>6. OwnPositions
  BY <1>1, <1>2, <1>3 DEF OwnPositions, DeclaringApart, FunctionsApart, LocalsApart, SymbolsApart
<1>7. DuplicatesInv
  BY <1>1 DEF DuplicatesInv
<1> QED
  BY <1>4, <1>5, <1>6, <1>7 DEF FileInv

\* The names, places and reports of the file keep their relations, too.
THEOREM FileInvariant == Spec => [](IInv /\ FileInv)
<1>1. Init => IInv /\ FileInv
  BY InvInit, FileInit
<1>2. IInv /\ FileInv /\ [Next]_vars => (IInv /\ FileInv)'
  BY TypeTableAssumption, ResolutionAssumption, InvStep, FileStep
<1> QED
  BY <1>1, <1>2, PTL DEF Spec

\* Whatever the file: an annotation of an unknown type is reported once, where it is
\* written, though its parameter's type is read again when the body is analyzed.
THEOREM UnknownTypesAreReportedOnce == Spec => []UnknownTypesReportedOnce
<1>1. FileInv => UnknownTypesReportedOnce
  BY ReportedOnce DEF FileInv
<1> QED
  BY FileInvariant, <1>1, PTL

\* A parameter gets the type of its own annotation from its own function's signature,
\* even when functions of the same name and arity were declared before it.
THEOREM ParametersAreTypedByTheirSignature == Spec => []ParametersKeepTheirTypes
<1>1. IInv /\ FileInv => ParametersKeepTheirTypes
  BY KeptTypes DEF FileInv
<1> QED
  BY FileInvariant, <1>1, PTL

\* Exactly the second and later declarations of a name in a block are reported, each
\* with the position of the first one.
THEOREM DuplicatesAreReported == Spec => []DuplicatesReported
<1>1. IInv /\ FileInv => DuplicatesReported
  BY DuplicatesFollow DEF FileInv
<1> QED
  BY FileInvariant, <1>1, PTL
=============================================================================
