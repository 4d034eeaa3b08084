------------------------------ MODULE TypeTable ------------------------------
(****************************************************************************)
(* The part of a SemanticModel that type annotations write: its two tables  *)
(* of compound types and its list of errors.  resolveTypeSyntax is          *)
(* recursive: an annotation is resolved from the inside out, one step for   *)
(* each call that returns.  A Type is a kind and a number, so two types are *)
(* the same exactly when the tables have given them the same number.        *)
(*                                                                          *)
(* An array length is the number its digits spell.                          *)
(****************************************************************************)
EXTENDS Naturals, Sequences

CONSTANTS
    Primitives,     \* the names lookupPrimitiveTypeName knows, and "()"
    UnknownNames,   \* names of types that do not exist
    Lengths,        \* the numbers written as array lengths
    LargestLength,  \* the largest 64-bit number
    MaxPosition     \* bound: positions in the source file

ASSUME TypeTableAssumption ==
    /\ Primitives \cap UnknownNames = {}
    /\ "deferred" \notin Primitives \cup UnknownNames
    /\ Lengths \subseteq Nat
    /\ LargestLength \in Nat
    /\ MaxPosition \in Nat

VARIABLES
    arrayTypes,  \* arrayTypes_: elementType and length, by id
    sliceTypes,  \* sliceTypes_: elementType, by id
    errors,      \* errors_: of this and of every other check
    annotation,  \* what the last resolveTypeSyntax call of the annotation returned
    resolved,    \* history: what every call returned
    here         \* how far the source has been read

tables == <<arrayTypes, sliceTypes>>

typeVars == <<arrayTypes, sliceTypes, errors, annotation, resolved, here>>

Scalar(name) == [kind |-> "scalar", name |-> name, id |-> 0]

ArrayType(i) == [kind |-> "array", name |-> "", id |-> i]

SliceType(i) == [kind |-> "slice", name |-> "", id |-> i]

ErrorType == [kind |-> "Error", name |-> "", id |-> 0]

Unresolved == [kind |-> "Unresolved", name |-> "", id |-> 0]

Proper(type) == type \notin {ErrorType, Unresolved}

\* No annotation is being resolved.
NoAnnotation == [at |-> 0, base |-> "", wraps |-> <<>>, type |-> Unresolved]

SemanticError(kind, at, related) == [kind |-> kind, at |-> at, related |-> related]

----------------------------------------------------------------------------
(* SemanticModel's interner *)

\* Fault: the scan compares the element types only.
SameElement(type, length) == {i \in DOMAIN arrayTypes : arrayTypes[i].elementType = type}

SameArray(type, length) ==
    {i \in DOMAIN arrayTypes : arrayTypes[i] = [elementType |-> type, length |-> length]}

SameSlice(type) == {i \in DOMAIN sliceTypes : sliceTypes[i] = type}

First(S) == CHOOSE i \in S : \A j \in S : i <= j

\* What resolveArrayTypeSyntax makes of its element's type, and what it stores.
internArray(type, length) ==
    LET same == SameArray(type, length)
    IN  IF same = {}
        THEN [type |-> ArrayType(Len(arrayTypes) + 1),
              table |-> Append(arrayTypes, [elementType |-> type, length |-> length])]
        ELSE [type |-> ArrayType(First(same)), table |-> arrayTypes]

internSlice(type) ==
    LET same == SameSlice(type)
    IN  IF same = {}
        THEN [type |-> SliceType(Len(sliceTypes) + 1), table |-> Append(sliceTypes, type)]
        ELSE [type |-> SliceType(First(same)), table |-> sliceTypes]

----------------------------------------------------------------------------

TypeInit ==
    /\ arrayTypes = <<>>
    /\ sliceTypes = <<>>
    /\ errors = <<>>
    /\ annotation = NoAnnotation
    /\ resolved = {}
    /\ here = 0

\* A call returns; its syntax is one more position of the file.
Return(at, base, wraps, type) ==
    /\ here < MaxPosition
    /\ here' = here + 1
    /\ annotation' = [at |-> at, base |-> base, wraps |-> wraps, type |-> type]
    /\ resolved' = resolved \cup {annotation'}

Innermost(base, type) ==
    /\ annotation = NoAnnotation
    /\ Return(here + 1, base, <<>>, type)
    /\ UNCHANGED tables

\* A name, or "()"
resolveNamedTypeSyntax ==
    \/ /\ \E name \in Primitives : Innermost(name, Scalar(name))
       /\ UNCHANGED errors
    \/ /\ \E name \in UnknownNames : Innermost(name, ErrorType)
       /\ errors' = Append(errors, SemanticError("UnknownType", here + 1, 0))

\* A reference or a generic type: nothing inside it is looked at.
resolveDeferredTypeSyntax ==
    /\ Innermost("deferred", Unresolved)
    /\ UNCHANGED errors

Wrap(w, type) ==
    /\ annotation # NoAnnotation
    /\ Return(annotation.at, annotation.base, Append(annotation.wraps, w), type)
    /\ UNCHANGED errors

ArrayWrap(length) == [kind |-> "array", length |-> length]

SliceWrap == [kind |-> "slice", length |-> 0]

\* A length that decodeArrayLength cannot decode is an Error nobody reports.
resolveArrayTypeSyntax ==
    \E length \in Lengths :
        LET element == annotation.type
            interned == internArray(element, length)
        IN  \/ /\ ~Proper(element)
               /\ Wrap(ArrayWrap(length), element)
               /\ UNCHANGED tables
            \/ /\ Proper(element)
               /\ length > LargestLength
               /\ Wrap(ArrayWrap(length), ErrorType)
               /\ UNCHANGED tables
            \/ /\ Proper(element)
               /\ length <= LargestLength
               /\ Wrap(ArrayWrap(length), interned.type)
               /\ arrayTypes' = interned.table
               /\ UNCHANGED sliceTypes

resolveSliceTypeSyntax ==
    LET element == annotation.type
        interned == internSlice(element)
    IN  \/ /\ ~Proper(element)
           /\ Wrap(SliceWrap, element)
           /\ UNCHANGED tables
        \/ /\ Proper(element)
           /\ Wrap(SliceWrap, interned.type)
           /\ sliceTypes' = interned.table
           /\ UNCHANGED arrayTypes

resolveTypeSyntax ==
    \/ resolveNamedTypeSyntax
    \/ resolveDeferredTypeSyntax
    \/ resolveArrayTypeSyntax
    \/ resolveSliceTypeSyntax

\* What other steps do to these variables: they take the annotation's type, read
\* on and report errors of their own.
OtherStep ==
    /\ annotation' \in {annotation, NoAnnotation}
    /\ here' \in {here, here + 1}
    /\ UNCHANGED <<tables, resolved>>

TypeSpec == TypeInit /\ [][resolveTypeSyntax \/ OtherStep]_<<tables, annotation, resolved, here>>

----------------------------------------------------------------------------

\* TypeChecker compares types with ==, member by member.  Two annotations anywhere
\* in a file have equal types exactly when they are written with the same element,
\* nesting and lengths, in whatever order the two tables were filled; an annotation
\* whose resolution failed or was deferred has neither.
OneTypePerShape ==
    \A a, b \in resolved :
        Proper(a.type) /\ Proper(b.type) =>
            (a.type = b.type <=> a.base = b.base /\ a.wraps = b.wraps)

\* An annotation with an unknown name is reported once, where it is written, however
\* deep the name is nested and however often its type is read again (a parameter's
\* type belongs to the signature and to the parameter); no other annotation is.
UnknownTypesReportedOnce ==
    LET Reports(at) == {i \in DOMAIN errors : errors[i].kind = "UnknownType" /\ errors[i].at = at}
    IN  \A a \in resolved :
            IF a.base \in UnknownNames
            THEN \E i \in DOMAIN errors : Reports(a.at) = {i}
            ELSE Reports(a.at) = {}

----------------------------------------------------------------------------
(* Why one type per shape *)

TypeSet ==
    [kind : {"scalar", "array", "slice", "Error", "Unresolved"},
     name : Primitives \cup {""}, id : Nat]

WrapSet == [kind : {"array", "slice"}, length : Nat]

Annotations ==
    [at : Nat, base : Primitives \cup UnknownNames \cup {"deferred"},
     wraps : Seq(WrapSet), type : TypeSet]

\* A type that resolution made is a primitive's, or stands for an entry that holds
\* the type of the annotation one level further in.
Explained(a, arrays, slices) ==
    \/ /\ a.wraps = <<>>
       /\ a.base \in Primitives
       /\ a.type = Scalar(a.base)
    \/ \E b \in resolved :
          LET w == a.wraps[Len(a.wraps)]
          IN  /\ Proper(b.type)
              /\ a.base = b.base
              /\ a.wraps = Append(b.wraps, w)
              /\ \/ /\ w = ArrayWrap(w.length)
                    /\ \E i \in DOMAIN arrays :
                          /\ a.type = ArrayType(i)
                          /\ arrays[i] = [elementType |-> b.type, length |-> w.length]
                 \/ /\ w = SliceWrap
                    /\ \E i \in DOMAIN slices :
                          /\ a.type = SliceType(i)
                          /\ slices[i] = b.type

NoEntryTwice(table) == \A i, j \in DOMAIN table : table[i] = table[j] => i = j

\* Preserved by every step, and enough for OneTypePerShape, its last conjunct.
TableInv ==
    /\ here \in Nat
    /\ arrayTypes \in Seq([elementType : TypeSet, length : Nat])
    /\ sliceTypes \in Seq(TypeSet)
    /\ resolved \subseteq Annotations
    /\ annotation \in resolved \cup {NoAnnotation}
    /\ NoEntryTwice(arrayTypes)
    /\ NoEntryTwice(sliceTypes)
    /\ \A a \in resolved : Proper(a.type) => Explained(a, arrayTypes, sliceTypes)
    /\ OneTypePerShape
=============================================================================
