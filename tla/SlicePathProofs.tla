--------------------------- MODULE SlicePathProofs ---------------------------
(****************************************************************************)
(* Proofs about SlicePath: types, that a loop exit forgets every binding    *)
(* its body assigned, and that an accepted function never returns a slice   *)
(* of its own frame -- for any number of parameters and locals, any nesting *)
(* and bodies of any length, in the fragment without nested loops and       *)
(* without a return inside a loop.                                          *)
(****************************************************************************)
EXTENDS SlicePath, SequenceTheorems, TLAPS

----------------------------------------------------------------------------
(* The stack of open statements *)

\* Opening a statement appends one frame and leaves the others alone.
LEMMA PushFacts ==
    ASSUME frames \in Seq(Frames), sliceProvenance \in Maps, visible \subseteq Locals,
           NEW kind \in {"if", "loop"}, NEW snapshot \in Maps,
           Push(kind, snapshot)
    PROVE  /\ frames' \in Seq(Frames)
           /\ Len(frames') = Depth + 1
           /\ \A i \in 1..Depth : frames'[i] = frames[i]
           /\ frames'[Depth + 1] = [kind |-> kind, entryProvenance |-> snapshot,
                                    mergedProvenance |-> NoSnapshot,
                                    hasMerged |-> FALSE, visible |-> visible]
<1> DEFINE new == [kind |-> kind, entryProvenance |-> snapshot,
                   mergedProvenance |-> NoSnapshot,
                   hasMerged |-> FALSE, visible |-> visible]
<1>1. NoSnapshot \in Maps
  BY DEF NoSnapshot, Maps, Untracked
<1>2. new \in Frames
  BY <1>1 DEF Frames
<1>3. frames' = Append(frames, new)
  BY DEF Push
<1> HIDE DEF new
<1>4. /\ frames' \in Seq(Frames)
      /\ Len(frames') = Len(frames) + 1
      /\ \A i \in 1..Len(frames) : frames'[i] = frames[i]
      /\ frames'[Len(frames) + 1] = new
  BY <1>2, <1>3
<1> QED
  BY <1>4 DEF new, Depth

\* All but the last element of a sequence.
LEMMA Front ==
    ASSUME NEW S, NEW q \in Seq(S), Len(q) > 0
    PROVE  /\ SubSeq(q, 1, Len(q) - 1) \in Seq(S)
           /\ Len(SubSeq(q, 1, Len(q) - 1)) = Len(q) - 1
           /\ \A i \in 1..(Len(q) - 1) : SubSeq(q, 1, Len(q) - 1)[i] = q[i]
<1> DEFINE n == Len(q) - 1
<1>1. /\ Len(q) \in Nat
      /\ n \in Nat
      /\ \A i \in 1..n : q[i] \in S
  OBVIOUS
<1> HIDE DEF n
<1>2. /\ SubSeq(q, 1, n) \in Seq(S)
      /\ Len(SubSeq(q, 1, n)) = IF 1 <= n THEN n - 1 + 1 ELSE 0
      /\ \A i \in 1..(n - 1 + 1) : SubSeq(q, 1, n)[i] = q[1 + i - 1]
  <2>1. 1 \in Int /\ n \in Int
    BY <1>1
  <2>2. \A i \in 1..n : q[i] \in S
    BY <1>1
  <2> QED BY <2>1, <2>2, SubSeqProperties
<1>3. /\ SubSeq(q, 1, n) \in Seq(S)
      /\ Len(SubSeq(q, 1, n)) = n
      /\ \A i \in 1..n : SubSeq(q, 1, n)[i] = q[i]
  BY <1>1, <1>2
<1> QED
  BY <1>3 DEF n

\* Closing a statement removes its frame and leaves the others alone.
LEMMA PopFacts ==
    ASSUME frames \in Seq(Frames), Depth > 0, Pop
    PROVE  /\ frames' \in Seq(Frames)
           /\ Len(frames') = Depth - 1
           /\ \A i \in 1..(Depth - 1) : frames'[i] = frames[i]
  BY Front DEF Pop, Depth

\* What the fold of branch results returns, symbol by symbol.
LEMMA MergeFacts ==
    ASSUME NEW f \in Frames, NEW branchResult \in Maps
    PROVE  /\ mergeInBranchResult(f, branchResult) \in Maps
           /\ ~f.hasMerged => mergeInBranchResult(f, branchResult) = branchResult
           /\ \A id \in Symbols :
                 Tracked(f.entryProvenance, id) /\ f.hasMerged
                 /\ Tracked(f.mergedProvenance, id) /\ Tracked(branchResult, id)
                 => mergeInBranchResult(f, branchResult)[id]
                       = mergeSliceProvenance(f.mergedProvenance[id], branchResult[id])
<1>1. mergeInBranchResult(f, branchResult) \in Maps
  <2>1. CASE ~f.hasMerged
    BY <2>1 DEF mergeInBranchResult
  <2>2. CASE f.hasMerged
    BY <2>2 DEF mergeInBranchResult, mergeSliceProvenance, Tracked, Frames, Maps, Provenance, Untracked
  <2> QED BY <2>1, <2>2
<1>2. ~f.hasMerged => mergeInBranchResult(f, branchResult) = branchResult
  BY DEF mergeInBranchResult
<1>3. ASSUME NEW id \in Symbols, Tracked(f.entryProvenance, id), f.hasMerged,
             Tracked(f.mergedProvenance, id), Tracked(branchResult, id)
      PROVE  mergeInBranchResult(f, branchResult)[id]
                = mergeSliceProvenance(f.mergedProvenance[id], branchResult[id])
  BY <1>3 DEF mergeInBranchResult
<1> QED
  BY <1>1, <1>2, <1>3

----------------------------------------------------------------------------
(* Types *)

\* An execution that has passed every branch so far waits at a statement whose
\* else clause is not open.
EntryWaitsAtIf == position = "entry" => frames[waitsAt].kind = "if"

TypeInv == PathTypeOK /\ EntryWaitsAtIf

\* Every expression has one of the three provenances.
LEMMA SourceType ==
    ASSUME TypeOK, NEW src
    PROVE  sliceProvenanceOf(src) \in Provenance
  BY DEF sliceProvenanceOf, TrackedOrUnknown, Tracked, TypeOK, Maps, Provenance

LEMMA OriginType ==
    ASSUME PathTypeOK, NEW src
    PROVE  OriginsOf(src) \subseteq Origins \cup {Unset}
  BY DEF OriginsOf, PathTypeOK, Origins

LEMMA TypeInit == PathInit => TypeInv
<1> SUFFICES ASSUME PathInit PROVE TypeInv
  OBVIOUS
<1>1. TypeOK
  <2>1. sliceProvenance \in Maps
    BY DEF PathInit, Init, Maps, Provenance, Symbols, Untracked
  <2>2. frames \in Seq(Frames)
    BY DEF PathInit, Init
  <2> QED
    BY <2>1, <2>2 DEF PathInit, Init, TypeOK
<1>2. storage \in [Symbols -> Origins \cup {Unset}]
  BY DEF PathInit, Origins, Unset, Symbols
<1>3. assigned \in Seq(SUBSET Locals) /\ Len(assigned) = Depth
  BY DEF PathInit, Init, Depth
<1> QED
  BY <1>1, <1>2, <1>3 DEF TypeInv, PathTypeOK, EntryWaitsAtIf, PathInit

LEMMA StoreType ==
    ASSUME TypeInv, NEW s \in Locals, NEW src, frames' = frames, Store(s, src)
    PROVE  /\ storage' \in [Symbols -> Origins \cup {Unset}]
           /\ position' = position /\ waitsAt' = waitsAt /\ result' = result
           /\ assigned' \in Seq(SUBSET Locals)
           /\ Len(assigned') = Depth
  BY OriginType DEF TypeInv, PathTypeOK, Store, Depth

\* Every action of the walk keeps the types.
LEMMA TypeStep == TypeInv /\ [PathNext]_vars => TypeInv'
<1> SUFFICES ASSUME TypeInv, [PathNext]_vars
             PROVE  TypeInv'
  OBVIOUS
<1> USE DEF TypeInv
<1>t. TypeOK /\ PathTypeOK /\ EntryWaitsAtIf
  BY DEF PathTypeOK
<1>f. /\ Len(frames) \in Nat
      /\ \A i \in 1..Depth : frames[i] \in Frames
  BY <1>t DEF TypeOK, Depth
<1>1. ASSUME NEW s \in Locals, NEW src \in Sources, Declare(s, src)
      PROVE  TypeInv'
  <2>1. TypeOK'
    BY <1>1, <1>t, SourceType DEF Declare, checkVarDecl, setSliceProvenance, TypeOK, Maps, Symbols
  <2> QED
    BY <1>1, <1>t, <2>1, StoreType
    DEF Declare, checkVarDecl, PathTypeOK, EntryWaitsAtIf, Depth
<1>2. ASSUME NEW s \in Locals, DeclareInError(s)
      PROVE  TypeInv'
  <2>1. TypeOK'
    BY <1>2, <1>t DEF DeclareInError, checkVarDeclInError, TypeOK, Maps, Symbols
  <2> QED
    BY <1>2, <1>t, <2>1 DEF DeclareInError, checkVarDeclInError, pathVars, PathTypeOK, EntryWaitsAtIf, Depth
<1>3. ASSUME NEW s \in Locals, NEW src \in Sources, Assign(s, src)
      PROVE  TypeInv'
  <2>1. TypeOK'
    BY <1>3, <1>t, SourceType
    DEF Assign, checkVariableAssignmentTarget, setSliceProvenance, TypeOK, Maps, Symbols
  <2> QED
    BY <1>3, <1>t, <2>1, StoreType
    DEF Assign, checkVariableAssignmentTarget, PathTypeOK, EntryWaitsAtIf, Depth
<1>4. ASSUME OtherError
      PROVE  TypeInv'
  BY <1>4, <1>t DEF OtherError, reportError, pathVars, TypeOK, PathTypeOK, EntryWaitsAtIf, Depth
<1>5. ASSUME NEW src \in Sources, Return(src)
      PROVE  TypeInv'
  <2>1. TypeOK'
    BY <1>5, <1>t DEF Return, checkReturnStmt, TypeOK
  <2>2. storage' \in [Symbols -> Origins \cup {Unset}] /\ result' \in Origins \cup {Unset}
    BY <1>5, <1>t, OriginType DEF Return, PathTypeOK, Unset
  <2> QED
    BY <1>5, <1>t, <2>1, <2>2 DEF Return, checkReturnStmt, PathTypeOK, EntryWaitsAtIf, Depth
<1>6. ASSUME EnterIf
      PROVE  TypeInv'
  <2>1. /\ frames' \in Seq(Frames)
        /\ Len(frames') = Depth + 1
        /\ \A i \in 1..Depth : frames'[i] = frames[i]
        /\ frames'[Depth + 1].kind = "if"
    <3>1. Push("if", sliceProvenance) /\ "if" \in {"if", "loop"}
      BY <1>6 DEF EnterIf, checkIfStmtEnter
    <3>2. frames'[Depth + 1] = [kind |-> "if", entryProvenance |-> sliceProvenance,
                                mergedProvenance |-> NoSnapshot,
                                hasMerged |-> FALSE, visible |-> visible]
      BY <1>t, <3>1, PushFacts DEF TypeOK
    <3> QED
      BY <1>t, <3>1, <3>2, PushFacts DEF TypeOK
  <2>2. TypeOK'
    BY <1>6, <1>t, <2>1 DEF EnterIf, checkIfStmtEnter, TypeOK
  <2>3. assigned' \in Seq(SUBSET Locals) /\ Len(assigned') = Depth'
    BY <1>6, <1>t, <2>1 DEF EnterIf, PathTypeOK, Depth
  <2> QED
    BY <1>6, <1>t, <1>f, <2>1, <2>2, <2>3
    DEF EnterIf, TakeOrPass, Resume, PathTypeOK, EntryWaitsAtIf, Depth
<1>7. ASSUME NEW kind \in {"if", "else"}, NextBranch(kind)
      PROVE  TypeInv'
  <2>1. Depth > 0 /\ Innermost \in Frames
    BY <1>7, <1>f DEF NextBranch, checkIfStmtNextBranch, Innermost, Depth
  <2>2. /\ mergeInBranchResult(Innermost, sliceProvenance) \in Maps
        /\ Innermost.entryProvenance \in Maps
        /\ Innermost.visible \subseteq Locals
    BY <1>t, <2>1, MergeFacts DEF TypeOK, Frames
  <2> DEFINE f == [Innermost EXCEPT !.kind = kind,
                       !.mergedProvenance = mergeInBranchResult(Innermost, sliceProvenance),
                       !.hasMerged = TRUE]
  <2>3. f \in Frames /\ f.kind = kind
    BY <2>1, <2>2 DEF Frames
  <2>4. frames' = [frames EXCEPT ![Depth] = f]
    BY <1>7 DEF NextBranch, checkIfStmtNextBranch, Innermost
  <2> HIDE DEF f
  <2>5. /\ frames' \in Seq(Frames)
        /\ Len(frames') = Depth
        /\ frames'[Depth] = f
        /\ \A i \in 1..(Depth - 1) : frames'[i] = frames[i]
    BY <1>t, <1>f, <2>1, <2>3, <2>4 DEF TypeOK, Depth
  <2>6. TypeOK'
    BY <1>7, <1>t, <2>2, <2>5 DEF NextBranch, checkIfStmtNextBranch, TypeOK
  <2> QED
    BY <1>7, <1>t, <1>f, <2>1, <2>3, <2>5, <2>6
    DEF NextBranch, TakeOrPass, Resume, Waiting, PathTypeOK, EntryWaitsAtIf, Depth
<1>8. ASSUME ExitIf
      PROVE  TypeInv'
  <2>1. Depth > 0 /\ Innermost \in Frames
    BY <1>8, <1>f DEF ExitIf, checkIfStmtExit, Innermost, Depth
  <2>2. /\ frames' \in Seq(Frames)
        /\ Len(frames') = Depth - 1
        /\ \A i \in 1..(Depth - 1) : frames'[i] = frames[i]
    BY <1>8, <1>t, <2>1, PopFacts DEF ExitIf, checkIfStmtExit, TypeOK
  <2>3. sliceProvenance' \in Maps /\ visible' \subseteq Locals
    <3> DEFINE merged == mergeInBranchResult(Innermost, sliceProvenance)
               closed == [Innermost EXCEPT !.mergedProvenance = merged, !.hasMerged = TRUE]
    <3>1. merged \in Maps
      BY <1>t, <2>1, MergeFacts DEF TypeOK
    <3>2. closed \in Frames /\ Innermost.entryProvenance \in Maps /\ Innermost.visible \subseteq Locals
      BY <2>1, <3>1 DEF Frames
    <3>3. mergeInBranchResult(closed, Innermost.entryProvenance) \in Maps
      BY <3>2, MergeFacts
    <3> QED
      BY <1>8, <3>1, <3>2, <3>3 DEF ExitIf, checkIfStmtExit
  <2>4. TypeOK'
    BY <1>8, <1>t, <2>2, <2>3 DEF ExitIf, checkIfStmtExit, TypeOK
  <2>5. assigned' \in Seq(SUBSET Locals) /\ Len(assigned') = Depth - 1
    BY <1>8, <1>t, <2>1, Front DEF ExitIf, PathTypeOK, Depth
  <2> QED
    BY <1>8, <1>t, <1>f, <2>1, <2>2, <2>4, <2>5
    DEF ExitIf, Resume, Waiting, PathTypeOK, EntryWaitsAtIf, Depth
<1>9. ASSUME NEW isRange \in BOOLEAN, EnterLoop(isRange)
      PROVE  TypeInv'
  <2>1. NoSnapshot \in Maps
    BY DEF NoSnapshot, Maps, Untracked
  <2>2. /\ frames' \in Seq(Frames)
        /\ Len(frames') = Depth + 1
        /\ \A i \in 1..Depth : frames'[i] = frames[i]
    BY <1>9, <1>t, <2>1, PushFacts DEF EnterLoop, checkLoopStmtEnter, TypeOK
  <2>3. TypeOK'
    BY <1>9, <1>t, <2>2 DEF EnterLoop, checkLoopStmtEnter, TypeOK
  <2>4. assigned' \in Seq(SUBSET Locals) /\ Len(assigned') = Depth'
    BY <1>9, <1>t, <2>2 DEF EnterLoop, PathTypeOK, Depth
  <2> QED
    BY <1>9, <1>t, <1>f, <2>2, <2>3, <2>4 DEF EnterLoop, PathTypeOK, EntryWaitsAtIf, Depth
<1>10. ASSUME ExitLoop
       PROVE  TypeInv'
  <2>1. Depth > 0 /\ Innermost \in Frames /\ Innermost.kind = "loop"
    BY <1>10, <1>f DEF ExitLoop, checkLoopStmtExit, Innermost, Depth
  <2>2. /\ frames' \in Seq(Frames)
        /\ Len(frames') = Depth - 1
        /\ \A i \in 1..(Depth - 1) : frames'[i] = frames[i]
    BY <1>10, <1>t, <2>1, PopFacts DEF ExitLoop, checkLoopStmtExit, TypeOK
  <2>3. TypeOK'
    BY <1>10, <1>t, <2>1, <2>2
    DEF ExitLoop, checkLoopStmtExit, TypeOK, Maps, Provenance, Frames
  <2>4. assigned' \in Seq(SUBSET Locals) /\ Len(assigned') = Depth - 1
    BY <1>10, <1>t, <2>1, Front DEF ExitLoop, PathTypeOK, Depth
  <2>5. storage' \in [Symbols -> Origins \cup {Unset}]
    BY <1>10, <1>t DEF ExitLoop, PathTypeOK
  <2>6. ~Waiting("entry", Depth)
    BY <1>t, <2>1 DEF EntryWaitsAtIf, Waiting, Innermost
  <2> QED
    BY <1>10, <1>t, <1>f, <2>1, <2>2, <2>3, <2>4, <2>5, <2>6
    DEF ExitLoop, Resume, Waiting, PathTypeOK, EntryWaitsAtIf, Depth
<1>11. CASE UNCHANGED vars
  BY <1>11, <1>t DEF vars, checkerVars, pathVars, TypeOK, PathTypeOK, EntryWaitsAtIf, Depth
<1> QED
  BY <1>1, <1>2, <1>3, <1>4, <1>5, <1>6, <1>7, <1>8, <1>9, <1>10, <1>11 DEF PathNext

\* Types hold of every walk and execution, whatever the number of symbols and
\* however deep the nesting.
THEOREM TypeCorrect == PathSpec => []PathTypeOK
<1>1. TypeInv => PathTypeOK
  BY DEF TypeInv
<1> QED
  BY <1>1, TypeInit, TypeStep, PTL DEF PathSpec

----------------------------------------------------------------------------
(* No dangling return *)

LEMMA InvInit == PathInit => IInv
<1> SUFFICES ASSUME PathInit PROVE IInv
  OBVIOUS
<1>1. Depth = 0 /\ visible = {} /\ position = "here"
  BY DEF PathInit, Init, Depth
<1>2. Nesting
  BY <1>1 DEF Nesting
<1>3. AllTracked
  BY <1>1 DEF AllTracked, Tracked, PathInit, Init, Symbols, Untracked
<1>4. TrackedIsTrue
  BY <1>1 DEF TrackedIsTrue, Exact, PathInit, Init, Symbols
<1> QED
  BY <1>1, <1>2, <1>3, <1>4 DEF IInv, EntryExact, ExitIfExact, ExitLoopExact, NoDanglingReturn

\* A definite provenance of an expression is the origin it evaluates to.
LEMMA SourceExact ==
    ASSUME TypeInv, Exact(sliceProvenance, Params \cup visible), NEW src \in Sources,
           NEW o \in OriginsOf(src), sliceProvenanceOf(src) \in {"External", "Local"}
    PROVE  o = sliceProvenanceOf(src)
<1>1. CASE src \in Symbols
  <2>1. src \in Params \cup visible
    BY <1>1, SymbolsAssumption DEF Sources, Symbols
  <2> QED
    BY <1>1, <2>1 DEF sliceProvenanceOf, TrackedOrUnknown, OriginsOf, Exact
<1>2. CASE src \notin Symbols
  <2>1. src = SliceCall
    BY <1>2, SymbolsAssumption DEF Sources, sliceProvenanceOf, Symbols
  <2> QED
    BY <1>2, <2>1 DEF sliceProvenanceOf, OriginsOf
<1> QED
  BY <1>1, <1>2

\* A store to s in step with setSliceProvenance keeps what the map says true.
LEMMA StoreStep ==
    ASSUME TypeInv, IInv, NEW s \in Locals, NEW src \in Sources,
           setSliceProvenance(s, sliceProvenanceOf(src)), Store(s, src),
           UNCHANGED <<touchTracking, frames, rejected>>,
           visible' = visible \cup {s}
    PROVE  IInv'
<1> USE DEF TypeInv, PathTypeOK, TypeOK
<1>1. /\ Depth' = Depth
      /\ Len(frames) \in Nat
      /\ \A i \in 1..Depth : frames[i] \in Frames
      /\ position' = position /\ waitsAt' = waitsAt /\ result' = result
      /\ \A i \in 1..Depth : assigned'[i] = assigned[i] \cup {s}
      /\ s \in Symbols
  BY DEF Depth, Store, Symbols
<1>2. /\ sliceProvenance'[s] = sliceProvenanceOf(src)
      /\ \A id \in Symbols \ {s} : sliceProvenance'[id] = sliceProvenance[id]
      /\ touched \subseteq touched'
      /\ touchTracking => s \in touched'
      /\ sliceProvenanceOf(src) \in Provenance
  BY <1>1, SourceType DEF setSliceProvenance, Maps
<1>3. Nesting'
  BY <1>1, <1>2 DEF IInv, Nesting, IsIf, Frames
<1> SUFFICES ASSUME ~rejected'
             PROVE  AllTracked' /\ TrackedIsTrue' /\ EntryExact' /\ ExitIfExact'
                    /\ ExitLoopExact' /\ NoDanglingReturn'
  BY <1>3 DEF IInv
<1>4. ~rejected
  OBVIOUS
<1>5. AllTracked'
  BY <1>1, <1>2, <1>4 DEF IInv, AllTracked, Tracked, Scope, IsIf, Symbols, Provenance, Untracked
<1>6. TrackedIsTrue'
  <2> SUFFICES ASSUME position = "here", NEW id \in Params \cup visible \cup {s},
                      sliceProvenance'[id] \in {"External", "Local"}
               PROVE  storage'[id] = sliceProvenance'[id]
    BY <1>1 DEF TrackedIsTrue, Exact
  <2>1. PICK o \in OriginsOf(src) : storage' = [storage EXCEPT ![s] = o]
    BY DEF Store
  <2>2. Exact(sliceProvenance, Params \cup visible)
    BY <1>4 DEF IInv, TrackedIsTrue
  <2>3. storage'[s] = o /\ \A i \in Symbols \ {s} : storage'[i] = storage[i]
    BY <1>1, <2>1
  <2>4. CASE id = s
    BY <1>2, <2>2, <2>3, <2>4, SourceExact
  <2>5. CASE id # s
    <3>1. id \in Symbols \ {s} /\ id \in Params \cup visible
      BY <2>5 DEF Symbols
    <3> QED
      BY <1>2, <2>2, <2>3, <3>1 DEF Exact
  <2> QED
    BY <2>4, <2>5
<1>7. position # "here" => storage' = storage
  BY DEF Store
<1>8. EntryExact'
  BY <1>1, <1>4, <1>7 DEF IInv, EntryExact, Exact, Scope
<1>9. ExitIfExact'
  BY <1>1, <1>4, <1>7 DEF IInv, ExitIfExact, Exact, Scope, IsIf
<1>10. ExitLoopExact'
  <2> SUFFICES ASSUME position = "exit", ~IsIf(waitsAt)
               PROVE  ExitLoopExact'
    BY <1>1 DEF ExitLoopExact, IsIf
  <2>1. waitsAt \in 1..Depth
    OBVIOUS
  <2>2. touchTracking
    BY <2>1 DEF IInv, Nesting
  <2>3. (Scope(waitsAt) \ touched)' \subseteq (Scope(waitsAt) \ touched) \ {s}
    BY <1>1, <1>2, <2>2 DEF Scope
  <2>4. Scope(waitsAt) \subseteq Symbols
    BY <1>1, <2>1 DEF Scope, Frames, Symbols
  <2> QED
    BY <1>1, <1>2, <1>4, <1>7, <2>1, <2>3, <2>4 DEF IInv, ExitLoopExact, Exact
<1>11. NoDanglingReturn'
  BY <1>1, <1>4 DEF IInv, NoDanglingReturn
<1> QED
  BY <1>5, <1>6, <1>8, <1>9, <1>10, <1>11

\* Folding in one more branch keeps a symbol tracked, and keeps it definite only
\* if every outcome folded in so far agrees.
LEMMA MergeDefinite ==
    ASSUME NEW f \in Frames, NEW branchResult \in Maps, NEW id \in Symbols,
           Tracked(f.entryProvenance, id), Tracked(branchResult, id),
           f.hasMerged => Tracked(f.mergedProvenance, id)
    PROVE  /\ Tracked(mergeInBranchResult(f, branchResult), id)
           /\ mergeInBranchResult(f, branchResult)[id] \in {"External", "Local"} =>
                 /\ mergeInBranchResult(f, branchResult)[id] = branchResult[id]
                 /\ f.hasMerged => mergeInBranchResult(f, branchResult)[id] = f.mergedProvenance[id]
<1>1. CASE ~f.hasMerged
  BY <1>1, MergeFacts
<1>2. CASE f.hasMerged
  BY <1>2, MergeFacts DEF mergeSliceProvenance, Tracked, Untracked
<1> QED
  BY <1>1, <1>2 DEF Frames

LEMMA EnterIfStep ==
    ASSUME TypeInv, IInv, EnterIf
    PROVE  IInv'
<1> USE DEF TypeInv, PathTypeOK, TypeOK
<1>1. /\ Depth' = Depth + 1
      /\ Len(frames) \in Nat
      /\ \A i \in 1..Depth : frames[i] \in Frames /\ frames'[i] = frames[i]
      /\ frames'[Depth + 1] = [kind |-> "if", entryProvenance |-> sliceProvenance,
                               mergedProvenance |-> NoSnapshot,
                               hasMerged |-> FALSE, visible |-> visible]
  <2>1. Push("if", sliceProvenance) /\ "if" \in {"if", "loop"}
    BY DEF EnterIf, checkIfStmtEnter
  <2> QED
    BY <2>1, PushFacts DEF Depth
<1>2. /\ \A i \in 1..Depth : assigned'[i] = assigned[i]
      /\ UNCHANGED <<sliceProvenance, touchTracking, touched, visible, rejected, storage, result>>
  BY DEF EnterIf, checkIfStmtEnter
<1>3. \A i \in 1..(Depth + 1) : i \in 1..Depth \/ i = Depth + 1
  BY <1>1 DEF Depth
<1>4. Nesting'
  <2>1. Nesting /\ Depth \in Nat
    BY <1>1 DEF IInv, Depth
  <2>a. /\ frames'[Depth + 1].kind = "if"
        /\ frames'[Depth + 1].visible = visible
    BY <1>1
  <2>2. \A i \in 1..Depth' : frames'[i].visible \subseteq visible'
    <3> TAKE i \in 1..Depth'
    <3>1. i \in 1..Depth \/ i = Depth + 1
      BY <1>1, <1>3
    <3> QED
      BY <1>1, <1>2, <2>1, <2>a, <3>1 DEF Nesting
  <2>3. \A i, j \in 1..Depth' : i < j => frames'[i].visible \subseteq frames'[j].visible
    <3> TAKE i, j \in 1..Depth'
    <3> HAVE i < j
    <3>1. i \in 1..Depth
      BY <1>1, <2>1
    <3>2. CASE j \in 1..Depth
      BY <1>1, <2>1, <3>1, <3>2 DEF Nesting
    <3>3. CASE j = Depth + 1
      BY <1>1, <2>1, <3>1, <3>3 DEF Nesting
    <3> QED
      BY <1>1, <1>3, <3>2, <3>3
  <2>4. \A i \in 1..Depth' : frames'[i].kind = "else" => frames'[i].hasMerged
    <3> TAKE i \in 1..Depth'
    <3>1. i \in 1..Depth \/ i = Depth + 1
      BY <1>1, <1>3
    <3> QED
      BY <1>1, <2>1, <2>a, <3>1 DEF Nesting
  <2>5. \A i \in 1..Depth' : ~IsIf(i)' => i \in 1..Depth /\ ~IsIf(i)
    BY <1>1, <1>3, <2>a DEF IsIf
  <2> QED
    BY <1>1, <1>2, <2>1, <2>2, <2>3, <2>4, <2>5 DEF Nesting
<1> SUFFICES ASSUME ~rejected'
             PROVE  AllTracked' /\ TrackedIsTrue' /\ EntryExact' /\ ExitIfExact'
                    /\ ExitLoopExact' /\ NoDanglingReturn'
  BY <1>4 DEF IInv
<1>5. ~rejected
  BY <1>2
<1>6. AllTracked'
  BY <1>1, <1>2, <1>3, <1>5 DEF IInv, AllTracked, Tracked, Scope, IsIf
<1>7. position = "here" => Exact(sliceProvenance, Params \cup visible)
  BY <1>5 DEF IInv, TrackedIsTrue
<1>8. TrackedIsTrue' /\ EntryExact'
  <2>1. CASE position = "here"
    BY <1>1, <1>2, <1>7, <2>1 DEF EnterIf, TakeOrPass, Resume, TrackedIsTrue, EntryExact, Exact, Scope
  <2>2. CASE position # "here"
    BY <1>1, <1>2, <1>5, <2>2 DEF EnterIf, IInv, TrackedIsTrue, EntryExact, Exact, Scope
  <2> QED BY <2>1, <2>2
<1>9. position' = "exit" => position = "exit" /\ waitsAt' = waitsAt /\ waitsAt \in 1..Depth
  BY DEF EnterIf, TakeOrPass, Resume
<1>10. ExitIfExact'
  BY <1>1, <1>2, <1>5, <1>9 DEF IInv, ExitIfExact, Exact, Scope, IsIf
<1>11. ExitLoopExact'
  <2> SUFFICES ASSUME position' = "exit", ~IsIf(waitsAt)'
               PROVE  ExitLoopExact'
    BY DEF ExitLoopExact
  <2> DEFINE untouched == Scope(waitsAt) \ touched
  <2>1. /\ Exact(sliceProvenance, untouched)
        /\ \A j \in (waitsAt + 1)..Depth :
              /\ Exact(frames[j].entryProvenance, untouched)
              /\ frames[j].hasMerged => Exact(frames[j].mergedProvenance, untouched)
    BY <1>1, <1>5, <1>9 DEF IInv, ExitLoopExact, IsIf
  <2>2. (Scope(waitsAt) \ touched)' = untouched
    BY <1>1, <1>2, <1>9 DEF Scope
  <2>3. \A j \in (waitsAt + 1)..(Depth + 1) : j \in (waitsAt + 1)..Depth \/ j = Depth + 1
    BY <1>1 DEF Depth
  <2> HIDE DEF untouched
  <2> QED
    BY <1>1, <1>2, <1>9, <2>1, <2>2, <2>3 DEF ExitLoopExact, Exact, Depth
<1>12. NoDanglingReturn'
  BY <1>2, <1>5 DEF IInv, NoDanglingReturn, EnterIf, TakeOrPass, Resume
<1> QED
  BY <1>6, <1>8, <1>10, <1>11, <1>12

LEMMA NextBranchStep ==
    ASSUME TypeInv, IInv, NEW kind \in {"if", "else"}, NextBranch(kind)
    PROVE  IInv'
<1> USE DEF TypeInv, PathTypeOK, TypeOK
<1> DEFINE merged == mergeInBranchResult(Innermost, sliceProvenance)
<1>1. /\ Depth \in Nat /\ Depth > 0 /\ Depth = Len(frames)
      /\ \A i \in 1..Depth : frames[i] \in Frames
      /\ Innermost = frames[Depth] /\ frames[Depth].kind = "if"
      /\ Depth \in 1..Depth
  BY DEF NextBranch, checkIfStmtNextBranch, Depth, Innermost
<1>2. /\ Depth' = Depth
      /\ \A i \in 1..(Depth - 1) : frames'[i] = frames[i]
      /\ frames'[Depth].kind = kind
      /\ frames'[Depth].entryProvenance = frames[Depth].entryProvenance
      /\ frames'[Depth].mergedProvenance = merged
      /\ frames'[Depth].hasMerged
      /\ frames'[Depth].visible = frames[Depth].visible
  BY <1>1 DEF NextBranch, checkIfStmtNextBranch, Depth, Frames
<1>3. /\ sliceProvenance' = frames[Depth].entryProvenance
      /\ visible' = frames[Depth].visible
      /\ UNCHANGED <<touchTracking, touched, rejected, storage, assigned, result>>
  BY <1>1 DEF NextBranch, checkIfStmtNextBranch
<1>4. \A i \in 1..Depth : i \in 1..(Depth - 1) \/ i = Depth
  BY <1>1
<1>5. \A i \in 1..Depth : frames'[i].visible = frames[i].visible /\ (IsIf(i)' <=> IsIf(i))
  BY <1>1, <1>2, <1>4 DEF IsIf
<1>6. Nesting'
  <2>1. \A i \in 1..Depth : frames[i].visible \subseteq frames[Depth].visible
    BY <1>1, <1>4 DEF IInv, Nesting
  <2>2. \A i \in 1..Depth : frames'[i].kind = "else" => frames'[i].hasMerged
    BY <1>1, <1>2, <1>4 DEF IInv, Nesting
  <2> QED
    BY <1>2, <1>3, <1>5, <2>1, <2>2, ZenonT(30) DEF IInv, Nesting
<1> HIDE DEF merged
<1> SUFFICES ASSUME ~rejected'
             PROVE  AllTracked' /\ TrackedIsTrue' /\ EntryExact' /\ ExitIfExact'
                    /\ ExitLoopExact' /\ NoDanglingReturn'
  BY <1>6 DEF IInv
<1>7. ~rejected
  BY <1>3
<1>8. \A id \in Scope(Depth) :
         /\ id \in Symbols /\ id \in Params \cup visible
         /\ Tracked(frames[Depth].entryProvenance, id)
         /\ Tracked(sliceProvenance, id)
         /\ frames[Depth].hasMerged => Tracked(frames[Depth].mergedProvenance, id)
  BY <1>1, <1>7 DEF IInv, AllTracked, Nesting, Scope, IsIf, Symbols, Frames
<1>9. \A id \in Scope(Depth) :
         /\ Tracked(merged, id)
         /\ merged[id] \in {"External", "Local"} =>
               /\ merged[id] = sliceProvenance[id]
               /\ frames[Depth].hasMerged => merged[id] = frames[Depth].mergedProvenance[id]
  BY <1>1, <1>8, MergeDefinite DEF merged
<1>10. AllTracked'
  <2>1. \A id \in (Params \cup visible)' : Tracked(sliceProvenance', id)
    BY <1>3, <1>8 DEF Scope
  <2>2. ASSUME NEW i \in 1..Depth, IsIf(i)', NEW id \in Scope(i)'
        PROVE  /\ Tracked(frames'[i].entryProvenance, id)
               /\ frames'[i].hasMerged => Tracked(frames'[i].mergedProvenance, id)
    <3>1. CASE i = Depth
      BY <1>2, <1>8, <1>9, <2>2, <3>1 DEF Scope
    <3>2. CASE i \in 1..(Depth - 1)
      BY <1>2, <1>7, <2>2, <3>2 DEF IInv, AllTracked, Scope, IsIf
    <3> QED
      BY <1>4, <3>1, <3>2
  <2> QED
    BY <1>2, <2>1, <2>2 DEF AllTracked, Tracked
<1>11. TrackedIsTrue'
  <2> SUFFICES ASSUME position' = "here"
               PROVE  TrackedIsTrue'
    BY DEF TrackedIsTrue
  <2>1. Waiting("entry", Depth)
    BY DEF NextBranch, Waiting
  <2>2. Exact(frames[Depth].entryProvenance, Scope(Depth))
    BY <1>7, <2>1 DEF IInv, EntryExact, Waiting
  <2> QED
    BY <1>3, <2>2 DEF TrackedIsTrue, Exact, Scope
<1>12. EntryExact'
  <2> SUFFICES ASSUME position' = "entry"
               PROVE  EntryExact'
    BY DEF EntryExact
  <2>1. position = "entry" /\ waitsAt' = waitsAt /\ waitsAt \in 1..Depth
    BY DEF NextBranch, Waiting, TakeOrPass, Resume
  <2>2. /\ frames'[waitsAt].entryProvenance = frames[waitsAt].entryProvenance
        /\ Scope(waitsAt)' = Scope(waitsAt)
    BY <1>2, <1>4, <1>5, <2>1 DEF Scope
  <2> QED
    BY <1>3, <1>7, <2>1, <2>2 DEF IInv, EntryExact, Exact
<1>13. position' = "exit" =>
          \/ position = "here" /\ waitsAt' = Depth
          \/ position = "exit" /\ waitsAt' = waitsAt /\ waitsAt \in 1..Depth
  BY DEF NextBranch, Waiting, TakeOrPass, Resume
<1>14. position = "here" => Exact(sliceProvenance, Scope(Depth))
  BY <1>7, <1>8 DEF IInv, TrackedIsTrue, Exact
<1>15. ExitIfExact'
  <2> SUFFICES ASSUME position' = "exit", IsIf(waitsAt)'
               PROVE  ExitIfExact'
    BY DEF ExitIfExact
  <2>1. CASE position = "here" /\ waitsAt' = Depth
    BY <1>2, <1>3, <1>9, <1>14, <2>1 DEF ExitIfExact, Exact, Scope
  <2>2. CASE position = "exit" /\ waitsAt' = Depth /\ waitsAt = Depth
    <3>1. frames[Depth].hasMerged /\ Exact(frames[Depth].mergedProvenance, Scope(Depth))
      BY <1>1, <1>7, <2>2 DEF IInv, ExitIfExact, IsIf
    <3> QED
      BY <1>2, <1>3, <1>9, <2>2, <3>1 DEF ExitIfExact, Exact, Scope
  <2>3. CASE position = "exit" /\ waitsAt' = waitsAt /\ waitsAt \in 1..(Depth - 1)
    BY <1>2, <1>3, <1>7, <2>3 DEF IInv, ExitIfExact, Exact, Scope, IsIf
  <2> QED
    BY <1>4, <1>13, <2>1, <2>2, <2>3
<1>16. ExitLoopExact'
  <2> SUFFICES ASSUME position' = "exit", ~IsIf(waitsAt)'
               PROVE  ExitLoopExact'
    BY DEF ExitLoopExact
  <2>1. position = "exit" /\ waitsAt' = waitsAt /\ waitsAt \in 1..(Depth - 1)
    BY <1>2, <1>4, <1>13 DEF IsIf
  <2> DEFINE untouched == Scope(waitsAt) \ touched
  <2>2. /\ Exact(sliceProvenance, untouched)
        /\ \A j \in (waitsAt + 1)..Depth :
              /\ Exact(frames[j].entryProvenance, untouched)
              /\ frames[j].hasMerged => Exact(frames[j].mergedProvenance, untouched)
    BY <1>2, <1>7, <2>1 DEF IInv, ExitLoopExact, IsIf
  <2>3. (Scope(waitsAt) \ touched)' = untouched
    BY <1>2, <1>3, <2>1 DEF Scope
  <2>4. untouched \subseteq Scope(Depth)
    BY <1>1, <2>1 DEF IInv, Nesting, Scope
  <2>5. \A j \in (waitsAt + 1)..Depth :
           (j \in 1..(Depth - 1) /\ j \in (waitsAt + 1)..Depth) \/ j = Depth
    BY <1>1, <2>1
  <2>6. Depth \in (waitsAt + 1)..Depth
    BY <1>1, <2>1
  <2> HIDE DEF untouched
  <2>7. Exact(frames[Depth].entryProvenance, untouched) /\ Exact(merged, untouched)
    BY <1>9, <2>2, <2>4, <2>6 DEF Exact
  <2>8. \A j \in (waitsAt + 1)..Depth :
           /\ Exact(frames'[j].entryProvenance, untouched)
           /\ frames'[j].hasMerged => Exact(frames'[j].mergedProvenance, untouched)
    BY <1>2, <2>2, <2>5, <2>7
  <2> QED
    BY <1>2, <1>3, <2>1, <2>3, <2>7, <2>8 DEF ExitLoopExact, Exact
<1>17. NoDanglingReturn'
  BY <1>3, <1>7 DEF IInv, NoDanglingReturn, NextBranch, TakeOrPass, Resume
<1> QED
  BY <1>10, <1>11, <1>12, <1>15, <1>16, <1>17

LEMMA ExitIfStep ==
    ASSUME TypeInv, IInv, ExitIf
    PROVE  IInv'
<1> USE DEF TypeInv, PathTypeOK, TypeOK
<1> DEFINE f == frames[Depth]
           merged == mergeInBranchResult(f, sliceProvenance)
           closed == [f EXCEPT !.mergedProvenance = merged, !.hasMerged = TRUE]
<1>1. /\ Depth \in Nat /\ Depth > 0 /\ Depth = Len(frames)
      /\ \A i \in 1..Depth : frames[i] \in Frames
      /\ Innermost = f /\ IsIf(Depth)
      /\ Depth \in 1..Depth
  BY DEF ExitIf, checkIfStmtExit, Depth, Innermost, IsIf
<1>2. /\ Depth' = Depth - 1
      /\ \A i \in 1..(Depth - 1) : frames'[i] = frames[i]
  BY <1>1, PopFacts DEF ExitIf, checkIfStmtExit, Depth
<1>3. /\ visible' = f.visible
      /\ UNCHANGED <<touchTracking, touched, rejected, storage, result>>
      /\ sliceProvenance' = IF f.kind = "else"
                            THEN merged
                            ELSE mergeInBranchResult(closed, f.entryProvenance)
  BY <1>1 DEF ExitIf, checkIfStmtExit
<1>4. \A i \in 1..(Depth - 1) : assigned'[i] = assigned[i]
  BY <1>1, Front DEF ExitIf, Depth
<1>5. \A i \in 1..Depth : i \in 1..(Depth - 1) \/ i = Depth
  BY <1>1
<1>6. Nesting'
  <2>1. \A i \in 1..(Depth - 1) : i \in 1..Depth /\ i < Depth
    BY <1>1
  <2> QED
    BY <1>1, <1>2, <1>3, <1>4, <2>1 DEF IInv, Nesting, IsIf
<1>m. merged \in Maps /\ closed \in Frames /\ f.entryProvenance \in Maps
  <2>1. merged \in Maps /\ f \in Frames
    BY <1>1, MergeFacts
  <2> HIDE DEF merged, f
  <2> QED BY <2>1 DEF Frames
<1>c. /\ closed.entryProvenance = f.entryProvenance
      /\ closed.mergedProvenance = merged
      /\ closed.hasMerged
  BY <1>1 DEF Frames
<1> HIDE DEF merged, closed, f
<1> SUFFICES ASSUME ~rejected'
             PROVE  AllTracked' /\ TrackedIsTrue' /\ EntryExact' /\ ExitIfExact'
                    /\ ExitLoopExact' /\ NoDanglingReturn'
  BY <1>6 DEF IInv
<1>7. ~rejected
  BY <1>3
<1>8. \A id \in Scope(Depth) :
         /\ id \in Symbols /\ id \in Params \cup visible
         /\ Tracked(f.entryProvenance, id)
         /\ Tracked(sliceProvenance, id)
         /\ f.hasMerged => Tracked(f.mergedProvenance, id)
  BY <1>1, <1>7 DEF f, IInv, AllTracked, Nesting, Scope, IsIf, Symbols, Frames
<1>9. ASSUME NEW id \in Scope(Depth)
      PROVE  /\ Tracked(sliceProvenance', id)
             /\ sliceProvenance'[id] \in {"External", "Local"} =>
                   /\ sliceProvenance'[id] = sliceProvenance[id]
                   /\ f.hasMerged => sliceProvenance'[id] = f.mergedProvenance[id]
                   /\ f.kind # "else" => sliceProvenance'[id] = f.entryProvenance[id]
  <2>1. /\ Tracked(merged, id)
        /\ merged[id] \in {"External", "Local"} =>
              /\ merged[id] = sliceProvenance[id]
              /\ f.hasMerged => merged[id] = f.mergedProvenance[id]
    BY <1>1, <1>8, MergeDefinite DEF merged, f
  <2>2. CASE f.kind = "else"
    BY <1>3, <2>1, <2>2
  <2>3. CASE f.kind # "else"
    <3> DEFINE after == mergeInBranchResult(closed, f.entryProvenance)
    <3>1. id \in Symbols /\ Tracked(f.entryProvenance, id)
      BY <1>8
    <3>2. /\ Tracked(after, id)
          /\ after[id] \in {"External", "Local"} =>
                after[id] = f.entryProvenance[id] /\ after[id] = merged[id]
      BY <1>m, <1>c, <2>1, <3>1, MergeDefinite
    <3>3. sliceProvenance' = after
      BY <1>3, <2>3
    <3> HIDE DEF after
    <3> QED
      BY <2>1, <2>3, <3>2, <3>3
  <2> QED
    BY <2>2, <2>3
<1>10. AllTracked'
  <2>1. \A id \in (Params \cup visible)' : Tracked(sliceProvenance', id)
    BY <1>3, <1>9 DEF Scope, f
  <2>2. ASSUME NEW i \in 1..(Depth - 1), IsIf(i)', NEW id \in Scope(i)'
        PROVE  /\ Tracked(frames'[i].entryProvenance, id)
               /\ frames'[i].hasMerged => Tracked(frames'[i].mergedProvenance, id)
    BY <1>1, <1>2, <1>7, <2>2 DEF IInv, AllTracked, Scope, IsIf
  <2> QED
    BY <1>2, <2>1, <2>2 DEF AllTracked, Tracked
<1>11. TrackedIsTrue'
  <2> SUFFICES ASSUME position' = "here", NEW id \in Scope(Depth),
                      sliceProvenance'[id] \in {"External", "Local"}
               PROVE  storage[id] = sliceProvenance'[id]
    BY <1>3 DEF TrackedIsTrue, Exact, Scope, f
  <2>1. CASE position = "here"
    BY <1>7, <1>8, <1>9, <2>1 DEF IInv, TrackedIsTrue, Exact
  <2>2. CASE Waiting("entry", Depth)
    BY <1>7, <1>9, <2>2 DEF IInv, EntryExact, EntryWaitsAtIf, Exact, Waiting, f
  <2>3. CASE Waiting("exit", Depth)
    BY <1>1, <1>7, <1>9, <2>3 DEF IInv, ExitIfExact, Exact, Waiting, f
  <2> QED
    BY <2>1, <2>2, <2>3 DEF ExitIf
<1>12. position' \in {"entry", "exit"} =>
          position' = position /\ waitsAt' = waitsAt /\ waitsAt \in 1..(Depth - 1)
  BY <1>1, <1>5 DEF ExitIf, Resume, Waiting
<1>13. EntryExact'
  BY <1>2, <1>3, <1>7, <1>12 DEF IInv, EntryExact, Exact, Scope
<1>14. ExitIfExact'
  BY <1>2, <1>3, <1>7, <1>12 DEF IInv, ExitIfExact, Exact, Scope, IsIf
<1>15. ExitLoopExact'
  <2> SUFFICES ASSUME position' = "exit", ~IsIf(waitsAt)'
               PROVE  ExitLoopExact'
    BY DEF ExitLoopExact
  <2> DEFINE untouched == Scope(waitsAt) \ touched
  <2>1. position = "exit" /\ waitsAt' = waitsAt /\ waitsAt \in 1..(Depth - 1)
    BY <1>12
  <2>2. /\ Exact(sliceProvenance, untouched)
        /\ \A j \in (waitsAt + 1)..Depth :
              /\ Exact(frames[j].entryProvenance, untouched)
              /\ frames[j].hasMerged => Exact(frames[j].mergedProvenance, untouched)
    BY <1>2, <1>7, <2>1 DEF IInv, ExitLoopExact, IsIf
  <2>3. (Scope(waitsAt) \ touched)' = untouched
    BY <1>2, <1>3, <2>1 DEF Scope
  <2>4. untouched \subseteq Scope(Depth)
    BY <1>1, <2>1 DEF IInv, Nesting, Scope
  <2>5. \A j \in (waitsAt + 1)..(Depth - 1) : j \in 1..(Depth - 1) /\ j \in (waitsAt + 1)..Depth
    BY <1>1, <2>1
  <2> HIDE DEF untouched
  <2>6. \A id \in untouched : sliceProvenance'[id] \in {"External", "Local"}
                                  => storage[id] = sliceProvenance'[id]
    BY <1>9, <2>2, <2>4 DEF Exact
  <2>7. \A j \in (waitsAt + 1)..(Depth - 1) :
           /\ Exact(frames'[j].entryProvenance, untouched)
           /\ frames'[j].hasMerged => Exact(frames'[j].mergedProvenance, untouched)
    BY <1>2, <2>2, <2>5
  <2> QED
    BY <1>2, <1>3, <2>1, <2>3, <2>6, <2>7 DEF ExitLoopExact, Exact
<1>16. NoDanglingReturn'
  BY <1>3, <1>7 DEF IInv, NoDanglingReturn, ExitIf, Resume
<1> QED
  BY <1>10, <1>11, <1>13, <1>14, <1>15, <1>16

\* Where loops do not nest, no loop is open when one is entered.
LEMMA EnterLoopStep ==
    ASSUME TypeInv, IInv, ~NestedLoops, NEW isRange \in BOOLEAN, EnterLoop(isRange)
    PROVE  IInv'
<1> USE DEF TypeInv, PathTypeOK, TypeOK
<1>1. /\ Depth' = Depth + 1
      /\ Depth \in Nat /\ Depth = Len(frames)
      /\ \A i \in 1..Depth : frames'[i] = frames[i]
      /\ frames'[Depth + 1].kind = "loop"
      /\ frames'[Depth + 1].visible = visible
  <2>1. Push("loop", NoSnapshot) /\ "loop" \in {"if", "loop"}
    BY DEF EnterLoop, checkLoopStmtEnter
  <2>2. NoSnapshot \in Maps
    BY DEF NoSnapshot, Maps, Untracked
  <2>3. frames'[Depth + 1] = [kind |-> "loop", entryProvenance |-> NoSnapshot,
                              mergedProvenance |-> NoSnapshot,
                              hasMerged |-> FALSE, visible |-> visible]
    BY <2>1, <2>2, PushFacts
  <2>4. /\ Len(frames') = Depth + 1
        /\ \A i \in 1..Depth : frames'[i] = frames[i]
    BY <2>1, <2>2, PushFacts
  <2> QED
    BY <2>3, <2>4 DEF Depth
<1>2. \A i \in 1..Depth : IsIf(i)
  <2>1. ~InLoop
    BY DEF EnterLoop, checkLoopStmtEnter
  <2>2. \A i \in 1..Depth : frames[i] \in Frames
    BY <1>1
  <2> QED
    BY <2>1, <2>2 DEF InLoop, IsIf, Frames
<1>3. /\ \A i \in 1..Depth : assigned'[i] = assigned[i]
      /\ assigned'[Depth + 1] = {}
      /\ touchTracking' = TRUE /\ touched' = {}
      /\ UNCHANGED <<sliceProvenance, visible, storage, result>>
      /\ ~rejected' => ~rejected
  BY DEF EnterLoop, checkLoopStmtEnter, Depth
<1>4. \A i \in 1..(Depth + 1) : i \in 1..Depth \/ i = Depth + 1
  BY <1>1
<1>5. Nesting'
  <2>1. Nesting
    BY DEF IInv
  <2>2. \A i \in 1..Depth' : frames'[i].visible \subseteq visible'
    <3> TAKE i \in 1..Depth'
    <3>1. i \in 1..Depth \/ i = Depth + 1
      BY <1>1, <1>4
    <3> QED
      BY <1>1, <1>3, <2>1, <3>1 DEF Nesting
  <2>3. \A i, j \in 1..Depth' : i < j => frames'[i].visible \subseteq frames'[j].visible
    <3> TAKE i, j \in 1..Depth'
    <3> HAVE i < j
    <3>1. i \in 1..Depth
      BY <1>1
    <3>2. CASE j \in 1..Depth
      BY <1>1, <2>1, <3>1, <3>2 DEF Nesting
    <3>3. CASE j = Depth + 1
      BY <1>1, <2>1, <3>1, <3>3 DEF Nesting
    <3> QED
      BY <1>1, <1>4, <3>2, <3>3
  <2>4. \A i \in 1..Depth' : frames'[i].kind = "else" => frames'[i].hasMerged
    <3> TAKE i \in 1..Depth'
    <3>1. i \in 1..Depth \/ i = Depth + 1
      BY <1>1, <1>4
    <3> QED
      BY <1>1, <2>1, <3>1 DEF Nesting
  <2>5. \A i \in 1..Depth' : ~IsIf(i)' => i = Depth + 1
    <3> TAKE i \in 1..Depth'
    <3>1. i \in 1..Depth \/ i = Depth + 1
      BY <1>1, <1>4
    <3> QED
      BY <1>1, <1>2, <3>1 DEF IsIf
  <2> QED
    BY <1>1, <1>3, <2>2, <2>3, <2>4, <2>5 DEF Nesting
<1> SUFFICES ASSUME ~rejected'
             PROVE  AllTracked' /\ TrackedIsTrue' /\ EntryExact' /\ ExitIfExact'
                    /\ ExitLoopExact' /\ NoDanglingReturn'
  BY <1>5 DEF IInv
<1>6. ~rejected
  BY <1>3
<1>7. AllTracked'
  <2>1. ASSUME NEW i \in 1..Depth', IsIf(i)', NEW id \in Scope(i)'
        PROVE  /\ Tracked(frames'[i].entryProvenance, id)
               /\ frames'[i].hasMerged => Tracked(frames'[i].mergedProvenance, id)
    <3>1. i \in 1..Depth
      BY <1>1, <1>4, <2>1 DEF IsIf
    <3> QED
      BY <1>1, <1>2, <1>6, <2>1, <3>1 DEF IInv, AllTracked, Scope
  <2> QED
    BY <1>3, <1>6, <2>1 DEF IInv, AllTracked, Tracked
<1>8. TrackedIsTrue'
  BY DEF EnterLoop, TrackedIsTrue
<1>9. /\ position' = "entry" => position = "entry" /\ waitsAt' = waitsAt /\ waitsAt \in 1..Depth
      /\ position' = "exit" =>
            \/ position = "here" /\ waitsAt' = Depth + 1
            \/ position = "exit" /\ waitsAt' = waitsAt /\ waitsAt \in 1..Depth
  BY DEF EnterLoop
<1>10. EntryExact'
  BY <1>1, <1>3, <1>6, <1>9 DEF IInv, EntryExact, Exact, Scope
<1>11. ExitIfExact'
  <2> SUFFICES ASSUME position' = "exit", IsIf(waitsAt)'
               PROVE  ExitIfExact'
    BY DEF ExitIfExact
  <2>1. position = "exit" /\ waitsAt' = waitsAt /\ waitsAt \in 1..Depth
    BY <1>1, <1>9 DEF IsIf
  <2> QED
    BY <1>1, <1>2, <1>3, <1>6, <2>1 DEF IInv, ExitIfExact, Exact, Scope
<1>12. ExitLoopExact'
  <2> SUFFICES ASSUME position' = "exit", ~IsIf(waitsAt)'
               PROVE  ExitLoopExact'
    BY DEF ExitLoopExact
  <2>1. position = "here" /\ waitsAt' = Depth + 1
    BY <1>1, <1>2, <1>9 DEF IsIf
  <2>2. Exact(sliceProvenance, Params \cup visible)
    BY <1>6, <2>1 DEF IInv, TrackedIsTrue
  <2>3. (Scope(waitsAt) \ touched)' = Params \cup visible
    BY <1>1, <1>3, <2>1 DEF Scope
  <2>4. (waitsAt' + 1)..Depth' = {}
    BY <1>1, <2>1
  <2> QED
    BY <1>3, <2>2, <2>3, <2>4 DEF ExitLoopExact, Exact
<1>13. NoDanglingReturn'
  BY <1>3, <1>6 DEF IInv, NoDanglingReturn, EnterLoop
<1> QED
  BY <1>7, <1>8, <1>10, <1>11, <1>12, <1>13

LEMMA ExitLoopStep ==
    ASSUME TypeInv, IInv, ExitLoop
    PROVE  IInv'
<1> USE DEF TypeInv, PathTypeOK, TypeOK
<1>1. /\ Depth \in Nat /\ Depth > 0 /\ Depth = Len(frames)
      /\ Depth \in 1..Depth
      /\ frames[Depth].kind = "loop" /\ ~IsIf(Depth)
      /\ frames[Depth] \in Frames
  BY DEF ExitLoop, checkLoopStmtExit, Depth, Innermost, IsIf
<1>2. /\ Depth' = Depth - 1
      /\ \A i \in 1..(Depth - 1) : frames'[i] = frames[i]
  BY <1>1, PopFacts DEF ExitLoop, checkLoopStmtExit, Depth
<1>3. /\ visible' = frames[Depth].visible
      /\ UNCHANGED <<rejected, result>>
      /\ \A id \in Symbols : sliceProvenance'[id] =
                                IF id \in touched THEN "Unknown" ELSE sliceProvenance[id]
  BY <1>1 DEF ExitLoop, checkLoopStmtExit, Innermost
<1>4. \A i \in 1..(Depth - 1) : i \in 1..Depth /\ i < Depth /\ IsIf(i)
  BY <1>1 DEF IInv, Nesting
<1>5. Nesting'
  <2>1. \A i \in 1..(Depth - 1) : IsIf(i)'
    BY <1>2, <1>4 DEF IsIf
  <2> QED
    BY <1>1, <1>2, <1>3, <1>4, <2>1 DEF IInv, Nesting
<1> SUFFICES ASSUME ~rejected'
             PROVE  AllTracked' /\ TrackedIsTrue' /\ EntryExact' /\ ExitIfExact'
                    /\ ExitLoopExact' /\ NoDanglingReturn'
  BY <1>5 DEF IInv
<1>6. ~rejected
  BY <1>3
<1>7. Scope(Depth) \subseteq Symbols /\ Scope(Depth) \subseteq Params \cup visible
  BY <1>1 DEF IInv, Nesting, Scope, Frames, Symbols
<1>8. AllTracked'
  <2>1. \A id \in (Params \cup visible)' : Tracked(sliceProvenance', id)
    BY <1>3, <1>6, <1>7 DEF IInv, AllTracked, Tracked, Scope, Untracked
  <2>2. ASSUME NEW i \in 1..(Depth - 1), NEW id \in Scope(i)'
        PROVE  /\ Tracked(frames'[i].entryProvenance, id)
               /\ frames'[i].hasMerged => Tracked(frames'[i].mergedProvenance, id)
    BY <1>2, <1>4, <1>6, <2>2 DEF IInv, AllTracked, Scope
  <2> QED
    BY <1>2, <2>1, <2>2 DEF AllTracked, Tracked
<1>9. TrackedIsTrue'
  <2> SUFFICES ASSUME position' = "here", NEW id \in Scope(Depth),
                      sliceProvenance'[id] \in {"External", "Local"}
               PROVE  storage'[id] = sliceProvenance'[id]
    BY <1>3 DEF TrackedIsTrue, Exact, Scope
  <2>1. id \notin touched /\ sliceProvenance'[id] = sliceProvenance[id] /\ id \in Symbols
    BY <1>3, <1>7
  <2>2. CASE Waiting("exit", Depth)
    <3>1. assigned[Depth] \subseteq touched
      BY <1>1 DEF IInv, Nesting
    <3>2. storage'[id] = storage[id]
      BY <2>1, <2>2, <3>1 DEF ExitLoop
    <3>3. Exact(sliceProvenance, Scope(Depth) \ touched)
      BY <1>1, <1>6, <2>2 DEF IInv, ExitLoopExact, Waiting
    <3> QED
      BY <2>1, <3>2, <3>3 DEF Exact
  <2>3. CASE ~Waiting("exit", Depth)
    <3>1. position = "here" /\ storage' = storage
      BY <2>3 DEF ExitLoop
    <3> QED
      BY <1>6, <1>7, <2>1, <3>1 DEF IInv, TrackedIsTrue, Exact
  <2> QED
    BY <2>2, <2>3
<1>10. position' \in {"entry", "exit"} =>
          /\ position' = position /\ waitsAt' = waitsAt /\ waitsAt \in 1..(Depth - 1)
          /\ storage' = storage
  <2>1. position = "entry" => waitsAt # Depth
    BY <1>1 DEF EntryWaitsAtIf
  <2>2. \A i \in 1..Depth : i \in 1..(Depth - 1) \/ i = Depth
    BY <1>1
  <2> QED
    BY <2>1, <2>2 DEF ExitLoop, Resume, Waiting
<1>11. EntryExact'
  BY <1>2, <1>3, <1>6, <1>10 DEF IInv, EntryExact, Exact, Scope
<1>12. ExitIfExact'
  BY <1>2, <1>3, <1>6, <1>10 DEF IInv, ExitIfExact, Exact, Scope, IsIf
<1>13. ExitLoopExact'
  BY <1>2, <1>4, <1>10 DEF ExitLoopExact, IsIf
<1>14. NoDanglingReturn'
  BY <1>3, <1>6 DEF IInv, NoDanglingReturn, ExitLoop, Resume
<1> QED
  BY <1>8, <1>9, <1>11, <1>12, <1>13, <1>14

\* A return the checker lets pass hands out an External slice.
LEMMA ReturnStep ==
    ASSUME TypeInv, IInv, NEW src \in Sources, Return(src)
    PROVE  IInv'
<1>1. /\ UNCHANGED <<sliceProvenance, touchTracking, touched, visible, frames, waitsAt, assigned>>
      /\ ~rejected' => ~rejected /\ sliceProvenanceOf(src) = "External"
  BY DEF Return, checkReturnStmt
<1>2. Nesting'
  BY <1>1 DEF IInv, Nesting, IsIf, Depth
<1> SUFFICES ASSUME ~rejected'
             PROVE  AllTracked' /\ TrackedIsTrue' /\ EntryExact' /\ ExitIfExact'
                    /\ ExitLoopExact' /\ NoDanglingReturn'
  BY <1>2 DEF IInv
<1>3. AllTracked'
  BY <1>1 DEF IInv, AllTracked, Scope, IsIf, Depth, Tracked
<1>4. CASE position = "here"
  <2>1. position' = "returned" /\ result' \in OriginsOf(src)
    BY <1>4 DEF Return
  <2>2. Exact(sliceProvenance, Params \cup visible)
    BY <1>1, <1>4 DEF IInv, TrackedIsTrue
  <2>3. result' = "External"
    BY <1>1, <2>1, <2>2, SourceExact
  <2> QED
    BY <1>3, <2>1, <2>3
    DEF TrackedIsTrue, EntryExact, ExitIfExact, ExitLoopExact, NoDanglingReturn
<1>5. CASE position # "here"
  <2>1. UNCHANGED <<position, result, storage>>
    BY <1>5 DEF Return
  <2>2. TrackedIsTrue' /\ EntryExact' /\ ExitIfExact'
    BY <1>1, <1>5, <2>1 DEF IInv, TrackedIsTrue, EntryExact, ExitIfExact, Exact, Scope, IsIf
  <2>3. ExitLoopExact'
    BY <1>1, <2>1 DEF IInv, ExitLoopExact, Exact, Scope, IsIf, Depth
  <2>4. NoDanglingReturn'
    BY <1>1, <2>1 DEF IInv, NoDanglingReturn
  <2> QED
    BY <1>3, <2>2, <2>3, <2>4
<1> QED
  BY <1>4, <1>5

\* An error leaves only the nesting to keep.
LEMMA ErrorStep ==
    ASSUME TypeInv, IInv, OtherError \/ \E s \in Locals : DeclareInError(s)
    PROVE  IInv'
<1>1. /\ rejected' /\ UNCHANGED <<touchTracking, touched, frames, pathVars>>
      /\ visible \subseteq visible'
  BY DEF OtherError, reportError, DeclareInError, checkVarDeclInError
<1>2. Nesting'
  BY <1>1 DEF IInv, Nesting, IsIf, Depth, pathVars
<1> QED
  BY <1>1, <1>2 DEF IInv

LEMMA InvStep ==
    ASSUME ~NestedLoops
    PROVE  TypeInv /\ IInv /\ [PathNext]_vars => IInv'
<1> SUFFICES ASSUME TypeInv, IInv, [PathNext]_vars
             PROVE  IInv'
  OBVIOUS
<1>1. ASSUME NEW s \in Locals, NEW src \in Sources, Declare(s, src)
      PROVE  IInv'
  BY <1>1, StoreStep DEF Declare, checkVarDecl
<1>2. ASSUME NEW s \in Locals, NEW src \in Sources, Assign(s, src)
      PROVE  IInv'
  <2>1. visible' = visible \cup {s}
    BY <1>2 DEF Assign, checkVariableAssignmentTarget
  <2> QED
    BY <1>2, <2>1, StoreStep DEF Assign, checkVariableAssignmentTarget
<1>3. CASE OtherError \/ \E s \in Locals : DeclareInError(s)
  BY <1>3, ErrorStep
<1>4. ASSUME NEW src \in Sources, Return(src)
      PROVE  IInv'
  BY <1>4, ReturnStep
<1>5. CASE EnterIf
  BY <1>5, EnterIfStep
<1>6. ASSUME NEW kind \in {"if", "else"}, NextBranch(kind)
      PROVE  IInv'
  BY <1>6, NextBranchStep
<1>7. CASE ExitIf
  BY <1>7, ExitIfStep
<1>8. ASSUME NEW isRange \in BOOLEAN, EnterLoop(isRange)
      PROVE  IInv'
  BY <1>8, EnterLoopStep
<1>9. CASE ExitLoop
  BY <1>9, ExitLoopStep
<1>10. CASE UNCHANGED vars
  BY <1>10 DEF vars, checkerVars, pathVars, IInv, Nesting, AllTracked, TrackedIsTrue, EntryExact,
     ExitIfExact, ExitLoopExact, NoDanglingReturn, Exact, Scope, IsIf, Depth, Tracked
<1> QED
  BY <1>1, <1>2, <1>3, <1>4, <1>5, <1>6, <1>7, <1>8, <1>9, <1>10 DEF PathNext

----------------------------------------------------------------------------
(* The theorems *)

\* Where loops do not nest, whatever the length of the body, its branching and
\* the number of slices in scope: an accepted function never returns a slice of
\* its own frame.
THEOREM ReturnSafety ==
    ASSUME ~NestedLoops
    PROVE  PathSpec => []NoDanglingReturn
<1>1. TypeInv /\ IInv => NoDanglingReturn
  BY DEF IInv, NoDanglingReturn
<1> QED
  BY <1>1, TypeInit, TypeStep, InvInit, InvStep, PTL DEF PathSpec

\* Under the same condition, the live map is right about every binding in scope
\* wherever the execution stands, as External and as Local.
THEOREM ProvenanceExact ==
    ASSUME ~NestedLoops
    PROVE  PathSpec => []TrackedIsTrue
<1>1. TypeInv /\ IInv => TrackedIsTrue
  BY DEF IInv, TrackedIsTrue
<1> QED
  BY <1>1, TypeInit, TypeStep, InvInit, InvStep, PTL DEF PathSpec

\* And a loop exit leaves every binding its body assigned Unknown.
THEOREM LoopExitForgets ==
    ASSUME ~NestedLoops
    PROVE  PathSpec => LoopExitForgetsAssigned
<1> DEFINE Forgets == ExitLoop => \A id \in assigned[Depth] : sliceProvenance'[id] = "Unknown"
<1>1. TypeInv /\ IInv /\ [PathNext]_vars => [Forgets]_vars
  <2> SUFFICES ASSUME TypeInv, IInv, ExitLoop, NEW id \in assigned[Depth]
               PROVE  sliceProvenance'[id] = "Unknown"
    OBVIOUS
  <2>1. Depth \in 1..Depth /\ ~IsIf(Depth) /\ Depth = Len(assigned)
    BY DEF TypeInv, PathTypeOK, TypeOK, ExitLoop, checkLoopStmtExit, Innermost, IsIf, Depth
  <2>2. id \in touched /\ id \in Symbols
    BY <2>1 DEF IInv, Nesting, TypeInv, PathTypeOK, TypeOK
  <2> QED
    BY <2>2 DEF ExitLoop, checkLoopStmtExit
<1> QED
  BY <1>1, TypeInit, TypeStep, InvInit, InvStep, PTL DEF PathSpec, LoopExitForgetsAssigned
=============================================================================
