--------------------------- MODULE SliceProvenance ---------------------------
(****************************************************************************)
(* The flow-sensitive provenance pass of TypeChecker over ONE function body *)
(* whose declared return type is a Slice.  TypeChecker visits every         *)
(* statement exactly once, in source order, and keeps in SemanticModel a    *)
(* single live map SymbolId -> SliceProvenance together with one "touched"  *)
(* set that a loop body fills.                                              *)
(*                                                                          *)
(* The program being checked is not a constant: at every point the          *)
(* environment chooses the next statement, so a behaviour is the checker's  *)
(* walk over one arbitrary, arbitrarily long, well-nested body.  A dead     *)
(* symbol may be declared again; that stands for a fresh SymbolId, so       *)
(* Locals bounds how many slice locals are in scope at once, not how many a *)
(* function declares.                                                       *)
(****************************************************************************)
EXTENDS Naturals, Sequences

CONSTANTS
    Params,         \* the Slice-typed parameters of the function
    Locals,         \* the symbols available to its Slice-typed locals
    Mutable,        \* the locals among them declared with mut
    SliceCall,      \* the expression slice(array): a view of this frame's storage
    OtherCall,      \* a call of a user function that returns a Slice
    MaxDepth,       \* bound: how deep if, while and for may be nested
    MaxDeclDepth,   \* bound: how deep a declaration may stand
    NestedLoops,    \* fragment: may a loop stand inside a loop?
    ReturnInLoop    \* fragment: may a return stand inside a loop?

ASSUME SymbolsAssumption ==
    /\ Params \cap Locals = {}
    /\ Mutable \subseteq Locals
    /\ SliceCall # OtherCall
    /\ {SliceCall, OtherCall} \cap (Params \cup Locals) = {}

ASSUME BoundsAssumption ==
    /\ MaxDepth \in Nat
    /\ MaxDeclDepth \in Nat
    /\ NestedLoops \in BOOLEAN
    /\ ReturnInLoop \in BOOLEAN

Symbols == Params \cup Locals

Provenance == {"External", "Local", "Unknown"}

\* A symbol without an entry in SemanticModel::sliceProvenance_.
Untracked == "Untracked"

Maps == [Symbols -> Provenance \cup {Untracked}]

VARIABLES
    sliceProvenance,  \* SemanticModel::sliceProvenance_
    touchTracking,    \* SemanticModel::sliceProvenanceTouchTracking_
    touched,          \* SemanticModel::sliceProvenanceTouched_
    visible,          \* the locals in scope here
    frames,           \* the check*Stmt calls in progress, outermost first
    rejected          \* SemanticModel::hasErrors()

checkerVars ==
    <<sliceProvenance, touchTracking, touched, visible, frames, rejected>>

\* The locals of one checkIfStmt or loop call.  "if": the last branch opened is
\* one with a condition; "else": the else clause is open; "loop": a while or for.
Frames ==
    [kind : {"if", "else", "loop"},
     entryProvenance : Maps,
     mergedProvenance : Maps,
     hasMerged : BOOLEAN,
     visible : SUBSET Locals]

----------------------------------------------------------------------------
(* SemanticModel's accessors *)

Tracked(map, id) == map[id] # Untracked

\* SemanticModel::sliceProvenanceOf: no entry reads as Unknown.
TrackedOrUnknown(id) ==
    IF Tracked(sliceProvenance, id) THEN sliceProvenance[id] ELSE "Unknown"

\* Fault: a touch is recorded outside loops as well.
setAlwaysTouches(id, p) ==
    /\ sliceProvenance' = [sliceProvenance EXCEPT ![id] = p]
    /\ touched' = touched \cup {id}

\* Fault: an assignment that leaves the provenance as it was is no touch.
setTouchesOnChange(id, p) ==
    /\ sliceProvenance' = [sliceProvenance EXCEPT ![id] = p]
    /\ touched' = IF touchTracking /\ p # sliceProvenance[id] THEN touched \cup {id} ELSE touched

\* SemanticModel::setSliceProvenance
setSliceProvenance(id, p) ==
    /\ sliceProvenance' = [sliceProvenance EXCEPT ![id] = p]
    /\ touched' = IF touchTracking THEN touched \cup {id} ELSE touched

----------------------------------------------------------------------------
(* TypeChecker's helpers *)

\* The expressions of Slice type a statement can use here.
Sources == Params \cup visible \cup {SliceCall, OtherCall}

\* TypeChecker::sliceProvenanceOf, by the shape of the expression.
sliceProvenanceOf(src) ==
    CASE src \in Symbols  -> TrackedOrUnknown(src)
      [] src = SliceCall  -> "Local"
      [] OTHER            -> "Unknown"

\* Fault: the first branch decides.
mergeKeepsFirst(a, b) == a

mergeSliceProvenance(a, b) == IF a = b THEN a ELSE "Unknown"

\* Fault: the last branch decides.
mergeTakesLast(f, branchResult) == branchResult

\* The lambda mergeInBranchResult of checkIfStmt: the first branch result is
\* taken whole, a later one is folded in over the symbols tracked at the fork.
mergeInBranchResult(f, branchResult) ==
    LET OrEntry(map, id) == IF Tracked(map, id) THEN map[id] ELSE f.entryProvenance[id]
    IN  IF ~f.hasMerged
        THEN branchResult
        ELSE [id \in Symbols |->
                 IF Tracked(f.entryProvenance, id)
                 THEN mergeSliceProvenance(OrEntry(f.mergedProvenance, id),
                                           OrEntry(branchResult, id))
                 ELSE f.mergedProvenance[id]]

Depth == Len(frames)

Innermost == frames[Depth]

InLoop == \E i \in 1..Depth : frames[i].kind = "loop"

\* A snapshot a frame does not hold.
NoSnapshot == [id \in Symbols |-> Untracked]

Push(kind, snapshot) ==
    frames' = Append(frames, [kind |-> kind,
                              entryProvenance |-> snapshot,
                              mergedProvenance |-> NoSnapshot,
                              hasMerged |-> FALSE,
                              visible |-> visible])

Pop == frames' = SubSeq(frames, 1, Depth - 1)

----------------------------------------------------------------------------
(* Function entry and the statements that read or write the map *)

\* checkFunctionBody seeds every Slice parameter External.
Init ==
    /\ sliceProvenance = [id \in Symbols |-> IF id \in Params THEN "External" ELSE Untracked]
    /\ touchTracking = FALSE
    /\ touched = {}
    /\ visible = {}
    /\ frames = <<>>
    /\ rejected = FALSE

\* let s = src or mut s = src, with or without an annotation
checkVarDecl(s, src) ==
    /\ Depth <= MaxDeclDepth
    /\ s \in Locals \ visible
    /\ setSliceProvenance(s, sliceProvenanceOf(src))
    /\ visible' = visible \cup {s}
    /\ UNCHANGED <<touchTracking, frames, rejected>>

\* A declaration whose initializer is in error: the symbol exists, untracked.
checkVarDeclInError(s) ==
    /\ Depth <= MaxDeclDepth
    /\ s \in Locals \ visible
    /\ sliceProvenance' = [sliceProvenance EXCEPT ![s] = Untracked]
    /\ visible' = visible \cup {s}
    /\ rejected' = TRUE
    /\ UNCHANGED <<touchTracking, touched, frames>>

\* s = src on a mutable binding
checkVariableAssignmentTarget(s, src) ==
    /\ s \in visible \cap Mutable
    /\ setSliceProvenance(s, sliceProvenanceOf(src))
    /\ UNCHANGED <<touchTracking, visible, frames, rejected>>

\* Assignment to a let binding or to a parameter, a mismatched right-hand side,
\* a condition that is not Bool: an error is recorded and the map is left alone.
reportError ==
    /\ ~rejected
    /\ rejected' = TRUE
    /\ UNCHANGED <<sliceProvenance, touchTracking, touched, visible, frames>>

\* return src: only External may leave the function.
checkReturnStmt(src) ==
    /\ ReturnInLoop \/ ~InLoop
    /\ rejected' = (rejected \/ sliceProvenanceOf(src) # "External")
    /\ UNCHANGED <<sliceProvenance, touchTracking, touched, visible, frames>>

----------------------------------------------------------------------------
(* checkIfStmt: fork, one branch at a time, merge *)

checkIfStmtEnter ==
    /\ Depth < MaxDepth
    /\ Push("if", sliceProvenance)
    /\ UNCHANGED <<sliceProvenance, touchTracking, touched, visible, rejected>>

\* The end of one branch and the start of the next: "if" opens an else-if
\* branch, "else" the else clause.  Both start from the fork's snapshot.
checkIfStmtNextBranch(kind) ==
    /\ Depth > 0
    /\ Innermost.kind = "if"
    /\ frames' = [frames EXCEPT ![Depth] =
                     [@ EXCEPT !.kind = kind,
                               !.mergedProvenance = mergeInBranchResult(Innermost, sliceProvenance),
                               !.hasMerged = TRUE]]
    /\ sliceProvenance' = Innermost.entryProvenance
    /\ visible' = Innermost.visible
    /\ UNCHANGED <<touchTracking, touched, rejected>>

\* Fault: the last branch's scope stays open.
ifExitKeepsScope ==
    /\ Depth > 0
    /\ Innermost.kind \in {"if", "else"}
    /\ LET merged == mergeInBranchResult(Innermost, sliceProvenance)
           closed == [Innermost EXCEPT !.mergedProvenance = merged, !.hasMerged = TRUE]
       IN  sliceProvenance' = IF Innermost.kind = "else"
                              THEN merged
                              ELSE mergeInBranchResult(closed, Innermost.entryProvenance)
    /\ Pop
    /\ UNCHANGED <<touchTracking, touched, visible, rejected>>

\* The end of the last branch.  Without an else the fork's own snapshot is one
\* more outcome.
checkIfStmtExit ==
    /\ Depth > 0
    /\ Innermost.kind \in {"if", "else"}
    /\ LET merged == mergeInBranchResult(Innermost, sliceProvenance)
           closed == [Innermost EXCEPT !.mergedProvenance = merged, !.hasMerged = TRUE]
       IN  sliceProvenance' = IF Innermost.kind = "else"
                              THEN merged
                              ELSE mergeInBranchResult(closed, Innermost.entryProvenance)
    /\ visible' = Innermost.visible
    /\ Pop
    /\ UNCHANGED <<touchTracking, touched, rejected>>

----------------------------------------------------------------------------
(* checkWhileStmt and checkForStmt: the body is visited once *)

\* isRange is FALSE for a for whose iterable is not a literal range.
checkLoopStmtEnter(isRange) ==
    /\ Depth < MaxDepth
    /\ NestedLoops \/ ~InLoop
    /\ Push("loop", NoSnapshot)
    /\ touchTracking' = TRUE
    /\ touched' = {}
    /\ rejected' = (rejected \/ ~isRange)
    /\ UNCHANGED <<sliceProvenance, visible>>

\* Fault: the touched symbols keep what the one visit of the body left.
loopExitTrustsBody ==
    /\ Depth > 0
    /\ Innermost.kind = "loop"
    /\ touchTracking' = FALSE
    /\ touched' = {}
    /\ visible' = Innermost.visible
    /\ Pop
    /\ UNCHANGED <<sliceProvenance, rejected>>

\* endSliceProvenanceTouchTracking turns tracking off and moves the set out;
\* every touched symbol then becomes Unknown.
checkLoopStmtExit ==
    /\ Depth > 0
    /\ Innermost.kind = "loop"
    /\ touchTracking' = FALSE
    /\ touched' = {}
    /\ sliceProvenance' = [id \in Symbols |->
                              IF id \in touched THEN "Unknown" ELSE sliceProvenance[id]]
    /\ visible' = Innermost.visible
    /\ Pop
    /\ UNCHANGED rejected

----------------------------------------------------------------------------

Next ==
    \/ \E s \in Locals, src \in Sources : checkVarDecl(s, src)
    \/ \E s \in Locals : checkVarDeclInError(s)
    \/ \E s \in Locals, src \in Sources : checkVariableAssignmentTarget(s, src)
    \/ reportError
    \/ \E src \in Sources : checkReturnStmt(src)
    \/ checkIfStmtEnter
    \/ \E kind \in {"if", "else"} : checkIfStmtNextBranch(kind)
    \/ checkIfStmtExit
    \/ \E isRange \in BOOLEAN : checkLoopStmtEnter(isRange)
    \/ checkLoopStmtExit

Spec == Init /\ [][Next]_checkerVars

\* Types: the live map, every snapshot and the touched set range over the
\* function's own symbols, and a symbol is recorded as touched only while some
\* loop body is being visited.
TypeOK ==
    /\ sliceProvenance \in Maps
    /\ touchTracking \in BOOLEAN
    /\ touched \subseteq Symbols
    /\ touched # {} => touchTracking
    /\ visible \subseteq Locals
    /\ frames \in Seq(Frames)
    /\ rejected \in BOOLEAN
=============================================================================
