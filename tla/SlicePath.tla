------------------------------ MODULE SlicePath ------------------------------
(****************************************************************************)
(* The checker's walk of SliceProvenance, together with ONE execution of    *)
(* the function being checked, as the generated code runs it.  While the    *)
(* walk is at a statement the execution reaches, the execution performs it; *)
(* while the walk is in a branch or a loop the execution does not take, the *)
(* execution waits at that statement's entry or exit.  An if/else takes     *)
(* exactly one of its branches (or none, without else).  A loop is run any  *)
(* number of times, which is over-approximated: every binding the body      *)
(* assigns anywhere ends with an arbitrary origin, the others with theirs.  *)
(* SliceRun executes the loops themselves.                                  *)
(****************************************************************************)
EXTENDS SliceProvenance

\* A return inside a loop ends the execution in the middle of an iteration,
\* which the over-approximation of a loop does not represent.
ASSUME FragmentAssumption == ~ReturnInLoop

\* Where the elements a slice value points to are stored: in this invocation's
\* frame (every alloca is in the entry block, so a frame slot lives exactly as
\* long as the invocation) or outside it.
Origins == {"External", "Local"}

\* The slot of a local before its declaration has run.
Unset == "Unset"

VARIABLES
    storage,    \* the origin of the slice value in each binding's slot
    position,   \* "here": at the walk's statement; "entry", "exit": waiting; "returned"
    waitsAt,    \* while waiting, the index of the open statement it waits at
    assigned,   \* for each open statement, the locals stored to since it was opened
    result      \* the origin of the returned slice

pathVars == <<storage, position, waitsAt, assigned, result>>

vars == <<checkerVars, pathVars>>

Waiting(place, k) == position = place /\ waitsAt = k

\* What the expression src can evaluate to.  A callee returns one of the slices
\* the caller passed, so a call may yield a view of the caller's own frame.
OriginsOf(src) ==
    CASE src \in Symbols  -> {storage[src]}
      [] src = SliceCall  -> {"Local"}
      [] OTHER            -> Origins

PathInit ==
    /\ Init
    /\ storage = [id \in Symbols |-> IF id \in Params THEN "External" ELSE Unset]
    /\ position = "here"
    /\ waitsAt = 0
    /\ assigned = <<>>
    /\ result = Unset

----------------------------------------------------------------------------
(* Stores and returns *)

\* Lowered stores: the slot of s receives the value of src.
Store(s, src) ==
    /\ IF position = "here"
       THEN \E o \in OriginsOf(src) : storage' = [storage EXCEPT ![s] = o]
       ELSE UNCHANGED storage
    /\ assigned' = [i \in 1..Depth |-> assigned[i] \cup {s}]
    /\ UNCHANGED <<position, waitsAt, result>>

Declare(s, src) == checkVarDecl(s, src) /\ Store(s, src)

Assign(s, src) == checkVariableAssignmentTarget(s, src) /\ Store(s, src)

\* A rejected program is never run: the execution is not continued.
DeclareInError(s) == checkVarDeclInError(s) /\ UNCHANGED pathVars

OtherError == reportError /\ UNCHANGED pathVars

\* The value is copied out and the frame is gone.
Return(src) ==
    /\ checkReturnStmt(src)
    /\ IF position = "here"
       THEN /\ position' = "returned"
            /\ result' \in OriginsOf(src)
            /\ storage' = [id \in Symbols |-> Unset]
       ELSE UNCHANGED <<position, result, storage>>
    /\ UNCHANGED <<waitsAt, assigned>>

----------------------------------------------------------------------------
(* Branches *)

Resume == position' = "here" /\ waitsAt' = 0

\* The execution evaluates the condition: it enters the branch or passes it by.
TakeOrPass(k) ==
    \/ Resume
    \/ position' = "entry" /\ waitsAt' = k

EnterIf ==
    /\ checkIfStmtEnter
    /\ IF position = "here" THEN TakeOrPass(Depth + 1) ELSE UNCHANGED <<position, waitsAt>>
    /\ assigned' = Append(assigned, {})
    /\ UNCHANGED <<storage, result>>

\* A branch that fell through is done with the statement; the else clause takes
\* whatever reaches it.
NextBranch(kind) ==
    /\ checkIfStmtNextBranch(kind)
    /\ CASE position = "here" ->
              position' = "exit" /\ waitsAt' = Depth
         [] Waiting("entry", Depth) /\ kind = "if" ->
              TakeOrPass(Depth)
         [] Waiting("entry", Depth) /\ kind = "else" ->
              Resume
         [] OTHER ->
              UNCHANGED <<position, waitsAt>>
    /\ UNCHANGED <<storage, assigned, result>>

ExitIf ==
    /\ checkIfStmtExit
    /\ IF Waiting("entry", Depth) \/ Waiting("exit", Depth)
       THEN Resume
       ELSE UNCHANGED <<position, waitsAt>>
    /\ assigned' = SubSeq(assigned, 1, Depth - 1)
    /\ UNCHANGED <<storage, result>>

----------------------------------------------------------------------------
(* Loops *)

EnterLoop(isRange) ==
    /\ checkLoopStmtEnter(isRange)
    /\ IF position = "here"
       THEN position' = "exit" /\ waitsAt' = Depth + 1
       ELSE UNCHANGED <<position, waitsAt>>
    /\ assigned' = Append(assigned, {})
    /\ UNCHANGED <<storage, result>>

\* After zero or more iterations.
ExitLoop ==
    /\ checkLoopStmtExit
    /\ IF Waiting("exit", Depth)
       THEN /\ Resume
            /\ \E after \in [Symbols -> Origins \cup {Unset}] :
                  /\ \A id \in Symbols \ assigned[Depth] : after[id] = storage[id]
                  /\ \A id \in assigned[Depth] : after[id] # Unset
                  /\ storage' = after
       ELSE UNCHANGED <<position, waitsAt, storage>>
    /\ assigned' = SubSeq(assigned, 1, Depth - 1)
    /\ UNCHANGED result

----------------------------------------------------------------------------

PathNext ==
    \/ \E s \in Locals, src \in Sources : Declare(s, src)
    \/ \E s \in Locals : DeclareInError(s)
    \/ \E s \in Locals, src \in Sources : Assign(s, src)
    \/ OtherError
    \/ \E src \in Sources : Return(src)
    \/ EnterIf
    \/ \E kind \in {"if", "else"} : NextBranch(kind)
    \/ ExitIf
    \/ \E isRange \in BOOLEAN : EnterLoop(isRange)
    \/ ExitLoop

PathSpec == PathInit /\ [][PathNext]_vars

----------------------------------------------------------------------------
(* Properties *)

\* Types, and one set of stored-to locals per open statement.
PathTypeOK ==
    /\ TypeOK
    /\ storage \in [Symbols -> Origins \cup {Unset}]
    /\ position \in {"here", "entry", "exit", "returned"}
    /\ waitsAt \in Nat
    /\ position \in {"entry", "exit"} => waitsAt \in 1..Depth
    /\ assigned \in Seq(SUBSET Locals)
    /\ Len(assigned) = Depth
    /\ result \in Origins \cup {Unset}

\* M11A's promise: a function TypeChecker accepts never returns a slice of its
\* own frame, on any path (SemanticModel.hpp: rejection may be conservative,
\* acceptance is never unsound).  Here it is claimed of the bodies in which no
\* loop stands inside a loop and no return inside a loop; SliceRun has the rest.
NoDanglingReturn ==
    position = "returned" /\ ~rejected => result = "External"

\* A definite provenance on the symbols of S is what the storage holds.
Exact(map, S) ==
    \A id \in S : map[id] \in {"External", "Local"} => storage[id] = map[id]

\* Wherever the execution is, what the live map says definitely of a binding in
\* scope is true of the slot, in both directions: External and Local alike.
TrackedIsTrue ==
    position = "here" /\ ~rejected => Exact(sliceProvenance, Params \cup visible)

\* TypeChecker.hpp, checkWhileStmt: EVERY binding assigned ANYWHERE within the
\* loop body is Unknown once the loop exits, whatever it was assigned.
LoopExitForgetsAssigned ==
    [][ExitLoop => \A id \in assigned[Depth] : sliceProvenance'[id] = "Unknown"]_vars

----------------------------------------------------------------------------
(* The inductive invariant behind NoDanglingReturn *)

Scope(k) == Params \cup frames[k].visible

IsIf(k) == frames[k].kind \in {"if", "else"}

\* Scopes nest, an else follows a finished branch, and at most one loop is open,
\* whose touched set covers what its body has stored to.
Nesting ==
    /\ \A i \in 1..Depth : frames[i].visible \subseteq visible
    /\ \A i, j \in 1..Depth : i < j => frames[i].visible \subseteq frames[j].visible
    /\ \A i \in 1..Depth : frames[i].kind = "else" => frames[i].hasMerged
    /\ \A i, j \in 1..Depth : ~IsIf(i) /\ ~IsIf(j) => i = j
    /\ \A i \in 1..Depth : ~IsIf(i) => touchTracking /\ assigned[i] \subseteq touched

\* Whatever is in scope has an entry, in the live map and in every snapshot.
AllTracked ==
    /\ \A id \in Params \cup visible : Tracked(sliceProvenance, id)
    /\ \A i \in 1..Depth : IsIf(i) =>
          \A id \in Scope(i) :
             /\ Tracked(frames[i].entryProvenance, id)
             /\ frames[i].hasMerged => Tracked(frames[i].mergedProvenance, id)

\* An execution waiting at an entry agrees with that statement's fork snapshot.
EntryExact ==
    position = "entry" => Exact(frames[waitsAt].entryProvenance, Scope(waitsAt))

\* One waiting at the exit of an if agrees with the merge so far.
ExitIfExact ==
    position = "exit" /\ IsIf(waitsAt) =>
        /\ frames[waitsAt].hasMerged
        /\ Exact(frames[waitsAt].mergedProvenance, Scope(waitsAt))

\* One waiting at the exit of a loop agrees, on what the body has not touched,
\* with the live map and with every snapshot taken inside the body.
ExitLoopExact ==
    position = "exit" /\ ~IsIf(waitsAt) =>
        LET untouched == Scope(waitsAt) \ touched
        IN  /\ Exact(sliceProvenance, untouched)
            /\ \A j \in (waitsAt + 1)..Depth :
                  /\ Exact(frames[j].entryProvenance, untouched)
                  /\ frames[j].hasMerged => Exact(frames[j].mergedProvenance, untouched)

IInv ==
    /\ Nesting
    /\ ~rejected => /\ AllTracked
                    /\ TrackedIsTrue
                    /\ EntryExact
                    /\ ExitIfExact
                    /\ ExitLoopExact
                    /\ NoDanglingReturn
=============================================================================
