------------------------------- MODULE SliceRun -------------------------------
(****************************************************************************)
(* Compile, then run.  The checker of SliceProvenance walks a body, which   *)
(* is recorded statement by statement; when the walk ends without an error  *)
(* the recorded body is executed, loops included, with every condition left *)
(* to chance.  Unlike SlicePath nothing is over-approximated: an iteration  *)
(* runs the very statements the checker saw.                                *)
(****************************************************************************)
EXTENDS SliceProvenance, FiniteSetsExt

CONSTANT MaxCode    \* bound: the number of statements and delimiters of the body

ASSUME MaxCodeAssumption == MaxCode \in Nat

Origins == {"External", "Local"}

Unset == "Unset"

VARIABLES
    code,       \* the body visited so far, each entry with its nesting level
    phase,      \* "checking", "running", "returned" or "stuck" (not accepted)
    pc,         \* the entry of code to execute next
    storage,    \* the origin of the slice value in each binding's slot
    result,     \* the origin of the returned slice
    noted,      \* history: what the checker holds of an arrival at each entry
    opened      \* history: the entry that opened each open frame

runVars == <<pc, storage, result>>

historyVars == <<noted, opened>>

vars == <<checkerVars, code, phase, runVars, historyVars>>

NoOperand == "-"

ASSUME OperandAssumption == NoOperand \notin Params \cup Locals

Openers == {"if", "loop"}
Middles == {"elseIf", "else"}
Ends == {"endIf", "endLoop"}

Entry(op, target, source, level) ==
    [op |-> op, target |-> target, source |-> source, level |-> level]

RunInit ==
    /\ Init
    /\ code = <<>>
    /\ phase = "checking"
    /\ pc = 1
    /\ storage = [id \in Symbols |-> IF id \in Params THEN "External" ELSE Unset]
    /\ result = Unset
    /\ noted = <<>>
    /\ opened = <<>>

----------------------------------------------------------------------------
(* The walk, recorded *)

\* What the checker holds of the bindings at the point it has reached.
Known == [map |-> sliceProvenance, visible |-> visible]

Weaken(known, ids) ==
    [map |-> [id \in Symbols |-> IF id \in ids THEN "Unknown" ELSE known.map[id]],
     visible |-> known.visible]

\* History only.  Every entry is noted with what is known on arrival: before a
\* statement or an opener or at the end of a branch, and after the merge at the
\* end of an if or a loop.  The end of a loop takes back, all through the loop,
\* what its body stored to.
Note(op) ==
    /\ noted' = CASE op = "endLoop" -> Append([t \in 1..Len(noted) |->
                                                   IF t < opened[Depth] THEN noted[t]
                                                   ELSE Weaken(noted[t], touched)], Known')
                 [] op = "endIf"   -> Append(noted, Known')
                 [] OTHER           -> Append(noted, Known)
    /\ opened' = CASE op \in Openers -> Append(opened, Len(code) + 1)
                  [] op \in Ends    -> SubSeq(opened, 1, Depth - 1)
                  [] OTHER          -> opened

Record(op, target, source, level) ==
    /\ phase = "checking"
    /\ Len(code) < MaxCode
    /\ code' = Append(code, Entry(op, target, source, level))
    /\ Note(op)
    /\ UNCHANGED <<phase, runVars>>

Walk ==
    \/ \E s \in Locals, src \in Sources :
          checkVarDecl(s, src) /\ Record("store", s, src, Depth)
    \/ \E s \in Locals, src \in Sources :
          checkVariableAssignmentTarget(s, src) /\ Record("store", s, src, Depth)
    \/ \E src \in Sources :
          checkReturnStmt(src) /\ Record("return", NoOperand, src, Depth)
    \/ checkIfStmtEnter /\ Record("if", NoOperand, NoOperand, Depth)
    \/ checkIfStmtNextBranch("if") /\ Record("elseIf", NoOperand, NoOperand, Depth - 1)
    \/ checkIfStmtNextBranch("else") /\ Record("else", NoOperand, NoOperand, Depth - 1)
    \/ checkIfStmtExit /\ Record("endIf", NoOperand, NoOperand, Depth - 1)
    \/ checkLoopStmtEnter(TRUE) /\ Record("loop", NoOperand, NoOperand, Depth)
    \/ checkLoopStmtExit /\ Record("endLoop", NoOperand, NoOperand, Depth - 1)

\* CompileCommand goes on to code generation only without errors.  The body
\* must end in a return of its own, which is the simplest shape that
\* ControlFlowAnalyzer accepts.
Accept ==
    /\ phase = "checking"
    /\ Depth = 0
    /\ code # <<>> /\ code[Len(code)].op = "return"
    /\ phase' = IF rejected THEN "stuck" ELSE "running"
    /\ UNCHANGED <<checkerVars, code, runVars, historyVars>>

----------------------------------------------------------------------------
(* The generated function *)

\* The delimiters of the statement opened at entry i, in order of position.
Delimiters(i) ==
    LET end == Min({j \in (i + 1)..Len(code) :
                       code[j].level = code[i].level /\ code[j].op \in {"endIf", "endLoop"}})
    IN  {j \in (i + 1)..end : code[j].level = code[i].level}

EndOf(i) == Max(Delimiters(i))

\* Where control goes from the conditions of an if chain opened at i.
Arms(i) ==
    LET delimiters == Delimiters(i)
        elses == {j \in delimiters : code[j].op = "else"}
    IN  {i + 1} \cup {j + 1 : j \in {k \in delimiters : code[k].op = "elseIf"}}
                \cup (IF elses = {} THEN {EndOf(i)} ELSE {j + 1 : j \in elses})

\* The innermost opener that the delimiter at entry j belongs to.
OpenerOf(j) ==
    Max({i \in 1..(j - 1) : code[i].level = code[j].level /\ code[i].op \in {"if", "loop"}})

OriginsOf(src) ==
    CASE src \in Symbols  -> {storage[src]}
      [] src = SliceCall  -> {"Local"}
      [] OTHER            -> Origins

Running(op) ==
    /\ phase = "running"
    /\ pc \in 1..Len(code)
    /\ code[pc].op = op
    /\ UNCHANGED <<checkerVars, code, historyVars>>

Goto(targets) == pc' \in targets /\ UNCHANGED <<storage, result, phase>>

RunStore ==
    /\ Running("store")
    /\ \E o \in OriginsOf(code[pc].source) :
          storage' = [storage EXCEPT ![code[pc].target] = o]
    /\ pc' = pc + 1
    /\ UNCHANGED <<result, phase>>

RunReturn ==
    /\ Running("return")
    /\ result' \in OriginsOf(code[pc].source)
    /\ phase' = "returned"
    /\ UNCHANGED <<pc, storage>>

RunIf == Running("if") /\ Goto(Arms(pc))

\* A branch that falls through reaches the next branch's delimiter.
RunBranchEnd ==
    \/ Running("elseIf") /\ Goto({EndOf(OpenerOf(pc))})
    \/ Running("else") /\ Goto({EndOf(OpenerOf(pc))})
    \/ Running("endIf") /\ Goto({pc + 1})

RunLoop == Running("loop") /\ Goto({pc + 1, EndOf(pc) + 1})

RunLoopEnd == Running("endLoop") /\ Goto({OpenerOf(pc)})

----------------------------------------------------------------------------

RunNext ==
    \/ Walk
    \/ Accept
    \/ RunStore
    \/ RunReturn
    \/ RunIf
    \/ RunBranchEnd
    \/ RunLoop
    \/ RunLoopEnd

RunSpec == RunInit /\ [][RunNext]_vars

----------------------------------------------------------------------------
(* Properties *)

\* A program only runs when it was accepted, and the slice it returns then
\* never views its own frame, however often its loops iterate.
AcceptedNeverReturnsLocal == phase = "returned" => result = "External"

\* What execution has stored when it arrives at an entry has been stored by an
\* entry in scope: no slot is read before it is written.
NoUnsetRead ==
    phase = "running" /\ pc \in 1..Len(code) /\ code[pc].source \in Symbols
        => storage[code[pc].source] # Unset

----------------------------------------------------------------------------
(* Why they hold: every step of an execution weakens what is noted *)

Fragment == ~NestedLoops /\ ~ReturnInLoop

Definite == {"External", "Local"}

KnownSet == [map : Maps, visible : SUBSET Locals]

\* What is known on arrival at entry t, the point reached by the walk included.
Arriving(t) == IF t \in 1..Len(code) THEN noted[t] ELSE Known

\* Whatever b claims, a claims as well.
Entails(a, b) ==
    /\ b.visible \subseteq a.visible
    /\ Fragment => \A id \in Params \cup b.visible :
                      b.map[id] \in Definite => a.map[id] = b.map[id]

\* Every slot in scope has been stored to, and holds what is claimed of it.
Holds(known) ==
    \A id \in Params \cup known.visible :
        /\ storage[id] # Unset
        /\ Fragment /\ known.map[id] \in Definite => storage[id] = known.map[id]

ProvenanceIn(map, src) ==
    CASE src \in Symbols -> IF Tracked(map, src) THEN map[src] ELSE "Unknown"
      [] src = SliceCall -> "Local"
      [] OTHER           -> "Unknown"

AfterStore(known, entry) ==
    [map |-> [known.map EXCEPT ![entry.target] = ProvenanceIn(known.map, entry.source)],
     visible |-> known.visible \cup {entry.target}]

\* The delimiter at j belongs to the statement opened at i.
Opens(i, j) ==
    /\ i < j
    /\ code[i].op \in Openers /\ code[j].op \in Middles \cup Ends
    /\ code[i].level = code[j].level
    /\ code[i].op = "loop" <=> code[j].op = "endLoop"
    /\ \A k \in (i + 1)..(j - 1) : code[k].level = code[i].level => code[k].op \in Middles

Entries ==
    [op : {"store", "return"} \cup Openers \cup Middles \cup Ends,
     target : Locals \cup {NoOperand},
     source : Symbols \cup {SliceCall, OtherCall, NoOperand},
     level : Nat]

RunTypeOK ==
    /\ TypeOK
    /\ code \in Seq(Entries)
    /\ phase \in {"checking", "running", "returned", "stuck"}
    /\ pc \in 1..(Len(code) + 1)
    /\ storage \in [Symbols -> Origins \cup {Unset}]
    /\ result \in Origins \cup {Unset}
    /\ noted \in Seq(KnownSet) /\ Len(noted) = Len(code)
    /\ opened \in Seq(1..Len(code)) /\ Len(opened) = Depth

\* The delimiters of the statement open in frame k.
Reached(k) == {t \in (opened[k] + 1)..Len(code) : code[t].level = k - 1}

OpenFrame(k) ==
    /\ code[opened[k]].level = k - 1
    /\ code[opened[k]].op = IF frames[k].kind = "loop" THEN "loop" ELSE "if"
    /\ \A t \in opened[k]..Len(code) : code[t].level >= k - 1
    /\ \A t \in Reached(k) : code[t].op \in Middles
    /\ frames[k].kind = "loop" => Reached(k) = {}
    /\ frames[k].kind = "else" => \E t \in Reached(k) : code[t].op = "else"
    /\ \A m \in 1..(k - 1) : opened[m] < opened[k]

OpenFrames == \A k \in 1..Depth : OpenFrame(k)

WellNested ==
    /\ \A i \in 1..Len(code) :
          code[i].op \in Openers =>
              \/ \E k \in 1..Depth : opened[k] = i
              \/ \E e \in 1..Len(code) : code[e].op \in Ends /\ Opens(i, e)
    /\ \A j \in 1..Len(code) :
          code[j].op \in Middles \cup Ends => \E i \in 1..Len(code) : Opens(i, j)
\* Whatever leads from one entry to the next.
Flow(j) ==
    /\ IF code[j].op \in {"store", "return"}
       THEN code[j].source \in Params \cup noted[j].visible \cup {SliceCall, OtherCall}
       ELSE code[j].source = NoOperand
    /\ code[j].op = "store" =>
          /\ code[j].target \in Locals
          /\ Entails(AfterStore(noted[j], code[j]), Arriving(j + 1))
    /\ code[j].op = "return" =>
          rejected \/ (Fragment => ProvenanceIn(noted[j].map, code[j].source) = "External")
    /\ code[j].op \in Openers \cup {"endIf"} => Entails(noted[j], Arriving(j + 1))

Flows == \A j \in 1..Len(code) : Flow(j)

\* The jumps of a closed or open statement: from the conditions to a branch, from
\* every branch to the end, round a loop and out of it.
Jump(i, j) ==
    /\ code[j].op # "endIf" => Entails(noted[i], Arriving(j + 1))
    /\ code[j].op = "endLoop" => Entails(noted[j], noted[i])
    /\ code[j].op = "endIf" =>
          /\ \A k \in (i + 1)..(j - 1) :
                code[k].level = code[i].level => Entails(noted[k], noted[j])
          /\ \/ \E k \in (i + 1)..(j - 1) :
                    code[k].level = code[i].level /\ code[k].op = "else"
             \/ Entails(noted[i], noted[j])

Jumps == \A i, j \in 1..Len(code) : Opens(i, j) => Jump(i, j)

\* A frame remembers the fork, and has merged every branch that has ended.
PendingFrame(k) ==
    /\ frames[k].visible = noted[opened[k]].visible
    /\ frames[k].visible \subseteq visible
    /\ \A m \in 1..(k - 1) : frames[m].visible \subseteq frames[k].visible
    /\ frames[k].kind # "loop" =>
          /\ frames[k].entryProvenance = noted[opened[k]].map
          /\ \A t \in Reached(k) :
                /\ frames[k].hasMerged
                /\ Entails(noted[t], [map |-> frames[k].mergedProvenance,
                                      visible |-> frames[k].visible])

Pending == \A k \in 1..Depth : PendingFrame(k)

ScopesTracked ==
    /\ \A id \in Params \cup visible : Tracked(sliceProvenance, id)
    /\ \A k \in 1..Depth :
          frames[k].kind # "loop" =>
              \A id \in Params \cup frames[k].visible :
                  /\ Tracked(frames[k].entryProvenance, id)
                  /\ frames[k].hasMerged => Tracked(frames[k].mergedProvenance, id)

\* Inside a loop, a binding not yet touched is as it was when the loop began, in
\* the live map and in every snapshot taken since.
LoopFrame(k) ==
    /\ touchTracking
    /\ \A m \in 1..Depth : frames[m].kind = "loop" => m = k
    /\ \A t \in (opened[k] + 1)..Len(code) :
          /\ code[t].op \notin {"return", "endLoop"}
          /\ code[t].op = "store" => code[t].target \in touched
    /\ \A id \in (Params \cup frames[k].visible) \ touched :
          /\ sliceProvenance[id] = noted[opened[k]].map[id]
          /\ \A m \in (k + 1)..Depth :
                /\ frames[m].entryProvenance[id] = noted[opened[k]].map[id]
                /\ frames[m].hasMerged =>
                      frames[m].mergedProvenance[id] = noted[opened[k]].map[id]

OpenLoop == Fragment => \A k \in 1..Depth : frames[k].kind = "loop" => LoopFrame(k)

Executing ==
    /\ phase \in {"checking", "running"} => Holds(Arriving(pc))
    /\ phase = "checking" => pc = 1
    /\ phase = "running" => ~rejected /\ Depth = 0
    /\ phase = "returned" /\ Fragment => result = "External"

RunIInv ==
    /\ RunTypeOK
    /\ OpenFrames
    /\ WellNested
    /\ Flows
    /\ Jumps
    /\ Pending
    /\ ScopesTracked
    /\ OpenLoop
    /\ Executing
=============================================================================
