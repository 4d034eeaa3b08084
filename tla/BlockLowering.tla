---------------------------- MODULE BlockLowering ----------------------------
(****************************************************************************)
(* One function body as two passes see it.  ControlFlowAnalyzer decides     *)
(* whether every path returns; LLVMCodeGenerator, which repeats no analysis *)
(* of its own, lowers the same body to basic blocks and needs the answer to *)
(* be right: it never makes up a return value.                              *)
(*                                                                          *)
(* The body is chosen step by step, in source order.  A statement that      *)
(* moves nothing (a declaration, an expression without &&, || or an index)  *)
(* only appends instructions to the insertion block: no step here.  Both     *)
(* passes stop reading a statement list at its first statement that does    *)
(* not fall through, so the walk leaves a list there too; PassesAgree says  *)
(* that it is the same statement for both.                                  *)
(****************************************************************************)
EXTENDS Naturals, Sequences

CONSTANTS
    MaxBlocks,   \* bound: basic blocks created for the function
    MaxFrames    \* bound: nesting of statements, else-ifs and right operands

ASSUME LoweringBounds == MaxBlocks \in Nat \ {0} /\ MaxFrames \in Nat

Blocks == 1..MaxBlocks

Entry == 1

\* The block a frame has no use for.
NoBlock == 0

VARIABLES
    created,      \* the number of blocks created; they are 1..created
    erased,       \* the blocks erased from the function again
    terminators,  \* how many terminators each block holds
    successors,   \* the targets of those terminators
    incoming,     \* the incoming blocks of the phi that heads a block, if any
    insertBlock,  \* builder.GetInsertBlock()
    frames,       \* the lowering calls in progress, outermost first
    terminated,   \* StatementResult of the last thing lowered: Terminated?
    returns,      \* FlowResult of the same thing: AlwaysReturns?
    status        \* of the function

vars == <<created, erased, terminators, successors, incoming, insertBlock,
          frames, terminated, returns, status>>

graph == <<created, erased, terminators, successors, incoming>>

\* part: what the call is lowering now.  "elseIf" is an else block whose only
\* content is the next branch's if, "elseIfDone" the same once that if is lowered.
Frames ==
    [construct : {"if", "loop", "logical"},
     part : {"then", "else", "elseIf", "elseIfDone", "condition", "body", "right"},
     back : 0..MaxBlocks,     \* a loop's condition block; the end of a left operand
     other : 0..MaxBlocks,    \* the else block; a loop's body block
     merge : 0..MaxBlocks,    \* where control continues after the construct
     thenTerminated : BOOLEAN,
     thenReturns : BOOLEAN]

Statuses == {"open", "defined", "failed", "noReturnValue", "MissingReturn"}

Depth == Len(frames)

Innermost == frames[Depth]

Part == IF Depth = 0 THEN "functionBody" ELSE Innermost.part

Outer == SubSeq(frames, 1, Depth - 1)

InList == Part \in {"functionBody", "then", "else", "body"}

\* A statement follows in the list being lowered.
AtStatement == status = "open" /\ InList /\ ~terminated /\ ~returns

\* An expression is being lowered, or may be.
AtExpression == AtStatement \/ (status = "open" /\ Part \in {"elseIf", "condition", "right"})

----------------------------------------------------------------------------
(* LLVM's blocks and the builder *)

NewBlock(i) == created + i

\* BasicBlock::Create, n times
Create(n) == created + n <= MaxBlocks /\ created' = created + n

\* The terminators that a step appends: a set of <<block, targets>>.
Terminate(ends) ==
    LET Of(b) == {e \in ends : e[1] = b}
    IN  /\ terminators' = [b \in Blocks |-> terminators[b] + (IF Of(b) = {} THEN 0 ELSE 1)]
        /\ successors' = [b \in Blocks |-> successors[b] \cup UNION {e[2] : e \in Of(b)}]

Push(frame) == Depth < MaxFrames /\ frames' = Append(frames, frame)

\* Fault: the branch is appended after a terminator too.
AlwaysBranch(target) == {<<insertBlock, {target}>>}

\* CreateBr from the block the builder was ACTUALLY left in, if it falls through.
Fallthrough(target) == IF terminated THEN {} ELSE {<<insertBlock, {target}>>}

----------------------------------------------------------------------------

Init ==
    /\ created = 1
    /\ erased = {}
    /\ terminators = [b \in Blocks |-> 0]
    /\ successors = [b \in Blocks |-> {}]
    /\ incoming = [b \in Blocks |-> {}]
    /\ insertBlock = Entry
    /\ frames = <<>>
    /\ terminated = FALSE
    /\ returns = FALSE
    /\ status = "open"

\* generateReturnStmt and analyzeStatement's Return
generateReturnStmt ==
    /\ AtStatement
    /\ Terminate({<<insertBlock, {}>>})
    /\ terminated' = TRUE
    /\ returns' = TRUE
    /\ UNCHANGED <<created, erased, incoming, insertBlock, frames, status>>

\* Some construct is unsupported: every enclosing call returns Failed.
LoweringFails ==
    /\ AtExpression
    /\ status' = "failed"
    /\ UNCHANGED <<graph, insertBlock, frames, terminated, returns>>

----------------------------------------------------------------------------
(* lowerLogicalExpr: one && or || whose left operand has been lowered *)

lowerLogicalRight ==
    /\ AtExpression
    /\ Create(2)
    /\ Terminate({<<insertBlock, {NewBlock(1), NewBlock(2)}>>})
    /\ insertBlock' = NewBlock(1)
    /\ Push([construct |-> "logical", part |-> "right",
             back |-> insertBlock, other |-> NoBlock, merge |-> NewBlock(2),
             thenTerminated |-> FALSE, thenReturns |-> FALSE])
    /\ UNCHANGED <<erased, incoming, terminated, returns, status>>

\* Fault: the phi names a block that was never created for the left operand.
phiFromOther ==
    /\ status = "open" /\ Part = "right"
    /\ Terminate({<<insertBlock, {Innermost.merge}>>})
    /\ incoming' = [incoming EXCEPT ![Innermost.merge] = {Innermost.other, insertBlock}]
    /\ insertBlock' = Innermost.merge
    /\ frames' = Outer
    /\ UNCHANGED <<created, erased, terminated, returns, status>>

lowerLogicalMerge ==
    /\ status = "open" /\ Part = "right"
    /\ Terminate({<<insertBlock, {Innermost.merge}>>})
    /\ incoming' = [incoming EXCEPT ![Innermost.merge] = {Innermost.back, insertBlock}]
    /\ insertBlock' = Innermost.merge
    /\ frames' = Outer
    /\ UNCHANGED <<created, erased, terminated, returns, status>>

\* lowerCheckedIndexBounds: an index traps out of bounds, in a block of its own
\* that ends in unreachable, and lowering continues in bounds.
lowerCheckedIndexBounds ==
    /\ AtExpression
    /\ Create(2)
    /\ Terminate({<<insertBlock, {NewBlock(1), NewBlock(2)}>>, <<NewBlock(2), {}>>})
    /\ insertBlock' = NewBlock(1)
    /\ UNCHANGED <<erased, incoming, frames, terminated, returns, status>>

----------------------------------------------------------------------------
(* generateIfStmt and analyzeIfStmt.  An else-if is an if in the else block. *)

\* The condition is lowered; the then block comes next.  alternative: what the
\* branch is followed by.
generateIfStmt(alternative) ==
    /\ AtStatement \/ (status = "open" /\ Part = "elseIf")
    /\ LET hasElse == alternative # "none"
           then == NewBlock(1)
           else == IF hasElse THEN NewBlock(2) ELSE NoBlock
           merge == NewBlock(IF hasElse THEN 3 ELSE 2)
           frame == [construct |-> "if", part |-> "then",
                     back |-> NoBlock, other |-> else, merge |-> merge,
                     thenTerminated |-> FALSE, thenReturns |-> FALSE]
           caller == IF Part = "elseIf"
                     THEN [frames EXCEPT ![Depth].part = "elseIfDone"]
                     ELSE frames
       IN  /\ Create(IF hasElse THEN 3 ELSE 2)
           /\ Terminate({<<insertBlock, {then, IF hasElse THEN else ELSE merge}>>})
           /\ insertBlock' = then
           /\ Depth < MaxFrames
           /\ frames' = Append(caller, frame)
    /\ UNCHANGED <<erased, incoming, terminated, returns, status>>

\* The then block has been lowered and there is an else side.
generateElse(kind) ==
    /\ status = "open" /\ Part = "then" /\ Innermost.other # NoBlock
    /\ Terminate(Fallthrough(Innermost.merge))
    /\ insertBlock' = Innermost.other
    /\ frames' = [frames EXCEPT ![Depth] = [@ EXCEPT !.part = kind,
                                                     !.thenTerminated = terminated,
                                                     !.thenReturns = returns]]
    /\ terminated' = FALSE
    /\ returns' = FALSE
    /\ UNCHANGED <<created, erased, incoming, status>>

\* Fault: the analyzer takes the then block's result for the whole if.
ifReturnsWithThen ==
    /\ status = "open" /\ Part = "then" /\ Innermost.other = NoBlock
    /\ Terminate(Fallthrough(Innermost.merge))
    /\ insertBlock' = Innermost.merge
    /\ frames' = Outer
    /\ terminated' = FALSE
    /\ UNCHANGED <<created, erased, incoming, returns, status>>

\* The end of an if without else: control can always fall out the bottom.
generateIfEndNoElse ==
    /\ status = "open" /\ Part = "then" /\ Innermost.other = NoBlock
    /\ Terminate(Fallthrough(Innermost.merge))
    /\ insertBlock' = Innermost.merge
    /\ frames' = Outer
    /\ terminated' = FALSE
    /\ returns' = FALSE
    /\ UNCHANGED <<created, erased, incoming, status>>

\* Fault: the merge block nothing branches to is kept.
keepsDeadMerge ==
    /\ status = "open" /\ Part \in {"else", "elseIfDone"}
    /\ Terminate(Fallthrough(Innermost.merge))
    /\ terminated' = (Innermost.thenTerminated /\ terminated)
    /\ returns' = (Innermost.thenReturns /\ returns)
    /\ insertBlock' = IF terminated' THEN insertBlock ELSE Innermost.merge
    /\ frames' = Outer
    /\ UNCHANGED <<created, erased, incoming, status>>

\* The end of the else side.  A merge block nothing branches to is erased.
generateIfEnd ==
    /\ status = "open" /\ Part \in {"else", "elseIfDone"}
    /\ Terminate(Fallthrough(Innermost.merge))
    /\ terminated' = (Innermost.thenTerminated /\ terminated)
    /\ returns' = (Innermost.thenReturns /\ returns)
    /\ IF Innermost.thenTerminated /\ terminated
       THEN erased' = erased \cup {Innermost.merge} /\ UNCHANGED insertBlock
       ELSE insertBlock' = Innermost.merge /\ UNCHANGED erased
    /\ frames' = Outer
    /\ UNCHANGED <<created, incoming, status>>

----------------------------------------------------------------------------
(* generateWhileStmt, generateForStmt *)

LoopFrame(part) ==
    [construct |-> "loop", part |-> part,
     back |-> NewBlock(1), other |-> NewBlock(2), merge |-> NewBlock(3),
     thenTerminated |-> FALSE, thenReturns |-> FALSE]

generateWhileStmt ==
    /\ AtStatement
    /\ Create(3)
    /\ Terminate({<<insertBlock, {NewBlock(1)}>>})
    /\ insertBlock' = NewBlock(1)
    /\ Push(LoopFrame("condition"))
    /\ UNCHANGED <<erased, incoming, terminated, returns, status>>

\* The while condition is lowered, from whichever block that left current.
generateWhileBody ==
    /\ status = "open" /\ Part = "condition"
    /\ Terminate({<<insertBlock, {Innermost.other, Innermost.merge}>>})
    /\ insertBlock' = Innermost.other
    /\ frames' = [frames EXCEPT ![Depth].part = "body"]
    /\ UNCHANGED <<created, erased, incoming, terminated, returns, status>>

\* The range's bounds are lowered in the preheader; the comparison is one
\* instruction of the condition block.
generateForStmt ==
    /\ AtStatement
    /\ Create(3)
    /\ Terminate({<<insertBlock, {NewBlock(1)}>>,
                  <<NewBlock(1), {NewBlock(2), NewBlock(3)}>>})
    /\ insertBlock' = NewBlock(2)
    /\ Push(LoopFrame("body"))
    /\ UNCHANGED <<erased, incoming, terminated, returns, status>>

\* Fault: a loop whose body terminates is taken to terminate.
loopEndsAsBody ==
    /\ status = "open" /\ Part = "body"
    /\ Terminate(Fallthrough(Innermost.back))
    /\ insertBlock' = Innermost.merge
    /\ frames' = Outer
    /\ returns' = FALSE
    /\ UNCHANGED <<created, erased, incoming, terminated, status>>

\* A loop always falls through, whatever its body does.
generateLoopEnd ==
    /\ status = "open" /\ Part = "body"
    /\ Terminate(Fallthrough(Innermost.back))
    /\ insertBlock' = Innermost.merge
    /\ frames' = Outer
    /\ terminated' = FALSE
    /\ returns' = FALSE
    /\ UNCHANGED <<created, erased, incoming, status>>

----------------------------------------------------------------------------
(* The end of the body: checkFunctionDecl, then defineFunction *)

\* A function with a declared return type that some path leaves without a
\* return is an error, and code is generated for no function of that file.
checkFunctionDecl(isUnit) == isUnit \/ returns

defineFunction(isUnit) ==
    /\ status = "open" /\ Depth = 0
    /\ IF ~checkFunctionDecl(isUnit)
       THEN status' = "MissingReturn" /\ UNCHANGED <<terminators, successors>>
       ELSE IF terminated
       THEN status' = "defined" /\ UNCHANGED <<terminators, successors>>
       ELSE IF isUnit
       THEN status' = "defined" /\ Terminate({<<insertBlock, {}>>})
       ELSE status' = "noReturnValue" /\ UNCHANGED <<terminators, successors>>
    /\ UNCHANGED <<created, erased, incoming, insertBlock, frames, terminated, returns>>

Next ==
    \/ generateReturnStmt
    \/ LoweringFails
    \/ lowerLogicalRight
    \/ lowerLogicalMerge
    \/ lowerCheckedIndexBounds
    \/ \E alternative \in {"none", "else"} : generateIfStmt(alternative)
    \/ \E kind \in {"else", "elseIf"} : generateElse(kind)
    \/ generateIfEndNoElse
    \/ generateIfEnd
    \/ generateWhileStmt
    \/ generateWhileBody
    \/ generateForStmt
    \/ generateLoopEnd
    \/ \E isUnit \in BOOLEAN : defineFunction(isUnit)

Spec == Init /\ [][Next]_vars

----------------------------------------------------------------------------
(* Properties *)

\* Types.
TypeOK ==
    /\ created \in Blocks
    /\ erased \subseteq Blocks
    /\ terminators \in [Blocks -> Nat]
    /\ successors \in [Blocks -> SUBSET Blocks]
    /\ incoming \in [Blocks -> SUBSET Blocks]
    /\ insertBlock \in Blocks
    /\ frames \in Seq(Frames)
    /\ terminated \in BOOLEAN
    /\ returns \in BOOLEAN
    /\ status \in Statuses

\* ControlFlowAnalyzer and the code generator, two separate recursions over the
\* body, agree after every statement on whether control continues past it.
PassesAgree ==
    /\ terminated = returns
    /\ \A i \in 1..Depth : frames[i].thenTerminated = frames[i].thenReturns

\* defineFunction: a function the analyzer let through never falls off the end
\* with a value to return and none to give.
NeverInventsAReturn == status # "noReturnValue"

Kept == (1..created) \ erased

\* The blocks some open construct has still to continue in.
Awaited ==
    UNION {{frames[i].merge}
           \cup (IF frames[i].part \in {"then", "condition"} THEN {frames[i].other} ELSE {})
             : i \in 1..Depth}

\* While a body is being lowered, a kept block has its one terminator unless the
\* builder is in it or an open construct is going to place the builder there.
OneTerminatorEach ==
    status = "open" =>
        \A b \in Kept :
            terminators[b] = IF b \in Awaited \/ (b = insertBlock /\ ~terminated) THEN 0 ELSE 1

Predecessors(b) == {p \in Kept : b \in successors[p]}

\* The blocks control can be in after at most n jumps.
InJumps[n \in 0..MaxBlocks] ==
    IF n = 0 THEN {Entry}
    ELSE LET before == InJumps[n - 1]
         IN  before \cup UNION {successors[b] : b \in before}

\* No path is longer than the function has blocks.
Reachable == InJumps[MaxBlocks]

\* The function the verifier is handed: each block ends in one terminator and
\* only there, control reaches every kept block and no erased one, nothing jumps
\* back to the entry, and a phi has one incoming value per predecessor.
WellFormedFunction ==
    status = "defined" =>
        /\ \A b \in Kept : terminators[b] = 1
        /\ Reachable = Kept
        /\ Predecessors(Entry) = {}
        /\ \A b \in Kept : incoming[b] # {} => incoming[b] = Predecessors(b)
=============================================================================
