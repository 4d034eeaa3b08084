# KAI-CC in TLA+

KAI-CC is a compiler for the KAI language: one C++23 process that turns a source file into a native executable. This
directory models the parts of it that are hard to get right, model-checks them with TLC, and proves the results that
matter most with TLAPS. Paths below are relative to `src/`, the repository. All line numbers are of that snapshot.

Every module is written from the code. Programs are not enumerated up front: a behaviour chooses the next statement,
token, expression or index as the compiler reads it, so one run covers every program within its bounds.

## 1. The system

```
SourceManager -> Lexer -> Parser -> SemanticAnalyzer -> TypeChecker -> ControlFlowAnalyzer
      -> LLVMCodeGenerator (+ LLVMExpressionLowering) -> adaptNativeEntryPoint
      -> LLVMObjectEmitter -> NativeLinker -> executable (linked with the KAI runtime)
```

The compiler is sequential: each stage reads what the earlier ones left in the AST and in `SemanticModel`, and none
repeats an earlier one's analysis. That is where its difficulties are: two separate recursions over the same tree that
must agree; a single pass over code that will run many times; values remembered across a call that moves the builder;
machine integers behind mathematical ones. Concurrency appears outside it: commands that share an output path, a child
process, being killed, the editor, and the benchmark broker.

| Component | State | Operations | Talks to | What makes it correct | Modelled |
|---|---|---|---|---|---|
| Source manager (`compiler/src/source`) | file texts, line starts | load, text, lookup | everyone, by span | spans stay in the text | no |
| Lexer (`lexer/Lexer.cpp`) | position, paren and bracket depth | nextToken | parser pulls tokens | terminates, tokens tile the source, newline tokens exactly outside brackets, a malformed literal is one token | yes |
| Parser (`parser/Parser.cpp`) | one token of lookahead | one function per construct | produces the AST | accepts the grammar's files and no others (a bare block it has no statement for, see 5.10), and gives each the tree the grammar means | yes |
| SemanticAnalyzer | scope stack, symbols | collect functions, resolve bodies | fills SemanticModel | each use resolves to the innermost earlier declaration, first of duplicates wins | yes |
| SemanticModel | symbols, types, interned arrays and slices, provenance map, touch set | record and look up | all later stages | equal types are one type; the provenance map is true | mostly |
| TypeChecker: provenance | live map, snapshots in the call stack, touch set | declare, assign, return, if, while, for | SemanticModel | an accepted function never returns a slice of its own frame | yes |
| TypeChecker: constant indices | none | checkIndexExpr | SemanticModel | rejected means out of bounds | yes |
| TypeChecker: the rest | none but what it records | one function per expression | SemanticModel | an expression is accepted exactly when it has a type that its place takes; one mistake is one error | yes |
| ControlFlowAnalyzer | none | analyzeBlock, analyzeStatement, analyzeIfStmt | compile command | reports MissingReturn exactly when a path falls off the end | yes |
| LLVMCodeGenerator: statements | builder position, block graph | one function per statement | trusts every analysis | one terminator per block, no invented return, loops count right | mostly |
| LLVMExpressionLowering | builder position | one function per expression | same | the instructions do what the expression means: values, order of evaluation, checks | yes |
| Compile command (`cli/CompileCommand.cpp`), LLVMObjectEmitter, NativeLinker | files, a child process | the stages, cleanup | file system, host C compiler | exit codes say what is on disk; temporary files go away | yes |
| Semantic queries, inspection | none | definition, references, callers, callees, call graph | read SemanticModel | answers agree with resolution | no |
| JSON, AST and token printers, error format | none | print | standard output | wording and layout | no |
| Driver (`main.cpp`) | none | parse arguments, dispatch | commands | | dispatch only |
| Runtime (`runtime/kai_runtime.c`) | none | five print functions | generated code | | no |
| VS Code extension (`editors/vscode/src`) | pending promises, output channel | Build, Run | runs kaicc | Run starts what it built | Build and Run |
| Benchmark harness (`benchmarks/ai-native/v1/scripts`) | socket, scratch directories, transcript, published executable | broker requests, agent session | runs kaicc, sandbox | a session sees the results of its own requests | no |
| Release scripts (`scripts`) | | | | | no |

`PROJECT.json` lists the same components with their status, and every hazard with its line.

## 2. Modules

`SliceProvenance`, `SlicePath`, `SliceRun` (configured by `MCSlicePath`, `MCSliceRun`; proofs in `SlicePathProofs` and
`SliceRunProofs`).
A slice is a view of storage; a function may only return one its caller passed in. `TypeChecker` decides this in one
pass with a three-valued provenance per binding.

- `SliceProvenance` is that pass. `sliceProvenance`, `touchTracking` and `touched` are `SemanticModel`'s members;
  `frames` is the C++ call stack of `checkIfStmt`, `checkWhileStmt`, `checkForStmt` with their local snapshots;
  `visible` is what name resolution lets a statement mention. One action per `check*` function, or per point at which
  such a function passes from one sub-statement to the next. A symbol that has left its scope may be declared again,
  which stands for a fresh SymbolId.
- `SlicePath` walks the checker and one execution of the function together. While the checker is inside a branch the
  execution does not take, the execution waits at that statement's entry or exit. A loop's iterations are
  over-approximated: whatever the body stores to ends with any origin.
- `SliceRun` records the body the checker walks and, if it is accepted, executes it with its loops, nothing
  over-approximated. `noted` and `opened` are history for the proof: what the checker held on arrival at each entry of
  the body, and where each construct it is inside began. No guard reads them.

`BlockLowering` (proofs in `LoweringProofs`). `LLVMCodeGenerator` lowers a body to basic blocks while
`ControlFlowAnalyzer` decides whether it always returns. `terminated` is the generator's `StatementResult`, `returns`
the analyzer's `FlowResult`; each is computed by its own code's rule. `frames` is the C++ call stack with the blocks
each call holds. `Create` and `Terminate` stand for LLVM (external). Short-circuit operators and checked indices are
the expressions that move the builder, at any point where an expression is lowered; an index adds a block that traps.

`TypeTable`, `Resolution` (configured by `MCResolution`; proofs in `ResolutionProofs`). What
`SemanticAnalyzer` writes into `SemanticModel`.

- `TypeTable` is type annotations: the interner's two tables and the recursive resolution of an annotation, one step
  for each call that returns, so the innermost type comes first. An annotation is its innermost name and the arrays and
  slices around it; `resolved` remembers what each call returned. It has a specification of its own, in which the rest
  of the analyzer is any step that leaves the tables alone.
- `Resolution` extends it to a whole file. `symbols`, `topLevelNames`, `preludeScope`, `scope` and `scopeStack` are the
  code's; `doing`, `local`, `declaring`, `body` and `parameter` are where the C++ call stack is. A position counts
  what has been read, and stands for a span. An `if`, `else if` or `while` is uses of names in the enclosing scope
  followed by a nested block; a `for` is its own action because its variable shares the body's scope. Calls, operators,
  member accesses and the like only analyze their parts in order, so an expression is the sequence of names it uses.
  The history variables `blockOf`, `enclosing` and `chain` record the blocks of the text; the meaning of a use
  (`Meaning`) is defined from them and never from the analyzer's scopes. An annotation's return type and a binding's
  mutability are not kept, as nothing here reads them.

`RangeLoop`, `HalfOpenRange` (configured by `MCRangeLoop`; proofs in `LoweringProofs`). The code `generateForStmt`
emits for a range, as it runs, over bit patterns of the element type. The body may assign the binding that the range's
end was read from. `HalfOpenRange` is the promise, over the integers, and `RangeLoop` implements it through the mapping
at the end of the module.

`IndexAccess` (configured by `MCIndexAccess`; proofs in `IndexAccessProofs`). One access `xs[e1]...[en]` or
an assignment to it: the type checker's decision for each index, and then the bounds checks and the address the program
computes, with every integer at its own width.

`Lexer` (configured by `MCLexer`; proofs in `LexerProofs`). Every call of `nextToken`, one step each, over a text that
is any of a set; `offset`, `parenDepth` and `bracketDepth` are the code's members, `tokens` is what the parser has
been handed. Each `scan*` function is an operator that gives the position it stops at. A character is one of those the
lexer tells apart.

`Parser`, `Grammar`, `ParserRun`, `ParseTree` (configured by `MCParser`; proofs in `ParserProofs`, and what they say of
each routine in `ParserContracts`).

- `Parser` is the recursive-descent parser, one operator per `parse*` function: from a position, what it built and the
  position after it, or the first error and where. `Then` is the early return on an error that stands after every call.
  The functions call each other, so what the C++ call stack does is one recursive function, `parse`, from a routine and
  a position to a result; every operator that calls a routine takes it as `self`. A loop that appends to what it has is
  a routine that gives back the rest of the list.
- `Grammar` is the reference: `GRAMMAR.md`'s productions as sets of positions, all those behind a type, an expression, a
  statement that starts at one, with no lookahead, no longest match and no error. It leaves out what the source
  announces for later: struct, enum and use declarations (`Parser.cpp:66`, `:69`) and struct literals (`Expr.hpp:23`).
- `ParserRun` types the file, a token at a time, while the parser still asks for more, and may finish it off at any
  point with an ending that the parser may or may not like. `HasBareBlock` says which files have a block where a
  statement may begin.
- `ParseTree` is what the tree of an accepted file must look like: of each node, what stands in its span and which
  operands it has (`Covers`, `Stratified`), said of the node and the nodes just below it; and all the nodes of a tree,
  as what is at most twice as many steps below its roots as the file has tokens (`Nodes`).

`Parser` names the kinds of punctuation as `TokenKind` does; `Lexer` spells them.

`TypeChecker`, `TypingRules`, `ExpressionLowering`, `Machine`, `Meaning`, `ExpressionRun` (configured by
`MCExpression`). An expression from its check to its execution.

- `TypeChecker` is the `check*` and `infer*` functions. Checking gives the tree back with what `SemanticModel` has
  recorded of each node: its type, and the errors whose span it is. An integer type has as few bits as `Bits` says.
- `TypingRules` is the reference: which types an expression may have, by rules without contexts, anchors or order.
- `ExpressionLowering` is the `lower*` functions and the `generate*` functions of the statements that hold an
  expression: the instructions they emit, in order, and the value they return, or their failure.
- `Machine` (external) executes those instructions as LLVM would: bit patterns, wrapping, undefined division, memory by
  paths into slots, traps, calls and output as a trace.
- `Meaning` is the reference: what a checked expression evaluates to over the integers, and what is seen on the way;
  arithmetic whose result its type cannot hold fails, and so does a division by zero (`TYPE_SYSTEM.md:384`, `:424`).
- `ExpressionRun` composes them: it builds expressions from leaves up over a scope of names, checks each for its place,
  lowers those that are accepted, and runs one statement after another.

`EditorCommands` (configured by `MCEditorCommands`; proofs in `CommandProofs`). The extension's Build and Run over
`CompileCommand`: each process is one command with the compiler it starts, and edits, saves and other commands
interleave at each `await`. `text` is what the editor shows and `disk` what the compiler reads; `asked`, `compiled`
and `overlapped` are history.

`CompileCommand` (configured by `MCCompileCommand`; proofs in `CommandProofs`). `runCompileCommand` from start to
exit, as `files` sees it. An invocation is a process; it may be started again after it exits or is killed, and others
may run at the same time with the same `-o`. Object emission truncates, writes, and can fail before or after opening
its file; the linker is a child that reads the object when it starts and makes the executable partial until it ends. A
kill may take the linker with it, or leave it to finish by itself (`orphaned`). Removing the object or a failed
executable is best effort, as in the code: it may fail without notice (`NotRemoved`), and `leftBehind` is the files that
a failed removal or a kill left in place.

### Composition

`SlicePath` and `SliceRun` compose the checker with the generated program. `BlockLowering` composes the analyzer with
the generator. `IndexAccess` composes the constant check with the emitted check. `RangeLoop` is composed with its
abstract specification. `Resolution` composes name resolution with the type tables: its steps are steps of `TypeTable`
or leave the tables alone. `ExpressionRun` composes the type checker, the code generator and the machine.
`CompileCommand` composes the command with the emitter, the linker and other invocations, and `EditorCommands` composes
that with the editor. `ParserRun` types only token sequences the lexer hands out: no newline inside brackets, which is
what `LineBreaksEndStatements` says of the lexer.

## 3. What is checked

| Run | Bounds | Question |
|---|---|---|
| `slice_path` | one slice parameter, two slice locals in scope at once, nesting 2, declarations in the function's own list, any body length | is the tracked provenance what the slots hold, on every path? |
| `slice_run` | one local, bodies of 7 entries, declarations also one level down | does an accepted body ever return a slice of its frame, or read a slot before a store, with loops really iterated? |
| `slice_loop_return` | 8 entries, a return may stand in a loop | violated, see 5.1 |
| `block_lowering` | 12 blocks, nesting 5 | do both passes agree, and is the block graph well formed? |
| `range_loop` | one-bit and four-bit types, signed and unsigned, all bounds, one assignment to the end's binding per iteration | does the loop count the range, stop, and implement its promise? |
| `index_access` | 2, 3 and 4-bit index types under a 4-bit word, one or two levels, lengths 0, 1, 3, 15, literals to 6 | does an access trap exactly when it is out of bounds, and use the element named? |
| `resolution` | names `x` and `len`, `len` a builtin; two functions, four blocks beside the prelude and the file, five positions; one primitive type, one unknown type, lengths 1, 2 and 3 with 3 too long | does every use, duplicate, parameter and annotation get what the text says? |
| `compile_command` | two invocations, each started twice, one output path or two, earlier and foreign files present or not | do exit codes, files and endings fit, under failure (of a removal too), killing with or without the linker, and sharing? |
| `editor_commands` | one document, two commands of either kind (interchangeable: symmetry), one started compiler each, two edits at any moment | does Run start what the user was looking at, whatever fails, is killed or overlaps? |
| `lexer` | every text of up to 3 of 18 characters; texts of up to 5 over five smaller alphabets: brackets, strings, characters, numbers, comments | are the tokens those of the grammar, do they cover the text, and does every line break outside brackets count? |
| `parser` | six alphabets: declarations of 8 tokens, types of 5, statements of 6, loops of 6, operators of 5 and brackets of 5 inside a function, each also cut off by an ending | does the parser accept only what the grammar has, and all of it but bare blocks, with the grammar's tree? |
| `expression` | integer types of 2, 3 and 4 bits; ten scopes with their leaves and forms: numbers at their limits, ranges, array literals, elements and slices, nested elements with visible calls, evaluation order, calls, deferred forms, texts, pairs of statements; 4 to 7 leaves and forms | is what is accepted well typed, is it lowered (but for 5.8), and do the instructions do what was written, until arithmetic fails (5.6, 5.7)? |

The properties, by the hazard they are for:

- `NoDanglingReturn`, `AcceptedNeverReturnsLocal`: the promise of the provenance analysis, on a path and in a run.
  `TrackedIsTrue` is stronger, in both directions: a definite provenance is what the slot holds.
  `LoopExitForgetsAssigned` relates the body's stores to what is known after the loop. `NoUnsetRead`: no name outlives
  its branch.
- `PassesAgree` after every statement, and `NeverInventsAReturn` at the end, relate the two recursions.
  `OneTerminatorEach` says, while lowering is under way, exactly which blocks still lack a terminator and why.
  `WellFormedFunction` is what the LLVM verifier would ask, and that nothing kept is unreachable, nothing erased is
  referenced, and each phi has one value per predecessor.
- `CountsTheRange` ties the machine slot to the number of completed iterations; `ImplementsRange` that the bounds are
  read once; `Terminates` that no type's maximum makes a loop endless.
- `TrapsExactlyOutOfBounds` relates the widened unsigned comparison to the meaning of the index;
  `ConstantsDecidedAtCompileTime` the checker's decision to the program's; `AddressInsideRoot` nested addresses to
  positions in the root.
- `ResolvesLexically` compares each use, at every later moment, with the meaning its text has, and the errors with the
  uses that have none. `DuplicatesReported` says which declarations collide and what the report points at.
  `ParametersKeepTheirTypes` ties the second pass to the annotation the first pass resolved.
  `OneTypePerShape` relates any two annotations of a file; `UnknownTypesReportedOnce` the errors to the annotations.
- `ObjectsAreTemporary` and `NoPartialExecutable` relate the files to the invocations under way: what one leaves when
  it returns, however runs that share a path overlap, is only what a kill or a failed removal left behind.
  `OutputByExitCode` relates the executable to the exit code of a command that shares its path with nobody: 0 is its own
  program, an error in the source leaves what was there, and no other failure leaves anything new, except that a failed
  removal may leave what the linker had begun. `EveryRunEnds` is liveness.
- `RunsTheTextShown` relates a program that Run starts to the text the editor showed when the command was given.
- `TokensTileTheText` says no character is lost or read twice, `LexemesOfTheGrammar` that each token is the longest
  lexeme of the grammar, `LineBreaksEndStatements` what becomes of every line break, against the brackets counted from
  the tokens and never from the lexer's counters. `ReachesEndOfFile` is liveness: each call makes progress.
- `AcceptsTheGrammar` compares the parser with the grammar in both directions, the second one for files without a bare
  block; `TreeIsTheText` ties each node's span to
  its own tokens and the spans of the nodes below it, in the order of the grammar, and each operator's operands to their
  tiers.
- `AcceptsWhatTheRulesAllow` compares the checker's contexts and anchors with rules that have none.
  `ErrorsAreRootCauses`: no error about a type on top of another one. `AcceptedIsLowered`: the generator, which trusts
  the checker, never refuses what it has instructions for, except the two forms of 5.8 (`IndexesPastASlice`,
  `IndexesAValue`), which are said of an index and what it indexes: every other array, through any levels, has an
  address. `RunsAsMeant`: trace, result, traps and final memory of the emitted instructions are those of the meaning;
  where the meaning is that arithmetic fails, only what comes before is. So nothing is asserted of what the code does
  there; that a program never goes on from there (`FailsWhereItMust`) is what the documents say and the code does not
  do.

Each passing property has a mutant of the code that breaks it, written beside the definition it changes and marked
`Fault:`. No action uses a fault.

### Why the bounds are enough

- Provenance: a merge compares two values of one binding, and a third value adds nothing because the merge is
  idempotent and absorbing; two locals let one binding be copied to another in a branch; nesting 2 has a branch in a
  loop and a loop in a branch. `slice_path` has no bound on length. The theorems of section 4 remove the remaining
  bounds. Runs follow a walk to its first error, as a rejected program is never run.
- Blocks: 12 blocks hold an if/else whose sides hold another construct with a short-circuit or index condition.
  Section 4 removes the bound.
- Names: shadowing needs one name declared at two depths; with a builtin's name a third depth comes for free. Five
  positions hold two declarations, a block, and a use before and after; the same positions hold a nested annotation
  and a second one like it. The theorems remove these bounds.
- Widths: comparison, increment and extension depend on a type only through its sign and its number of patterns. The
  runs have a type narrower than the literal's, the literal's own, and one as wide as the word; the proofs take every
  width.
- Texts and tokens: the lexer's decisions depend on a character's class and at most one character ahead, so three of
  any class meet every pair with something before it; the longer texts have an open bracket or literal, a line break
  and what follows. The parser looks one token ahead; each family starts where its
  productions may begin, is long enough to hold one inside another, and its endings complete what is left open. That
  the parser accepts the grammar, and that its trees are the text, is proved without a bound.
- Expressions: a context passes from the place through parentheses and signs to literals, or from one operand to the
  other; five leaves and forms have each of these inside another. Assigning an element of a nested array, with its index
  and value seen to be evaluated, takes seven. Two-bit types have literals inside, at and past their limits. What is
  assigned in one statement and read through a slice in the next takes two statements.
- Commands of the editor: a second command and an edit at each `await` of the first; a third would meet the same files.
- Files: two invocations make every pairwise interference; two starts each make a run begin from what any earlier run,
  finished or killed, left behind.

### Fairness

`RangeLoop`: weak fairness of the next step; generated code is one thread that keeps running. `Lexer`: weak fairness of
`nextToken`; the parser calls it until it has the end of the file. `CompileCommand`: weak fairness of each invocation's
own steps. It is the scheduling of a process by the operating system plus one real assumption, that the linker of a
command under way ends: `NativeLinker::link` awaits it with no timeout (`compiler/src/codegen/NativeLinker.cpp:129`), so
a linker that hangs does hold the command. Being killed is never fair, and of a linker that outlives its command nothing
is assumed. No other module has a liveness property: the compiler's own recursions follow the finite tree they are
given.

### Assumptions of the models

- A branch's condition and a loop's iteration count are arbitrary.
- A callee may return any slice the caller passed, so a call's value may be a view of the caller's frame.
- Linking reads the object file at one moment. Two writers of one object produce a mixture, which may be linked.
- The verifier's own rejection is not a step of `BlockLowering`: `WellFormedFunction` is the claim that it never
  happens.
- The right side of a short-circuit operator is one instruction holding its code: how its blocks are linked is
  `BlockLowering`'s part. The values of fractions are left out: they are checked and lowered, not run.
- A character outside the lexer's classes is like one that begins no token; a file too large for its offsets is left
  out. The grammar's struct, enum and use declarations and struct literals, which the source announces for later, are
  not in `Grammar`.
- A file is read at one moment of the compiler's load. One document stands for any: commands on different documents
  share no file.

## 4. What is proved

All theorems hold for every value of the constants that satisfies the named assumptions.

`SlicePathProofs`, from `SymbolsAssumption`, `BoundsAssumption` and `FragmentAssumption` (no return inside a loop).
`TypeCorrect` needs nothing more; `ReturnSafety`, `ProvenanceExact` and `LoopExitForgets` also assume `~NestedLoops`,
which is exactly what 5.1 and 5.2 show to be needed. `TrackedIsTrue` is not inductive: where an execution waits
outside a branch, the live map describes a path it did not take. `IInv` adds what the stack knows. An execution waiting
at an entry agrees with that statement's entry snapshot; one waiting at an if's exit agrees with the merge so far; one
waiting at a loop's exit agrees, on whatever the body has not touched, with the live map and with every snapshot taken
inside the body. The touched set covers what the body stored to (this is where nested loops would break it). `IInv` is
in `SlicePath`; there is one lemma per action.

`SliceRunProofs`, from `SymbolsAssumption`, `BoundsAssumption`, `MaxCodeAssumption` and `OperandAssumption`, about
executions that really go round their loops. The checker sees a body once, so an execution is never where the checker
is; `RunIInv` links them through `noted`. What is noted at an entry entails what is noted wherever control can go from
there (`Flows` for a single entry, `Jumps` for the branches, the end and the back edge of a construct), and the slots
hold what is noted where the execution stands (`Executing`). While a loop is being checked, whatever its body has not
touched is as it was at the loop's entry, in the live map and in every snapshot (`OpenLoop`); the end of the loop
weakens the notes inside it to what holds in every iteration. `AcceptedIsSafe` assumes `~NestedLoops` and
`~ReturnInLoop`; `ReadsAreStored` neither.

`LoweringProofs`, about blocks from `LoweringBounds`. `IInv` says what the stack owns: the blocks each call has still to
continue in exist, are distinct between calls, are not where the builder is and have no terminator; every other kept
block has exactly one. Pushing and popping are lemmas on sequences (`StackAppend`, `StackSplit`), terminators are
counted once (`TerminatorStep`), and every action is then a few set equations. `Agreement`, `NoMissingValue` and
`TerminatorsCorrect` follow. `FunctionsAreWellFormed` needs the edges too (`FlowInv`): which blocks a call has still to
jump to, that those have no phi yet, and that every kept block nobody is ahead of is in each set of blocks closed under
jumps that has the entry (`Reached`). That `Reachable` is such a set is a counting argument: the sets after each jump
grow or stay, and there are no more than `MaxBlocks` blocks.

`LoweringProofs`, about range loops from `TypesAssumption` and `WritesAssumption`. `CountingCorrect`: within the body
the slot is below the end, so the increment cannot wrap at any width. `Refinement`: each step maps to a step of
`HalfOpenRange` or a stutter.

`IndexAccessProofs`, from `WidthsAssumption` and `IndexBounds`. `BoundsCheckExact` is about the operators alone: the
sign test with the widened unsigned comparison decides `0 <= index < length`, and the widened index is then the index.
`BoundsSafety` and `ConstantsDecided` follow for the access. `AddressesStayInside`: each level multiplies by its length
and adds an index below it (`InsideNested`), whatever the number of levels.

`ResolutionProofs`, from `TypeTableAssumption` and `ResolutionAssumption`. `TypesAreInterned`: `OneTypePerShape`
compares any two annotations, and a type is only a number, so `TableInv` keeps with each resolved annotation what its
number stands for (`Explained`): an entry that holds the type of the same annotation one level further in. No table has
an entry twice; two annotations of one type then agree level by level. `NamesResolveLexically`: at its own moment a
lookup finds the right symbol because each scope on the stack holds the first declarations of one block around the
current position (`Scopes`) and those blocks are numbered from outside in (`Chains`). Later declarations do not change
what the use means because each stands after it, or in a block that is not around it, or is the variable that use
initializes (`Positions`). `WellTyped` and `OneTypePerShapeInAFile` come from the same invariant.

The reports need `FileInv` on top: an error names a position and no symbol, so no two declarations or annotations may
share one, across both passes and duplicate functions (`OwnPositions`). Then each unknown annotation has one report
(`UnknownInv`), a signature keeps the types its annotations ended with until the second pass reads them (`Signatures`),
and each report of a duplicate belongs to one declaration (`DuplicatesInv`).

`CommandProofs`, from `OutputAssumption`, `RunsAssumption` and `TextAssumption`. `ObjectsRemoved` and
`NoHalfWrittenExecutable` hold among any number of invocations that share a path, because what a file holds is traced
to an invocation under way, or to what a kill or a failed removal left (`leftBehind`); no theorem assumes that a removal
succeeds. `ExitCodes` follows the two files of an invocation through its stages
(`OwnOutput`), with `Writers`: an object file is only being written by invocations with that path. In the editor the
invocations do share a path; `EditorRunsCommands` carries the command's invariants over, and `RunsWhatIsShown` uses
`OwnOutput` from the moment a command is given until another overlaps it (`AloneInv`), and for those that overlap that
nothing an earlier session left survives the link (`RelinkedInv`).

`LexerProofs`, from `LexerAssumption`: letters and digits have no other use, keywords are made of letters and have
kinds of their own. `CursorInvariant`: `parenDepth` and `bracketDepth`, which drop a closing bracket that matches
none, are what `InsideBrackets` counts from the tokens alone. `TokensTile` and `LineBreaks` follow from what each call
hands out; `LineBreaks` also needs that only an escaped CR in an invalid literal is ever parted from what follows it
(`LoneCR`). `Lexemes`: a lexeme's first characters tell which scan may find it (`GrammaticalForms`), the scan stops at
the longest one, and a literal's scan agrees with the existence of a set of escapes (`LiteralMeaning`).

`ParserProofs`, from `ParserRunAssumption`, which says only that the end of the file is no token of a file.
`ParserDecidesTheGrammar`: of every file, whatever its tokens and however many, the parser accepts only what the grammar
derives, and all of it in which no block is a statement by itself. There are three steps, and a fourth for the trees.

- The functions are total (`ParseUnfolds`). A routine calls another one at a later position, or at the same position one
  of a lower rank (`Before`), and what it gives back depends on those calls alone (`AgreeBefore`, one lemma per
  function, of which there are two kinds: `...Shape` is what a function gives back from what its callees do, `...Agrees`
  that it does not depend on anything else). That needs, at the same time, that what must consume a token does
  (`ParserAdvances`): it is the argument for termination that the C++ rests on. The grammar's productions are total for
  the same reason (`DeriveUnfolds`).
- The parser stops at one position, a production may end at several. `Reads(result, ends, continuations)`: the parser
  stops at an end, and at each end that no token of `continuations` follows. `Continuations` gives for each routine the
  tokens that would make it go on: the operators of a tier and of all tighter ones, a comma in a list, `<` behind a
  type's name. A list of statements or declarations has its end where a brace or the end of the file stands; the
  branches of an `if` are the exception, because the parser skips the line breaks before an `else` that need not be
  there (`ReadsElses`), which the separators behind the statement make good (`OverBreaks`). That the parser stops at
  every such end assumes that the file has no bare block. Where it has none, a statement that ends at a brace holds a
  block, so a list of statements is never cut short by a `{` (`Unbraced`).
- Each routine reads its production if the routines before it in the order do (`DecidedBefore`, a `...Decided` lemma per
  routine), so all of them do (`ParserReadsTheGrammar`). The heart of each lemma is that what may follow a part in its
  production is never a continuation of the part, or is one the production takes itself.
- `TreesAreTheText`: of every accepted file, every node of the tree covers its span. Each routine builds what stands for
  the tokens it read (`ParserBuildsTheText`, by the same induction; `Fits` says per routine what that is): a node over
  them, or a list that leaves nothing out but separators and commas. A loop over operators does not build a node from
  its own tokens; `Carries` says that of any expression that ends where the loop began, and of the right tier, it makes
  one that ends where the loop stopped, which gives left association. A node is `Whole` when some set of nodes that has
  it has the parts of each of its members, all as they should be, which says it without recursion. That going down a
  tree reaches every node needs a number: a node is longer than its parts, or is an expression statement or an `if`
  around its one part, which is neither (`PartSmaller`), so `Nodes` leaves none out.

`IndexAccess`'s and `Resolution`'s type invariants are proved; no run checks that of `IndexAccess`.

Induction over data takes an operator as a parameter and is out of the provers' reach as a schema. Where a recursive
function has numbers for arguments (`Reachable`, `Position`, the lexer's scans), it is done with sets instead: the least
number that is not in a set (`LeastNumber`), from well-foundedness in first-order form, gives both that the function
satisfies its equation (`BoundedRecursion`, `BackwardRecursion`) and what it returns. The parser's functions are
mutually recursive over routines and positions; `Key` turns their order into a number, and `AlongTheCalls` is the
induction.

Only model-checked: everything about expressions. The type checker, lowering and their references are `RECURSIVE`
operators over trees: they are checked on every tree within the bounds.

Liveness (`Terminates`, `EveryRunEnds`, `ReachesEndOfFile`) is out of the prover's reach, because fairness is about
`ENABLED`. What it rests on is proved: each of the three counts down a natural number, so that only "a step that can be
taken is taken" is left to TLC. `CallsRunOut`: a call of `nextToken` moves the offset, or is the last one.
`LoopStepsRunOut`: the increment does not wrap, so the numbers left below the end run out, and within an iteration the
writes the body may still make. `RunsGoForward`: no stage of a run of the command leads back, and no step of another run
moves it back.

## 5. Where code and documents disagree

1. A return in a loop is checked against the first iteration only. `compiler/include/kai/semantic/TypeChecker.hpp:205`
   calls the scheme sound for arbitrarily many iterations. `slice_loop_return` finds the shortest body:
   `mut s = xs; while c { if c { return s }; s = slice(a) }; return xs`.
2. Touch tracking does not nest: an inner loop ends the outer loop's tracking.
   `mut s = slice(a); while c { while d {}; s = xs }; return s` is accepted. `slice_loop_return.cfg` shows it with
   `NestedLoops = TRUE`, `ReturnInLoop = FALSE` and `MaxCode = 7`.
3. The constant index `-0` into an array of length zero is accepted and traps
   (`compiler/src/semantic/TypeChecker.cpp:1958`, against `TYPE_SYSTEM.md:812`). It is the exception in
   `ConstantsDecidedAtCompileTime`.
4. A compilation that fails with exit code 6 to 10 leaves an earlier executable in place, which looks like a success,
   against `compiler/include/kai/cli/CompileCommand.hpp:39-41`. `OutputByExitCode` asserts neither: it has nothing there
   or what was there before. Without the second, `compile_command` finds it violated by a failure of any such stage.
5. The cleanup after an emission that could not open its file removes a file the command did not create, against
   `compiler/src/cli/CompileCommand.cpp:132-134`: `EmitFailsUnopened`, then `cleanupObject`.
6. An integer division is emitted without a check (`compiler/src/codegen/LLVMExpressionLowering.cpp:438`), so that a
   division by zero, or of the least number by minus one, is undefined. `TYPE_SYSTEM.md:424` promises a runtime failure.
7. Integer arithmetic wraps around (`LLVMExpressionLowering.cpp:411`, `:420`, `:429`, `:354`), where
   `TYPE_SYSTEM.md:384` has an overflow fail at run time. `FailsWhereItMust` in `ExpressionRun` states both promises;
   with it in place of `RunsAsMeant` in `expression.cfg`, TLC finds `let x: i8 = -b`, where `b` is the least number.
8. An array that is an element of a slice may not be indexed: `r[0][0]`, where `r` is a slice of arrays, read or (as
   `checkIndexAssignmentTarget` rejects only an assignment to the slice's own elements) assigned, is accepted by the
   checker and refused by the generator, though `r[0]` has an address: `lowerArrayBase`
   (`LLVMExpressionLowering.cpp:689-763`) wants a variable of array type at the root. The same goes for an element of an
   array that a call returns or that is written out, `f()[0]`, which has no address. They are the two exceptions in
   `AcceptedIsLowered`; without either of them, `expression` finds it violated.
9. A backslash before a line break in a literal takes the line break with it, and the literal goes on: the comment at
   `compiler/src/lexer/Lexer.cpp:218-223` has the break left to newline handling. The literal is invalid either way.
10. `GRAMMAR.md:388-395` has blocks as statements, the AST a node for them (`BlockStmt`), and
    `SemanticAnalyzer.cpp:450-455` analyzes "a bare block statement"; `parseStatement` (`Parser.cpp:339-374`) has no
    case for `{` and reports an error. `Grammar` derives them and `AcceptsTheGrammar` excepts files that have one;
    without the exception, `parser` finds it violated by a function whose body is `{ }`.
11. The object file is "removed again once this function returns, regardless of outcome"
    (`compiler/include/kai/cli/CompileCommand.hpp:41-44`); the removal is best effort and its error ignored
    (`compiler/src/cli/CompileCommand.cpp:135-138`), as is that of a failed executable (`:163-164`), so either may stay.
    `leftBehind` is the exception in `ObjectsAreTemporary`, `NoPartialExecutable` and `OutputByExitCode`.

Some comments are inaccurate without consequence. `Parser.cpp:250` gives `&&T` as a type, which the lexer makes one
`&&` token. `SemanticModel.hpp:501` names one caller of `internSlice`; the type
checker is another (`TypeChecker.cpp:1332`). `Type.hpp:199-204` says `str` cannot be written as a type, which
`SemanticAnalyzer.cpp:51-66` accepts. An array length beyond 64 bits is an error type without an error; the comment at
`SemanticAnalyzer.cpp:256-264` admits it, `Type.hpp`'s description of error types does not. `lowerCheckedIndexBounds`
(`LLVMExpressionLowering.cpp:773-780`) says a negative index, sign-extended, would compare in bounds against any
nonzero length without the sign test. As an unsigned word it is at least 2^63, so only a length above that lets it
through; `index_access` has such a length (15 in a 4-bit word), which is what makes the dropped sign test a real
mutant.

## 6. Not modelled

- Semantic queries, inspection and the call graph traverse a finished AST and model and change nothing. What they rest
  on is checked: that each use has its symbol (`ResolvesLexically`) and each node its own span (`TreeIsTheText`).
- JSON, AST, token and error printers: wording and layout. `SourceManager`: a file loaded once, and offsets turned into
  lines; its failure to load is a stage of `CompileCommand`. `main.cpp`: argument parsing. The runtime: five calls of
  stdio, which are the trace in `Machine`.
- `adaptNativeEntryPoint`'s synthesised `main` and the lowering of function signatures are straight-line construction
  of IR; the first is a stage that may fail.
- Locating the compiler and the runtime library is a step that may fail; the paths it tries are not modelled.
- The benchmark harness is an experiment with the compiler. The release and test scripts are straight-line.

## 7. Plan

1. Abstract specifications of the compile command and of the lexer, with each step mapped to a step of theirs.
2. The broker and the agent session of the benchmark harness, with timeouts on both ends.
3. The call graph against a reference relation over resolved calls.
