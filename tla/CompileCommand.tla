---------------------------- MODULE CompileCommand ----------------------------
(****************************************************************************)
(* kaicc <input> -o <output>: the stages of runCompileCommand, what they    *)
(* leave in the file system, and several invocations of it, concurrent and  *)
(* repeated, that may share an output path and may be killed at any point.  *)
(* The host C compiler driver that links is a child process; it may be      *)
(* killed with its parent, or outlive it.                                   *)
(*                                                                          *)
(* A stage's own work is a success or a failure here.  On POSIX,            *)
(* resolveNativeExecutablePath returns the output path unchanged.  Removing *)
(* a file is best effort, as in the code: its error is ignored.             *)
(****************************************************************************)
EXTENDS Naturals, FiniteSets

CONSTANTS
    Process,     \* the invocations that can be under way at once
    Paths,       \* the paths given with -o
    Outputs,     \* the assignments of an output path to each of them considered
    MaxRuns      \* bound: how often each one is started

ASSUME OutputAssumption == Outputs \subseteq [Process -> Paths]

ASSUME RunsAssumption == MaxRuns \in Nat

\* The two files an invocation writes: the executable itself and output.o.
ExecutableAt(path) == <<path, "executable">>

ObjectAt(path) == <<path, "object">>

Files == {ExecutableAt(path) : path \in Paths} \cup {ObjectAt(path) : path \in Paths}

\* One source text per run.
Sources == Process \X (1..MaxRuns)

Absent == [kind |-> "absent"]

\* A file some other program left at output.o.
Foreign == [kind |-> "foreign"]

\* An executable an earlier compilation left at the output path.
Earlier == [kind |-> "executable", of |-> <<"earlier", 0>>]

\* An object file two writers have mixed, or what was linked from it.
Mixed == <<"mixed", 0>>

Contents ==
    {Absent, Foreign, Earlier}
    \cup [kind : {"writing"}, by : SUBSET Process]
    \cup [kind : {"object", "executable"}, of : Sources \cup {Mixed}]
    \cup {[kind |-> "partial"]}

VARIABLES
    output,      \* the path given with -o to each invocation
    files,       \* the contents of each file
    readOnly,    \* the object paths where a file that cannot be opened stands
    phase,       \* the stage each invocation is in
    code,        \* its exit code, once it is decided
    runs,        \* how often it has been started
    opened,      \* has this run opened its object file?
    linked,      \* the object its linker has read
    before,      \* what the output path held when this run started
    leftBehind   \* the files a killed run, or a removal that failed, left in place

vars == <<output, files, readOnly, phase, code, runs, opened, linked, before, leftBehind>>

Executable(p) == ExecutableAt(output[p])

Object(p) == ObjectAt(output[p])

Source(p) == <<p, runs[p]>>

\* The stages that touch no file, in order, and the exit code of each one's
\* failure.
StageCode ==
    [load |-> 2, parse |-> 4, check |-> 5, generate |-> 6, adaptNativeEntryPoint |-> 7,
     findCompilerDriver |-> 9, findDefaultRuntimeLibrary |-> 10]

NextPhase ==
    [load |-> "parse", parse |-> "check", check |-> "generate",
     generate |-> "adaptNativeEntryPoint", adaptNativeEntryPoint |-> "emit",
     findCompilerDriver |-> "findDefaultRuntimeLibrary",
     findDefaultRuntimeLibrary |-> "link"]

\* A failing stage before the object file is emitted returns at once, a later one
\* removes the object file first.
BeforeEmission == {"load", "parse", "check", "generate", "adaptNativeEntryPoint"}

Phases ==
    DOMAIN StageCode
    \cup {"idle", "emit", "write", "link", "linking", "linkFailed", "cleanup",
          "exited", "killed", "orphaned"}

NoCode == 99

\* On to another stage of the same command line.
Goto(p, next) == phase' = [phase EXCEPT ![p] = next] /\ UNCHANGED output

Write(file, contents) == files' = [files EXCEPT ![file] = contents]

\* std::filesystem::remove, its error ignored: the file is gone, or it stays.
Removed(file) ==
    /\ Write(file, Absent)
    /\ leftBehind' = leftBehind \ {file}

NotRemoved(file) ==
    /\ files[file] # Absent
    /\ leftBehind' = leftBehind \cup {file}
    /\ UNCHANGED files

----------------------------------------------------------------------------

\* At a path nobody is given there is nothing.
Init ==
    /\ output \in Outputs
    /\ files \in [Files -> {Absent, Foreign, Earlier}]
    /\ \A path \in Paths : /\ files[ExecutableAt(path)] # Foreign
                           /\ files[ObjectAt(path)] # Earlier
    /\ \A path \in Paths \ {output[p] : p \in Process} :
          files[ExecutableAt(path)] = Absent /\ files[ObjectAt(path)] = Absent
    /\ readOnly \in SUBSET {file \in Files : files[file] = Foreign}
    /\ phase = [p \in Process |-> "idle"]
    /\ code = [p \in Process |-> NoCode]
    /\ runs = [p \in Process |-> 0]
    /\ opened = [p \in Process |-> FALSE]
    /\ linked = [p \in Process |-> Absent]
    /\ before = [p \in Process |-> Absent]
    /\ leftBehind = {}

\* The command is given, for the first time or again.
Start(p) ==
    /\ phase[p] \in {"idle", "exited", "killed"}
    /\ runs[p] < MaxRuns
    /\ runs' = [runs EXCEPT ![p] = @ + 1]
    /\ Goto(p, "load")
    /\ code' = [code EXCEPT ![p] = NoCode]
    /\ opened' = [opened EXCEPT ![p] = FALSE]
    /\ linked' = [linked EXCEPT ![p] = Absent]
    /\ before' = [before EXCEPT ![p] = files[Executable(p)]]
    /\ UNCHANGED <<files, readOnly, leftBehind>>

StageSucceeds(p) ==
    /\ phase[p] \in DOMAIN StageCode
    /\ Goto(p, NextPhase[phase[p]])
    /\ UNCHANGED <<files, readOnly, code, runs, opened, linked, before, leftBehind>>

\* Fault: every failing stage returns at once.
StageReturns(p) ==
    /\ phase[p] \in DOMAIN StageCode
    /\ code' = [code EXCEPT ![p] = StageCode[phase[p]]]
    /\ Goto(p, "exited")
    /\ UNCHANGED <<files, readOnly, runs, opened, linked, before, leftBehind>>

StageFails(p) ==
    /\ phase[p] \in DOMAIN StageCode
    /\ code' = [code EXCEPT ![p] = StageCode[phase[p]]]
    /\ Goto(p, IF phase[p] \in BeforeEmission THEN "exited" ELSE "cleanup")
    /\ UNCHANGED <<files, readOnly, runs, opened, linked, before, leftBehind>>

----------------------------------------------------------------------------
(* LLVMObjectEmitter::emit *)

\* Those that are writing their object file.
Writing == {p \in Process : phase[p] = "write"}

\* The output stream is opened and truncated.
EmitOpens(p) ==
    /\ phase[p] = "emit"
    /\ Object(p) \notin readOnly
    /\ LET others == IF files[Object(p)].kind = "writing"
                     THEN files[Object(p)].by \cap Writing
                     ELSE {}
       IN  Write(Object(p), [kind |-> "writing", by |-> others \cup {p}])
    /\ opened' = [opened EXCEPT ![p] = TRUE]
    /\ leftBehind' = leftBehind \ {Object(p)}
    /\ Goto(p, "write")
    /\ UNCHANGED <<readOnly, code, runs, linked, before>>

\* Fault: the emission is tried again.
EmitRetries(p) ==
    /\ phase[p] = "emit"
    /\ UNCHANGED vars

\* No target, no target machine, or the file cannot be opened.
EmitFailsUnopened(p) ==
    /\ phase[p] = "emit"
    /\ code' = [code EXCEPT ![p] = 8]
    /\ Goto(p, "cleanup")
    /\ UNCHANGED <<files, readOnly, runs, opened, linked, before, leftBehind>>

\* The object is complete.  A file removed meanwhile stays removed, and one that
\* another invocation has opened too holds what neither wrote.
EmitWrites(p) ==
    /\ phase[p] = "write"
    /\ IF files[Object(p)].kind = "writing" /\ p \in files[Object(p)].by
       THEN Write(Object(p), [kind |-> "object",
                              of |-> IF files[Object(p)].by = {p} THEN Source(p) ELSE Mixed])
       ELSE UNCHANGED files
    /\ Goto(p, "findCompilerDriver")
    /\ UNCHANGED <<readOnly, code, runs, opened, linked, before, leftBehind>>

EmitFailsWriting(p) ==
    /\ phase[p] = "write"
    /\ code' = [code EXCEPT ![p] = 8]
    /\ Goto(p, "cleanup")
    /\ UNCHANGED <<files, readOnly, runs, opened, linked, before, leftBehind>>

----------------------------------------------------------------------------
(* NativeLinker::link: the driver is run and waited for, without a timeout *)

LinkerStarts(p) ==
    /\ phase[p] = "link"
    /\ linked' = [linked EXCEPT ![p] = files[Object(p)]]
    /\ Write(Executable(p), [kind |-> "partial"])
    /\ leftBehind' = leftBehind \ {Executable(p)}
    /\ Goto(p, "linking")
    /\ UNCHANGED <<readOnly, code, runs, opened, before>>

\* The driver's work done: only a whole object file can be linked.  If another
\* invocation has removed the output meanwhile, what is written may have no name
\* any more.
Links(p) ==
    /\ linked[p].kind = "object"
    /\ \/ Write(Executable(p), [kind |-> "executable", of |-> linked[p].of])
       \/ files[Executable(p)] = Absent /\ UNCHANGED files
    /\ leftBehind' = leftBehind \ {Executable(p)}

LinkerSucceeds(p) ==
    /\ phase[p] = "linking"
    /\ Links(p)
    /\ code' = [code EXCEPT ![p] = 0]
    /\ Goto(p, "cleanup")
    /\ UNCHANGED <<readOnly, runs, opened, linked, before>>

\* Fault: the driver's own exit code is returned.
LinkerFailsWithOwnCode(p) ==
    /\ \/ phase[p] = "linking"
       \/ phase[p] = "link"
    /\ code' = [code EXCEPT ![p] = 1]
    /\ Goto(p, "linkFailed")
    /\ UNCHANGED <<files, readOnly, runs, opened, linked, before, leftBehind>>

\* Fault: the output path is left as the failed linker left it.
LinkerFailsWithoutRemoval(p) ==
    /\ \/ phase[p] = "linking"
       \/ phase[p] = "link"
    /\ code' = [code EXCEPT ![p] = 11]
    /\ Goto(p, "cleanup")
    /\ UNCHANGED <<files, readOnly, runs, opened, linked, before, leftBehind>>

\* Fault: how the driver ended is not looked at.
LinkerFailsUnnoticed(p) ==
    /\ \/ phase[p] = "linking"
       \/ phase[p] = "link"
    /\ code' = [code EXCEPT ![p] = 0]
    /\ Goto(p, "cleanup")
    /\ UNCHANGED <<files, readOnly, runs, opened, linked, before, leftBehind>>

\* It may have failed before it touched the output path, or not been run at all.
LinkerFails(p) ==
    /\ \/ phase[p] = "linking"
       \/ phase[p] = "link"
    /\ code' = [code EXCEPT ![p] = 11]
    /\ Goto(p, "linkFailed")
    /\ UNCHANGED <<files, readOnly, runs, opened, linked, before, leftBehind>>

removeExecutable(p) ==
    /\ phase[p] = "linkFailed"
    /\ Removed(Executable(p)) \/ NotRemoved(Executable(p))
    /\ Goto(p, "cleanup")
    /\ UNCHANGED <<readOnly, code, runs, opened, linked, before>>

\* cleanupObject, then the return
cleanupObject(p) ==
    /\ phase[p] = "cleanup"
    /\ \/ Removed(Object(p)) /\ readOnly' = readOnly \ {Object(p)}
       \/ NotRemoved(Object(p)) /\ UNCHANGED readOnly
    /\ Goto(p, "exited")
    /\ UNCHANGED <<code, runs, opened, linked, before>>

----------------------------------------------------------------------------

\* The command has not ended.
UnderWay(p) == phase[p] \notin {"idle", "exited", "killed", "orphaned"}

\* The invocation is killed, and its linker with it or not.
Kill(p) ==
    /\ UnderWay(p)
    /\ \/ Goto(p, "killed")
       \/ phase[p] = "linking" /\ Goto(p, "orphaned")
    /\ leftBehind' = leftBehind
                     \cup (IF opened[p] THEN {Object(p)} ELSE {})
                     \cup (IF phase[p] \in {"linking", "linkFailed"} THEN {Executable(p)} ELSE {})
    /\ UNCHANGED <<files, readOnly, code, runs, opened, linked, before>>

\* A linker that outlived its command goes on to its own end, with nobody to wait
\* for it.
OrphanedLinkerEnds(p) ==
    /\ phase[p] = "orphaned"
    /\ \/ Links(p)
       \/ leftBehind' = leftBehind \cup {Executable(p)} /\ UNCHANGED files
    /\ Goto(p, "killed")
    /\ UNCHANGED <<readOnly, code, runs, opened, linked, before>>

\* A step the invocation takes by itself.
Step(p) ==
    \/ StageSucceeds(p)
    \/ StageFails(p)
    \/ EmitOpens(p)
    \/ EmitFailsUnopened(p)
    \/ EmitWrites(p)
    \/ EmitFailsWriting(p)
    \/ LinkerStarts(p)
    \/ LinkerSucceeds(p)
    \/ LinkerFails(p)
    \/ removeExecutable(p)
    \/ cleanupObject(p)

\* What happens to it from outside.
Interruption(p) == Kill(p) \/ OrphanedLinkerEnds(p)

Next == \E p \in Process : Start(p) \/ Step(p) \/ Interruption(p)

\* An invocation that is not killed is scheduled, and its linker ends.
Spec == Init /\ [][Next]_vars /\ \A p \in Process : WF_vars(Step(p))

----------------------------------------------------------------------------
(* Properties *)

\* Types.
TypeOK ==
    /\ output \in Outputs
    /\ files \in [Files -> Contents]
    /\ readOnly \subseteq Files
    /\ phase \in [Process -> Phases]
    /\ code \in [Process -> {NoCode, 0, 2} \cup 4..11]
    /\ runs \in [Process -> 0..MaxRuns]
    /\ opened \in [Process -> BOOLEAN]
    /\ linked \in [Process -> Contents]
    /\ before \in [Process -> Contents]
    /\ leftBehind \subseteq Files

\* No other invocation uses the path, now or later.
Sole(p) == \A q \in Process \ {p} : output[q] # output[p]

\* The object file is removed again once every run that opened it has returned,
\* whatever the outcome of each, even when invocations share the path: only a run
\* that was killed or could not remove it leaves it, for the next one that gets as
\* far as emission.
ObjectsAreTemporary ==
    \A path \in Paths :
        \/ files[ObjectAt(path)] \in {Absent, Foreign}
        \/ ObjectAt(path) \in leftBehind
        \/ \E p \in Process : output[p] = path /\ UnderWay(p) /\ opened[p]

\* A half-written executable is never what a returned command leaves behind, unless
\* its removal failed: some linker is still at work on it, or its failure is being
\* cleaned up.
NoPartialExecutable ==
    \A path \in Paths :
        \/ files[ExecutableAt(path)].kind # "partial"
        \/ ExecutableAt(path) \in leftBehind
        \/ \E p \in Process : output[p] = path /\ phase[p] \in {"linking", "linkFailed"}

\* What the exit code says of the output path, for a command nobody else shares
\* it with: 0, the executable of this very source; 11, nothing, or no more than was
\* there or was half written, if that could not be removed; an error in the source
\* (2, 4, 5), what was there before; any other code, nothing new.
OutputByExitCode ==
    \A p \in Process : phase[p] = "exited" /\ Sole(p) =>
        LET found == files[Executable(p)]
        IN  CASE code[p] = 0            -> found = [kind |-> "executable", of |-> Source(p)]
              [] code[p] = 11           -> \/ found = Absent
                                           \/ /\ Executable(p) \in leftBehind
                                              /\ found \in {before[p], [kind |-> "partial"]}
              [] code[p] \in {2, 4, 5} -> found = before[p]
              [] OTHER                  -> found \in {Absent, before[p]}

\* A command that is not killed returns: no failure and no other invocation's
\* interference leaves it waiting, provided the linker itself ends.
EveryRunEnds == \A p \in Process : UnderWay(p) ~> ~UnderWay(p)
=============================================================================
