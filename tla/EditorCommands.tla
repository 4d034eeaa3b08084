---------------------------- MODULE EditorCommands ----------------------------
(****************************************************************************)
(* KAI: Build Current File and KAI: Run Current File, the two commands of   *)
(* the VS Code extension, over the compile command they start.  Each is an  *)
(* async function that other commands, edits and saves interleave with at   *)
(* every await; and nothing keeps a command from being given while another  *)
(* one waits for the same file's compiler.                                  *)
(*                                                                          *)
(* There is one document.  A text is the number of edits before it.         *)
(****************************************************************************)
EXTENDS CompileCommand

CONSTANT
    MaxText    \* bound: how often the document is edited

ASSUME TextAssumption == MaxText \in Nat

VARIABLES
    text,       \* what the editor shows
    disk,       \* what the file holds
    doing,      \* where each command is
    isRun,    \* is it Run?
    asked,      \* history: the text that was shown when it was given
    compiled,   \* history: the text its compiler has loaded
    launched,   \* what was found at the output path when its program was started
    overlapped  \* history: the commands that were under way while another one was

documentVars == <<text, disk>>

commandVars == <<doing, isRun, asked, launched>>

editorVars == <<documentVars, commandVars, compiled, overlapped>>

NoText == MaxText + 1

EditorInit ==
    /\ Init
    /\ text \in {0, 1}
    /\ disk = 0
    /\ doing = [p \in Process |-> "none"]
    /\ isRun = [p \in Process |-> FALSE]
    /\ asked = [p \in Process |-> NoText]
    /\ compiled = [p \in Process |-> NoText]
    /\ launched = [p \in Process |-> Absent]
    /\ overlapped = {}

At(p, place) == doing[p] = place

Go(p, place) == doing' = [doing EXCEPT ![p] = place]

\* The document is edited, or saved by hand.
Edit ==
    /\ text < MaxText
    /\ text' = text + 1
    /\ UNCHANGED <<vars, disk, commandVars, compiled>>

Save ==
    /\ disk # text
    /\ disk' = text
    /\ UNCHANGED <<vars, text, commandVars, compiled>>

\* The command is given; a document with unsaved edits is saved first.
getActiveKaiFile(p) ==
    /\ At(p, "none")
    /\ Go(p, IF text # disk THEN "saving" ELSE "building")
    /\ \E run \in BOOLEAN : isRun' = [isRun EXCEPT ![p] = run]
    /\ asked' = [asked EXCEPT ![p] = text]
    /\ UNCHANGED <<vars, documentVars, launched, compiled>>

documentSaved(p) ==
    /\ At(p, "saving")
    /\ disk' = text
    /\ Go(p, "building")
    /\ UNCHANGED <<vars, text, isRun, asked, launched, compiled>>

\* The document cannot be saved, no compiler is found, or it cannot be started.
giveUp(p) ==
    /\ At(p, "saving") \/ At(p, "building")
    /\ Go(p, "done")
    /\ UNCHANGED <<vars, documentVars, isRun, asked, launched, compiled>>

compileFile(p) ==
    /\ At(p, "building")
    /\ Start(p)
    /\ Go(p, "compiling")
    /\ UNCHANGED <<documentVars, isRun, asked, launched, compiled>>

\* The compiler goes on, and reads the file when it loads it.
Compiler(p) ==
    /\ Step(p) \/ Interruption(p)
    /\ compiled' = IF phase[p] = "load" /\ phase'[p] = "parse"
                   THEN [compiled EXCEPT ![p] = disk]
                   ELSE compiled
    /\ UNCHANGED <<documentVars, commandVars>>

\* The 'close' event comes when the compiler's output streams are closed, which a
\* linker that outlives it still holds.
AtWork(p) == UnderWay(p) \/ phase[p] = "orphaned"

\* Fault: the output file decides, whatever the compiler's exit code was.
buildCurrentFileByOutput(p) ==
    /\ At(p, "compiling")
    /\ ~AtWork(p)
    /\ Go(p, IF files[Executable(p)] # Absent /\ isRun[p] THEN "launching" ELSE "done")
    /\ UNCHANGED <<vars, documentVars, isRun, asked, launched, compiled>>

\* The compiler has ended; a killed one has no exit code.  Only a build whose
\* output exists is a success, and only a Run goes on from there.
buildCurrentFile(p) ==
    /\ At(p, "compiling")
    /\ ~AtWork(p)
    /\ LET succeeded == /\ phase[p] = "exited" /\ code[p] = 0
                        /\ files[Executable(p)] # Absent
       IN  Go(p, IF succeeded /\ isRun[p] THEN "launching" ELSE "done")
    /\ UNCHANGED <<vars, documentVars, isRun, asked, launched, compiled>>

\* The program is started from whatever is at the output path by now.
runCurrentFile(p) ==
    /\ At(p, "launching")
    /\ launched' = [launched EXCEPT ![p] = files[Executable(p)]]
    /\ Go(p, "done")
    /\ UNCHANGED <<vars, documentVars, isRun, asked, compiled>>

Command(p) ==
    \/ getActiveKaiFile(p)
    \/ documentSaved(p)
    \/ giveUp(p)
    \/ compileFile(p)
    \/ Compiler(p)
    \/ buildCurrentFile(p)
    \/ runCurrentFile(p)

Pending == {p \in Process : doing[p] \notin {"none", "done"}}

EditorNext ==
    /\ Edit \/ Save \/ \E p \in Process : Command(p)
    /\ overlapped' = overlapped \cup {p \in Process : p \in Pending' /\ Pending' # {p}}

EditorSpec == EditorInit /\ [][EditorNext]_<<vars, editorVars>>

----------------------------------------------------------------------------

\* commands.ts: "we must compile the source the user is really looking at".
\* What a Run starts was compiled since it was given, whatever failed builds
\* have left at the output path; a command that no other one overlaps starts
\* the whole program of its own build, of the text that was shown when it was
\* given or of a later one.
RunsTheTextShown == \A p \in Process :
    /\ compiled[p] # NoText => compiled[p] >= asked[p]
    /\ launched[p] # Earlier
    /\ launched[p] # Absent /\ p \notin overlapped =>
          launched[p] = [kind |-> "executable", of |-> Source(p)]
=============================================================================
