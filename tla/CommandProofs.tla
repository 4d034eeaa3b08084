---------------------------- MODULE CommandProofs ----------------------------
(****************************************************************************)
(* What compile commands leave behind, for any number of them, of output    *)
(* paths and of repetitions; and what the editor's Run starts.              *)
(*                                                                          *)
(* The proofs follow one invocation's files through its stages.  Another    *)
(* invocation touches them only if it has the same output path, and in the  *)
(* editor only if the two commands overlap.                                 *)
(****************************************************************************)
EXTENDS EditorCommands, TLAPS

(* The names of files *)

LEMMA FileNames ==
    ASSUME NEW a \in Paths, NEW b \in Paths
    PROVE  /\ ExecutableAt(a) \in Files
           /\ ObjectAt(a) \in Files
           /\ ExecutableAt(a) # ObjectAt(b)
           /\ ExecutableAt(a) = ExecutableAt(b) => a = b
           /\ ObjectAt(a) = ObjectAt(b) => a = b
BY DEF ExecutableAt, ObjectAt, Files

LEMMA FileOf ==
    ASSUME NEW file \in Files
    PROVE  \E a \in Paths : file = ExecutableAt(a) \/ file = ObjectAt(a)
BY DEF Files

----------------------------------------------------------------------------
(* Types.  A run that has begun is counted, so that its source is one. *)

AfterOpening == {"write", "findCompilerDriver", "findDefaultRuntimeLibrary", "link", "linking",
                 "linkFailed"}

StageInv == \A p \in Process :
    /\ phase[p] # "idle" => runs[p] # 0
    /\ phase[p] \in BeforeEmission \cup {"idle", "emit"} => ~opened[p]
    /\ phase[p] \in AfterOpening => opened[p]
    /\ phase[p] = "linkFailed" => code[p] = 11

TypeInv == TypeOK /\ StageInv

USE OutputAssumption, RunsAssumption

LEMMA InitType == Init => TypeInv
<1> SUFFICES ASSUME Init PROVE TypeInv
  OBVIOUS
<1> USE DEF Init
<1>1. files \in [Files -> Contents]
  BY DEF Contents
<1>2. readOnly \subseteq Files
  OBVIOUS
<1>3. phase \in [Process -> Phases]
  BY DEF Phases
<1>4. linked \in [Process -> Contents] /\ before \in [Process -> Contents]
  BY DEF Contents
<1>5. TypeOK
  BY <1>1, <1>2, <1>3, <1>4 DEF TypeOK
<1>6. StageInv
  BY DEF StageInv, AfterOpening, BeforeEmission
<1> QED
  BY <1>5, <1>6 DEF TypeInv

\* The paths an invocation writes are files of the model.
LEMMA OwnFiles ==
    ASSUME TypeInv, NEW p \in Process
    PROVE  /\ output[p] \in Paths
           /\ Executable(p) \in Files /\ Object(p) \in Files
           /\ Executable(p) # Object(p)
<1>1. output[p] \in Paths
  BY DEF TypeInv, TypeOK
<1> QED
  BY <1>1, FileNames DEF Executable, Object

LEMMA OwnSource ==
    ASSUME TypeInv, NEW p \in Process, phase[p] # "idle"
    PROVE  Source(p) \in Sources
<1>1. runs[p] \in 0..MaxRuns /\ runs[p] # 0
  BY DEF TypeInv, TypeOK, StageInv
<1> QED
  BY <1>1 DEF Source, Sources

\* Contents as the steps write them.
LEMMA WrittenContents ==
    /\ Absent \in Contents
    /\ [kind |-> "partial"] \in Contents
    /\ \A by \in SUBSET Process : [kind |-> "writing", by |-> by] \in Contents
    /\ \A of \in Sources \cup {Mixed} : /\ [kind |-> "object", of |-> of] \in Contents
                                        /\ [kind |-> "executable", of |-> of] \in Contents
BY DEF Contents

LEMMA KindsOfContents ==
    ASSUME NEW c \in Contents
    PROVE  /\ c.kind = "writing" => c.by \in SUBSET Process /\ c = [kind |-> "writing", by |-> c.by]
           /\ c.kind = "object" => /\ c.of \in Sources \cup {Mixed}
                                   /\ c = [kind |-> "object", of |-> c.of]
BY DEF Contents, Absent, Foreign, Earlier

LEMMA LinksType ==
    ASSUME TypeInv, NEW p \in Process, Links(p)
    PROVE  files' \in [Files -> Contents] /\ leftBehind' \subseteq Files
<1>1. linked[p].of \in Sources \cup {Mixed}
  BY KindsOfContents DEF Links, TypeInv, TypeOK
<1> QED
  BY <1>1, OwnFiles, WrittenContents DEF Links, Write, TypeInv, TypeOK

LEMMA StepType == TypeInv /\ [Next]_vars => TypeInv'
<1> SUFFICES ASSUME TypeInv, [Next]_vars PROVE TypeInv'
  OBVIOUS
<1> USE DEF TypeInv
<1>1. CASE UNCHANGED vars
  BY <1>1 DEF vars, TypeOK, StageInv
<1>2. ASSUME NEW p \in Process, Start(p) PROVE TypeInv'
  <2>1. before' \in [Process -> Contents] /\ linked' \in [Process -> Contents]
    BY <1>2, OwnFiles, WrittenContents DEF Start, TypeOK
  <2>2. TypeOK'
    BY <1>2, <2>1 DEF Start, Goto, TypeOK, Phases, StageCode
  <2>3. StageInv'
    BY <1>2 DEF Start, Goto, TypeOK, StageInv, AfterOpening, BeforeEmission
  <2> QED
    BY <2>2, <2>3
<1>3. ASSUME NEW p \in Process, StageSucceeds(p) PROVE TypeInv'
  <2>1. TypeOK'
    BY <1>3 DEF StageSucceeds, Goto, TypeOK, Phases, StageCode, NextPhase
  <2>2. StageInv'
    BY <1>3 DEF StageSucceeds, Goto, TypeOK, StageInv, AfterOpening, BeforeEmission, StageCode,
                NextPhase
  <2> QED
    BY <2>1, <2>2
<1>4. ASSUME NEW p \in Process, StageFails(p) PROVE TypeInv'
  <2>1. StageCode[phase[p]] \in {2} \cup 4..11
    BY <1>4 DEF StageFails, StageCode
  <2>2. TypeOK'
    BY <1>4, <2>1 DEF StageFails, Goto, TypeOK, Phases
  <2>3. StageInv'
    BY <1>4 DEF StageFails, Goto, TypeOK, StageInv, AfterOpening, BeforeEmission, StageCode
  <2> QED
    BY <2>2, <2>3
<1>5. ASSUME NEW p \in Process, EmitOpens(p) PROVE TypeInv'
  <2>1. files' \in [Files -> Contents]
    <3>1. Object(p) \in Files /\ files[Object(p)] \in Contents
      BY OwnFiles DEF TypeOK
    <3>2. PICK by \in SUBSET Process :
             files' = [files EXCEPT ![Object(p)] = [kind |-> "writing", by |-> by]]
      BY <1>5 DEF EmitOpens, Write, Writing
    <3> QED
      BY <3>1, <3>2, WrittenContents DEF TypeOK
  <2>2. TypeOK'
    BY <1>5, <2>1, OwnFiles DEF EmitOpens, Goto, TypeOK, Phases
  <2>3. StageInv'
    BY <1>5 DEF EmitOpens, Goto, TypeOK, StageInv, AfterOpening, BeforeEmission
  <2> QED
    BY <2>2, <2>3
<1>6. ASSUME NEW p \in Process, EmitFailsUnopened(p) \/ EmitFailsWriting(p) PROVE TypeInv'
  <2>1. TypeOK'
    BY <1>6 DEF EmitFailsUnopened, EmitFailsWriting, Goto, TypeOK, Phases
  <2>2. StageInv'
    BY <1>6 DEF EmitFailsUnopened, EmitFailsWriting, Goto, TypeOK, StageInv, AfterOpening,
                BeforeEmission
  <2> QED
    BY <2>1, <2>2
<1>7. ASSUME NEW p \in Process, EmitWrites(p) PROVE TypeInv'
  <2>1. files' \in [Files -> Contents]
    <3>1. Object(p) \in Files /\ Source(p) \in Sources
      BY <1>7, OwnFiles, OwnSource DEF EmitWrites
    <3>2. \/ UNCHANGED files
          \/ \E of \in Sources \cup {Mixed} :
                files' = [files EXCEPT ![Object(p)] = [kind |-> "object", of |-> of]]
      BY <1>7, <3>1 DEF EmitWrites, Write
    <3> QED
      BY <3>1, <3>2, WrittenContents DEF TypeOK
  <2>2. TypeOK'
    BY <1>7, <2>1 DEF EmitWrites, Goto, TypeOK, Phases, StageCode
  <2>3. StageInv'
    BY <1>7 DEF EmitWrites, Goto, TypeOK, StageInv, AfterOpening, BeforeEmission
  <2> QED
    BY <2>2, <2>3
<1>8. ASSUME NEW p \in Process, LinkerStarts(p) PROVE TypeInv'
  <2>1. files' \in [Files -> Contents] /\ linked' \in [Process -> Contents]
    BY <1>8, OwnFiles, WrittenContents DEF LinkerStarts, Write, TypeOK
  <2>2. TypeOK'
    BY <1>8, <2>1, OwnFiles DEF LinkerStarts, Goto, TypeOK, Phases
  <2>3. StageInv'
    BY <1>8 DEF LinkerStarts, Goto, TypeOK, StageInv, AfterOpening, BeforeEmission
  <2> QED
    BY <2>2, <2>3
<1>9. ASSUME NEW p \in Process, LinkerSucceeds(p) PROVE TypeInv'
  <2>1. files' \in [Files -> Contents] /\ leftBehind' \subseteq Files
    BY <1>9, LinksType DEF LinkerSucceeds
  <2>2. TypeOK'
    BY <1>9, <2>1 DEF LinkerSucceeds, Goto, TypeOK, Phases
  <2>3. StageInv'
    BY <1>9 DEF LinkerSucceeds, Goto, TypeOK, StageInv, AfterOpening, BeforeEmission
  <2> QED
    BY <2>2, <2>3
<1>10. ASSUME NEW p \in Process, LinkerFails(p) PROVE TypeInv'
  <2>1. TypeOK'
    BY <1>10 DEF LinkerFails, Goto, TypeOK, Phases
  <2>2. StageInv'
    BY <1>10 DEF LinkerFails, Goto, TypeOK, StageInv, AfterOpening, BeforeEmission
  <2> QED
    BY <2>1, <2>2
<1>11. ASSUME NEW p \in Process, removeExecutable(p) \/ cleanupObject(p) PROVE TypeInv'
  <2>1. files' \in [Files -> Contents] /\ leftBehind' \subseteq Files /\ readOnly' \subseteq Files
    BY <1>11, OwnFiles, WrittenContents DEF removeExecutable, cleanupObject, Removed, NotRemoved,
          Write, TypeOK
  <2>2. TypeOK'
    BY <1>11, <2>1 DEF removeExecutable, cleanupObject, Goto, TypeOK, Phases
  <2>3. StageInv'
    BY <1>11 DEF removeExecutable, cleanupObject, Goto, TypeOK, StageInv, AfterOpening,
                 BeforeEmission
  <2> QED
    BY <2>2, <2>3
<1>12. ASSUME NEW p \in Process, Kill(p) PROVE TypeInv'
  <2>1. TypeOK'
    BY <1>12, OwnFiles DEF Kill, Goto, TypeOK, Phases
  <2>2. StageInv'
    BY <1>12 DEF Kill, UnderWay, Goto, TypeOK, StageInv, AfterOpening, BeforeEmission
  <2> QED
    BY <2>1, <2>2
<1>13. ASSUME NEW p \in Process, OrphanedLinkerEnds(p) PROVE TypeInv'
  <2>1. files' \in [Files -> Contents] /\ leftBehind' \subseteq Files
    BY <1>13, OwnFiles, LinksType DEF OrphanedLinkerEnds, TypeOK
  <2>2. TypeOK'
    BY <1>13, <2>1 DEF OrphanedLinkerEnds, Goto, TypeOK, Phases
  <2>3. StageInv'
    BY <1>13 DEF OrphanedLinkerEnds, Goto, TypeOK, StageInv, AfterOpening, BeforeEmission
  <2> QED
    BY <2>2, <2>3
<1> QED
  BY <1>1, <1>2, <1>3, <1>4, <1>5, <1>6, <1>7, <1>8, <1>9, <1>10, <1>11, <1>12, <1>13
     DEF Next, Step, Interruption

\* Types of the compile commands' state, in every reachable state.
THEOREM CommandTypes == Spec => []TypeOK
<1>1. Spec => []TypeInv
  BY InitType, StepType, PTL DEF Spec
<1>2. TypeInv => TypeOK
  BY DEF TypeInv
<1> QED
  BY <1>1, <1>2, PTL

----------------------------------------------------------------------------
(* What a step touches: the invocation's own state and its own two files. *)

LEMMA OwnStateOnly ==
    ASSUME TypeInv, NEW p \in Process, Start(p) \/ Step(p) \/ Interruption(p)
    PROVE  /\ output' = output
           /\ \A q \in Process \ {p} :
                 /\ phase'[q] = phase[q] /\ code'[q] = code[q] /\ runs'[q] = runs[q]
                 /\ opened'[q] = opened[q] /\ linked'[q] = linked[q] /\ before'[q] = before[q]
<1> USE DEF TypeInv, TypeOK
<1>1. CASE Start(p)
  BY <1>1 DEF Start, Goto
<1>2. CASE StageSucceeds(p) \/ StageFails(p)
  BY <1>2 DEF StageSucceeds, StageFails, Goto
<1>3. CASE EmitOpens(p) \/ EmitFailsUnopened(p) \/ EmitWrites(p) \/ EmitFailsWriting(p)
  BY <1>3 DEF EmitOpens, EmitFailsUnopened, EmitWrites, EmitFailsWriting, Goto
<1>4. CASE LinkerStarts(p) \/ LinkerSucceeds(p) \/ LinkerFails(p)
  BY <1>4 DEF LinkerStarts, LinkerSucceeds, LinkerFails, Goto
<1>5. CASE removeExecutable(p) \/ cleanupObject(p)
  BY <1>5 DEF removeExecutable, cleanupObject, Goto
<1>6. CASE Interruption(p)
  BY <1>6 DEF Interruption, Kill, OrphanedLinkerEnds, Goto
<1> QED
  BY <1>1, <1>2, <1>3, <1>4, <1>5, <1>6 DEF Step

\* The stages of a run, counted from its return.
StagesFrom ==
    [load |-> 13, parse |-> 12, check |-> 11, generate |-> 10, adaptNativeEntryPoint |-> 9,
     emit |-> 8, write |-> 7, findCompilerDriver |-> 6, findDefaultRuntimeLibrary |-> 5,
     link |-> 4, linking |-> 3, linkFailed |-> 2, cleanup |-> 1,
     idle |-> 0, exited |-> 0, killed |-> 0, orphaned |-> 0]

StagesLeft(p) == StagesFrom[phase[p]]

LEMMA OwnStepGoesOn ==
    ASSUME TypeInv, NEW p \in Process, Step(p) \/ Kill(p)
    PROVE  StagesLeft(p)' < StagesLeft(p)
<1>t. phase \in [Process -> Phases]
  BY DEF TypeInv, TypeOK
<1> USE <1>t DEF StagesLeft, StagesFrom, Phases, StageCode, Goto
<1>1. CASE StageSucceeds(p)
  BY <1>1 DEF StageSucceeds, NextPhase
<1>2. CASE StageFails(p)
  BY <1>2 DEF StageFails, BeforeEmission
<1>3. CASE EmitOpens(p) \/ EmitFailsUnopened(p) \/ EmitWrites(p) \/ EmitFailsWriting(p)
  BY <1>3 DEF EmitOpens, EmitFailsUnopened, EmitWrites, EmitFailsWriting
<1>4. CASE LinkerStarts(p) \/ LinkerSucceeds(p) \/ LinkerFails(p)
  BY <1>4 DEF LinkerStarts, LinkerSucceeds, LinkerFails
<1>5. CASE removeExecutable(p) \/ cleanupObject(p)
  BY <1>5 DEF removeExecutable, cleanupObject
<1>6. CASE Kill(p)
  BY <1>6 DEF Kill, UnderWay
<1> QED
  BY <1>1, <1>2, <1>3, <1>4, <1>5, <1>6 DEF Step

\* runCompileCommand: a run under way never comes back to a stage it has left,
\* whatever the other invocations do to the files it shares with them, and each
\* step of its own brings it nearer to its return.
THEOREM RunsGoForward ==
    Spec => [][\A p \in Process : UnderWay(p) =>
                  /\ StagesLeft(p)' <= StagesLeft(p)
                  /\ Step(p) => StagesLeft(p)' < StagesLeft(p)]_vars
<1> DEFINE Forward(p) == /\ StagesLeft(p)' <= StagesLeft(p)
                         /\ Step(p) => StagesLeft(p)' < StagesLeft(p)
<1>1. TypeInv /\ [Next]_vars => [\A p \in Process : UnderWay(p) => Forward(p)]_vars
  <2> SUFFICES ASSUME TypeInv, NEW q \in Process, Start(q) \/ Step(q) \/ Interruption(q),
                      NEW p \in Process, UnderWay(p)
               PROVE  Forward(p)
    BY DEF Next
  <2>1. Step(p) => StagesLeft(p)' < StagesLeft(p)
    BY OwnStepGoesOn
  <2>2. StagesLeft(p) \in Nat /\ StagesLeft(p)' \in Nat
    <3>1. phase \in [Process -> Phases] /\ phase' \in [Process -> Phases]
      BY StepType DEF TypeInv, TypeOK, Next
    <3> QED
      BY <3>1 DEF StagesLeft, StagesFrom, Phases, StageCode
  <2>3. CASE p = q
    <3>1. ~Start(p) /\ ~OrphanedLinkerEnds(p)
      BY DEF UnderWay, Start, OrphanedLinkerEnds
    <3> QED
      BY <2>1, <2>2, <2>3, <3>1, OwnStepGoesOn DEF Interruption
  <2>4. CASE p # q
    <3>1. StagesLeft(p)' = StagesLeft(p)
      BY <2>4, OwnStateOnly DEF StagesLeft
    <3> QED
      BY <2>1, <2>2, <3>1
  <2> QED
    BY <2>3, <2>4
<1>2. Spec => []TypeInv
  BY InitType, StepType, PTL DEF Spec
<1> QED
  BY <1>1, <1>2, PTL DEF Spec

LEMMA OwnFilesOnly ==
    ASSUME TypeInv, NEW p \in Process, Start(p) \/ Step(p) \/ Interruption(p),
           NEW file \in Files, file # Executable(p), file # Object(p)
    PROVE  files'[file] = files[file]
<1> USE DEF TypeInv, TypeOK
<1>1. CASE Start(p)
  BY <1>1 DEF Start
<1>2. CASE StageSucceeds(p) \/ StageFails(p)
  BY <1>2 DEF StageSucceeds, StageFails
<1>3. CASE EmitOpens(p) \/ EmitFailsUnopened(p) \/ EmitWrites(p) \/ EmitFailsWriting(p)
  BY <1>3 DEF EmitOpens, EmitFailsUnopened, EmitWrites, EmitFailsWriting, Write
<1>4. CASE LinkerStarts(p) \/ LinkerSucceeds(p) \/ LinkerFails(p)
  BY <1>4 DEF LinkerStarts, LinkerSucceeds, Links, LinkerFails, Write
<1>5. CASE removeExecutable(p) \/ cleanupObject(p)
  BY <1>5 DEF removeExecutable, cleanupObject, Removed, NotRemoved, Write
<1>6. CASE Interruption(p)
  BY <1>6 DEF Interruption, Kill, OrphanedLinkerEnds, Links, Write
<1> QED
  BY <1>1, <1>2, <1>3, <1>4, <1>5, <1>6 DEF Step

----------------------------------------------------------------------------
(* Object files are temporary. *)

\* This run's object file is still to be removed.
HoldsObject(p, path) == output[p] = path /\ UnderWay(p) /\ opened[p]

LEMMA InitObjects == Init => ObjectsAreTemporary
<1> SUFFICES ASSUME Init, NEW path \in Paths
             PROVE  files[ObjectAt(path)] \in {Absent, Foreign}
  BY DEF ObjectsAreTemporary
<1> QED
  BY FileNames DEF Init

LEMMA StepObjects == TypeInv /\ TypeInv' /\ ObjectsAreTemporary /\ [Next]_vars
                        => ObjectsAreTemporary'
<1> SUFFICES ASSUME TypeInv, TypeInv', ObjectsAreTemporary, [Next]_vars, NEW path \in Paths
             PROVE  \/ files'[ObjectAt(path)] \in {Absent, Foreign}
                    \/ ObjectAt(path) \in leftBehind'
                    \/ \E q \in Process : HoldsObject(q, path)'
  BY DEF ObjectsAreTemporary, HoldsObject, UnderWay
<1> DEFINE Kept == \/ files'[ObjectAt(path)] \in {Absent, Foreign}
                   \/ ObjectAt(path) \in leftBehind'
                   \/ \E q \in Process : HoldsObject(q, path)'
<1>1. \/ files[ObjectAt(path)] \in {Absent, Foreign}
      \/ ObjectAt(path) \in leftBehind
      \/ \E q \in Process : HoldsObject(q, path)
  BY DEF ObjectsAreTemporary, HoldsObject, UnderWay
<1>2. CASE UNCHANGED vars
  BY <1>1, <1>2 DEF vars, HoldsObject, UnderWay
<1>3. ASSUME NEW p \in Process, Start(p) \/ Step(p) \/ Interruption(p) PROVE Kept
  <2>1. ObjectAt(path) \in Files /\ ObjectAt(path) # Executable(p)
        /\ (ObjectAt(path) = Object(p) <=> output[p] = path)
    BY OwnFiles, FileNames DEF Executable, Object
  <2>2. ASSUME NEW q \in Process \ {p}, HoldsObject(q, path) PROVE Kept
    BY <1>3, <2>2, OwnStateOnly DEF HoldsObject, UnderWay
  <2>3. CASE Start(p)
    <3>1. ~HoldsObject(p, path) /\ files' = files /\ leftBehind' = leftBehind
      BY <2>3 DEF Start, HoldsObject, UnderWay
    <3> QED
      BY <1>1, <2>2, <3>1
  <2>4. CASE Kill(p)
    <3>1. files' = files /\ leftBehind \subseteq leftBehind'
          /\ (HoldsObject(p, path) => ObjectAt(path) \in leftBehind')
      BY <2>1, <2>4 DEF Kill, HoldsObject
    <3> QED
      BY <1>1, <2>2, <3>1
  <2>5. CASE cleanupObject(p)
    <3>1. CASE output[p] = path
      BY <2>1, <2>5, <3>1 DEF cleanupObject, Removed, NotRemoved, Write, TypeInv, TypeOK
    <3>2. CASE output[p] # path
      <4>1. files'[ObjectAt(path)] = files[ObjectAt(path)] /\ ~HoldsObject(p, path)
        BY <1>3, <2>1, <3>2, OwnFilesOnly DEF HoldsObject
      <4>2. ObjectAt(path) \in leftBehind => ObjectAt(path) \in leftBehind'
        BY <2>1, <2>5, <3>2 DEF cleanupObject, Removed, NotRemoved
      <4> QED
        BY <1>1, <2>2, <4>1, <4>2
    <3> QED
      BY <3>1, <3>2
  <2>6. CASE Step(p) /\ ~cleanupObject(p)
    <3>1. ObjectAt(path) \in leftBehind /\ ~(EmitOpens(p) /\ output[p] = path)
             => ObjectAt(path) \in leftBehind'
      BY <2>1, <2>6 DEF Step, StageSucceeds, StageFails, EmitOpens, EmitFailsUnopened, EmitWrites,
                        EmitFailsWriting, LinkerStarts, LinkerSucceeds, Links, LinkerFails,
                        removeExecutable, Removed, NotRemoved
    <3>2. HoldsObject(p, path) => HoldsObject(p, path)'
      <4> SUFFICES ASSUME HoldsObject(p, path) PROVE HoldsObject(p, path)'
        OBVIOUS
      <4>1. output' = output
        BY <1>3, OwnStateOnly
      <4>2. UnderWay(p)'
        BY <2>6 DEF Step, StageSucceeds, StageFails, EmitOpens, EmitFailsUnopened, EmitWrites,
                    EmitFailsWriting, LinkerStarts, LinkerSucceeds, LinkerFails, removeExecutable,
                    Goto, UnderWay, HoldsObject, TypeInv, TypeOK, StageInv, NextPhase, StageCode,
                    BeforeEmission
      <4>3. opened'[p]
        BY <2>6 DEF Step, StageSucceeds, StageFails, EmitOpens, EmitFailsUnopened, EmitWrites,
                    EmitFailsWriting, LinkerStarts, LinkerSucceeds, LinkerFails, removeExecutable,
                    HoldsObject, TypeInv, TypeOK
      <4> QED
        BY <4>1, <4>2, <4>3 DEF HoldsObject
    <3>3. CASE EmitOpens(p) \/ EmitWrites(p)
      <4>1. CASE output[p] = path
        <5>1. phase'[p] \in {"write", "findCompilerDriver"} /\ output' = output
          BY <3>3 DEF EmitOpens, EmitWrites, Goto, TypeInv, TypeOK
        <5> QED
          BY <4>1, <5>1 DEF HoldsObject, UnderWay, TypeInv, StageInv, AfterOpening
      <4>2. CASE output[p] # path
        <5>1. files'[ObjectAt(path)] = files[ObjectAt(path)]
          BY <1>3, <2>1, <4>2, OwnFilesOnly
        <5> QED
          BY <1>1, <2>2, <3>1, <3>2, <4>2, <5>1
      <4> QED
        BY <4>1, <4>2
    <3>4. CASE ~EmitOpens(p) /\ ~EmitWrites(p)
      <4>1. files'[ObjectAt(path)] = files[ObjectAt(path)]
        BY <2>1, <2>6, <3>4 DEF Step, StageSucceeds, StageFails, EmitFailsUnopened,
              EmitFailsWriting, LinkerStarts, LinkerSucceeds, Links, LinkerFails, removeExecutable,
              Removed, NotRemoved, Write, TypeInv, TypeOK
      <4> QED
        BY <1>1, <2>2, <3>1, <3>2, <3>4, <4>1
    <3> QED
      BY <3>3, <3>4
  <2>7. CASE OrphanedLinkerEnds(p)
    <3>1. /\ files'[ObjectAt(path)] = files[ObjectAt(path)]
          /\ ObjectAt(path) \in leftBehind => ObjectAt(path) \in leftBehind'
          /\ ~HoldsObject(p, path)
      BY <2>1, <2>7 DEF OrphanedLinkerEnds, Links, Write, HoldsObject, UnderWay, TypeInv, TypeOK
    <3> QED
      BY <1>1, <2>2, <3>1
  <2> QED
    BY <1>3, <2>3, <2>4, <2>5, <2>6, <2>7 DEF Interruption
<1> QED
  BY <1>2, <1>3 DEF Next

\* The object file is gone once every run that opened it has returned, whatever
\* the stages' outcomes, for any number of invocations with the same output path,
\* unless one was killed or could not remove it.
THEOREM ObjectsRemoved == Spec => []ObjectsAreTemporary
<1>1. Spec => [](TypeInv /\ ObjectsAreTemporary)
  BY InitType, StepType, InitObjects, StepObjects, PTL DEF Spec
<1> QED
  BY <1>1, PTL

----------------------------------------------------------------------------
(* A half-written executable has its linker. *)

LinksInto(p, path) == output[p] = path /\ phase[p] \in {"linking", "linkFailed"}

LEMMA InitExecutables == Init => NoPartialExecutable
<1> SUFFICES ASSUME Init, NEW path \in Paths
             PROVE  files[ExecutableAt(path)].kind # "partial"
  BY DEF NoPartialExecutable
<1>1. files[ExecutableAt(path)] \in {Absent, Foreign, Earlier}
  BY FileNames DEF Init
<1> QED
  BY <1>1 DEF Absent, Foreign, Earlier

LEMMA StepExecutables == TypeInv /\ NoPartialExecutable /\ [Next]_vars => NoPartialExecutable'
<1> SUFFICES ASSUME TypeInv, NoPartialExecutable, [Next]_vars, NEW path \in Paths
             PROVE  \/ files'[ExecutableAt(path)].kind # "partial"
                    \/ ExecutableAt(path) \in leftBehind'
                    \/ \E q \in Process : LinksInto(q, path)'
  BY DEF NoPartialExecutable, LinksInto
<1> DEFINE Kept == \/ files'[ExecutableAt(path)].kind # "partial"
                   \/ ExecutableAt(path) \in leftBehind'
                   \/ \E q \in Process : LinksInto(q, path)'
<1>1. \/ files[ExecutableAt(path)].kind # "partial"
      \/ ExecutableAt(path) \in leftBehind
      \/ \E q \in Process : LinksInto(q, path)
  BY DEF NoPartialExecutable, LinksInto
<1>2. CASE UNCHANGED vars
  BY <1>1, <1>2 DEF vars, LinksInto
<1>3. ASSUME NEW p \in Process, Start(p) \/ Step(p) \/ Interruption(p) PROVE Kept
  <2>1. ExecutableAt(path) \in Files /\ ExecutableAt(path) # Object(p)
        /\ (ExecutableAt(path) = Executable(p) <=> output[p] = path)
    BY OwnFiles, FileNames DEF Executable, Object
  <2>2. ASSUME NEW q \in Process \ {p}, LinksInto(q, path) PROVE Kept
    BY <1>3, <2>2, OwnStateOnly DEF LinksInto
  <2>3. CASE output[p] # path
    <3>1. files'[ExecutableAt(path)] = files[ExecutableAt(path)] /\ ~LinksInto(p, path)
      BY <1>3, <2>1, <2>3, OwnFilesOnly DEF LinksInto
    <3>2. ExecutableAt(path) \in leftBehind => ExecutableAt(path) \in leftBehind'
      BY <1>3, <2>1, <2>3 DEF Start, Interruption, Kill, OrphanedLinkerEnds, Step, StageSucceeds,
            StageFails, EmitOpens, EmitFailsUnopened, EmitWrites, EmitFailsWriting, LinkerStarts,
            LinkerSucceeds, Links, LinkerFails, removeExecutable, cleanupObject, Removed,
            NotRemoved
    <3> QED
      BY <1>1, <2>2, <3>1, <3>2
  <2>4. CASE output[p] = path /\ (LinkerStarts(p) \/ LinkerFails(p))
    BY <2>4 DEF LinkerStarts, LinkerFails, Goto, LinksInto, TypeInv, TypeOK
  <2>5. CASE output[p] = path /\ removeExecutable(p)
    BY <2>1, <2>5 DEF removeExecutable, Removed, NotRemoved, Write, Absent, TypeInv, TypeOK
  <2>6. CASE output[p] = path /\ (LinkerSucceeds(p) \/ OrphanedLinkerEnds(p))
    BY <2>1, <2>6 DEF LinkerSucceeds, OrphanedLinkerEnds, Links, Write, Absent, TypeInv, TypeOK
  <2>7. CASE output[p] = path /\ Kill(p)
    <3>1. files' = files /\ leftBehind \subseteq leftBehind'
          /\ (LinksInto(p, path) => ExecutableAt(path) \in leftBehind')
      BY <2>1, <2>7 DEF Kill, LinksInto
    <3> QED
      BY <1>1, <2>2, <3>1
  <2>8. CASE \/ Start(p) \/ StageSucceeds(p) \/ StageFails(p) \/ EmitOpens(p)
             \/ EmitFailsUnopened(p) \/ EmitWrites(p) \/ EmitFailsWriting(p) \/ cleanupObject(p)
    <3>1. files'[ExecutableAt(path)] = files[ExecutableAt(path)]
      BY <2>1, <2>8 DEF Start, StageSucceeds, StageFails, EmitOpens, EmitFailsUnopened,
            EmitWrites, EmitFailsWriting, cleanupObject, Removed, NotRemoved, Write, TypeInv,
            TypeOK
    <3>2. ExecutableAt(path) \in leftBehind => ExecutableAt(path) \in leftBehind'
      BY <2>1, <2>8 DEF Start, StageSucceeds, StageFails, EmitOpens, EmitFailsUnopened,
            EmitWrites, EmitFailsWriting, cleanupObject, Removed, NotRemoved
    <3>3. ~LinksInto(p, path)
      BY <2>8 DEF Start, StageSucceeds, StageFails, EmitOpens, EmitFailsUnopened, EmitWrites,
            EmitFailsWriting, cleanupObject, LinksInto, StageCode
    <3> QED
      BY <1>1, <2>2, <3>1, <3>2, <3>3
  <2> QED
    BY <1>3, <2>3, <2>4, <2>5, <2>6, <2>7, <2>8 DEF Step, Interruption
<1> QED
  BY <1>2, <1>3 DEF Next

\* What stands at an output path after every command has returned is whole, unless
\* a killed command left it or its removal failed.
THEOREM NoHalfWrittenExecutable == Spec => []NoPartialExecutable
<1>1. Spec => [](TypeInv /\ NoPartialExecutable)
  BY InitType, StepType, InitExecutables, StepExecutables, PTL DEF Spec
<1> QED
  BY <1>1, PTL

----------------------------------------------------------------------------
(* What the exit code says of the output path.                              *)
(*                                                                          *)
(* OwnOutput(p) follows the two files of an invocation nobody disturbs      *)
(* through its stages.  It is kept by a step of p while every other         *)
(* invocation with its output path rests, and by every step of an           *)
(* invocation with another output path.                                     *)

\* Only invocations with this output path write its object file.
Writers == \A path \in Paths :
    files[ObjectAt(path)].kind = "writing" =>
        \A q \in files[ObjectAt(path)].by : output[q] = path

Undisturbed(p) == \A q \in Process \ {p} : output[q] = output[p] => ~AtWork(q)

OwnObject(p) ==
    /\ phase[p] = "write" => files[Object(p)] = [kind |-> "writing", by |-> {p}]
    /\ phase[p] \in {"findCompilerDriver", "findDefaultRuntimeLibrary", "link"} =>
          files[Object(p)] = [kind |-> "object", of |-> Source(p)]
    /\ phase[p] = "linking" => linked[p] = [kind |-> "object", of |-> Source(p)]

OwnExecutable(p) ==
    /\ phase[p] \in DOMAIN StageCode \cup {"emit", "write", "link"} =>
          files[Executable(p)] = before[p]
    /\ phase[p] = "linking" => files[Executable(p)] = [kind |-> "partial"]
    /\ phase[p] = "linkFailed" =>
          code[p] = 11 /\ files[Executable(p)] \in {before[p], [kind |-> "partial"]}
    /\ phase[p] \in {"cleanup", "exited"} =>
          /\ code[p] = 0 => files[Executable(p)] = [kind |-> "executable", of |-> Source(p)]
          /\ code[p] = 11 => \/ files[Executable(p)] = Absent
                             \/ /\ Executable(p) \in leftBehind
                                /\ files[Executable(p)] \in {before[p], [kind |-> "partial"]}
          /\ code[p] \notin {0, 11} => files[Executable(p)] = before[p]

OwnOutput(p) == OwnObject(p) /\ OwnExecutable(p)

LEMMA InitWriters == Init => Writers
<1> SUFFICES ASSUME Init, NEW path \in Paths
             PROVE  files[ObjectAt(path)].kind # "writing"
  BY DEF Writers
<1>1. files[ObjectAt(path)] \in {Absent, Foreign, Earlier}
  BY FileNames DEF Init
<1> QED
  BY <1>1 DEF Absent, Foreign, Earlier

LEMMA StepWriters == TypeInv /\ Writers /\ [Next]_vars => Writers'
<1> SUFFICES ASSUME TypeInv, Writers, [Next]_vars, NEW path \in Paths,
                    files'[ObjectAt(path)].kind = "writing"
             PROVE  \A q \in files'[ObjectAt(path)].by : output'[q] = path
  BY DEF Writers
<1>1. CASE UNCHANGED vars
  BY <1>1 DEF vars, Writers
<1>2. ASSUME NEW p \in Process, Start(p) \/ Step(p) \/ Interruption(p)
      PROVE  \A q \in files'[ObjectAt(path)].by : output'[q] = path
  <2>1. output' = output
    BY <1>2, OwnStateOnly
  <2>2. ObjectAt(path) \in Files /\ ObjectAt(path) # Executable(p)
        /\ (ObjectAt(path) = Object(p) <=> output[p] = path)
    BY OwnFiles, FileNames DEF Executable, Object
  <2>3. CASE files'[ObjectAt(path)] = files[ObjectAt(path)]
    BY <2>1, <2>3 DEF Writers
  <2>4. CASE files'[ObjectAt(path)] # files[ObjectAt(path)]
    <3>1. output[p] = path
      BY <1>2, <2>2, <2>4, OwnFilesOnly
    <3>2. CASE EmitOpens(p)
      <4>1. \A q \in files'[ObjectAt(path)].by :
               q = p \/ (files[ObjectAt(path)].kind = "writing" /\ q \in files[ObjectAt(path)].by)
        BY <2>2, <3>1, <3>2 DEF EmitOpens, Write, TypeInv, TypeOK
      <4> QED
        BY <2>1, <3>1, <4>1 DEF Writers
    <3>3. CASE EmitWrites(p) \/ cleanupObject(p)
      BY <2>2, <2>4, <3>1, <3>3 DEF EmitWrites, cleanupObject, Removed, NotRemoved, Write, Absent,
            TypeInv, TypeOK
    <3>4. CASE ~EmitOpens(p) /\ ~EmitWrites(p) /\ ~cleanupObject(p)
      BY <1>2, <2>2, <2>4, <3>4 DEF Step, Start, Interruption, Kill, OrphanedLinkerEnds,
            StageSucceeds, StageFails, EmitFailsUnopened, EmitFailsWriting, LinkerStarts,
            LinkerSucceeds, Links, LinkerFails, removeExecutable, Removed, NotRemoved, Write,
            TypeInv, TypeOK
    <3> QED
      BY <3>2, <3>3, <3>4
  <2> QED
    BY <2>3, <2>4
<1> QED
  BY <1>1, <1>2 DEF Next

\* Whether a file has been left behind is changed by those that may write it.
LEMMA OwnFlagsOnly ==
    ASSUME NEW p \in Process, Start(p) \/ Step(p) \/ Interruption(p),
           NEW file, file # Executable(p), file # Object(p)
    PROVE  file \in leftBehind' <=> file \in leftBehind
BY DEF Start, Interruption, Kill, OrphanedLinkerEnds, Step, StageSucceeds, StageFails, EmitOpens,
       EmitFailsUnopened, EmitWrites, EmitFailsWriting, LinkerStarts, LinkerSucceeds, Links,
       LinkerFails, removeExecutable, cleanupObject, Removed, NotRemoved

\* An invocation with another output path changes nothing of this one's.
LEMMA OthersKeepOwnOutput ==
    ASSUME TypeInv, NEW p \in Process, NEW q \in Process \ {p}, output[q] # output[p],
           OwnOutput(p), Start(q) \/ Step(q) \/ Interruption(q)
    PROVE  OwnOutput(p)'
<1>1. /\ output' = output /\ phase'[p] = phase[p] /\ code'[p] = code[p] /\ runs'[p] = runs[p]
      /\ linked'[p] = linked[p] /\ before'[p] = before[p]
  BY OwnStateOnly
<1>2. /\ Executable(p) \in Files /\ Object(p) \in Files
      /\ Executable(p) \notin {Executable(q), Object(q)}
      /\ Object(p) \notin {Executable(q), Object(q)}
  BY OwnFiles, FileNames DEF Executable, Object
<1>3. files'[Executable(p)] = files[Executable(p)] /\ files'[Object(p)] = files[Object(p)]
  BY <1>2, OwnFilesOnly
<1>4. Executable(p)' = Executable(p) /\ Object(p)' = Object(p) /\ Source(p)' = Source(p)
  BY <1>1 DEF Executable, Object, Source
<1>5. OwnObject(p)'
  BY <1>1, <1>3, <1>4 DEF OwnOutput, OwnObject
<1>6. OwnExecutable(p)'
  BY <1>1, <1>2, <1>3, <1>4, OwnFlagsOnly DEF OwnOutput, OwnExecutable
<1> QED
  BY <1>5, <1>6 DEF OwnOutput

LEMMA KeepsOwnOutput ==
    ASSUME TypeInv, Writers, NEW p \in Process, Undisturbed(p), OwnOutput(p),
           Start(p) \/ Step(p) \/ Interruption(p)
    PROVE  OwnOutput(p)'
<1>1. Executable(p) \in Files /\ Object(p) \in Files /\ Executable(p) # Object(p)
  BY OwnFiles
<1>2. output' = output /\ Executable(p)' = Executable(p) /\ Object(p)' = Object(p)
  BY OwnStateOnly DEF Executable, Object
<1> USE DEF TypeInv, TypeOK, OwnOutput
<1>3. CASE Start(p)
  <2>1. phase'[p] = "load" /\ before'[p] = files[Executable(p)] /\ files' = files
    BY <1>3 DEF Start, Goto
  <2> QED
    BY <1>2, <2>1 DEF OwnObject, OwnExecutable, StageCode
<1>4. CASE Interruption(p)
  <2>1. phase'[p] \in {"killed", "orphaned"}
    BY <1>4 DEF Interruption, Kill, OrphanedLinkerEnds, Goto
  <2> QED
    BY <2>1 DEF OwnObject, OwnExecutable, StageCode
<1>5. CASE StageSucceeds(p) \/ StageFails(p)
  <2>1. /\ files' = files /\ before' = before /\ Source(p)' = Source(p)
        /\ phase[p] \in DOMAIN StageCode
    BY <1>5 DEF StageSucceeds, StageFails, Source
  <2>2. CASE StageSucceeds(p)
    <3>1. phase'[p] = NextPhase[phase[p]]
      BY <2>2 DEF StageSucceeds, Goto
    <3>2. OwnObject(p)'
      BY <1>2, <2>1, <3>1 DEF OwnObject, StageCode, NextPhase
    <3>3. OwnExecutable(p)'
      BY <1>2, <2>1, <3>1 DEF OwnExecutable, StageCode, NextPhase
    <3> QED
      BY <3>2, <3>3
  <2>3. CASE StageFails(p)
    <3>1. phase'[p] \in {"exited", "cleanup"} /\ code'[p] = StageCode[phase[p]]
      BY <2>3 DEF StageFails, Goto
    <3>2. code'[p] \notin {0, 11}
      BY <2>1, <3>1 DEF StageCode
    <3>3. OwnObject(p)'
      BY <3>1 DEF OwnObject
    <3>4. OwnExecutable(p)'
      BY <1>2, <2>1, <3>1, <3>2 DEF OwnExecutable, StageCode
    <3> QED
      BY <3>3, <3>4
  <2> QED
    BY <1>5, <2>2, <2>3
<1>6. CASE EmitOpens(p)
  <2>1. phase'[p] = "write" /\ before' = before
    BY <1>6 DEF EmitOpens, Goto
  <2>2. files'[Object(p)] = [kind |-> "writing", by |-> {p}]
    <3>1. ASSUME files[Object(p)].kind = "writing"
          PROVE  files[Object(p)].by \cap Writing \subseteq {p}
      <4>1. \A q \in files[Object(p)].by : output[q] = output[p]
        BY <3>1 DEF Writers, Object
      <4> QED
        BY <4>1 DEF Undisturbed, AtWork, UnderWay, Writing
    <3> QED
      BY <1>1, <1>6, <3>1 DEF EmitOpens, Write
  <2>3. files'[Executable(p)] = files[Executable(p)]
    BY <1>1, <1>6 DEF EmitOpens, Write
  <2>4. OwnObject(p)'
    BY <1>2, <2>1, <2>2 DEF OwnObject
  <2>5. OwnExecutable(p)'
    BY <1>2, <1>6, <2>1, <2>3 DEF OwnExecutable, EmitOpens, StageCode
  <2> QED
    BY <2>4, <2>5
<1>7. CASE EmitFailsUnopened(p) \/ EmitFailsWriting(p)
  <2>1. /\ phase[p] \in {"emit", "write"} /\ phase'[p] = "cleanup" /\ code'[p] = 8
        /\ files' = files /\ before' = before
    BY <1>7 DEF EmitFailsUnopened, EmitFailsWriting, Goto
  <2> QED
    BY <1>2, <2>1 DEF OwnObject, OwnExecutable, StageCode
<1>8. CASE EmitWrites(p)
  <2>1. /\ phase[p] = "write" /\ phase'[p] = "findCompilerDriver" /\ before' = before
        /\ Source(p)' = Source(p)
    BY <1>8 DEF EmitWrites, Goto, Source
  <2>2. files[Object(p)] = [kind |-> "writing", by |-> {p}]
    BY <2>1 DEF OwnObject
  <2>3. files' = [files EXCEPT ![Object(p)] = [kind |-> "object", of |-> Source(p)]]
    BY <1>8, <2>2 DEF EmitWrites, Write
  <2>4. OwnObject(p)'
    BY <1>1, <1>2, <2>1, <2>3 DEF OwnObject
  <2>5. OwnExecutable(p)'
    BY <1>1, <1>2, <2>1, <2>3 DEF OwnExecutable, StageCode
  <2> QED
    BY <2>4, <2>5
<1>9. CASE LinkerStarts(p)
  <2>1. /\ phase[p] = "link" /\ phase'[p] = "linking" /\ linked'[p] = files[Object(p)]
        /\ files'[Executable(p)] = [kind |-> "partial"] /\ Source(p)' = Source(p)
    BY <1>1, <1>9 DEF LinkerStarts, Goto, Write, Source
  <2>2. OwnObject(p)'
    BY <2>1 DEF OwnObject
  <2>3. OwnExecutable(p)'
    BY <1>2, <2>1 DEF OwnExecutable, StageCode
  <2> QED
    BY <2>2, <2>3
<1>10. CASE LinkerSucceeds(p)
  <2>1. phase[p] = "linking" /\ phase'[p] = "cleanup" /\ code'[p] = 0 /\ Source(p)' = Source(p)
    BY <1>10 DEF LinkerSucceeds, Goto, Source
  <2>2. files[Executable(p)] # Absent /\ linked[p].of = Source(p)
    BY <2>1 DEF OwnObject, OwnExecutable, Absent
  <2>3. files'[Executable(p)] = [kind |-> "executable", of |-> Source(p)]
    BY <1>1, <1>10, <2>2 DEF LinkerSucceeds, Links, Write
  <2> QED
    BY <1>2, <2>1, <2>3 DEF OwnObject, OwnExecutable, StageCode
<1>11. CASE LinkerFails(p)
  <2>1. /\ phase[p] \in {"link", "linking"} /\ phase'[p] = "linkFailed" /\ code'[p] = 11
        /\ files' = files /\ before' = before
    BY <1>11 DEF LinkerFails, Goto
  <2> QED
    BY <1>2, <2>1 DEF OwnObject, OwnExecutable, StageCode
<1>12. CASE removeExecutable(p)
  <2>1. /\ phase[p] = "linkFailed" /\ phase'[p] = "cleanup" /\ code' = code /\ before' = before
        /\ \/ files'[Executable(p)] = Absent
           \/ files' = files /\ Executable(p) \in leftBehind'
    BY <1>1, <1>12 DEF removeExecutable, Removed, NotRemoved, Goto, Write
  <2> QED
    BY <1>2, <2>1 DEF OwnObject, OwnExecutable, StageCode
<1>13. CASE cleanupObject(p)
  <2>1. /\ phase[p] = "cleanup" /\ phase'[p] = "exited" /\ code' = code /\ before' = before
        /\ files'[Executable(p)] = files[Executable(p)] /\ Source(p)' = Source(p)
        /\ Executable(p) \in leftBehind => Executable(p) \in leftBehind'
    BY <1>1, <1>13 DEF cleanupObject, Removed, NotRemoved, Goto, Write, Source
  <2> QED
    BY <1>2, <2>1 DEF OwnObject, OwnExecutable, StageCode
<1> QED
  BY <1>3, <1>4, <1>5, <1>6, <1>7, <1>8, <1>9, <1>10, <1>11, <1>12, <1>13 DEF Step

SoleOutput == \A p \in Process : Sole(p) => OwnOutput(p)

LEMMA InitSole == Init => SoleOutput
BY DEF Init, SoleOutput, OwnOutput, OwnObject, OwnExecutable, StageCode

LEMMA StepSole == TypeInv /\ Writers /\ SoleOutput /\ [Next]_vars => SoleOutput'
<1> SUFFICES ASSUME TypeInv, Writers, SoleOutput, [Next]_vars, NEW p \in Process, Sole(p)'
             PROVE  OwnOutput(p)'
  BY DEF SoleOutput
<1>1. CASE UNCHANGED vars
  BY <1>1 DEF vars, SoleOutput, Sole, OwnOutput, OwnObject, OwnExecutable, Object, Executable,
              Source
<1>2. ASSUME NEW q \in Process, Start(q) \/ Step(q) \/ Interruption(q) PROVE OwnOutput(p)'
  <2>1. Sole(p)
    BY <1>2, OwnStateOnly DEF Sole
  <2>2. OwnOutput(p)
    BY <2>1 DEF SoleOutput
  <2>3. CASE q = p
    <3>1. Undisturbed(p)
      BY <2>1 DEF Sole, Undisturbed
    <3> QED
      BY <1>2, <2>2, <2>3, <3>1, KeepsOwnOutput
  <2>4. CASE q # p
    BY <1>2, <2>1, <2>2, <2>4, OthersKeepOwnOutput DEF Sole
  <2> QED
    BY <2>3, <2>4
<1> QED
  BY <1>1, <1>2 DEF Next

LEMMA OutcomeOfOwnOutput == SoleOutput => OutputByExitCode
<1> SUFFICES ASSUME SoleOutput, NEW p \in Process, phase[p] = "exited", Sole(p)
             PROVE  LET found == files[Executable(p)]
                    IN  CASE code[p] = 0            -> found = [kind |-> "executable", of |-> Source(p)]
                          [] code[p] = 11           -> \/ found = Absent
                                                       \/ /\ Executable(p) \in leftBehind
                                                          /\ found \in {before[p], [kind |-> "partial"]}
                          [] code[p] \in {2, 4, 5} -> found = before[p]
                          [] OTHER                  -> found \in {Absent, before[p]}
  BY DEF OutputByExitCode
<1>1. /\ code[p] = 0 => files[Executable(p)] = [kind |-> "executable", of |-> Source(p)]
      /\ code[p] = 11 => \/ files[Executable(p)] = Absent
                         \/ /\ Executable(p) \in leftBehind
                            /\ files[Executable(p)] \in {before[p], [kind |-> "partial"]}
      /\ code[p] \notin {0, 11} => files[Executable(p)] = before[p]
  BY DEF SoleOutput, OwnOutput, OwnExecutable
<1> QED
  BY <1>1

\* A command with its output path to itself, among any number of others: exit code
\* 0 means its own executable; 11 none, unless it could not be removed; an error in
\* the source what was there before; any other one nothing new.
THEOREM ExitCodes == Spec => []OutputByExitCode
<1>1. Spec => [](TypeInv /\ Writers /\ SoleOutput)
  BY InitType, StepType, InitWriters, StepWriters, InitSole, StepSole, PTL DEF Spec
<1> QED
  BY <1>1, OutcomeOfOwnOutput, PTL

----------------------------------------------------------------------------
(* The editor's commands *)

\* The commands take the compile command's own steps, or none.
LEMMA EditorTakesCommandSteps == [EditorNext]_<<vars, editorVars>> => [Next]_vars
BY DEF EditorNext, Edit, Save, Command, getActiveKaiFile, documentSaved, giveUp, compileFile,
       Compiler, buildCurrentFile, runCurrentFile, Next, vars, editorVars

Places == {"none", "saving", "building", "compiling", "launching", "done"}

EditorTypeOK ==
    /\ text \in Nat /\ disk \in Nat /\ disk <= text
    /\ doing \in [Process -> Places]
    /\ isRun \in [Process -> BOOLEAN]
    /\ asked \in [Process -> Nat]
    /\ compiled \in [Process -> Nat]
    /\ launched \in [Process -> Contents]
    /\ overlapped \subseteq Process

\* A command's compiler runs while the command waits for it, once; the file holds
\* the text the command was given on, or a later one, from the save on.
TextInv == \A p \in Process :
    /\ AtWork(p) => doing[p] = "compiling"
    /\ doing[p] \in {"none", "saving", "building"} => phase[p] = "idle" /\ compiled[p] = NoText
    /\ doing[p] = "saving" => asked[p] <= text
    /\ doing[p] \in {"building", "compiling"} => asked[p] <= disk
    /\ compiled[p] # NoText => compiled[p] >= asked[p]

EditorInv == TypeInv /\ EditorTypeOK /\ TextInv

USE TextAssumption

LEMMA InitEditor == EditorInit => EditorInv
<1> SUFFICES ASSUME EditorInit PROVE EditorInv
  OBVIOUS
<1>1. TypeInv
  BY InitType DEF EditorInit
<1>2. EditorTypeOK
  BY WrittenContents DEF EditorInit, EditorTypeOK, Places, NoText
<1>3. TextInv
  BY DEF EditorInit, Init, TextInv, AtWork, UnderWay
<1> QED
  BY <1>1, <1>2, <1>3 DEF EditorInv

\* Only the compile command's steps change its phase, and only Start leaves "idle".
LEMMA StepEditorText == EditorInv /\ [EditorNext]_<<vars, editorVars>> => EditorInv'
<1> SUFFICES ASSUME EditorInv, [EditorNext]_<<vars, editorVars>> PROVE EditorInv'
  OBVIOUS
<1>1. TypeInv'
  BY StepType, EditorTakesCommandSteps DEF EditorInv
<1> DEFINE Kept == EditorTypeOK' /\ TextInv'
<1>2. CASE UNCHANGED <<vars, editorVars>>
  BY <1>1, <1>2 DEF vars, editorVars, documentVars, commandVars, EditorInv, EditorTypeOK, TextInv,
                    AtWork, UnderWay
<1>3. CASE EditorNext
  <2> USE DEF EditorInv
  <2>1. overlapped' \subseteq Process
    BY <1>3 DEF EditorNext, EditorTypeOK
  <2>2. CASE Edit \/ Save
    <3>1. UNCHANGED <<phase, commandVars, compiled>>
      BY <2>2 DEF Edit, Save, vars
    <3>2. /\ text' \in Nat /\ disk' \in Nat /\ disk' <= text'
          /\ text <= text' /\ disk <= disk'
      BY <2>2 DEF Edit, Save, EditorTypeOK
    <3>3. EditorTypeOK'
      BY <2>1, <3>1, <3>2 DEF EditorTypeOK, commandVars
    <3>4. TextInv'
      BY <3>1, <3>2 DEF EditorTypeOK, TextInv, AtWork, UnderWay, commandVars
    <3> QED
      BY <1>1, <3>3, <3>4
  <2>3. ASSUME NEW p \in Process, getActiveKaiFile(p) PROVE Kept
    <3>1. EditorTypeOK'
      BY <2>1, <2>3 DEF getActiveKaiFile, At, Go, EditorTypeOK, documentVars, Places
    <3>2. TextInv'
      BY <2>3 DEF getActiveKaiFile, At, Go, EditorTypeOK, TextInv, AtWork, UnderWay,
            documentVars, vars
    <3> QED
      BY <3>1, <3>2
  <2>4. ASSUME NEW p \in Process, documentSaved(p) PROVE Kept
    <3>1. EditorTypeOK'
      BY <2>1, <2>4 DEF documentSaved, At, Go, EditorTypeOK, Places
    <3>2. TextInv'
      BY <2>4 DEF documentSaved, At, Go, EditorTypeOK, TextInv, AtWork, UnderWay, vars
    <3> QED
      BY <3>1, <3>2
  <2>5. ASSUME NEW p \in Process, giveUp(p) \/ buildCurrentFile(p) PROVE Kept
    <3>1. EditorTypeOK'
      BY <2>1, <2>5 DEF giveUp, buildCurrentFile, At, Go, EditorTypeOK, documentVars, Places
    <3>2. TextInv'
      BY <2>5 DEF giveUp, buildCurrentFile, At, Go, EditorTypeOK, TextInv, AtWork, UnderWay,
            documentVars, vars
    <3> QED
      BY <3>1, <3>2
  <2>6. ASSUME NEW p \in Process, compileFile(p) PROVE Kept
    <3>1. EditorTypeOK'
      BY <2>1, <2>6 DEF compileFile, At, Go, EditorTypeOK, documentVars, Places
    <3>2. TextInv'
      BY <2>6 DEF compileFile, Start, Goto, At, Go, EditorTypeOK, TextInv, AtWork, UnderWay,
            documentVars, TypeInv, TypeOK
    <3> QED
      BY <3>1, <3>2
  <2>7. ASSUME NEW p \in Process, Compiler(p) PROVE Kept
    <3>1. EditorTypeOK'
      BY <2>1, <2>7 DEF Compiler, EditorTypeOK, documentVars, commandVars
    <3>2. AtWork(p) /\ phase'[p] # "idle"
      BY <2>7 DEF Compiler, Step, Interruption, Kill, OrphanedLinkerEnds, StageSucceeds,
            StageFails, EmitOpens, EmitFailsUnopened, EmitWrites, EmitFailsWriting, LinkerStarts,
            LinkerSucceeds, LinkerFails, removeExecutable, cleanupObject, Goto, AtWork, UnderWay,
            StageCode, NextPhase, TypeInv, TypeOK
    <3>3. doing[p] = "compiling"
      BY <3>2 DEF TextInv
    <3>4. \A q \in Process \ {p} : phase'[q] = phase[q]
      BY <2>7, OwnStateOnly DEF Compiler
    <3>5. /\ UNCHANGED <<documentVars, commandVars>>
          /\ compiled' \in {compiled, [compiled EXCEPT ![p] = disk]}
      BY <2>7 DEF Compiler
    <3>6. TextInv'
      BY <3>3, <3>4, <3>5 DEF EditorTypeOK, TextInv, AtWork, UnderWay, documentVars, commandVars
    <3> QED
      BY <3>1, <3>6
  <2>8. ASSUME NEW p \in Process, runCurrentFile(p) PROVE Kept
    <3>1. Executable(p) \in Files
      BY OwnFiles
    <3>2. EditorTypeOK'
      BY <2>1, <2>8, <3>1 DEF runCurrentFile, At, Go, EditorTypeOK, documentVars, Places, TypeInv,
                              TypeOK
    <3>3. TextInv'
      BY <2>8 DEF runCurrentFile, At, Go, EditorTypeOK, TextInv, AtWork, UnderWay, documentVars,
            vars
    <3> QED
      BY <3>2, <3>3
  <2> QED
    BY <1>1, <1>3, <2>2, <2>3, <2>4, <2>5, <2>6, <2>7, <2>8 DEF EditorNext, Command
<1> QED
  BY <1>1, <1>2, <1>3 DEF EditorInv

----------------------------------------------------------------------------
(* A Run never starts what was at the output path before its own build. *)

\* No step puts an earlier compilation's executable anywhere.
LEMMA NothingBecomesEarlier ==
    ASSUME TypeInv, NEW p \in Process, Start(p) \/ Step(p) \/ Interruption(p),
           NEW file \in Files, files[file] # Earlier
    PROVE  files'[file] # Earlier
<1> USE DEF TypeInv, TypeOK
<1>1. CASE file # Executable(p) /\ file # Object(p)
  BY <1>1, OwnFilesOnly
<1>2. CASE file = Object(p)
  <2>1. Object(p) \in Files /\ Object(p) # Executable(p)
    BY OwnFiles
  <2>2. CASE EmitOpens(p) \/ EmitWrites(p) \/ cleanupObject(p)
    BY <1>2, <2>1, <2>2 DEF EmitOpens, EmitWrites, cleanupObject, Removed, NotRemoved,
          Write, Earlier, Absent
  <2>3. CASE ~EmitOpens(p) /\ ~EmitWrites(p) /\ ~cleanupObject(p)
    BY <1>2, <2>1, <2>3 DEF Step, Start, Interruption, Kill, OrphanedLinkerEnds, StageSucceeds,
          StageFails, EmitFailsUnopened, EmitFailsWriting, LinkerStarts, LinkerSucceeds, Links,
          LinkerFails, removeExecutable, Removed, NotRemoved, Write
  <2> QED
    BY <2>2, <2>3
<1>3. CASE file = Executable(p)
  <2>1. Executable(p) \in Files /\ Object(p) # Executable(p)
    BY OwnFiles
  <2>2. CASE LinkerStarts(p) \/ removeExecutable(p)
    BY <1>3, <2>1, <2>2 DEF LinkerStarts, removeExecutable, Removed, NotRemoved, Write, Earlier,
          Absent
  <2>3. CASE Links(p)
    <3>1. linked[p].of \in Sources \cup {Mixed}
      BY <2>3, KindsOfContents DEF Links
    <3>2. [kind |-> "executable", of |-> linked[p].of] # Earlier
      BY <3>1 DEF Sources, Mixed, Earlier
    <3> QED
      BY <1>3, <2>1, <2>3, <3>2 DEF Links, Write
  <2>4. CASE ~LinkerStarts(p) /\ ~removeExecutable(p) /\ ~Links(p)
    BY <1>3, <2>1, <2>4 DEF Step, Start, Interruption, Kill, OrphanedLinkerEnds, StageSucceeds,
          StageFails, EmitOpens, EmitFailsUnopened, EmitWrites, EmitFailsWriting, LinkerSucceeds,
          LinkerFails, cleanupObject, Removed, NotRemoved, Write
  <2> QED
    BY <2>2, <2>3, <2>4
<1> QED
  BY <1>1, <1>2, <1>3

\* Once its linker has begun, and ever after it has succeeded, what is at a
\* command's output path was linked after that.
RelinkedInv == \A p \in Process :
    phase[p] = "linking" \/ (phase[p] \in {"cleanup", "exited"} /\ code[p] = 0) =>
        files[Executable(p)] # Earlier

LEMMA StepRelinked == TypeInv /\ TypeInv' /\ RelinkedInv /\ [Next]_vars => RelinkedInv'
<1> SUFFICES ASSUME TypeInv, TypeInv', RelinkedInv, [Next]_vars, NEW p \in Process,
                    phase'[p] = "linking" \/ (phase'[p] \in {"cleanup", "exited"} /\ code'[p] = 0)
             PROVE  files'[Executable(p)'] # Earlier
  BY DEF RelinkedInv, Earlier
<1> DEFINE Relinked == phase[p] = "linking" \/ (phase[p] \in {"cleanup", "exited"} /\ code[p] = 0)
<1>1. CASE UNCHANGED vars
  BY <1>1 DEF vars, RelinkedInv, Executable
<1>2. ASSUME NEW q \in Process, Start(q) \/ Step(q) \/ Interruption(q)
      PROVE  files'[Executable(p)'] # Earlier
  <2>1. Executable(p)' = Executable(p) /\ Executable(p) \in Files
    BY <1>2, OwnStateOnly, OwnFiles DEF Executable
  <2>2. CASE Relinked
    BY <1>2, <2>1, <2>2, NothingBecomesEarlier DEF RelinkedInv
  <2>3. CASE ~Relinked
    <3>1. q = p
      BY <1>2, <2>3, OwnStateOnly
    <3>2. LinkerStarts(p)
      <4> USE DEF TypeInv, TypeOK
      <4>1. CASE Start(p) \/ Interruption(p)
        BY <4>1 DEF Start, Interruption, Kill, OrphanedLinkerEnds, Goto
      <4>2. CASE StageSucceeds(p)
        BY <4>2 DEF StageSucceeds, Goto, StageCode, NextPhase
      <4>3. CASE StageFails(p)
        <5>1. code'[p] # 0 /\ phase'[p] # "linking"
          BY <4>3 DEF StageFails, Goto, StageCode
        <5> QED
          BY <5>1
      <4>4. CASE EmitOpens(p) \/ EmitFailsUnopened(p) \/ EmitWrites(p) \/ EmitFailsWriting(p)
        BY <4>4 DEF EmitOpens, EmitFailsUnopened, EmitWrites, EmitFailsWriting, Goto
      <4>5. CASE LinkerSucceeds(p)
        BY <2>3, <4>5 DEF LinkerSucceeds
      <4>6. CASE LinkerFails(p)
        BY <4>6 DEF LinkerFails, Goto
      <4>7. CASE cleanupObject(p)
        BY <2>3, <4>7 DEF cleanupObject, Goto
      <4>8. CASE removeExecutable(p)
        BY <4>8 DEF removeExecutable, Goto, StageInv
      <4> QED
        BY <1>2, <3>1, <4>1, <4>2, <4>3, <4>4, <4>5, <4>6, <4>7, <4>8 DEF Step
    <3>3. files'[Executable(p)] = [kind |-> "partial"]
      BY <2>1, <3>2 DEF LinkerStarts, Write, TypeInv, TypeOK
    <3> QED
      BY <2>1, <3>3 DEF Earlier
  <2> QED
    BY <2>2, <2>3
<1> QED
  BY <1>1, <1>2 DEF Next

----------------------------------------------------------------------------
(* A command that no other one overlaps has its compiler's files to itself. *)

AloneInv == \A p \in Pending \ overlapped : Pending = {p} /\ OwnOutput(p)

LaunchInv == \A p \in Process :
    /\ doing[p] = "launching" => phase[p] = "exited" /\ code[p] = 0
    /\ launched[p] # Absent => doing[p] = "done"
    /\ launched[p] # Earlier
    /\ launched[p] # Absent /\ p \notin overlapped =>
          launched[p] = [kind |-> "executable", of |-> Source(p)]

LEMMA InitLaunch == EditorInit => RelinkedInv /\ AloneInv /\ LaunchInv
<1> SUFFICES ASSUME EditorInit PROVE RelinkedInv /\ AloneInv /\ LaunchInv
  OBVIOUS
<1>1. RelinkedInv
  BY DEF EditorInit, Init, RelinkedInv
<1>2. AloneInv
  BY DEF EditorInit, AloneInv, Pending
<1>3. LaunchInv
  BY DEF EditorInit, LaunchInv, Absent, Earlier
<1> QED
  BY <1>1, <1>2, <1>3

\* Only pending commands take steps of the compile command.
LEMMA PendingRuns ==
    ASSUME EditorInv, NEW p \in Process, compileFile(p) \/ Compiler(p)
    PROVE  p \in Pending
<1>1. CASE compileFile(p)
  BY <1>1 DEF compileFile, At, Pending
<1>2. CASE Compiler(p)
  <2>1. AtWork(p)
    BY <1>2 DEF Compiler, Step, Interruption, Kill, OrphanedLinkerEnds, StageSucceeds,
          StageFails, EmitOpens, EmitFailsUnopened, EmitWrites, EmitFailsWriting, LinkerStarts,
          LinkerSucceeds, LinkerFails, removeExecutable, cleanupObject, AtWork, UnderWay,
          StageCode
  <2> QED
    BY <2>1 DEF EditorInv, TextInv, Pending
<1> QED
  BY <1>1, <1>2

LEMMA StepAlone == EditorInv /\ EditorInv' /\ Writers /\ AloneInv /\ [EditorNext]_<<vars, editorVars>>
                      => AloneInv'
<1> SUFFICES ASSUME EditorInv, EditorInv', Writers, AloneInv, [EditorNext]_<<vars, editorVars>>,
                    NEW p \in Process, p \in Pending', p \notin overlapped'
             PROVE  Pending' = {p} /\ OwnOutput(p)'
  BY DEF AloneInv, Pending
<1>1. CASE UNCHANGED <<vars, editorVars>>
  <2>1. Pending' = Pending /\ overlapped' = overlapped
    BY <1>1 DEF Pending, editorVars, commandVars
  <2>2. OwnOutput(p)' <=> OwnOutput(p)
    BY <1>1 DEF vars, OwnOutput, OwnObject, OwnExecutable, Object, Executable, Source
  <2> QED
    BY <2>1, <2>2 DEF AloneInv
<1>2. CASE EditorNext
  <2>1. Pending' = {p} /\ p \notin overlapped
    BY <1>2 DEF EditorNext
  <2>2. CASE p \in Pending
    <3>1. Pending = {p} /\ OwnOutput(p)
      BY <2>1, <2>2 DEF AloneInv
    <3>2. Undisturbed(p)
      BY <3>1 DEF Undisturbed, EditorInv, TextInv, Pending
    <3>3. CASE compileFile(p) \/ Compiler(p)
      <4>1. Start(p) \/ Step(p) \/ Interruption(p)
        BY <3>3 DEF compileFile, Compiler
      <4> QED
        BY <2>1, <3>1, <3>2, <4>1, KeepsOwnOutput DEF EditorInv
    <3>4. CASE UNCHANGED vars
      BY <2>1, <3>1, <3>4 DEF vars, OwnOutput, OwnObject, OwnExecutable, Object, Executable,
            Source
    <3>5. UNCHANGED vars \/ \E q \in Process : compileFile(q) \/ Compiler(q)
      BY <1>2 DEF EditorNext, Edit, Save, Command, getActiveKaiFile, documentSaved, giveUp,
                  buildCurrentFile, runCurrentFile
    <3> QED
      BY <3>1, <3>3, <3>4, <3>5, PendingRuns
  <2>3. CASE p \notin Pending
    <3>1. getActiveKaiFile(p)
      BY <1>2, <2>1, <2>3 DEF EditorNext, Edit, Save, Command, getActiveKaiFile, documentSaved,
            giveUp, compileFile, Compiler, buildCurrentFile, runCurrentFile, At, Go, Pending,
            EditorInv, EditorTypeOK, commandVars
    <3>2. phase'[p] = "idle"
      BY <3>1 DEF getActiveKaiFile, At, EditorInv, TextInv, vars
    <3> QED
      BY <2>1, <3>2 DEF OwnOutput, OwnObject, OwnExecutable, StageCode
  <2> QED
    BY <2>2, <2>3
<1> QED
  BY <1>1, <1>2

LEMMA StepLaunch ==
    EditorInv /\ EditorInv' /\ RelinkedInv /\ AloneInv /\ LaunchInv
    /\ [EditorNext]_<<vars, editorVars>> => LaunchInv'
<1> SUFFICES ASSUME EditorInv, EditorInv', RelinkedInv, AloneInv, LaunchInv,
                    [EditorNext]_<<vars, editorVars>>
             PROVE  LaunchInv'
  OBVIOUS
<1> USE DEF EditorInv
<1>1. CASE UNCHANGED <<vars, editorVars>>
  BY <1>1 DEF vars, editorVars, commandVars, LaunchInv, Source
<1>2. CASE EditorNext
  <2>1. overlapped \subseteq overlapped'
    BY <1>2 DEF EditorNext
  <2>2. CASE Edit \/ Save
    BY <2>1, <2>2 DEF Edit, Save, vars, commandVars, LaunchInv, Source
  <2>3. ASSUME NEW p \in Process, \/ getActiveKaiFile(p) \/ documentSaved(p) \/ giveUp(p)
                                  \/ buildCurrentFile(p)
        PROVE  LaunchInv'
    <3>1. UNCHANGED <<vars, launched>>
      BY <2>3 DEF getActiveKaiFile, documentSaved, giveUp, buildCurrentFile
    <3>2. \A q \in Process \ {p} : doing'[q] = doing[q]
      BY <2>3 DEF getActiveKaiFile, documentSaved, giveUp, buildCurrentFile, Go, EditorTypeOK
    <3>3. launched[p] = Absent
      BY <2>3 DEF getActiveKaiFile, documentSaved, giveUp, buildCurrentFile, At, LaunchInv
    <3>4. doing'[p] = "launching" => phase[p] = "exited" /\ code[p] = 0
      BY <2>3 DEF getActiveKaiFile, documentSaved, giveUp, buildCurrentFile, Go, EditorTypeOK
    <3> QED
      BY <2>1, <3>1, <3>2, <3>3, <3>4 DEF LaunchInv, vars, Source
  <2>4. ASSUME NEW p \in Process, compileFile(p) \/ Compiler(p) PROVE LaunchInv'
    <3>1. launched' = launched
      BY <2>4 DEF compileFile, Compiler, commandVars
    <3>2. Start(p) \/ Step(p) \/ Interruption(p)
      BY <2>4 DEF compileFile, Compiler
    <3>3. \A q \in Process \ {p} : /\ doing'[q] = doing[q] /\ phase'[q] = phase[q]
                                   /\ code'[q] = code[q] /\ Source(q)' = Source(q)
      BY <2>4, <3>2, OwnStateOnly DEF compileFile, Compiler, Go, EditorTypeOK, commandVars, Source
    <3>4. doing'[p] = "compiling" /\ doing[p] # "done"
      <4>1. CASE compileFile(p)
        BY <4>1 DEF compileFile, At, Go, EditorTypeOK
      <4>2. CASE Compiler(p)
        <5>1. AtWork(p)
          BY <4>2 DEF Compiler, Step, Interruption, Kill, OrphanedLinkerEnds, StageSucceeds,
                StageFails, EmitOpens, EmitFailsUnopened, EmitWrites, EmitFailsWriting,
                LinkerStarts, LinkerSucceeds, LinkerFails, removeExecutable, cleanupObject,
                AtWork, UnderWay, StageCode
        <5> QED
          BY <4>2, <5>1 DEF Compiler, commandVars, TextInv
      <4> QED
        BY <2>4, <4>1, <4>2
    <3> QED
      BY <2>1, <3>1, <3>3, <3>4 DEF LaunchInv
  <2>5. ASSUME NEW p \in Process, runCurrentFile(p) PROVE LaunchInv'
    <3>1. /\ doing[p] = "launching" /\ doing'[p] = "done" /\ UNCHANGED vars
          /\ launched' = [launched EXCEPT ![p] = files[Executable(p)]]
          /\ \A q \in Process \ {p} : doing'[q] = doing[q]
      BY <2>5 DEF runCurrentFile, At, Go, EditorTypeOK
    <3>2. phase[p] = "exited" /\ code[p] = 0
      BY <3>1 DEF LaunchInv
    <3>3. files[Executable(p)] # Earlier
      BY <3>2 DEF RelinkedInv
    <3>4. p \notin overlapped =>
             files[Executable(p)] = [kind |-> "executable", of |-> Source(p)]
      <4>1. p \in Pending
        BY <3>1 DEF Pending
      <4> QED
        BY <3>2, <4>1 DEF AloneInv, OwnOutput, OwnExecutable
    <3>5. launched'[p] = files[Executable(p)] /\ \A q \in Process \ {p} : launched'[q] = launched[q]
      BY <3>1 DEF EditorTypeOK
    <3>6. \A q \in Process : Source(q)' = Source(q) /\ phase'[q] = phase[q] /\ code'[q] = code[q]
      BY <3>1 DEF vars, Source
    <3> QED
      BY <2>1, <3>1, <3>3, <3>4, <3>5, <3>6 DEF LaunchInv
  <2> QED
    BY <1>2, <2>2, <2>3, <2>4, <2>5 DEF EditorNext, Command
<1> QED
  BY <1>1, <1>2

EditorIInv == EditorInv /\ Writers /\ RelinkedInv /\ AloneInv /\ LaunchInv

LEMMA EditorInvariant == EditorSpec => []EditorIInv
<1>1. EditorInit => EditorIInv
  BY InitEditor, InitWriters, InitLaunch DEF EditorInit, EditorIInv
<1>2. EditorIInv /\ [EditorNext]_<<vars, editorVars>> => EditorIInv'
  <2> SUFFICES ASSUME EditorIInv, [EditorNext]_<<vars, editorVars>> PROVE EditorIInv'
    OBVIOUS
  <2>1. EditorInv'
    BY StepEditorText DEF EditorIInv
  <2>2. [Next]_vars /\ TypeInv /\ TypeInv'
    BY <2>1, EditorTakesCommandSteps DEF EditorIInv, EditorInv
  <2>3. Writers' /\ RelinkedInv'
    BY <2>2, StepWriters, StepRelinked DEF EditorIInv
  <2>4. AloneInv' /\ LaunchInv'
    BY <2>1, StepAlone, StepLaunch DEF EditorIInv
  <2> QED
    BY <2>1, <2>3, <2>4 DEF EditorIInv
<1> QED
  BY <1>1, <1>2, PTL DEF EditorSpec

\* The editor drives the compile command: every behaviour of the editor's commands
\* is one of the invocations they start, whose safety properties carry over.
THEOREM EditorRunsCommands == EditorSpec => Init /\ [][Next]_vars
<1>1. EditorInit => Init
  BY DEF EditorInit
<1> QED
  BY <1>1, EditorTakesCommandSteps, PTL DEF EditorSpec

\* For any number of commands, edits and saves between them: what is compiled is
\* no older than what was shown when the command was given, a Run starts nothing
\* built before it, and one that no other command overlaps starts its own build.
THEOREM RunsWhatIsShown == EditorSpec => []RunsTheTextShown
<1>1. EditorIInv => RunsTheTextShown
  <2> SUFFICES ASSUME EditorIInv, NEW p \in Process
               PROVE  /\ compiled[p] # NoText => compiled[p] >= asked[p]
                      /\ launched[p] # Earlier
                      /\ launched[p] # Absent /\ p \notin overlapped =>
                            launched[p] = [kind |-> "executable", of |-> Source(p)]
    BY DEF RunsTheTextShown
  <2> QED
    BY DEF EditorIInv, EditorInv, TextInv, LaunchInv
<1> QED
  BY <1>1, EditorInvariant, PTL
=============================================================================
