---------------------------- MODULE SliceRunProofs ----------------------------
(****************************************************************************)
(* Proofs about SliceRun: a body the checker accepts, executed with its     *)
(* loops, never returns a slice of its own frame and never reads a slot     *)
(* before it is stored to -- for bodies of any length, any number of        *)
(* bindings and any nesting.                                                *)
(*                                                                          *)
(* The checker visits a body once; an execution goes round its loops.  The  *)
(* history variable noted links the two: what is noted at an entry entails  *)
(* what is noted wherever control can go from there, so an execution whose  *)
(* slots agree with the note where it stands agrees everywhere it arrives.  *)
(****************************************************************************)
EXTENDS SliceRun, SequenceTheorems, TLAPS

----------------------------------------------------------------------------
(* What is known, and what it entails *)

LEMMA EntailsRefl == \A a : Entails(a, a)
  BY DEF Entails

LEMMA EntailsTrans ==
    ASSUME NEW a, NEW b, NEW c, Entails(a, b), Entails(b, c)
    PROVE  Entails(a, c)
  BY DEF Entails

LEMMA WeakenType ==
    ASSUME NEW a \in KnownSet, NEW ids
    PROVE  /\ Weaken(a, ids) \in KnownSet
           /\ Weaken(a, ids).visible = a.visible
           /\ \A id \in Symbols : Weaken(a, ids).map[id] =
                                    IF id \in ids THEN "Unknown" ELSE a.map[id]
  BY DEF Weaken, KnownSet, Maps, Provenance

LEMMA EntailsWeaken ==
    ASSUME NEW a \in KnownSet, NEW ids
    PROVE  Entails(a, Weaken(a, ids))
  BY WeakenType DEF Entails, KnownSet, Symbols, Definite

\* Weakening on both sides keeps an entailment.
LEMMA WeakenBoth ==
    ASSUME NEW a \in KnownSet, NEW b \in KnownSet, NEW ids, Entails(a, b)
    PROVE  Entails(Weaken(a, ids), Weaken(b, ids))
<1>1. b.visible \subseteq Symbols /\ Params \subseteq Symbols
  BY DEF KnownSet, Symbols
<1> QED
  BY <1>1, WeakenType DEF Entails, Definite

LEMMA HoldsEntailed ==
    ASSUME NEW a, NEW b, Entails(a, b), Holds(a)
    PROVE  Holds(b)
  BY DEF Entails, Holds

\* A name is not a call.
LEMMA SourceCases ==
    /\ \A src \in Symbols : OriginsOf(src) = {storage[src]}
    /\ OriginsOf(SliceCall) = {"Local"} /\ OriginsOf(OtherCall) = Origins
    /\ \A map, src :
          /\ src \in Symbols =>
                ProvenanceIn(map, src) = IF Tracked(map, src) THEN map[src] ELSE "Unknown"
          /\ src = SliceCall => ProvenanceIn(map, src) = "Local"
          /\ src \notin Symbols \cup {SliceCall} => ProvenanceIn(map, src) = "Unknown"
  BY SymbolsAssumption DEF OriginsOf, ProvenanceIn, Symbols

\* What a store leaves known of a slot is what is stored there.
LEMMA HoldsAfterStore ==
    ASSUME NEW a \in KnownSet, Holds(a), storage \in [Symbols -> Origins \cup {Unset}],
           NEW e \in Entries, e.target \in Locals,
           e.source \in Params \cup a.visible \cup {SliceCall, OtherCall},
           NEW o \in OriginsOf(e.source), storage' = [storage EXCEPT ![e.target] = o]
    PROVE  \A k : k = AfterStore(a, e) => Holds(k)'
<1> DEFINE known == AfterStore(a, e)
           s == e.target
           src == e.source
           p == ProvenanceIn(a.map, src)
<1>1. s \in Symbols /\ a.visible \subseteq Symbols /\ Params \subseteq Symbols /\ a.map \in Maps
  BY DEF Symbols, KnownSet
<1>2. o # Unset /\ (Fragment /\ p \in Definite => o = p)
  <2>1. CASE src \in Symbols
    <3>1. src \in Params \cup a.visible
      BY <2>1, SymbolsAssumption DEF Symbols
    <3>2. o = storage[src]
      BY <2>1, SourceCases
    <3>3. storage[src] # Unset /\ (Fragment /\ a.map[src] \in Definite => storage[src] = a.map[src])
      BY <3>1 DEF Holds
    <3> QED
      BY <2>1, <3>2, <3>3, SourceCases DEF Definite
  <2>2. CASE src \notin Symbols
    <3>1. src \in {SliceCall, OtherCall}
      BY <2>2 DEF Symbols, KnownSet
    <3> QED
      BY <2>2, <3>1, SourceCases DEF Origins, Unset, Definite
  <2> QED
    BY <2>1, <2>2
<1>3. /\ known.visible = a.visible \cup {s}
      /\ known.map[s] = p
      /\ \A id \in Symbols \ {s} : known.map[id] = a.map[id]
  BY <1>1 DEF AfterStore, Maps
<1>4. storage'[s] = o /\ \A id \in Symbols \ {s} : storage'[id] = storage[id]
  BY <1>1
<1> HIDE DEF known, s, p, src
<1>5. \A id \in Params \cup known.visible :
         /\ storage'[id] # Unset
         /\ Fragment /\ known.map[id] \in Definite => storage'[id] = known.map[id]
  <2> TAKE id \in Params \cup known.visible
  <2>1. CASE id = s
    BY <1>2, <1>3, <1>4, <2>1
  <2>2. CASE id # s
    BY <1>1, <1>3, <1>4, <2>2 DEF Holds
  <2> QED
    BY <2>1, <2>2
<1>6. Unset' = Unset /\ Fragment' = Fragment /\ Definite' = Definite
  BY DEF Unset, Fragment, Definite
<1>7. ASSUME NEW k, k = known
      PROVE  Holds(k)'
  BY <1>5, <1>6, <1>7 DEF Holds
<1> QED
  BY <1>7 DEF known

\* The provenance of an expression is read off the live map.
LEMMA SourceKnown ==
    ASSUME NEW src
    PROVE  sliceProvenanceOf(src) = ProvenanceIn(sliceProvenance, src)
  BY DEF sliceProvenanceOf, TrackedOrUnknown, ProvenanceIn

LEMMA ProvenanceType ==
    ASSUME NEW map \in Maps, NEW src
    PROVE  ProvenanceIn(map, src) \in Provenance
  BY DEF ProvenanceIn, Maps, Tracked, Provenance, Untracked

\* A claim made of an expression under b is the one made of it under a.
LEMMA SourceEntailed ==
    ASSUME NEW a, NEW b, Entails(a, b), Fragment,
           NEW src \in Params \cup b.visible \cup {SliceCall, OtherCall},
           ProvenanceIn(b.map, src) \in Definite
    PROVE  ProvenanceIn(a.map, src) = ProvenanceIn(b.map, src)
<1>1. CASE src \in Symbols
  <2>1. src \in Params \cup b.visible
    BY <1>1, SymbolsAssumption DEF Symbols
  <2>2. ProvenanceIn(b.map, src) = b.map[src]
    BY <1>1, SourceCases DEF Definite
  <2>3. a.map[src] = b.map[src] /\ b.map[src] \in Definite
    BY <2>1, <2>2 DEF Entails
  <2> QED
    BY <1>1, <2>2, <2>3, SourceCases DEF Definite, Tracked, Untracked
<1>2. CASE src \notin Symbols
  BY <1>2, SourceCases
<1> QED
  BY <1>1, <1>2

----------------------------------------------------------------------------
(* What the operations of the checker do to its frames *)

LEMMA Front ==
    ASSUME NEW S, NEW q \in Seq(S), Len(q) > 0
    PROVE  /\ SubSeq(q, 1, Len(q) - 1) \in Seq(S)
           /\ Len(SubSeq(q, 1, Len(q) - 1)) = Len(q) - 1
           /\ \A i \in 1..(Len(q) - 1) : SubSeq(q, 1, Len(q) - 1)[i] = q[i]
<1> DEFINE n == Len(q) - 1
<1>1. n \in Nat /\ 1 \in Int /\ n \in Int /\ \A i \in 1..n : q[i] \in S
  OBVIOUS
<1> HIDE DEF n
<1>2. /\ SubSeq(q, 1, n) \in Seq(S)
      /\ Len(SubSeq(q, 1, n)) = IF 1 <= n THEN n - 1 + 1 ELSE 0
      /\ \A i \in 1..(n - 1 + 1) : SubSeq(q, 1, n)[i] = q[1 + i - 1]
  BY <1>1, SubSeqProperties
<1>3. /\ SubSeq(q, 1, n) \in Seq(S)
      /\ Len(SubSeq(q, 1, n)) = n
      /\ \A i \in 1..n : SubSeq(q, 1, n)[i] = q[i]
  BY <1>1, <1>2
<1> QED
  BY <1>3 DEF n

LEMMA Appended ==
    ASSUME NEW S, NEW q \in Seq(S), NEW x \in S
    PROVE  /\ Append(q, x) \in Seq(S)
           /\ Len(Append(q, x)) = Len(q) + 1
           /\ \A i \in 1..Len(q) : Append(q, x)[i] = q[i]
           /\ Append(q, x)[Len(q) + 1] = x
  OBVIOUS

LEMMA FrameFacts ==
    ASSUME TypeOK
    PROVE  /\ Depth \in Nat /\ Depth = Len(frames)
           /\ \A k \in 1..Depth :
                 /\ frames[k] \in Frames
                 /\ frames[k].kind \in {"if", "else", "loop"}
                 /\ frames[k].entryProvenance \in Maps
                 /\ frames[k].mergedProvenance \in Maps
                 /\ frames[k].hasMerged \in BOOLEAN
                 /\ frames[k].visible \subseteq Locals
           /\ Known \in KnownSet
<1>1. \A k \in 1..Depth : frames[k] \in Frames
  BY DEF TypeOK, Depth
<1>2. Known \in KnownSet
  BY DEF TypeOK, Known, KnownSet
<1> QED
  BY <1>1, <1>2 DEF TypeOK, Depth, Frames

\* Opening a statement appends one frame and leaves the others alone.
LEMMA PushFacts ==
    ASSUME TypeOK, NEW kind \in {"if", "loop"}, NEW snapshot \in Maps,
           Push(kind, snapshot)
    PROVE  /\ frames' \in Seq(Frames)
           /\ Depth' = Depth + 1
           /\ \A k \in 1..Depth : frames'[k] = frames[k]
           /\ frames'[Depth + 1].kind = kind
           /\ frames'[Depth + 1].entryProvenance = snapshot
           /\ frames'[Depth + 1].hasMerged = FALSE
           /\ frames'[Depth + 1].visible = visible
<1> DEFINE new == [kind |-> kind, entryProvenance |-> snapshot,
                   mergedProvenance |-> NoSnapshot,
                   hasMerged |-> FALSE, visible |-> visible]
<1>1. NoSnapshot \in Maps
  BY DEF NoSnapshot, Maps, Untracked
<1>2. /\ new \in Frames /\ new.kind = kind /\ new.entryProvenance = snapshot
      /\ new.hasMerged = FALSE /\ new.visible = visible
  BY <1>1 DEF Frames, TypeOK
<1>3. frames' = Append(frames, new)
  BY DEF Push
<1> HIDE DEF new
<1> QED
  BY <1>2, <1>3, Appended DEF TypeOK, Depth

\* What the fold of branch results returns, symbol by symbol.
LEMMA MergeFacts ==
    ASSUME NEW f \in Frames, NEW branchResult \in Maps
    PROVE  mergeInBranchResult(f, branchResult) \in Maps
<1>1. CASE ~f.hasMerged
  BY <1>1 DEF mergeInBranchResult
<1>2. CASE f.hasMerged
  BY <1>2 DEF mergeInBranchResult, mergeSliceProvenance, Tracked, Frames, Maps, Provenance, Untracked
<1> QED
  BY <1>1, <1>2

\* Folding in one more branch keeps a symbol tracked, and keeps it definite only
\* if every outcome folded in so far agrees.
LEMMA MergeDefinite ==
    ASSUME NEW f \in Frames, NEW branchResult \in Maps, NEW id \in Symbols,
           Tracked(f.entryProvenance, id), Tracked(branchResult, id),
           f.hasMerged => Tracked(f.mergedProvenance, id)
    PROVE  /\ Tracked(mergeInBranchResult(f, branchResult), id)
           /\ mergeInBranchResult(f, branchResult)[id] \in Definite =>
                 /\ mergeInBranchResult(f, branchResult)[id] = branchResult[id]
                 /\ f.hasMerged => mergeInBranchResult(f, branchResult)[id] = f.mergedProvenance[id]
           /\ f.hasMerged /\ branchResult[id] = f.mergedProvenance[id]
                 => mergeInBranchResult(f, branchResult)[id] = branchResult[id]
           /\ ~f.hasMerged => mergeInBranchResult(f, branchResult) = branchResult
<1>1. CASE ~f.hasMerged
  BY <1>1 DEF mergeInBranchResult
<1>2. CASE f.hasMerged
  <2>1. mergeInBranchResult(f, branchResult)[id]
           = mergeSliceProvenance(f.mergedProvenance[id], branchResult[id])
    BY <1>2 DEF mergeInBranchResult
  <2> QED
    BY <1>2, <2>1 DEF mergeSliceProvenance, Tracked, Untracked, Definite
<1> QED
  BY <1>1, <1>2 DEF Frames

LEMMA StoreEffect ==
    ASSUME TypeOK, NEW s \in Locals, NEW src \in Sources,
           setSliceProvenance(s, sliceProvenanceOf(src)), visible' = visible \cup {s},
           UNCHANGED <<touchTracking, frames, rejected>>
    PROVE  /\ TypeOK'
           /\ Depth' = Depth
           /\ sliceProvenance'[s] = ProvenanceIn(sliceProvenance, src)
           /\ ProvenanceIn(sliceProvenance, src) \in Provenance
           /\ \A id \in Symbols \ {s} : sliceProvenance'[id] = sliceProvenance[id]
           /\ touched \subseteq touched'
           /\ touchTracking => s \in touched'
           /\ \A level : AfterStore(Known, Entry("store", s, src, level)) = Known'
<1>1. /\ sliceProvenance' = [sliceProvenance EXCEPT ![s] = ProvenanceIn(sliceProvenance, src)]
      /\ touched' = IF touchTracking THEN touched \cup {s} ELSE touched
  BY SourceKnown DEF setSliceProvenance
<1>2. s \in Symbols /\ ProvenanceIn(sliceProvenance, src) \in Provenance
  BY ProvenanceType DEF TypeOK, Symbols
<1>3. TypeOK'
  BY <1>1, <1>2 DEF TypeOK, Maps
<1>4. \A level : AfterStore(Known, Entry("store", s, src, level)) = Known'
  BY <1>1 DEF AfterStore, Known, Entry
<1> QED
  BY <1>1, <1>2, <1>3, <1>4 DEF Depth, TypeOK, Maps

LEMMA BranchEffect ==
    ASSUME TypeOK, NEW kind \in {"if", "else"}, checkIfStmtNextBranch(kind)
    PROVE  /\ TypeOK'
           /\ Depth' = Depth /\ Depth > 0
           /\ \A k \in 1..(Depth - 1) : frames'[k] = frames[k]
           /\ frames[Depth].kind = "if"
           /\ frames'[Depth].kind = kind
           /\ frames'[Depth].entryProvenance = frames[Depth].entryProvenance
           /\ frames'[Depth].mergedProvenance = mergeInBranchResult(frames[Depth], sliceProvenance)
           /\ frames'[Depth].hasMerged = TRUE
           /\ frames'[Depth].visible = frames[Depth].visible
           /\ sliceProvenance' = frames[Depth].entryProvenance
           /\ visible' = frames[Depth].visible
           /\ UNCHANGED <<touchTracking, touched, rejected>>
<1> DEFINE f == [frames[Depth] EXCEPT !.kind = kind,
                     !.mergedProvenance = mergeInBranchResult(frames[Depth], sliceProvenance),
                     !.hasMerged = TRUE]
<1>1. Depth \in Nat /\ Depth > 0 /\ Depth \in 1..Depth /\ frames[Depth] \in Frames
  BY FrameFacts DEF checkIfStmtNextBranch
<1>2. mergeInBranchResult(frames[Depth], sliceProvenance) \in Maps
  BY <1>1, MergeFacts DEF TypeOK
<1>3. /\ f \in Frames /\ f.kind = kind
      /\ f.entryProvenance = frames[Depth].entryProvenance
      /\ f.mergedProvenance = mergeInBranchResult(frames[Depth], sliceProvenance)
      /\ f.hasMerged = TRUE
      /\ f.visible = frames[Depth].visible
  BY <1>1, <1>2 DEF Frames
<1>4. frames' = [frames EXCEPT ![Depth] = f]
  BY DEF checkIfStmtNextBranch, Innermost
<1> HIDE DEF f
<1>5. /\ frames' \in Seq(Frames)
      /\ Len(frames') = Depth
      /\ frames'[Depth] = f
      /\ \A k \in 1..(Depth - 1) : frames'[k] = frames[k]
  BY <1>1, <1>3, <1>4 DEF TypeOK, Depth
<1>6. /\ frames[Depth].kind = "if"
      /\ sliceProvenance' = frames[Depth].entryProvenance
      /\ visible' = frames[Depth].visible
      /\ UNCHANGED <<touchTracking, touched, rejected>>
  BY DEF checkIfStmtNextBranch, Innermost
<1>7. TypeOK'
  BY <1>1, <1>5, <1>6, FrameFacts DEF TypeOK
<1> QED
  BY <1>1, <1>3, <1>5, <1>6, <1>7 DEF Depth

LEMMA PopFacts ==
    ASSUME TypeOK, Depth > 0, Pop
    PROVE  /\ frames' \in Seq(Frames)
           /\ Depth' = Depth - 1
           /\ \A k \in 1..(Depth - 1) : frames'[k] = frames[k]
  BY Front DEF Pop, Depth, TypeOK

LEMMA ExitIfEffect ==
    ASSUME TypeOK, checkIfStmtExit
    PROVE  /\ TypeOK'
           /\ Depth' = Depth - 1 /\ Depth > 0
           /\ \A k \in 1..(Depth - 1) : frames'[k] = frames[k]
           /\ frames[Depth].kind \in {"if", "else"}
           /\ visible' = frames[Depth].visible
           /\ UNCHANGED <<touchTracking, touched, rejected>>
<1>1. Depth \in Nat /\ Depth > 0 /\ Depth \in 1..Depth /\ frames[Depth] \in Frames
  BY FrameFacts DEF checkIfStmtExit
<1>2. /\ frames[Depth].kind \in {"if", "else"}
      /\ visible' = frames[Depth].visible
      /\ UNCHANGED <<touchTracking, touched, rejected>>
  BY DEF checkIfStmtExit, Innermost
<1>3. sliceProvenance' \in Maps
  <2> DEFINE merged == mergeInBranchResult(frames[Depth], sliceProvenance)
             closed == [frames[Depth] EXCEPT !.mergedProvenance = merged, !.hasMerged = TRUE]
  <2>1. merged \in Maps
    BY <1>1, MergeFacts DEF TypeOK
  <2>2. closed \in Frames /\ frames[Depth].entryProvenance \in Maps
    BY <1>1, <2>1 DEF Frames
  <2>3. mergeInBranchResult(closed, frames[Depth].entryProvenance) \in Maps
    BY <2>2, MergeFacts
  <2> QED
    BY <2>1, <2>3 DEF checkIfStmtExit, Innermost
<1>4. /\ frames' \in Seq(Frames)
      /\ Depth' = Depth - 1
      /\ \A k \in 1..(Depth - 1) : frames'[k] = frames[k]
  BY <1>1, PopFacts DEF checkIfStmtExit
<1>5. TypeOK'
  BY <1>1, <1>2, <1>3, <1>4, FrameFacts DEF TypeOK
<1> QED
  BY <1>1, <1>2, <1>4, <1>5

\* The outcome of an if is definite only where every branch agrees, and where
\* there is no else clause the fork as well.
LEMMA ExitIfMerges ==
    ASSUME TypeOK, checkIfStmtExit, NEW id \in Symbols,
           Tracked(sliceProvenance, id), Tracked(frames[Depth].entryProvenance, id),
           frames[Depth].hasMerged => Tracked(frames[Depth].mergedProvenance, id)
    PROVE  /\ Tracked(sliceProvenance', id)
           /\ sliceProvenance'[id] \in Definite =>
                 /\ sliceProvenance'[id] = sliceProvenance[id]
                 /\ frames[Depth].hasMerged => sliceProvenance'[id] = frames[Depth].mergedProvenance[id]
                 /\ frames[Depth].kind = "if" => sliceProvenance'[id] = frames[Depth].entryProvenance[id]
           /\ /\ sliceProvenance[id] = frames[Depth].entryProvenance[id]
              /\ frames[Depth].hasMerged => sliceProvenance[id] = frames[Depth].mergedProvenance[id]
              => sliceProvenance'[id] = sliceProvenance[id]
<1> DEFINE f == frames[Depth]
           merged == mergeInBranchResult(f, sliceProvenance)
           closed == [f EXCEPT !.mergedProvenance = merged, !.hasMerged = TRUE]
<1>1. f \in Frames /\ f.kind \in {"if", "else"} /\ f.entryProvenance \in Maps /\ f.hasMerged \in BOOLEAN
  BY FrameFacts DEF checkIfStmtExit, Innermost
<1>2. merged \in Maps
  BY <1>1, MergeFacts DEF TypeOK
<1>3. /\ closed \in Frames /\ closed.entryProvenance = f.entryProvenance
      /\ closed.mergedProvenance = merged /\ closed.hasMerged = TRUE
  BY <1>1, <1>2 DEF Frames
<1>4. /\ Tracked(merged, id)
      /\ merged[id] \in Definite =>
            merged[id] = sliceProvenance[id] /\ (f.hasMerged => merged[id] = f.mergedProvenance[id])
      /\ f.hasMerged /\ sliceProvenance[id] = f.mergedProvenance[id] => merged[id] = sliceProvenance[id]
      /\ ~f.hasMerged => merged = sliceProvenance
  BY <1>1, MergeDefinite DEF TypeOK
<1>5. sliceProvenance' = IF f.kind = "else" THEN merged
                         ELSE mergeInBranchResult(closed, f.entryProvenance)
  BY DEF checkIfStmtExit, Innermost
<1> DEFINE both == mergeInBranchResult(closed, f.entryProvenance)
<1> HIDE DEF merged, closed, f
<1>6. /\ Tracked(both, id)
      /\ both[id] \in Definite => both[id] = f.entryProvenance[id] /\ both[id] = merged[id]
      /\ f.entryProvenance[id] = merged[id] => both[id] = f.entryProvenance[id]
  <2>1. Tracked(closed.entryProvenance, id) /\ Tracked(f.entryProvenance, id)
        /\ Tracked(closed.mergedProvenance, id)
    BY <1>3, <1>4 DEF f
  <2> QED
    BY <1>1, <1>3, <2>1, MergeDefinite
<1> HIDE DEF both
<1>7. CASE f.kind = "else"
  BY <1>1, <1>4, <1>5, <1>7 DEF f
<1>8. CASE f.kind = "if"
  BY <1>1, <1>4, <1>5, <1>6, <1>8 DEF f, both
<1> QED
  BY <1>1, <1>7, <1>8

LEMMA LoopEnterEffect ==
    ASSUME TypeOK, checkLoopStmtEnter(TRUE)
    PROVE  /\ TypeOK'
           /\ Depth' = Depth + 1
           /\ \A k \in 1..Depth : frames'[k] = frames[k]
           /\ frames'[Depth + 1].kind = "loop"
           /\ frames'[Depth + 1].visible = visible
           /\ touchTracking' = TRUE /\ touched' = {}
           /\ UNCHANGED <<sliceProvenance, visible, rejected>>
<1>1. NoSnapshot \in Maps
  BY DEF NoSnapshot, Maps, Untracked
<1>2. /\ frames' \in Seq(Frames)
      /\ Depth' = Depth + 1
      /\ \A k \in 1..Depth : frames'[k] = frames[k]
      /\ frames'[Depth + 1].kind = "loop"
      /\ frames'[Depth + 1].visible = visible
  BY <1>1, PushFacts DEF checkLoopStmtEnter
<1>3. /\ touchTracking' = TRUE /\ touched' = {}
      /\ UNCHANGED <<sliceProvenance, visible, rejected>>
  BY DEF checkLoopStmtEnter, TypeOK
<1> QED
  BY <1>2, <1>3 DEF TypeOK

LEMMA LoopExitEffect ==
    ASSUME TypeOK, checkLoopStmtExit
    PROVE  /\ TypeOK'
           /\ Depth' = Depth - 1 /\ Depth > 0
           /\ \A k \in 1..(Depth - 1) : frames'[k] = frames[k]
           /\ frames[Depth].kind = "loop"
           /\ visible' = frames[Depth].visible
           /\ touchTracking' = FALSE /\ touched' = {}
           /\ sliceProvenance' = Weaken(Known, touched).map
           /\ rejected' = rejected
<1>1. Depth \in Nat /\ Depth > 0 /\ Depth \in 1..Depth /\ frames[Depth] \in Frames
  BY FrameFacts DEF checkLoopStmtExit
<1>2. /\ frames' \in Seq(Frames)
      /\ Depth' = Depth - 1
      /\ \A k \in 1..(Depth - 1) : frames'[k] = frames[k]
  BY <1>1, PopFacts DEF checkLoopStmtExit
<1>3. /\ frames[Depth].kind = "loop"
      /\ visible' = frames[Depth].visible
      /\ touchTracking' = FALSE /\ touched' = {}
      /\ sliceProvenance' = Weaken(Known, touched).map
      /\ rejected' = rejected
  BY DEF checkLoopStmtExit, Innermost, Weaken, Known
<1>4. Weaken(Known, touched).map \in Maps
  BY WeakenType, FrameFacts DEF KnownSet
<1>5. TypeOK'
  BY <1>1, <1>2, <1>3, <1>4, FrameFacts DEF TypeOK
<1> QED
  BY <1>1, <1>2, <1>3, <1>5

----------------------------------------------------------------------------
(* One more entry *)

\* The step appends entry new.  What was noted at from and after is weakened on
\* ids; the new note follows from what was known.
Extends(new, from, ids) ==
    /\ from \in 1..(Len(code) + 1)
    /\ new \in Entries
    /\ code' \in Seq(Entries) /\ Len(code') = Len(code) + 1
    /\ \A t \in 1..Len(code) : code'[t] = code[t]
    /\ code'[Len(code) + 1] = new
    /\ noted' \in Seq(KnownSet) /\ Len(noted') = Len(code) + 1
    /\ \A t \in 1..Len(code) :
          noted'[t] = IF t < from THEN noted[t] ELSE Weaken(noted[t], ids)
    /\ Entails(Weaken(Known, ids), noted'[Len(code) + 1])
    /\ Entails(noted'[Len(code) + 1], Known') \/ new.op \notin Openers \cup Ends
    /\ rejected => rejected'

\* Nothing stored to, returned from or looped back to from there on is lost.
Forgets(from, ids) ==
    Fragment => \A t \in from..Len(code) :
                    /\ code[t].op \notin {"return", "endLoop"}
                    /\ code[t].op = "store" => code[t].target \in ids

LEMMA ArrivingFacts ==
    ASSUME RunTypeOK
    PROVE  /\ Len(code) \in Nat
           /\ \A t \in 1..Len(code) : code[t] \in Entries /\ noted[t] \in KnownSet
           /\ \A t \in 1..Len(code) : Arriving(t) = noted[t]
           /\ Arriving(Len(code) + 1) = Known
           /\ \A t \in 1..(Len(code) + 1) : Arriving(t) \in KnownSet
           /\ Known \in KnownSet
  BY FrameFacts DEF RunTypeOK, Arriving

LEMMA ArrivingNext ==
    ASSUME RunTypeOK, NEW new, NEW from, NEW ids, Extends(new, from, ids)
    PROVE  /\ \A t \in 1..(Len(code) + 1) : Arriving(t)' = noted'[t]
           /\ \A t : t = Len(code) + 2 => Arriving(t)' = Known'
  BY ArrivingFacts DEF Extends, Arriving

\* What one note says of another survives, except where only the first is weakened.
LEMMA Kept ==
    ASSUME RunTypeOK, NEW new, NEW from, NEW ids, Extends(new, from, ids),
           NEW x \in 1..Len(code), NEW y \in 1..(Len(code) + 1), x < from \/ from <= y,
           Entails(Arriving(x), Arriving(y))
    PROVE  Entails(noted'[x], noted'[y])
<1>1. /\ Len(code) \in Nat /\ from \in 1..(Len(code) + 1)
      /\ Arriving(x) = noted[x] /\ noted[x] \in KnownSet
      /\ Arriving(y) \in KnownSet /\ Known \in KnownSet
  BY ArrivingFacts DEF Extends
<1>2. /\ x < from => noted'[x] = noted[x]
      /\ x >= from => noted'[x] = Weaken(noted[x], ids)
  BY <1>1 DEF Extends
<1>3. CASE y \in 1..Len(code)
  <2>1. /\ Arriving(y) = noted[y]
        /\ y < from => noted'[y] = noted[y]
        /\ y >= from => noted'[y] = Weaken(noted[y], ids)
    BY <1>1, <1>3, ArrivingFacts DEF Extends
  <2>2. CASE y < from
    BY <1>1, <1>2, <2>1, <2>2
  <2>3. CASE x < from /\ y >= from
    BY <1>1, <1>2, <2>1, <2>3, EntailsWeaken, EntailsTrans
  <2>4. CASE x >= from /\ y >= from
    BY <1>1, <1>2, <2>1, <2>4, WeakenBoth
  <2> QED
    BY <1>1, <2>2, <2>3, <2>4
<1>4. CASE y = Len(code) + 1
  <2>1. Arriving(y) = Known /\ Entails(Weaken(Known, ids), noted'[y])
    BY <1>4, ArrivingFacts DEF Extends
  <2>2. CASE x < from
    BY <1>1, <1>2, <2>1, <2>2, EntailsWeaken, EntailsTrans
  <2>3. CASE x >= from
    <3>1. Entails(Weaken(noted[x], ids), Weaken(Known, ids))
      BY <1>1, <2>1, WeakenBoth
    <3> QED
      BY <1>2, <2>1, <2>3, <3>1, EntailsTrans
  <2> QED
    BY <1>1, <2>2, <2>3
<1> QED
  BY <1>1, <1>3, <1>4

LEMMA AfterStoreType ==
    ASSUME NEW a \in KnownSet, NEW e \in Entries, e.target \in Locals
    PROVE  /\ AfterStore(a, e) \in KnownSet
           /\ AfterStore(a, e).visible = a.visible \cup {e.target}
           /\ AfterStore(a, e).map[e.target] = ProvenanceIn(a.map, e.source)
           /\ \A id \in Symbols \ {e.target} : AfterStore(a, e).map[id] = a.map[id]
<1>1. ProvenanceIn(a.map, e.source) \in Provenance /\ e.target \in Symbols
  BY ProvenanceType DEF KnownSet, Symbols
<1> QED
  BY <1>1 DEF AfterStore, KnownSet, Maps

\* A store commutes with forgetting its target.
LEMMA StoreWeaken ==
    ASSUME NEW a \in KnownSet, NEW e \in Entries, e.target \in Locals, NEW ids,
           Fragment => e.target \in ids
    PROVE  Entails(AfterStore(Weaken(a, ids), e), Weaken(AfterStore(a, e), ids))
<1> DEFINE left == AfterStore(Weaken(a, ids), e)
           right == Weaken(AfterStore(a, e), ids)
<1>1. /\ left \in KnownSet /\ left.visible = a.visible \cup {e.target}
      /\ \A id \in Symbols \ {e.target} : left.map[id] = Weaken(a, ids).map[id]
  BY WeakenType, AfterStoreType
<1>2. /\ right \in KnownSet /\ right.visible = a.visible \cup {e.target}
      /\ \A id \in Symbols : right.map[id] = IF id \in ids THEN "Unknown" ELSE AfterStore(a, e).map[id]
  BY WeakenType, AfterStoreType
<1>3. \A id \in Symbols \ {e.target} : right.map[id] = left.map[id]
  BY <1>1, <1>2, WeakenType, AfterStoreType
<1>4. Params \cup right.visible \subseteq Symbols
  BY <1>2 DEF KnownSet, Symbols
<1> HIDE DEF left, right
<1>5. Entails(left, right)
  BY <1>1, <1>2, <1>3, <1>4 DEF Entails, Definite
<1> QED
  BY <1>5 DEF left, right

\* Whatever leads on from an old entry still does.
LEMMA FlowKept ==
    ASSUME RunTypeOK, NEW new, NEW from, NEW ids, Extends(new, from, ids), Forgets(from, ids),
           NEW j \in 1..Len(code), Flow(j)
    PROVE  Flow(j)'
<1> DEFINE n == Len(code)
<1>1. /\ n \in Nat /\ from \in 1..(n + 1)
      /\ code'[j] = code[j] /\ code[j] \in Entries /\ noted[j] \in KnownSet
      /\ noted'[j] = IF j < from THEN noted[j] ELSE Weaken(noted[j], ids)
      /\ noted'[j].visible = noted[j].visible
      /\ j + 1 \in 1..(n + 1)
  BY ArrivingFacts, WeakenType DEF Extends
<1>2. Arriving(j + 1)' = noted'[j + 1] /\ Arriving(j) = noted[j]
  BY <1>1, ArrivingFacts, ArrivingNext
<1>3. IF code'[j].op \in {"store", "return"}
      THEN code'[j].source \in Params \cup noted'[j].visible \cup {SliceCall, OtherCall}
      ELSE code'[j].source = NoOperand
  BY <1>1 DEF Flow
<1>4. ASSUME code[j].op = "store"
      PROVE  /\ code[j].target \in Locals
             /\ Entails(AfterStore(noted'[j], code[j]), noted'[j + 1])
  <2> DEFINE a == AfterStore(noted[j], code[j])
  <2>1. code[j].target \in Locals /\ Entails(a, Arriving(j + 1))
    BY <1>4 DEF Flow
  <2>2. a \in KnownSet /\ Arriving(j + 1) \in KnownSet
    BY <1>1, <2>1, AfterStoreType, ArrivingFacts
  <2>3. Entails(Weaken(a, ids), Weaken(Arriving(j + 1), ids))
    BY <2>1, <2>2, WeakenBoth
  <2>4. Entails(Weaken(Arriving(j + 1), ids), noted'[j + 1]) \/ j + 1 < from
    <3>1. CASE j + 1 = n + 1
      BY <3>1, ArrivingFacts DEF Extends
    <3>2. CASE j + 1 \in from..n
      <4>1. noted'[j + 1] = Weaken(Arriving(j + 1), ids)
        BY <1>1, <3>2, ArrivingFacts DEF Extends
      <4> QED
        BY <4>1, EntailsRefl
    <3> QED
      BY <1>1, <3>1, <3>2
  <2>5. CASE j < from
    <3>1. noted'[j] = noted[j]
      BY <1>1, <2>5
    <3>2. CASE j + 1 < from
      <4>1. noted'[j + 1] = Arriving(j + 1)
        BY <1>1, <3>2, ArrivingFacts DEF Extends
      <4> QED
        BY <2>1, <3>1, <4>1
    <3>3. CASE ~(j + 1 < from)
      BY <2>1, <2>2, <2>3, <2>4, <3>1, <3>3, EntailsWeaken, EntailsTrans
    <3> QED
      BY <3>2, <3>3
  <2>6. CASE ~(j < from)
    <3>1. noted'[j] = Weaken(noted[j], ids) /\ j \in from..n /\ ~(j + 1 < from)
      BY <1>1, <2>6
    <3>2. Fragment => code[j].target \in ids
      BY <1>4, <3>1 DEF Forgets
    <3>3. Entails(AfterStore(Weaken(noted[j], ids), code[j]), Weaken(a, ids))
      BY <1>1, <2>1, <3>2, StoreWeaken
    <3> HIDE DEF a
    <3>4. Entails(AfterStore(Weaken(noted[j], ids), code[j]), Weaken(Arriving(j + 1), ids))
      BY <2>3, <3>3, EntailsTrans
    <3> QED
      BY <2>1, <2>4, <3>1, <3>4, EntailsTrans
  <2> QED
    BY <2>1, <2>5, <2>6
<1>5. ASSUME code[j].op = "return"
      PROVE  rejected' \/ (Fragment => ProvenanceIn(noted'[j].map, code[j].source) = "External")
  <2>1. rejected \/ (Fragment => ProvenanceIn(noted[j].map, code[j].source) = "External")
    BY <1>5 DEF Flow
  <2>2. ~(j < from) => j \in from..n
    BY <1>1
  <2>4. Fragment => noted'[j] = noted[j]
    BY <1>1, <1>5, <2>2 DEF Forgets
  <2>3. rejected => rejected'
    BY DEF Extends
  <2> QED
    BY <2>1, <2>3, <2>4
<1>6. ASSUME code[j].op \in Openers \cup {"endIf"}
      PROVE  Entails(noted'[j], noted'[j + 1])
  <2>1. Entails(Arriving(j), Arriving(j + 1))
    BY <1>2, <1>6 DEF Flow
  <2> QED
    BY <1>1, <2>1, Kept
<1> QED
  BY <1>1, <1>2, <1>3, <1>4, <1>5, <1>6 DEF Flow

LEMMA OpensKept ==
    ASSUME RunTypeOK, NEW new, NEW from, NEW ids, Extends(new, from, ids),
           NEW i \in 1..Len(code), NEW j \in 1..Len(code)
    PROVE  Opens(i, j)' <=> Opens(i, j)
<1>1. Len(code) \in Nat /\ \A t \in 1..Len(code) : code'[t] = code[t]
  BY ArrivingFacts DEF Extends
<1>2. \A k \in (i + 1)..(j - 1) : k \in 1..Len(code)
  BY <1>1
<1>3. \A k \in (i + 1)..(j - 1) : code'[k] = code[k]
  BY <1>1, <1>2
<1> QED
  BY <1>1, <1>3 DEF Opens, Openers, Middles, Ends

\* Every old jump still entails.
LEMMA JumpKept ==
    ASSUME RunTypeOK, NEW new, NEW from, NEW ids, Extends(new, from, ids), Forgets(from, ids),
           NEW i \in 1..Len(code), NEW j \in 1..Len(code), Opens(i, j), Jump(i, j)
    PROVE  Jump(i, j)'
<1> DEFINE n == Len(code)
<1>0. /\ n \in Nat /\ from \in 1..(n + 1) /\ i < j /\ i \in 1..n /\ j \in 1..n
      /\ j \in 1..(n + 1) /\ i \in 1..(n + 1) /\ j + 1 \in 1..(n + 1)
      /\ i < from \/ from <= j + 1
      /\ i < from \/ from <= j
      /\ ~(j < from) => j \in from..n
      /\ \A k \in (i + 1)..(j - 1) : k \in 1..n /\ k < j /\ (k < from \/ from <= j)
  <2>1. i < j
    BY DEF Opens
  <2> QED
    BY <2>1, ArrivingFacts DEF Extends
<1>1. \A t \in 1..n : code'[t] = code[t] /\ noted[t] \in KnownSet /\ Arriving(t) = noted[t]
  BY ArrivingFacts DEF Extends
<1>v. \A t \in 1..n : noted'[t].visible = noted[t].visible
  BY <1>0, <1>1, WeakenType DEF Extends
<1>2. Arriving(j + 1)' = noted'[j + 1]
  BY <1>0, ArrivingNext
<1>3. code[j].op # "endIf" => Entails(noted'[i], noted'[j + 1])
  <2> SUFFICES ASSUME code[j].op # "endIf" PROVE Entails(noted'[i], noted'[j + 1])
    OBVIOUS
  <2>1. Entails(Arriving(i), Arriving(j + 1))
    BY <1>0, <1>1 DEF Jump
  <2> QED
    BY <1>0, <2>1, Kept
<1>4. code[j].op = "endLoop" => Entails(noted'[j], noted'[i])
  <2> SUFFICES ASSUME code[j].op = "endLoop" PROVE Entails(noted'[j], noted'[i])
    OBVIOUS
  <2>1. Entails(noted[j], noted[i])
    BY DEF Jump
  <2>2. CASE Fragment
    <3>2. j < from
      BY <1>0, <2>2 DEF Forgets
    <3>3. Entails(Arriving(j), Arriving(i))
      BY <1>0, <1>1, <2>1
    <3> QED
      BY <1>0, <3>2, <3>3, Kept
  <2>3. CASE ~Fragment
    BY <1>0, <1>v, <2>1, <2>3 DEF Entails
  <2> QED
    BY <2>2, <2>3
<1>5. code[j].op = "endIf" =>
        \A k \in (i + 1)..(j - 1) : code[k].level = code[i].level => Entails(noted'[k], noted'[j])
  <2> SUFFICES ASSUME code[j].op = "endIf", NEW k \in (i + 1)..(j - 1), code[k].level = code[i].level
               PROVE  Entails(noted'[k], noted'[j])
    OBVIOUS
  <2>1. k \in 1..n /\ k < j /\ (k < from \/ from <= j)
    BY <1>0
  <2>2. Entails(Arriving(k), Arriving(j))
    BY <1>0, <1>1, <2>1 DEF Jump
  <2> QED
    BY <1>0, <2>1, <2>2, Kept
<1>6. code[j].op = "endIf" =>
        \/ \E k \in (i + 1)..(j - 1) : code[k].level = code[i].level /\ code[k].op = "else"
        \/ Entails(noted'[i], noted'[j])
  <2> SUFFICES ASSUME Entails(noted[i], noted[j])
               PROVE  Entails(noted'[i], noted'[j])
    BY DEF Jump
  <2>1. Entails(Arriving(i), Arriving(j))
    BY <1>0, <1>1
  <2> QED
    BY <1>0, <2>1, Kept
<1>7. code'[j] = code[j] /\ code'[i] = code[i]
      /\ \A k \in (i + 1)..(j - 1) : code'[k] = code[k]
  BY <1>0, <1>1
<1> HIDE DEF n
<1> QED
  BY <1>2, <1>3, <1>4, <1>5, <1>6, <1>7 DEF Jump

\* The execution that is still to come starts where it did.
LEMMA ExecutingKept ==
    ASSUME RunTypeOK, NEW new, NEW from, NEW ids, Extends(new, from, ids), Executing,
           phase = "checking", UNCHANGED <<phase, runVars>>
    PROVE  Executing'
<1>1. pc = 1 /\ Holds(Arriving(1)) /\ Len(code) \in Nat /\ from \in 1..(Len(code) + 1)
  BY ArrivingFacts DEF Executing, Extends
<1>2. Arriving(1) \in KnownSet /\ Arriving(1)' = noted'[1]
  BY <1>1, ArrivingFacts, ArrivingNext
<1>3. Entails(Arriving(1), noted'[1])
  <2>1. CASE Len(code) = 0
    <3>1. Arriving(1) = Known /\ Entails(Weaken(Known, ids), noted'[1])
      BY <2>1, ArrivingFacts DEF Extends
    <3> QED
      BY <1>2, <3>1, EntailsWeaken, EntailsTrans
  <2>2. CASE Len(code) # 0
    <3>1. 1 \in 1..Len(code)
      BY <1>1, <2>2
    <3>2. Arriving(1) = noted[1] /\ (noted'[1] = noted[1] \/ noted'[1] = Weaken(noted[1], ids))
      BY <3>1, ArrivingFacts DEF Extends
    <3> QED
      BY <1>2, <3>2, EntailsWeaken, EntailsRefl
  <2> QED
    BY <2>1, <2>2
<1>4. Holds(noted'[1])
  BY <1>1, <1>3, HoldsEntailed
<1>5. PICK known : known = noted'[1]
  OBVIOUS
<1>6. Holds(known)'
  BY <1>4, <1>5 DEF Holds, runVars, Unset, Fragment, Definite
<1>7. Holds(Arriving(1))'
  BY <1>2, <1>5, <1>6
<1> QED
  BY <1>1, <1>7 DEF Executing, runVars

\* A frame that the step leaves alone.
LEMMA FrameKept ==
    ASSUME RunTypeOK, NEW new, NEW from, NEW ids, Extends(new, from, ids),
           NEW k \in 1..Depth, OpenFrame(k), PendingFrame(k),
           \A m \in 1..k : frames'[m] = frames[m] /\ opened'[m] = opened[m],
           opened[k] < from, \A t \in Reached(k) : t < from,
           new.level > k - 1, frames[k].visible \subseteq visible'
    PROVE  OpenFrame(k)' /\ PendingFrame(k)'
<1> DEFINE n == Len(code)
<1>0. Depth \in Nat /\ k \in 1..k /\ k \in Nat /\ Len(opened) = Depth
  BY FrameFacts DEF RunTypeOK
<1>1. /\ n \in Nat
      /\ frames'[k] = frames[k] /\ opened'[k] = opened[k]
      /\ Len(code') = n + 1 /\ code'[n + 1] = new /\ new.level \in Nat
      /\ \A t \in 1..n : code'[t] = code[t]
      /\ \A m \in 1..(k - 1) : frames'[m] = frames[m] /\ opened'[m] = opened[m]
  BY <1>0, ArrivingFacts DEF Extends, Entries
<1>a. opened[k] \in 1..n
  BY <1>0 DEF RunTypeOK
<1>2. Reached(k)' = Reached(k)
  <2>1. \A t \in (opened[k] + 1)..(n + 1) : t \in (opened[k] + 1)..n \/ t = n + 1
    BY <1>0, <1>1, <1>a
  <2>2. \A t \in (opened[k] + 1)..n : code'[t] = code[t] /\ t \in (opened[k] + 1)..(n + 1)
    BY <1>0, <1>1, <1>a
  <2>3. code'[n + 1].level # k - 1
    BY <1>0, <1>1, <1>a
  <2> QED
    BY <1>0, <1>1, <1>a, <2>1, <2>2, <2>3 DEF Reached
<1>3. /\ \A t \in Reached(k) : t \in 1..n /\ code'[t] = code[t] /\ noted'[t] = noted[t]
      /\ noted'[opened[k]] = noted[opened[k]] /\ code'[opened[k]] = code[opened[k]]
  BY <1>0, <1>1, <1>a DEF Reached, Extends
<1>4. \A t \in opened[k]..(n + 1) : code'[t].level >= k - 1
  <2> TAKE t \in opened[k]..(n + 1)
  <2>1. CASE t = n + 1
    BY <1>0, <1>1, <1>a, <2>1
  <2>2. CASE t \in opened[k]..n
    BY <1>0, <1>1, <1>a, <2>2 DEF OpenFrame
  <2> QED
    BY <1>0, <1>1, <1>a, <2>1, <2>2
<1> HIDE DEF n
<1>5. OpenFrame(k)'
  <2>1. /\ code'[opened'[k]].level = k - 1
        /\ code'[opened'[k]].op = IF frames'[k].kind = "loop" THEN "loop" ELSE "if"
    BY <1>1, <1>3 DEF OpenFrame
  <2>2. \A t \in opened'[k]..Len(code') : code'[t].level >= k - 1
    BY <1>1, <1>4
  <2>3. \A t \in Reached(k)' : code'[t].op \in Middles
    BY <1>2, <1>3 DEF OpenFrame
  <2>4. /\ frames'[k].kind = "loop" => Reached(k)' = {}
        /\ frames'[k].kind = "else" => \E t \in Reached(k)' : code'[t].op = "else"
    BY <1>1, <1>2, <1>3 DEF OpenFrame
  <2>5. \A m \in 1..(k - 1) : opened'[m] < opened'[k]
    BY <1>1 DEF OpenFrame
  <2> QED
    BY <2>1, <2>2, <2>3, <2>4, <2>5 DEF OpenFrame, Middles
<1>6. PendingFrame(k)'
  <2>1. \A t \in Reached(k)' : Entails(noted'[t], [map |-> frames'[k].mergedProvenance,
                                                   visible |-> frames'[k].visible])
                               \/ frames[k].kind = "loop"
    BY <1>0, <1>1, <1>a, <1>2, <1>3 DEF PendingFrame
  <2> QED
    BY <1>0, <1>1, <1>a, <1>2, <1>3, <2>1 DEF PendingFrame
<1> QED
  BY <1>5, <1>6

\* Weakening nothing.
LEMMA WeakenNothing ==
    ASSUME NEW a \in KnownSet
    PROVE  Entails(Weaken(a, {}), a)
<1>1. a.visible \subseteq Symbols /\ Params \subseteq Symbols
  BY DEF KnownSet, Symbols
<1> QED
  BY <1>1, WeakenType DEF Entails

LEMMA CodeAppended ==
    ASSUME RunTypeOK, NEW op, NEW target, NEW source, NEW level,
           Entry(op, target, source, level) \in Entries, Record(op, target, source, level)
    PROVE  /\ code' \in Seq(Entries) /\ Len(code') = Len(code) + 1
           /\ \A t \in 1..Len(code) : code'[t] = code[t]
           /\ code'[Len(code) + 1] = Entry(op, target, source, level)
           /\ phase = "checking" /\ UNCHANGED <<phase, runVars>>
           /\ Note(op)
<1>1. code' = Append(code, Entry(op, target, source, level)) /\ code \in Seq(Entries)
  BY DEF Record, RunTypeOK
<1> QED
  BY <1>1, Appended DEF Record

\* A statement, an opener or the start of a branch.
LEMMA RecordPlain ==
    ASSUME RunTypeOK, NEW op \in {"store", "return"} \cup Openers \cup Middles,
           NEW target, NEW source, NEW level,
           Entry(op, target, source, level) \in Entries, Record(op, target, source, level),
           op \in Openers => Entails(Known, Known'), rejected => rejected'
    PROVE  /\ Extends(Entry(op, target, source, level), Len(code) + 1, {})
           /\ noted'[Len(code) + 1] = Known
           /\ op \notin Openers => opened' = opened
           /\ op \in Openers => /\ opened' \in Seq(1..(Len(code) + 1)) /\ Len(opened') = Depth + 1
                                /\ \A k \in 1..Depth : opened'[k] = opened[k]
                                /\ opened'[Depth + 1] = Len(code) + 1
<1> DEFINE n == Len(code)
           e == Entry(op, target, source, level)
<1>1. n \in Nat /\ noted \in Seq(KnownSet) /\ Len(noted) = n /\ Known \in KnownSet
  BY ArrivingFacts DEF RunTypeOK
<1>2. op \notin Ends /\ op # "endIf" /\ op # "endLoop"
  BY DEF Openers, Middles, Ends
<1>3. noted' = Append(noted, Known)
  BY <1>2, CodeAppended DEF Note
<1>4. /\ noted' \in Seq(KnownSet) /\ Len(noted') = n + 1
      /\ \A t \in 1..n : noted'[t] = noted[t]
      /\ noted'[n + 1] = Known
  BY <1>1, <1>3, Appended
<1>5. op \notin Openers => opened' = opened
  BY <1>2, CodeAppended DEF Note
<1>6. op \in Openers => /\ opened' \in Seq(1..(n + 1)) /\ Len(opened') = Depth + 1
                        /\ \A k \in 1..Depth : opened'[k] = opened[k]
                        /\ opened'[Depth + 1] = n + 1
  <2> SUFFICES ASSUME op \in Openers
               PROVE  /\ opened' \in Seq(1..(n + 1)) /\ Len(opened') = Depth + 1
                      /\ \A k \in 1..Depth : opened'[k] = opened[k]
                      /\ opened'[Depth + 1] = n + 1
    OBVIOUS
  <2>1. opened' = Append(opened, n + 1)
    BY <1>2, CodeAppended DEF Note
  <2>2. 1..n \subseteq 1..(n + 1) /\ n + 1 \in 1..(n + 1)
    BY <1>1
  <2>3. opened \in Seq(1..(n + 1)) /\ Len(opened) = Depth
    BY <2>2, SeqMonotonic DEF RunTypeOK
  <2> QED
    BY <2>1, <2>2, <2>3, Appended
<1>7. Entails(Weaken(Known, {}), Known)
  BY <1>1, WeakenNothing
<1>8. e.op = op
  BY DEF Entry
<1>9. n + 1 \in 1..(n + 1) /\ \A t \in 1..n : t < n + 1
  BY <1>1
<1>10. Entails(noted'[n + 1], Known') \/ e.op \notin Openers \cup Ends
  BY <1>2, <1>4, <1>8
<1>11. Extends(e, n + 1, {})
  BY <1>4, <1>7, <1>9, <1>10, CodeAppended DEF Extends
<1> QED
  BY <1>4, <1>5, <1>6, <1>11

\* The end of an if.
LEMMA RecordEndIf ==
    ASSUME RunTypeOK, NEW level, Record("endIf", NoOperand, NoOperand, level),
           Entry("endIf", NoOperand, NoOperand, level) \in Entries,
           Depth \in Nat \ {0}, Entails(Known, Known'), Known' \in KnownSet, rejected => rejected'
    PROVE  /\ Extends(Entry("endIf", NoOperand, NoOperand, level), Len(code) + 1, {})
           /\ noted'[Len(code) + 1] = Known'
           /\ opened' \in Seq(1..(Len(code) + 1)) /\ Len(opened') = Depth - 1
           /\ \A k \in 1..(Depth - 1) : opened'[k] = opened[k]
<1> DEFINE n == Len(code)
           e == Entry("endIf", NoOperand, NoOperand, level)
<1>1. n \in Nat /\ noted \in Seq(KnownSet) /\ Len(noted) = n /\ Known \in KnownSet
  BY ArrivingFacts DEF RunTypeOK
<1>2. Known' \in KnownSet
  OBVIOUS
<1>3. noted' = Append(noted, Known')
  BY CodeAppended DEF Note
<1>4. /\ noted' \in Seq(KnownSet) /\ Len(noted') = n + 1
      /\ \A t \in 1..n : noted'[t] = noted[t]
      /\ noted'[n + 1] = Known'
  BY <1>1, <1>2, <1>3, Appended
<1>5. opened' \in Seq(1..(n + 1)) /\ Len(opened') = Depth - 1
      /\ \A k \in 1..(Depth - 1) : opened'[k] = opened[k]
  <2>1. opened' = SubSeq(opened, 1, Depth - 1)
    BY CodeAppended DEF Note, Openers, Ends
  <2>2. 1..n \subseteq 1..(n + 1)
    BY <1>1
  <2>3. opened \in Seq(1..(n + 1)) /\ Len(opened) = Depth
    BY <2>2, SeqMonotonic DEF RunTypeOK
  <2> QED
    BY <2>1, <2>3, Front
<1>6. Entails(Weaken(Known, {}), noted'[n + 1])
  BY <1>1, <1>4, WeakenNothing, EntailsTrans
<1>7. n + 1 \in 1..(n + 1) /\ \A t \in 1..n : t < n + 1
  BY <1>1
<1>8. Entails(noted'[n + 1], Known')
  BY <1>4, EntailsRefl
<1>9. Extends(e, n + 1, {})
  BY <1>4, <1>6, <1>7, <1>8, CodeAppended DEF Extends
<1> QED
  BY <1>4, <1>5, <1>9

\* The end of a loop.
LEMMA RecordEndLoop ==
    ASSUME RunTypeOK, NEW level, Record("endLoop", NoOperand, NoOperand, level),
           Entry("endLoop", NoOperand, NoOperand, level) \in Entries,
           Depth \in Nat \ {0}, Entails(Weaken(Known, touched), Known'), Known' \in KnownSet, rejected => rejected'
    PROVE  /\ Extends(Entry("endLoop", NoOperand, NoOperand, level), opened[Depth], touched)
           /\ noted'[Len(code) + 1] = Known'
           /\ opened' \in Seq(1..(Len(code) + 1)) /\ Len(opened') = Depth - 1
           /\ \A k \in 1..(Depth - 1) : opened'[k] = opened[k]
<1> DEFINE n == Len(code)
           e == Entry("endLoop", NoOperand, NoOperand, level)
           weaker == [t \in 1..n |-> IF t < opened[Depth] THEN noted[t] ELSE Weaken(noted[t], touched)]
<1>1. /\ n \in Nat /\ noted \in Seq(KnownSet) /\ Len(noted) = n /\ Known \in KnownSet
      /\ \A t \in 1..n : noted[t] \in KnownSet
  BY ArrivingFacts DEF RunTypeOK
<1>2. Known' \in KnownSet
  OBVIOUS
<1>3. noted' = Append(weaker, Known')
  BY <1>1, CodeAppended DEF Note
<1>4. weaker \in Seq(KnownSet) /\ Len(weaker) = n
  <2>1. weaker \in [1..n -> KnownSet]
    BY <1>1, WeakenType
  <2>2. weaker \in Seq(KnownSet) /\ DOMAIN weaker = 1..n
    BY <1>1, <2>1, SeqDef
  <2> HIDE DEF weaker, n
  <2> QED
    BY <1>1, <2>2, LenProperties
<1>5. \A t \in 1..n : weaker[t] = IF t < opened[Depth] THEN noted[t] ELSE Weaken(noted[t], touched)
  OBVIOUS
<1> HIDE DEF weaker
<1>6. /\ noted' \in Seq(KnownSet) /\ Len(noted') = n + 1
      /\ \A t \in 1..n : noted'[t] = weaker[t]
      /\ noted'[n + 1] = Known'
  BY <1>1, <1>2, <1>3, <1>4, Appended
<1>7. opened' \in Seq(1..(n + 1)) /\ Len(opened') = Depth - 1
      /\ \A k \in 1..(Depth - 1) : opened'[k] = opened[k]
  <2>1. opened' = SubSeq(opened, 1, Depth - 1)
    BY CodeAppended DEF Note, Openers, Ends
  <2>2. 1..n \subseteq 1..(n + 1)
    BY <1>1
  <2>3. opened \in Seq(1..(n + 1)) /\ Len(opened) = Depth
    BY <2>2, SeqMonotonic DEF RunTypeOK
  <2> QED
    BY <2>1, <2>3, Front
<1>8. opened[Depth] \in 1..(n + 1)
  <2>1. Depth \in 1..Len(opened) /\ opened \in Seq(1..n)
    BY FrameFacts DEF RunTypeOK
  <2>2. opened[Depth] \in 1..n
    BY <2>1, ElementOfSeq
  <2> QED
    BY <1>1, <2>2
<1>9. Entails(noted'[n + 1], Known')
  BY <1>6, EntailsRefl
<1>10. Extends(e, opened[Depth], touched)
  BY <1>5, <1>6, <1>8, <1>9, CodeAppended DEF Extends
<1> QED
  BY <1>6, <1>7, <1>10

LEMMA RunTypes ==
    ASSUME RunTypeOK, NEW new, NEW from, NEW ids, Extends(new, from, ids), TypeOK',
           opened' \in Seq(1..(Len(code) + 1)), Len(opened') = Depth',
           UNCHANGED <<phase, runVars>>
    PROVE  RunTypeOK'
<1>1. pc \in 1..(Len(code') + 1) /\ Len(code) \in Nat
  BY ArrivingFacts DEF RunTypeOK, Extends
<1>2. /\ code' \in Seq(Entries) /\ noted' \in Seq(KnownSet) /\ Len(noted') = Len(code')
      /\ opened' \in Seq(1..Len(code'))
  BY DEF Extends
<1>3. UNCHANGED <<phase, pc, storage, result>>
  BY DEF runVars
<1>4. /\ Seq(Entries)' = Seq(Entries) /\ Seq(KnownSet)' = Seq(KnownSet) /\ Symbols' = Symbols
      /\ Origins' = Origins /\ Unset' = Unset
  BY DEF Entries, KnownSet, Maps, Symbols, Provenance, Untracked, Origins, Unset,
     Openers, Middles, Ends, NoOperand
<1> QED
  BY <1>1, <1>2, <1>3, <1>4 DEF RunTypeOK

----------------------------------------------------------------------------
(* The history and the new entry *)

LEMMA FlowsExtended ==
    ASSUME RunTypeOK, Flows, NEW new, NEW from, NEW ids, Extends(new, from, ids),
           Forgets(from, ids), NEW m, m = Len(code) + 1, Flow(m)'
    PROVE  Flows'
<1>1. \A j \in 1..Len(code) : Flow(j)'
  BY FlowKept DEF Flows
<1>2. Len(code') = m /\ \A j \in 1..m : j \in 1..Len(code) \/ j = m
  BY ArrivingFacts DEF Extends
<1> QED
  BY <1>1, <1>2 DEF Flows

LEMMA JumpsExtended ==
    ASSUME RunTypeOK, Jumps, NEW new, NEW from, NEW ids, Extends(new, from, ids),
           Forgets(from, ids), NEW m, m = Len(code) + 1,
           \A i \in 1..Len(code) : Opens(i, m)' => Jump(i, m)'
    PROVE  Jumps'
<1>1. \A i, j \in 1..Len(code) : Opens(i, j)' => Jump(i, j)'
  <2> TAKE i, j \in 1..Len(code)
  <2> HAVE Opens(i, j)'
  <2>1. Opens(i, j)
    BY OpensKept
  <2>2. Jump(i, j)
    BY <2>1 DEF Jumps
  <2> QED
    BY <2>1, <2>2, JumpKept
<1>2. /\ Len(code') = m
      /\ \A j \in 1..m : j \in 1..Len(code) \/ j = m
      /\ \A i, j \in 1..m : i < j => i \in 1..Len(code)
  BY ArrivingFacts DEF Extends
<1>3. \A i, j : Opens(i, j)' => i < j
  BY DEF Opens
<1>4. ASSUME NEW i \in 1..m, NEW j \in 1..m, Opens(i, j)'
      PROVE  Jump(i, j)'
  <2>1. i \in 1..Len(code)
    BY <1>2, <1>3, <1>4
  <2>2. CASE j \in 1..Len(code)
    BY <1>1, <1>4, <2>1, <2>2
  <2>3. CASE j = m
    BY <1>4, <2>1, <2>3
  <2> QED
    BY <1>2, <2>2, <2>3
<1> QED
  BY <1>2, <1>4 DEF Jumps

LEMMA NestingExtended ==
    ASSUME RunTypeOK, WellNested, NEW new, NEW from, NEW ids, Extends(new, from, ids),
           NEW m, m = Len(code) + 1,
           new.op \in Openers => \E k \in 1..Depth' : opened'[k] = m,
           \A i \in 1..Len(code) :
              (\E k \in 1..Depth : opened[k] = i) =>
                 \/ \E k \in 1..Depth' : opened'[k] = i
                 \/ new.op \in Ends /\ Opens(i, m)',
           new.op \in Middles \cup Ends => \E i \in 1..Len(code) : Opens(i, m)'
    PROVE  WellNested'
<1>1. /\ Len(code) \in Nat /\ Len(code') = m /\ m \in 1..m
      /\ \A j \in 1..m : j \in 1..Len(code) \/ j = m
      /\ \A j \in 1..Len(code) : j \in 1..m /\ code'[j] = code[j]
      /\ code'[m] = new
  BY ArrivingFacts DEF Extends
<1>2. \A i, j \in 1..Len(code) : Opens(i, j)' <=> Opens(i, j)
  BY OpensKept
<1>3. ASSUME NEW i \in 1..m, code'[i].op \in Openers
      PROVE  \/ \E k \in 1..Depth' : opened'[k] = i
             \/ \E e \in 1..m : code'[e].op \in Ends /\ Opens(i, e)'
  <2>1. CASE i = m
    BY <1>1, <1>3, <2>1
  <2>2. CASE i \in 1..Len(code)
    <3>1. CASE \E k \in 1..Depth : opened[k] = i
      BY <1>1, <2>2, <3>1
    <3>2. CASE \E e \in 1..Len(code) : code[e].op \in Ends /\ Opens(i, e)
      BY <1>1, <1>2, <2>2, <3>2
    <3> QED
      BY <1>1, <1>3, <2>2, <3>1, <3>2 DEF WellNested
  <2> QED
    BY <1>1, <2>1, <2>2
<1>4. ASSUME NEW j \in 1..m, code'[j].op \in Middles \cup Ends
      PROVE  \E i \in 1..m : Opens(i, j)'
  <2>1. CASE j = m
    BY <1>1, <1>4, <2>1
  <2>2. CASE j \in 1..Len(code)
    BY <1>1, <1>2, <1>4, <2>2 DEF WellNested
  <2> QED
    BY <1>1, <2>1, <2>2
<1> QED
  BY <1>1, <1>3, <1>4 DEF WellNested, Openers, Middles, Ends

\* Only a delimiter belongs to an opener,
LEMMA OpensNothing ==
    ASSUME RunTypeOK, NEW new, NEW from, NEW ids, Extends(new, from, ids),
           NEW m, m = Len(code) + 1, new.op \notin Middles \cup Ends, NEW i
    PROVE  ~Opens(i, m)'
  BY DEF Opens, Extends, Middles, Ends

\* and a new one to the innermost open statement.
LEMMA OpensInnermost ==
    ASSUME RunTypeOK, OpenFrames, NEW new, NEW from, NEW ids, Extends(new, from, ids),
           NEW m, m = Len(code) + 1, Depth > 0, new.level = Depth - 1,
           new.op \in Middles \cup Ends, frames[Depth].kind = "loop" <=> new.op = "endLoop",
           NEW i \in 1..Len(code)
    PROVE  Opens(i, m)' <=> i = opened[Depth]
<1> DEFINE n == Len(code)
           o == opened[Depth]
<1>1. /\ n \in Nat /\ m = n + 1 /\ Depth \in Nat /\ Depth \in 1..Depth /\ Len(opened) = Depth
      /\ code'[m] = new
      /\ \A t \in 1..n : code'[t] = code[t] /\ code[t] \in Entries
  BY ArrivingFacts, FrameFacts DEF RunTypeOK, Extends
<1>2. o \in 1..n
  BY <1>1 DEF RunTypeOK
<1>3. /\ code[o].level = Depth - 1
      /\ code[o].op = IF frames[Depth].kind = "loop" THEN "loop" ELSE "if"
      /\ \A t \in (o + 1)..n : code[t].level = Depth - 1 => code[t].op \in Middles
  BY <1>1 DEF OpenFrames, OpenFrame, Reached
<1>4. /\ \A t \in (i + 1)..(m - 1) : t \in 1..n
      /\ i < m
  BY <1>1
<1> HIDE DEF n, o
<1>5. Opens(i, m)' <=>
         /\ code[i].op \in Openers
         /\ code[i].level = Depth - 1
         /\ code[i].op = "loop" <=> new.op = "endLoop"
         /\ \A t \in (i + 1)..n : code[t].level = code[i].level => code[t].op \in Middles
  <2>1. m - 1 = n /\ i \in 1..n
    BY <1>1 DEF n
  <2>2. code'[i] = code[i] /\ \A t \in (i + 1)..n : code'[t] = code[t]
    BY <1>1, <1>4, <2>1
  <2> QED
    BY <1>1, <1>4, <2>1, <2>2 DEF Opens, Openers, Middles, Ends
<1>6. i = o => Opens(i, m)'
  BY <1>3, <1>5 DEF Openers
<1>7. ASSUME Opens(i, m)'
      PROVE  i = o
  <2>1. CASE i < o
    <3>1. o \in (i + 1)..n
      BY <1>1, <1>2, <2>1 DEF n
    <3>2. code[o].op \in Middles
      BY <1>3, <1>5, <1>7, <3>1
    <3> QED
      BY <1>3, <3>2 DEF Middles
  <2>2. CASE o < i
    <3>1. i \in (o + 1)..n
      BY <1>1, <1>2, <2>2 DEF n
    <3>2. code[i].op \in Middles
      BY <1>3, <1>5, <1>7, <3>1
    <3> QED
      BY <1>5, <1>7, <3>2 DEF Middles, Openers
  <2> QED
    BY <1>1, <1>2, <2>1, <2>2 DEF n
<1> QED
  BY <1>6, <1>7 DEF o

\* The frames the step does not close or continue.
LEMMA FramesKept ==
    ASSUME RunTypeOK, OpenFrames, Pending, NEW new, NEW from, NEW ids, Extends(new, from, ids),
           NEW d \in 0..Depth,
           \A k \in 1..d : frames'[k] = frames[k] /\ opened'[k] = opened[k]
                           /\ frames[k].visible \subseteq visible',
           new.level >= d,
           \/ from = Len(code) + 1
           \/ d = Depth - 1 /\ from = opened[Depth]
    PROVE  \A k \in 1..d : OpenFrame(k)' /\ PendingFrame(k)'
<1>0. /\ Depth \in Nat /\ Len(code) \in Nat /\ Len(opened) = Depth
      /\ \A k \in 1..Depth : opened[k] \in 1..Len(code)
      /\ new.level \in Nat
  BY ArrivingFacts, FrameFacts, SMTT(20) DEF RunTypeOK, Extends, Entries
<1> SUFFICES ASSUME NEW k \in 1..d
             PROVE  OpenFrame(k)' /\ PendingFrame(k)'
  OBVIOUS
<1>1. /\ k \in 1..Depth /\ new.level > k - 1 /\ k \in Nat
      /\ \A m \in 1..k : m \in 1..d
  BY <1>0
<1>2. OpenFrame(k) /\ PendingFrame(k)
  BY <1>1 DEF OpenFrames, Pending
<1>3. opened[k] < from /\ \A t \in Reached(k) : t < from
  <2>1. CASE from = Len(code) + 1
    BY <1>0, <1>1, <2>1 DEF Reached
  <2>2. CASE d = Depth - 1 /\ from = opened[Depth]
    <3>1. Depth \in 1..Depth /\ k \in 1..(Depth - 1)
      BY <1>0, <1>1, <2>2
    <3>2. OpenFrame(Depth)
      BY <3>1 DEF OpenFrames
    <3>3. opened[k] < opened[Depth]
      BY <3>1, <3>2 DEF OpenFrame
    <3>4. ASSUME NEW t \in Reached(k)
          PROVE  t < opened[Depth]
      <4>1. t \in 1..Len(code) /\ code[t].level = k - 1 /\ t <= Len(code)
        BY <1>0, <1>1 DEF Reached
      <4>2. ~(t \in opened[Depth]..Len(code))
        BY <1>0, <3>1, <3>2, <4>1 DEF OpenFrame
      <4>3. opened[Depth] \in 1..Len(code)
        BY <1>0, <3>1
      <4> HIDE <1>2
      <4> QED
        BY <1>0, <4>1, <4>2, <4>3
    <3> QED
      BY <2>2, <3>3, <3>4
  <2> QED
    BY <2>1, <2>2
<1> QED
  BY <1>1, <1>2, <1>3, FrameKept

\* What no statement of its own changes.
LEMMA StatementStep ==
    ASSUME RunIInv, NEW new, Extends(new, Len(code) + 1, {}), new.op \in {"store", "return"},
           new.level = Depth, UNCHANGED <<frames, opened, phase, runVars>>, phase = "checking",
           visible \subseteq visible', TypeOK',
           NEW m, m = Len(code) + 1, Flow(m)'
    PROVE  /\ RunTypeOK' /\ OpenFrames' /\ WellNested' /\ Flows' /\ Jumps' /\ Pending'
           /\ Executing'
<1> USE DEF RunIInv
<1>1. /\ Depth' = Depth /\ Depth \in Nat /\ Len(code) \in Nat
      /\ opened' = opened /\ frames' = frames
  BY ArrivingFacts, FrameFacts DEF Depth, RunTypeOK
<1>2. RunTypeOK'
  <2>1. 1..Len(code) \subseteq 1..(Len(code) + 1)
    BY <1>1
  <2>2. opened' \in Seq(1..(Len(code) + 1)) /\ Len(opened') = Depth'
    BY <1>1, <2>1, SeqMonotonic DEF RunTypeOK
  <2> QED
    BY <2>2, RunTypes
<1>3. Forgets(Len(code) + 1, {})
  BY <1>1 DEF Forgets
<1>4. Flows'
  BY <1>3, FlowsExtended
<1>5. new.op \notin Openers \cup Middles \cup Ends
  BY DEF Openers, Middles, Ends
<1>6. Jumps'
  BY <1>3, <1>5, OpensNothing, JumpsExtended
<1>7. WellNested'
  BY <1>1, <1>5, NestingExtended
<1>8. \A k \in 1..Depth : OpenFrame(k)' /\ PendingFrame(k)'
  <2>1. Depth \in 0..Depth /\ new.level >= Depth
    BY <1>1
  <2>2. \A k \in 1..Depth : frames[k].visible \subseteq visible'
    BY DEF Pending, PendingFrame
  <2> QED
    BY <1>1, <2>1, <2>2, FramesKept
<1>9. OpenFrames' /\ Pending'
  BY <1>1, <1>8 DEF OpenFrames, Pending
<1>10. Executing'
  BY ExecutingKept
<1> QED
  BY <1>2, <1>4, <1>6, <1>7, <1>9, <1>10

----------------------------------------------------------------------------
(* The walk, operation by operation *)

LEMMA SourcesInEntries ==
    /\ \A s \in Locals, src \in Sources, level \in Nat :
          TypeOK => Entry("store", s, src, level) \in Entries
    /\ \A src \in Sources, level \in Nat :
          TypeOK => Entry("return", NoOperand, src, level) \in Entries
    /\ \A op \in Openers \cup Middles \cup Ends, level \in Nat :
          Entry(op, NoOperand, NoOperand, level) \in Entries
    /\ \A op, target, source, level :
          LET e == Entry(op, target, source, level)
          IN  e.op = op /\ e.target = target /\ e.source = source /\ e.level = level
  BY DEF Entry, Entries, Sources, Symbols, TypeOK

\* A declaration or an assignment.
LEMMA StoreStep ==
    ASSUME RunIInv, NEW s \in Locals, NEW src \in Sources,
           setSliceProvenance(s, sliceProvenanceOf(src)), visible' = visible \cup {s},
           UNCHANGED <<touchTracking, frames, rejected>>,
           Record("store", s, src, Depth)
    PROVE  RunIInv'
<1> USE DEF RunIInv
<1> DEFINE new == Entry("store", s, src, Depth)
<1>1. RunTypeOK /\ TypeOK /\ Depth \in Nat /\ Len(code) \in Nat
  BY ArrivingFacts, FrameFacts DEF RunTypeOK
<1>2. new \in Entries /\ new.op = "store" /\ new.target = s /\ new.source = src /\ new.level = Depth
  BY <1>1, SourcesInEntries
<1>3. /\ TypeOK' /\ Depth' = Depth
      /\ sliceProvenance'[s] = ProvenanceIn(sliceProvenance, src)
      /\ ProvenanceIn(sliceProvenance, src) \in Provenance
      /\ \A id \in Symbols \ {s} : sliceProvenance'[id] = sliceProvenance[id]
      /\ touched \subseteq touched'
      /\ touchTracking => s \in touched'
      /\ AfterStore(Known, new) = Known'
  BY <1>1, StoreEffect
<1>4. /\ Extends(new, Len(code) + 1, {}) /\ noted'[Len(code) + 1] = Known
      /\ opened' = opened
  BY <1>1, <1>2, RecordPlain DEF Openers
<1>5. phase = "checking" /\ UNCHANGED <<phase, runVars>>
  BY <1>1, <1>2, CodeAppended
<1> HIDE DEF new
<1>6. PICK m : m = Len(code) + 1
  OBVIOUS
<1>7. /\ code'[m] = new /\ Len(code') = m
      /\ \A t \in 1..Len(code) : code'[t] = code[t] /\ noted'[t] = noted[t]
      /\ noted'[m] = Known /\ Arriving(m + 1)' = Known'
  <2>2. PICK next : next = m + 1
    OBVIOUS
  <2>3. Arriving(next)' = Known'
    BY <1>1, <1>4, <1>6, <2>2, ArrivingNext
  <2> QED
    BY <1>1, <1>4, <1>6, <2>2, <2>3 DEF Extends
<1>8. Flow(m)'
  <2>1. src \in Params \cup Known.visible \cup {SliceCall, OtherCall}
    BY DEF Sources, Known
  <2>2. Entails(AfterStore(noted'[m], code'[m]), Arriving(m + 1)')
    BY <1>3, <1>7, EntailsRefl
  <2> QED
    BY <1>2, <1>7, <2>1, <2>2 DEF Flow, Openers
<1>9. visible \subseteq visible'
  OBVIOUS
<1>10. new.op \in {"store", "return"} /\ opened' = opened /\ frames' = frames
       /\ UNCHANGED <<frames, opened, phase, runVars>>
  BY <1>2, <1>4, <1>5
<1>11. /\ RunTypeOK' /\ OpenFrames' /\ WellNested' /\ Flows' /\ Jumps' /\ Pending'
       /\ Executing'
  BY <1>2, <1>3, <1>4, <1>5, <1>6, <1>8, <1>9, <1>10, StatementStep
<1>12. ScopesTracked'
  <2>1. \A id \in Params \cup visible' : Tracked(sliceProvenance', id)
    <3> TAKE id \in Params \cup visible'
    <3>1. CASE id = s
      BY <1>3, <3>1 DEF Tracked, Provenance, Untracked
    <3>2. CASE id # s
      <4>1. id \in Params \cup visible /\ id \in Symbols \ {s}
        BY <1>1, <3>2 DEF TypeOK, Symbols
      <4> QED
        BY <1>3, <4>1 DEF ScopesTracked, Tracked
    <3> QED
      BY <3>1, <3>2
  <2> QED
    BY <1>3, <2>1 DEF ScopesTracked, Tracked, Untracked
<1>13. OpenLoop'
  <2> SUFFICES ASSUME Fragment, NEW k \in 1..Depth, frames[k].kind = "loop"
               PROVE  LoopFrame(k)'
    BY <1>3 DEF OpenLoop, Fragment
  <2>1. LoopFrame(k)
    BY DEF OpenLoop
  <2>2. opened[k] \in 1..Len(code) /\ opened'[k] = opened[k]
    BY <1>1, <1>4 DEF RunTypeOK
  <2>3. touchTracking /\ touchTracking' /\ s \in touched'
    BY <1>3, <2>1 DEF LoopFrame
  <2>4. \A t \in (opened[k] + 1)..m : /\ code'[t].op \notin {"return", "endLoop"}
                                      /\ code'[t].op = "store" => code'[t].target \in touched'
    <3> TAKE t \in (opened[k] + 1)..m
    <3>1. t = m \/ (t \in (opened[k] + 1)..Len(code) /\ t \in 1..Len(code))
      BY <1>1, <1>6, <2>2
    <3> QED
      BY <1>2, <1>3, <1>7, <2>1, <2>3, <3>1 DEF LoopFrame
  <2>5. ASSUME NEW id \in (Params \cup frames[k].visible) \ touched'
        PROVE  id \in (Params \cup frames[k].visible) \ touched /\ sliceProvenance'[id] = sliceProvenance[id]
    <3>1. id \in Symbols \ {s}
      BY <1>1, <2>3, FrameFacts DEF Symbols
    <3> QED
      BY <1>3, <3>1
  <2>6. noted'[opened[k]] = noted[opened[k]]
    BY <1>7, <2>2
  <2> QED
    BY <1>3, <1>7, <2>1, <2>2, <2>3, <2>4, <2>5, <2>6 DEF LoopFrame
<1> QED
  BY <1>11, <1>12, <1>13

\* A return.
LEMMA ReturnStep ==
    ASSUME RunIInv, NEW src \in Sources, checkReturnStmt(src),
           Record("return", NoOperand, src, Depth)
    PROVE  RunIInv'
<1> USE DEF RunIInv
<1> DEFINE new == Entry("return", NoOperand, src, Depth)
<1>1. RunTypeOK /\ TypeOK /\ Depth \in Nat /\ Len(code) \in Nat
  BY ArrivingFacts, FrameFacts DEF RunTypeOK
<1>2. new \in Entries /\ new.op = "return" /\ new.source = src /\ new.level = Depth
  BY <1>1, SourcesInEntries
<1>3. /\ UNCHANGED <<sliceProvenance, touchTracking, touched, visible, frames>>
      /\ rejected' \/ ProvenanceIn(sliceProvenance, src) = "External"
      /\ rejected => rejected'
      /\ rejected' \in BOOLEAN
      /\ ReturnInLoop \/ ~InLoop
  BY <1>1, SourceKnown DEF checkReturnStmt, TypeOK
<1>4. TypeOK' /\ Depth' = Depth
  BY <1>1, <1>3 DEF TypeOK, Depth
<1>5. /\ Extends(new, Len(code) + 1, {}) /\ noted'[Len(code) + 1] = Known
      /\ opened' = opened
  BY <1>1, <1>2, <1>3, RecordPlain DEF Openers
<1>6. phase = "checking" /\ UNCHANGED <<phase, runVars>>
  BY <1>1, <1>2, CodeAppended
<1> HIDE DEF new
<1>7. PICK m : m = Len(code) + 1
  OBVIOUS
<1>8. code'[m] = new /\ noted'[m] = Known
  BY <1>5, <1>7 DEF Extends
<1>9. Flow(m)'
  <2>1. src \in Params \cup Known.visible \cup {SliceCall, OtherCall}
    BY DEF Sources, Known
  <2>2. Known.map = sliceProvenance
    BY DEF Known
  <2>3. rejected' \/ (Fragment => ProvenanceIn(noted'[m].map, code'[m].source) = "External")
    BY <1>2, <1>3, <1>8, <2>2
  <2> QED
    BY <1>2, <1>8, <2>1, <2>3 DEF Flow, Openers
<1>10. /\ new.op \in {"store", "return"} /\ visible \subseteq visible'
       /\ UNCHANGED <<frames, opened, phase, runVars>>
  BY <1>2, <1>3, <1>5, <1>6
<1>11. /\ RunTypeOK' /\ OpenFrames' /\ WellNested' /\ Flows' /\ Jumps' /\ Pending'
       /\ Executing'
  BY <1>2, <1>4, <1>5, <1>6, <1>7, <1>9, <1>10, StatementStep
<1>12. ScopesTracked'
  BY <1>3, <1>4 DEF ScopesTracked, Tracked, Untracked
<1>13. OpenLoop'
  <2>1. Fragment => \A k \in 1..Depth : frames[k].kind # "loop"
    BY <1>3 DEF Fragment, InLoop
  <2> QED
    BY <1>3, <1>4, <2>1 DEF OpenLoop, Fragment
<1> QED
  BY <1>11, <1>12, <1>13

\* The start of an if or a loop.
LEMMA EnterStep ==
    ASSUME RunIInv, NEW op \in Openers, Record(op, NoOperand, NoOperand, Depth),
           TypeOK', Depth' = Depth + 1,
           \A k \in 1..Depth : frames'[k] = frames[k],
           frames'[Depth + 1].kind = op, frames'[Depth + 1].visible = visible,
           op = "if" => frames'[Depth + 1].entryProvenance = sliceProvenance,
           UNCHANGED <<sliceProvenance, visible, rejected>>
    PROVE  /\ RunTypeOK' /\ OpenFrames' /\ WellNested' /\ Flows' /\ Jumps' /\ Pending'
           /\ Executing'
           /\ Len(code') = Len(code) + 1
           /\ \A t \in 1..Len(code) : code'[t] = code[t] /\ noted'[t] = noted[t]
           /\ code'[Len(code) + 1].op = op /\ noted'[Len(code) + 1].map = sliceProvenance
           /\ \A k \in 1..Depth : opened'[k] = opened[k]
           /\ opened'[Depth + 1] = Len(code) + 1
<1> USE DEF RunIInv
<1> DEFINE new == Entry(op, NoOperand, NoOperand, Depth)
<1>1. /\ RunTypeOK /\ TypeOK /\ Depth \in Nat /\ Len(code) \in Nat
      /\ \A k \in 1..Depth : opened[k] \in 1..Len(code)
  BY ArrivingFacts, FrameFacts DEF RunTypeOK
<1>2. /\ new \in Entries /\ new.op = op /\ new.target = NoOperand /\ new.source = NoOperand
      /\ new.level = Depth
  BY <1>1, SourcesInEntries
<1>3. Known' = Known
  BY DEF Known
<1>4. /\ Extends(new, Len(code) + 1, {})
      /\ noted'[Len(code) + 1] = Known
      /\ opened' \in Seq(1..(Len(code) + 1)) /\ Len(opened') = Depth + 1
      /\ \A k \in 1..Depth : opened'[k] = opened[k]
      /\ opened'[Depth + 1] = Len(code) + 1
  <2>1. Entails(Known, Known') /\ (rejected => rejected')
    BY <1>3, EntailsRefl
  <2> QED
    BY <1>1, <1>2, <2>1, RecordPlain
<1>5. phase = "checking" /\ UNCHANGED <<phase, runVars>>
  BY <1>1, <1>2, CodeAppended
<1> HIDE DEF new
<1>6. PICK m : m = Len(code) + 1
  OBVIOUS
<1>7. PICK d : d = Depth + 1
  OBVIOUS
<1>8. /\ code'[m] = new /\ Len(code') = m
      /\ \A t \in 1..Len(code) : code'[t] = code[t] /\ noted'[t] = noted[t]
      /\ noted'[m] = Known
      /\ m \in Nat /\ opened'[d] = m
  BY <1>1, <1>4, <1>6, <1>7 DEF Extends
<1>9. Arriving(m + 1)' = Known'
  <2>1. PICK next : next = m + 1
    OBVIOUS
  <2>2. Arriving(next)' = Known'
    BY <1>1, <1>4, <1>6, <2>1, ArrivingNext
  <2> QED
    BY <2>1, <2>2
<1>10. Flow(m)'
  <2>1. Entails(noted'[m], Arriving(m + 1)')
    BY <1>3, <1>8, <1>9, EntailsRefl
  <2>2. op \notin {"store", "return"}
    BY DEF Openers
  <2> QED
    BY <1>2, <1>8, <2>1, <2>2 DEF Flow, NoOperand
<1>11. Forgets(Len(code) + 1, {})
  BY <1>1 DEF Forgets
<1>12. Flows'
  BY <1>1, <1>4, <1>6, <1>10, <1>11, FlowsExtended
<1>13. op \notin Middles \cup Ends
  BY DEF Openers, Middles, Ends
<1>14. Jumps'
  BY <1>1, <1>2, <1>4, <1>6, <1>11, <1>13, OpensNothing, JumpsExtended
<1>15. RunTypeOK'
  BY <1>1, <1>4, <1>5, RunTypes
<1>16. WellNested'
  <2>1. \E k \in 1..Depth' : opened'[k] = m
    BY <1>1, <1>7, <1>8
  <2>2. \A i \in 1..Len(code) : (\E k \in 1..Depth : opened[k] = i)
                                   => \E k \in 1..Depth' : opened'[k] = i
    <3>1. \A k \in 1..Depth : k \in 1..Depth' /\ opened'[k] = opened[k]
      BY <1>1, <1>4
    <3> QED
      BY <3>1
  <2> QED
    BY <1>1, <1>2, <1>4, <1>6, <1>13, <2>1, <2>2, NestingExtended
<1>17. \A k \in 1..Depth : OpenFrame(k)' /\ PendingFrame(k)'
  <2>1. Depth \in 0..Depth /\ new.level >= Depth
    BY <1>1, <1>2
  <2>2. \A k \in 1..Depth : frames[k].visible \subseteq visible'
    BY DEF Pending, PendingFrame
  <2> QED
    BY <1>1, <1>4, <2>1, <2>2, FramesKept
<1>18. Reached(d)' = {} /\ frames'[d].kind = op /\ frames'[d].visible = visible
  BY <1>7, <1>8 DEF Reached
<1>19. OpenFrame(d)'
  <2>1. code'[m].level = d - 1 /\ code'[m].op = op
    BY <1>1, <1>2, <1>7, <1>8
  <2>2. \A t \in m..m : code'[t].level >= d - 1
    BY <1>1, <1>7, <1>8, <2>1
  <2>3. \A k \in 1..(d - 1) : opened'[k] < m
    BY <1>1, <1>4, <1>6, <1>7
  <2>4. op = IF op = "loop" THEN "loop" ELSE "if"
    BY DEF Openers
  <2>5. op # "else"
    BY DEF Openers
  <2> QED
    BY <1>8, <1>18, <2>1, <2>2, <2>3, <2>4, <2>5 DEF OpenFrame
<1>20. PendingFrame(d)'
  <2>1. Known.visible = visible /\ Known.map = sliceProvenance
    BY DEF Known
  <2>2. \A k \in 1..(d - 1) : frames'[k].visible \subseteq frames'[d].visible
    <3>1. \A k \in 1..(d - 1) : k \in 1..Depth /\ frames'[k] = frames[k]
      BY <1>1, <1>7
    <3> QED
      BY <1>18, <3>1 DEF Pending, PendingFrame
  <2>3. op # "loop" => frames'[d].entryProvenance = sliceProvenance
    BY <1>7 DEF Openers
  <2> QED
    BY <1>8, <1>18, <2>1, <2>2, <2>3 DEF PendingFrame
<1>21. \A k \in 1..Depth' : k \in 1..Depth \/ k = d
  BY <1>1, <1>7
<1>22. OpenFrames' /\ Pending'
  BY <1>17, <1>19, <1>20, <1>21 DEF OpenFrames, Pending
<1>23. Executing'
  BY <1>1, <1>4, <1>5, ExecutingKept
<1>24. Known.map = sliceProvenance
  BY DEF Known
<1> QED
  BY <1>2, <1>4, <1>6, <1>8, <1>12, <1>14, <1>15, <1>16, <1>22, <1>23, <1>24

LEMMA EnterIfStep ==
    ASSUME RunIInv, checkIfStmtEnter, Record("if", NoOperand, NoOperand, Depth)
    PROVE  RunIInv'
<1> USE DEF RunIInv
<1>1. /\ RunTypeOK /\ TypeOK /\ Depth \in Nat /\ Len(code) \in Nat
      /\ \A k \in 1..Depth : opened[k] \in 1..Len(code)
  BY ArrivingFacts, FrameFacts DEF RunTypeOK
<1>2. /\ frames' \in Seq(Frames) /\ Depth' = Depth + 1
      /\ \A k \in 1..Depth : frames'[k] = frames[k]
      /\ frames'[Depth + 1].kind = "if"
      /\ frames'[Depth + 1].entryProvenance = sliceProvenance
      /\ frames'[Depth + 1].hasMerged = FALSE
      /\ frames'[Depth + 1].visible = visible
  <2>1. Push("if", sliceProvenance) /\ sliceProvenance \in Maps /\ "if" \in {"if", "loop"}
    BY <1>1 DEF checkIfStmtEnter, TypeOK
  <2> QED
    BY <1>1, <2>1, PushFacts
<1>3. UNCHANGED <<sliceProvenance, touchTracking, touched, visible, rejected>>
  BY DEF checkIfStmtEnter
<1>4. TypeOK'
  BY <1>1, <1>2, <1>3 DEF TypeOK
<1>5. /\ RunTypeOK' /\ OpenFrames' /\ WellNested' /\ Flows' /\ Jumps' /\ Pending'
      /\ Executing'
      /\ Len(code') = Len(code) + 1
      /\ \A t \in 1..Len(code) : code'[t] = code[t] /\ noted'[t] = noted[t]
      /\ code'[Len(code) + 1].op = "if"
      /\ \A k \in 1..Depth : opened'[k] = opened[k]
  <2>1. "if" \in Openers
    BY DEF Openers
  <2> QED
    BY <1>2, <1>3, <1>4, <2>1, EnterStep
<1>6. \A k \in 1..Depth' : k \in 1..Depth \/ k = Depth + 1
  BY <1>1, <1>2
<1>7. ScopesTracked'
  <2>1. ASSUME NEW k \in 1..Depth', frames'[k].kind # "loop",
               NEW id \in Params \cup frames'[k].visible
        PROVE  /\ Tracked(frames'[k].entryProvenance, id)
               /\ frames'[k].hasMerged => Tracked(frames'[k].mergedProvenance, id)
    BY <1>2, <1>3, <1>6, <2>1 DEF ScopesTracked, Tracked
  <2> QED
    BY <1>3, <2>1 DEF ScopesTracked, Tracked, Untracked
<1>8. OpenLoop'
  <2> SUFFICES ASSUME Fragment, NEW k \in 1..Depth', frames'[k].kind = "loop"
               PROVE  LoopFrame(k)'
    BY DEF OpenLoop, Fragment
  <2>1. k \in 1..Depth /\ frames'[k] = frames[k] /\ LoopFrame(k)
    BY <1>2, <1>6 DEF OpenLoop
  <2>2. opened[k] \in 1..Len(code) /\ opened'[k] = opened[k] /\ noted'[opened[k]] = noted[opened[k]]
    BY <1>1, <1>5, <2>1
  <2>3. \A i \in 1..Depth' : frames'[i].kind = "loop" => i = k
    BY <1>2, <1>6, <2>1 DEF LoopFrame
  <2>4. \A t \in (opened[k] + 1)..Len(code') :
           /\ code'[t].op \notin {"return", "endLoop"}
           /\ code'[t].op = "store" => code'[t].target \in touched'
    <3> TAKE t \in (opened[k] + 1)..Len(code')
    <3>1. t = Len(code) + 1 \/ (t \in (opened[k] + 1)..Len(code) /\ t \in 1..Len(code))
      BY <1>1, <1>5, <2>2
    <3> QED
      BY <1>3, <1>5, <2>1, <3>1 DEF LoopFrame
  <2>5. ASSUME NEW id \in (Params \cup frames[k].visible) \ touched
        PROVE  /\ sliceProvenance'[id] = noted[opened[k]].map[id]
               /\ \A i \in (k + 1)..Depth' :
                     /\ frames'[i].entryProvenance[id] = noted[opened[k]].map[id]
                     /\ frames'[i].hasMerged =>
                           frames'[i].mergedProvenance[id] = noted[opened[k]].map[id]
    <3>1. sliceProvenance'[id] = noted[opened[k]].map[id]
      BY <1>3, <2>1 DEF LoopFrame
    <3>2. \A i \in (k + 1)..Depth' : (i \in 1..Depth /\ i \in (k + 1)..Depth) \/ i = Depth + 1
      <4>1. Depth \in Nat /\ Depth' = Depth + 1 /\ k \in 1..Depth
        BY <1>1, <1>2, <2>1
      <4> QED
        BY <4>1
    <3>3. \A i \in (k + 1)..Depth :
             /\ frames[i].entryProvenance[id] = noted[opened[k]].map[id]
             /\ frames[i].hasMerged => frames[i].mergedProvenance[id] = noted[opened[k]].map[id]
      BY <2>1, <2>5 DEF LoopFrame
    <3>4. /\ frames'[Depth + 1].entryProvenance[id] = noted[opened[k]].map[id]
          /\ ~frames'[Depth + 1].hasMerged
      BY <1>2, <2>1, <2>5 DEF LoopFrame
    <3> QED
      BY <1>2, <3>1, <3>2, <3>3, <3>4
  <2> QED
    BY <1>3, <2>1, <2>2, <2>3, <2>4, <2>5 DEF LoopFrame
<1> QED
  BY <1>5, <1>7, <1>8

LEMMA EnterLoopStep ==
    ASSUME RunIInv, checkLoopStmtEnter(TRUE), Record("loop", NoOperand, NoOperand, Depth)
    PROVE  RunIInv'
<1> USE DEF RunIInv
<1>1. /\ RunTypeOK /\ TypeOK /\ Depth \in Nat /\ Len(code) \in Nat
      /\ \A k \in 1..Depth : frames[k].kind # "loop" \/ ~Fragment
  <2>1. NestedLoops \/ ~InLoop
    BY DEF checkLoopStmtEnter
  <2> QED
    BY <2>1, ArrivingFacts, FrameFacts DEF RunTypeOK, Fragment, InLoop
<1>2. /\ TypeOK' /\ Depth' = Depth + 1
      /\ \A k \in 1..Depth : frames'[k] = frames[k]
      /\ frames'[Depth + 1].kind = "loop" /\ frames'[Depth + 1].visible = visible
      /\ touchTracking' = TRUE /\ touched' = {}
      /\ UNCHANGED <<sliceProvenance, visible, rejected>>
  BY <1>1, LoopEnterEffect
<1>3. /\ RunTypeOK' /\ OpenFrames' /\ WellNested' /\ Flows' /\ Jumps' /\ Pending'
      /\ Executing'
      /\ Len(code') = Len(code) + 1
      /\ noted'[Len(code) + 1].map = sliceProvenance
      /\ opened'[Depth + 1] = Len(code) + 1
  <2>1. "loop" \in Openers
    BY DEF Openers
  <2> QED
    BY <1>2, <2>1, EnterStep
<1>4. \A k \in 1..Depth' : k \in 1..Depth \/ k = Depth + 1
  BY <1>1, <1>2
<1>5. ScopesTracked'
  <2>1. ASSUME NEW k \in 1..Depth', frames'[k].kind # "loop",
               NEW id \in Params \cup frames'[k].visible
        PROVE  /\ Tracked(frames'[k].entryProvenance, id)
               /\ frames'[k].hasMerged => Tracked(frames'[k].mergedProvenance, id)
    BY <1>2, <1>4, <2>1 DEF ScopesTracked, Tracked
  <2> QED
    BY <1>2, <2>1 DEF ScopesTracked, Tracked, Untracked
<1>6. OpenLoop'
  <2> SUFFICES ASSUME Fragment, NEW k \in 1..Depth', frames'[k].kind = "loop"
               PROVE  LoopFrame(k)'
    BY DEF OpenLoop, Fragment
  <2>1. \A i \in 1..Depth' : frames'[i].kind = "loop" => i = Depth + 1
    BY <1>1, <1>2, <1>4
  <2>2. k = Depth + 1
    BY <2>1
  <2>3. (opened'[k] + 1)..Len(code') = {} /\ (k + 1)..Depth' = {}
    BY <1>1, <1>2, <1>3, <2>2
  <2>4. noted'[opened'[k]].map = sliceProvenance' /\ touchTracking'
    BY <1>2, <1>3, <2>2
  <2> QED
    BY <2>1, <2>2, <2>3, <2>4 DEF LoopFrame
<1> QED
  BY <1>3, <1>5, <1>6

\* The innermost frame of an if, what it remembers and what is in its scope.
LEMMA InnermostIf ==
    ASSUME RunIInv, Depth > 0, frames[Depth].kind # "loop"
    PROVE  /\ opened[Depth] \in 1..Len(code) /\ Depth \in 1..Depth
           /\ frames[Depth].visible = noted[opened[Depth]].visible
           /\ frames[Depth].visible \subseteq visible
           /\ frames[Depth].entryProvenance = noted[opened[Depth]].map
           /\ \A k \in 1..(Depth - 1) : frames[k].visible \subseteq frames[Depth].visible
           /\ \A t \in Reached(Depth) :
                 /\ frames[Depth].hasMerged
                 /\ Entails(noted[t], [map |-> frames[Depth].mergedProvenance,
                                       visible |-> frames[Depth].visible])
           /\ Params \cup frames[Depth].visible \subseteq Symbols
           /\ \A id \in Params \cup frames[Depth].visible :
                 /\ Tracked(sliceProvenance, id)
                 /\ Tracked(frames[Depth].entryProvenance, id)
                 /\ frames[Depth].hasMerged => Tracked(frames[Depth].mergedProvenance, id)
<1> USE DEF RunIInv
<1>1. Depth \in 1..Depth /\ Len(opened) = Depth /\ frames[Depth].visible \subseteq Locals
  BY FrameFacts DEF RunTypeOK
<1>2. opened[Depth] \in 1..Len(code)
  BY <1>1 DEF RunTypeOK
<1>3. PendingFrame(Depth)
  BY <1>1 DEF Pending
<1>4. Params \cup frames[Depth].visible \subseteq Symbols
  BY <1>1 DEF Symbols
<1> QED
  BY <1>1, <1>2, <1>3, <1>4 DEF PendingFrame, ScopesTracked

\* The end of one branch and the start of the next.
LEMMA NextBranchStep ==
    ASSUME RunIInv, NEW kind \in {"if", "else"}, checkIfStmtNextBranch(kind),
           NEW op \in Middles, op = "else" <=> kind = "else",
           Record(op, NoOperand, NoOperand, Depth - 1)
    PROVE  RunIInv'
<1> USE DEF RunIInv
<1> DEFINE new == Entry(op, NoOperand, NoOperand, Depth - 1)
           merged == mergeInBranchResult(frames[Depth], sliceProvenance)
<1>1. /\ RunTypeOK /\ TypeOK /\ Depth \in Nat /\ Len(code) \in Nat
      /\ \A k \in 1..Depth : opened[k] \in 1..Len(code) /\ frames[k] \in Frames
      /\ opened \in Seq(1..Len(code)) /\ Len(opened) = Depth
  BY ArrivingFacts, FrameFacts DEF RunTypeOK
<1>2. /\ TypeOK' /\ Depth' = Depth /\ Depth > 0
      /\ \A k \in 1..(Depth - 1) : frames'[k] = frames[k]
      /\ frames[Depth].kind = "if"
      /\ frames'[Depth].kind = kind
      /\ frames'[Depth].entryProvenance = frames[Depth].entryProvenance
      /\ frames'[Depth].mergedProvenance = merged
      /\ frames'[Depth].hasMerged = TRUE
      /\ frames'[Depth].visible = frames[Depth].visible
      /\ sliceProvenance' = frames[Depth].entryProvenance
      /\ visible' = frames[Depth].visible
      /\ UNCHANGED <<touchTracking, touched, rejected>>
  BY <1>1, BranchEffect
<1>3. Depth - 1 \in Nat
  BY <1>1, <1>2
<1>4. /\ new \in Entries /\ new.op = op /\ new.source = NoOperand /\ new.level = Depth - 1
  BY <1>3, SourcesInEntries
<1>5. op \notin Openers \cup Ends \cup {"store", "return"}
  BY DEF Openers, Middles, Ends
<1>6. /\ Extends(new, Len(code) + 1, {})
      /\ noted'[Len(code) + 1] = Known
      /\ opened' = opened
  BY <1>1, <1>2, <1>4, <1>5, RecordPlain
<1>7. phase = "checking" /\ UNCHANGED <<phase, runVars>>
  BY <1>1, <1>4, CodeAppended
<1> HIDE DEF new
<1>8. PICK m : m = Len(code) + 1
  OBVIOUS
<1>9. PICK o : o = opened[Depth]
  OBVIOUS
<1>10. PICK d : d = Depth
  OBVIOUS
<1>11. /\ code'[m] = new /\ Len(code') = m /\ m \in Nat
       /\ \A t \in 1..Len(code) : code'[t] = code[t] /\ noted'[t] = noted[t]
       /\ noted'[m] = Known
  BY <1>1, <1>6, <1>8 DEF Extends
<1>12. Arriving(m + 1)' = Known'
  <2>1. PICK next : next = m + 1
    OBVIOUS
  <2>2. Arriving(next)' = Known'
    BY <1>1, <1>6, <1>8, <2>1, ArrivingNext
  <2> QED
    BY <2>1, <2>2
<1>13. Forgets(Len(code) + 1, {})
  BY <1>1 DEF Forgets
<1>14. Flow(m)'
  <2>1. /\ code'[m].op = op /\ code'[m].source = NoOperand
        /\ op \notin {"store", "return"} /\ op \notin Openers \cup {"endIf"}
    BY <1>4, <1>5, <1>11 DEF Ends
  <2> QED
    BY <2>1 DEF Flow, NoOperand, Openers
<1>15. Flows'
  BY <1>1, <1>6, <1>8, <1>13, <1>14, FlowsExtended
<1>16. \A i \in 1..Len(code) : Opens(i, m)' <=> i = o
  <2>1. frames[Depth].kind = "loop" <=> new.op = "endLoop"
    BY <1>2, <1>4, <1>5 DEF Ends
  <2> QED
    BY <1>1, <1>2, <1>4, <1>6, <1>8, <1>9, <2>1, OpensInnermost
<1>17. /\ o \in 1..Len(code) /\ Depth \in 1..Depth
       /\ frames[Depth].visible = noted[o].visible
       /\ frames[Depth].visible \subseteq visible
       /\ frames[Depth].entryProvenance = noted[o].map
       /\ \A k \in 1..(Depth - 1) : frames[k].visible \subseteq frames[Depth].visible
       /\ \A t \in Reached(Depth) :
             /\ frames[Depth].hasMerged
             /\ Entails(noted[t], [map |-> frames[Depth].mergedProvenance,
                                   visible |-> frames[Depth].visible])
       /\ Params \cup frames[Depth].visible \subseteq Symbols
       /\ \A id \in Params \cup frames[Depth].visible :
             /\ Tracked(sliceProvenance, id)
             /\ Tracked(frames[Depth].entryProvenance, id)
             /\ frames[Depth].hasMerged => Tracked(frames[Depth].mergedProvenance, id)
  BY <1>2, <1>9, InnermostIf
<1>18. Jump(o, m)'
  <2>1. Known'.visible = noted'[o].visible /\ Known'.map = noted'[o].map
    BY <1>2, <1>11, <1>17 DEF Known
  <2>2. Entails(noted'[o], Known')
    BY <2>1 DEF Entails
  <2>3. op # "endIf" /\ op # "endLoop"
    BY <1>5 DEF Ends
  <2> QED
    BY <1>4, <1>11, <1>12, <2>2, <2>3 DEF Jump
<1>19. Jumps'
  BY <1>1, <1>6, <1>8, <1>13, <1>16, <1>18, JumpsExtended
<1>20. RunTypeOK'
  <2>1. 1..Len(code) \subseteq 1..(Len(code) + 1)
    BY <1>1
  <2>2. opened' \in Seq(1..(Len(code) + 1)) /\ Len(opened') = Depth'
    BY <1>1, <1>2, <1>6, <2>1, SeqMonotonic
  <2> QED
    BY <1>1, <1>2, <1>6, <1>7, <2>2, RunTypes
<1>21. WellNested'
  <2>1. \E i \in 1..Len(code) : Opens(i, m)'
    BY <1>16, <1>17
  <2>2. Depth' = Depth /\ opened' = opened
    BY <1>2, <1>6
  <2> QED
    BY <1>1, <1>4, <1>5, <1>6, <1>8, <2>1, <2>2, NestingExtended
<1>22. \A k \in 1..(Depth - 1) : OpenFrame(k)' /\ PendingFrame(k)'
  <2>1. Depth - 1 \in 0..Depth /\ new.level >= Depth - 1
    BY <1>1, <1>2, <1>4
  <2>2. \A k \in 1..(Depth - 1) : frames'[k] = frames[k] /\ opened'[k] = opened[k]
                                  /\ frames[k].visible \subseteq visible'
    BY <1>2, <1>6, <1>17
  <2> QED
    BY <1>1, <1>6, <2>1, <2>2, FramesKept
<1>23. Reached(d)' = Reached(d) \cup {m}
  <2>1. opened'[d] = o /\ opened[d] = o /\ d = Depth /\ d \in Nat /\ o \in 1..Len(code)
    BY <1>1, <1>6, <1>9, <1>10, <1>17
  <2>2. \A t \in (o + 1)..m : t \in (o + 1)..Len(code) \/ t = m
    BY <1>1, <1>8, <2>1
  <2>3. /\ \A t \in (o + 1)..Len(code) : t \in (o + 1)..m /\ code'[t] = code[t]
        /\ m \in (o + 1)..m /\ code'[m].level = d - 1
    BY <1>1, <1>4, <1>8, <1>11, <2>1
  <2> QED
    BY <1>11, <2>1, <2>2, <2>3 DEF Reached
<1>24. OpenFrame(d) /\ \A t \in Reached(d) : t \in 1..Len(code) /\ t < m
  BY <1>1, <1>8, <1>9, <1>10, <1>17 DEF OpenFrames, Reached
<1>25. OpenFrame(d)'
  <2>1. opened'[d] = o /\ opened[d] = o /\ d = Depth
    BY <1>6, <1>9, <1>10
  <2>2. code'[o].level = d - 1 /\ code'[o].op = "if"
    BY <1>2, <1>11, <1>17, <1>24, <2>1 DEF OpenFrame
  <2>3. \A t \in o..m : code'[t].level >= d - 1
    <3>1. \A t \in o..Len(code) : code[t].level >= d - 1
      BY <1>24, <2>1 DEF OpenFrame
    <3>2. \A t \in o..m : t = m \/ (t \in o..Len(code) /\ code'[t] = code[t])
      BY <1>1, <1>8, <1>11, <1>17
    <3>3. code'[m].level >= d - 1
      BY <1>3, <1>4, <1>11, <2>1
    <3> QED
      BY <3>1, <3>2, <3>3
  <2>4. \A t \in Reached(d)' : code'[t].op \in Middles
    BY <1>4, <1>11, <1>23, <1>24 DEF OpenFrame
  <2>5. kind = "else" => \E t \in Reached(d)' : code'[t].op = "else"
    BY <1>4, <1>11, <1>23
  <2>6. \A k \in 1..(d - 1) : opened'[k] < opened'[d]
    BY <1>6, <1>24 DEF OpenFrame
  <2>7. frames'[d].kind = kind /\ kind # "loop"
    BY <1>2, <2>1
  <2> QED
    BY <1>11, <2>1, <2>2, <2>3, <2>4, <2>5, <2>6, <2>7 DEF OpenFrame, Middles
<1>26. \A id \in Params \cup frames[Depth].visible :
          /\ Tracked(merged, id)
          /\ merged[id] \in Definite =>
                /\ merged[id] = sliceProvenance[id]
                /\ frames[Depth].hasMerged => merged[id] = frames[Depth].mergedProvenance[id]
          /\ frames[Depth].hasMerged /\ sliceProvenance[id] = frames[Depth].mergedProvenance[id]
                => merged[id] = sliceProvenance[id]
          /\ ~frames[Depth].hasMerged => merged[id] = sliceProvenance[id]
  BY <1>1, <1>17, MergeDefinite DEF TypeOK
<1> HIDE DEF merged
<1> DEFINE outcome == [map |-> merged, visible |-> frames[Depth].visible]
<1>27. \A t \in Reached(d)' : Entails(noted'[t], outcome)
  <2> TAKE t \in Reached(d)'
  <2>1. CASE t = m
    BY <1>11, <1>17, <1>26, <2>1 DEF Entails, Known
  <2>2. CASE t \in Reached(d)
    <3>1. noted'[t] = noted[t] /\ frames[Depth].hasMerged
      BY <1>10, <1>11, <1>17, <1>24, <2>2
    <3>2. Entails(noted[t], [map |-> frames[Depth].mergedProvenance,
                             visible |-> frames[Depth].visible])
      BY <1>10, <1>17, <2>2
    <3> QED
      BY <1>26, <3>1, <3>2 DEF Entails
  <2> QED
    BY <1>23, <2>1, <2>2
<1>28. PendingFrame(d)'
  <2>1. /\ opened'[d] = o /\ noted'[o] = noted[o]
        /\ frames'[d].visible = frames[Depth].visible
        /\ frames'[d].entryProvenance = frames[Depth].entryProvenance
        /\ frames'[d].mergedProvenance = merged /\ frames'[d].hasMerged
    BY <1>2, <1>6, <1>9, <1>10, <1>11, <1>17
  <2>2. \A k \in 1..(d - 1) : frames'[k].visible \subseteq frames'[d].visible
    BY <1>2, <1>10, <1>17
  <2>3. \A t \in Reached(d)' : Entails(noted'[t], [map |-> frames'[d].mergedProvenance,
                                                   visible |-> frames'[d].visible])
    BY <1>27, <2>1
  <2> QED
    BY <1>2, <1>17, <2>1, <2>2, <2>3 DEF PendingFrame
<1>29. \A k \in 1..Depth' : k \in 1..(Depth - 1) \/ k = d
  BY <1>1, <1>2, <1>10
<1>30. OpenFrames' /\ Pending'
  BY <1>22, <1>25, <1>28, <1>29 DEF OpenFrames, Pending
<1>31. Executing'
  BY <1>1, <1>6, <1>7, ExecutingKept
<1>32. ScopesTracked'
  <2>1. ASSUME NEW k \in 1..Depth', frames'[k].kind # "loop",
               NEW id \in Params \cup frames'[k].visible
        PROVE  /\ Tracked(frames'[k].entryProvenance, id)
               /\ frames'[k].hasMerged => Tracked(frames'[k].mergedProvenance, id)
    <3>1. CASE k = d
      BY <1>2, <1>10, <1>17, <1>26, <2>1, <3>1
    <3>2. CASE k \in 1..(Depth - 1)
      <4>1. k \in 1..Depth /\ frames'[k] = frames[k]
        BY <1>1, <1>2, <3>2
      <4> QED
        BY <2>1, <4>1 DEF ScopesTracked
    <3> QED
      BY <1>29, <3>1, <3>2
  <2>2. \A id \in Params \cup visible' : Tracked(sliceProvenance', id)
    BY <1>2, <1>17
  <2> QED
    BY <2>1, <2>2 DEF ScopesTracked, Tracked, Untracked
<1>33. OpenLoop'
  <2> SUFFICES ASSUME Fragment, NEW k \in 1..Depth', frames'[k].kind = "loop"
               PROVE  LoopFrame(k)'
    BY DEF OpenLoop, Fragment
  <2>1. k \in 1..(Depth - 1) /\ k \in 1..Depth /\ frames'[k] = frames[k] /\ k # d
    BY <1>1, <1>2, <1>10, <1>29
  <2>2. LoopFrame(k) /\ opened[k] \in 1..Len(code) /\ noted'[opened[k]] = noted[opened[k]]
    BY <1>1, <1>11, <2>1 DEF OpenLoop
  <2>3. \A i \in 1..Depth' : frames'[i].kind = "loop" => i = k
    <3> TAKE i \in 1..Depth'
    <3>1. CASE i = d
      BY <1>2, <1>10, <3>1
    <3>2. CASE i \in 1..(Depth - 1)
      BY <1>2, <2>2, <3>2 DEF LoopFrame
    <3> QED
      BY <1>29, <3>1, <3>2
  <2>4. \A t \in (opened[k] + 1)..m :
           /\ code'[t].op \notin {"return", "endLoop"}
           /\ code'[t].op = "store" => code'[t].target \in touched'
    <3> TAKE t \in (opened[k] + 1)..m
    <3>1. t = m \/ (t \in (opened[k] + 1)..Len(code) /\ t \in 1..Len(code))
      BY <1>1, <1>8, <2>2
    <3>2. CASE t = m
      BY <1>4, <1>5, <1>11, <3>2 DEF Ends
    <3>3. CASE t \in (opened[k] + 1)..Len(code) /\ t \in 1..Len(code)
      BY <1>2, <1>11, <2>2, <3>3 DEF LoopFrame
    <3> QED
      BY <3>1, <3>2, <3>3
  <2>5. ASSUME NEW id \in (Params \cup frames[k].visible) \ touched
        PROVE  /\ sliceProvenance'[id] = noted[opened[k]].map[id]
               /\ \A i \in (k + 1)..Depth' :
                     /\ frames'[i].entryProvenance[id] = noted[opened[k]].map[id]
                     /\ frames'[i].hasMerged =>
                           frames'[i].mergedProvenance[id] = noted[opened[k]].map[id]
    <3> DEFINE base == noted[opened[k]].map[id]
    <3>1. Depth \in (k + 1)..Depth
      BY <1>1, <2>1
    <3>2. /\ sliceProvenance[id] = base
          /\ \A i \in (k + 1)..Depth :
                /\ frames[i].entryProvenance[id] = base
                /\ frames[i].hasMerged => frames[i].mergedProvenance[id] = base
      BY <2>2 DEF LoopFrame
    <3>3. id \in Params \cup frames[Depth].visible
      BY <1>17, <2>1
    <3> HIDE DEF base
    <3>4. merged[id] = base
      BY <1>26, <3>1, <3>2, <3>3
    <3>5. \A i \in (k + 1)..Depth' : i = d \/ (i \in 1..(Depth - 1) /\ i \in (k + 1)..Depth)
      BY <1>1, <1>2, <1>10, <2>1
    <3>6. \A i \in (k + 1)..Depth' : /\ frames'[i].entryProvenance[id] = base
                                     /\ frames'[i].hasMerged => frames'[i].mergedProvenance[id] = base
      <4> TAKE i \in (k + 1)..Depth'
      <4>1. CASE i = d
        BY <1>2, <1>10, <3>1, <3>2, <3>4, <4>1
      <4>2. CASE i \in 1..(Depth - 1) /\ i \in (k + 1)..Depth
        BY <1>2, <3>2, <4>2
      <4> QED
        BY <3>5, <4>1, <4>2
    <3>7. sliceProvenance'[id] = base
      BY <1>2, <3>1, <3>2
    <3> QED
      BY <3>6, <3>7 DEF base
  <2>6. opened'[k] = opened[k] /\ touchTracking' /\ touched' = touched
    BY <1>2, <1>6, <2>2 DEF LoopFrame
  <2> QED
    BY <1>11, <2>1, <2>2, <2>3, <2>4, <2>5, <2>6 DEF LoopFrame
<1> QED
  BY <1>15, <1>19, <1>20, <1>21, <1>30, <1>31, <1>32, <1>33

\* The end of an if: what is known is no more than what each branch ended with.
LEMMA ExitIfStep ==
    ASSUME RunIInv, checkIfStmtExit, Record("endIf", NoOperand, NoOperand, Depth - 1)
    PROVE  RunIInv'
<1> USE DEF RunIInv
<1> DEFINE new == Entry("endIf", NoOperand, NoOperand, Depth - 1)
<1>1. /\ RunTypeOK /\ TypeOK /\ Depth \in Nat /\ Len(code) \in Nat
      /\ \A k \in 1..Depth : opened[k] \in 1..Len(code) /\ frames[k] \in Frames
      /\ opened \in Seq(1..Len(code)) /\ Len(opened) = Depth
  BY ArrivingFacts, FrameFacts DEF RunTypeOK
<1>2. /\ TypeOK' /\ Depth' = Depth - 1 /\ Depth > 0
      /\ \A k \in 1..(Depth - 1) : frames'[k] = frames[k]
      /\ frames[Depth].kind \in {"if", "else"}
      /\ visible' = frames[Depth].visible
      /\ UNCHANGED <<touchTracking, touched, rejected>>
  BY <1>1, ExitIfEffect
<1>3. PICK o : o = opened[Depth]
  OBVIOUS
<1>4. /\ o \in 1..Len(code) /\ Depth \in 1..Depth
      /\ frames[Depth].visible = noted[o].visible
      /\ frames[Depth].visible \subseteq visible
      /\ frames[Depth].entryProvenance = noted[o].map
      /\ \A k \in 1..(Depth - 1) : frames[k].visible \subseteq frames[Depth].visible
      /\ \A t \in Reached(Depth) :
            /\ frames[Depth].hasMerged
            /\ Entails(noted[t], [map |-> frames[Depth].mergedProvenance,
                                  visible |-> frames[Depth].visible])
      /\ Params \cup frames[Depth].visible \subseteq Symbols
      /\ \A id \in Params \cup frames[Depth].visible :
            /\ Tracked(sliceProvenance, id)
            /\ Tracked(frames[Depth].entryProvenance, id)
            /\ frames[Depth].hasMerged => Tracked(frames[Depth].mergedProvenance, id)
  BY <1>2, <1>3, InnermostIf
<1>5. \A id \in Params \cup frames[Depth].visible :
         /\ Tracked(sliceProvenance', id)
         /\ sliceProvenance'[id] \in Definite =>
               /\ sliceProvenance'[id] = sliceProvenance[id]
               /\ frames[Depth].hasMerged => sliceProvenance'[id] = frames[Depth].mergedProvenance[id]
               /\ frames[Depth].kind = "if" => sliceProvenance'[id] = frames[Depth].entryProvenance[id]
         /\ /\ sliceProvenance[id] = frames[Depth].entryProvenance[id]
            /\ frames[Depth].hasMerged => sliceProvenance[id] = frames[Depth].mergedProvenance[id]
            => sliceProvenance'[id] = sliceProvenance[id]
  BY <1>1, <1>4, ExitIfMerges
<1>6. Known' \in KnownSet /\ Known'.visible = frames[Depth].visible /\ Known'.map = sliceProvenance'
  BY <1>2 DEF TypeOK, Known, KnownSet, Maps, Provenance, Untracked, Symbols
<1>7. Entails(Known, Known')
  BY <1>4, <1>5, <1>6 DEF Entails, Known
<1>8. Depth - 1 \in Nat
  BY <1>1, <1>2
<1>9. /\ new \in Entries /\ new.op = "endIf" /\ new.source = NoOperand /\ new.level = Depth - 1
  BY <1>8, SourcesInEntries DEF Ends
<1>10. /\ Extends(new, Len(code) + 1, {})
       /\ noted'[Len(code) + 1] = Known'
       /\ opened' \in Seq(1..(Len(code) + 1)) /\ Len(opened') = Depth - 1
       /\ \A k \in 1..(Depth - 1) : opened'[k] = opened[k]
  <2>1. Depth \in Nat \ {0} /\ (rejected => rejected')
    BY <1>1, <1>2
  <2> QED
    BY <1>1, <1>6, <1>7, <1>9, <2>1, RecordEndIf
<1>11. phase = "checking" /\ UNCHANGED <<phase, runVars>>
  BY <1>1, <1>9, CodeAppended
<1> HIDE DEF new
<1>12. PICK m : m = Len(code) + 1
  OBVIOUS
<1>13. /\ code'[m] = new /\ Len(code') = m /\ m \in Nat
       /\ \A t \in 1..Len(code) : code'[t] = code[t] /\ noted'[t] = noted[t]
       /\ noted'[m] = Known'
  BY <1>1, <1>10, <1>12 DEF Extends
<1>14. Arriving(m + 1)' = Known'
  <2>1. PICK next : next = m + 1
    OBVIOUS
  <2>2. Arriving(next)' = Known'
    BY <1>1, <1>10, <1>12, <2>1, ArrivingNext
  <2> QED
    BY <2>1, <2>2
<1>15. Forgets(Len(code) + 1, {})
  BY <1>1 DEF Forgets
<1>16. Flow(m)'
  <2>1. Entails(noted'[m], Arriving(m + 1)')
    BY <1>13, <1>14, EntailsRefl
  <2> QED
    BY <1>9, <1>13, <2>1 DEF Flow, NoOperand
<1>17. Flows'
  BY <1>1, <1>10, <1>12, <1>15, <1>16, FlowsExtended
<1>18. \A i \in 1..Len(code) : Opens(i, m)' <=> i = o
  <2>1. /\ frames[Depth].kind = "loop" <=> new.op = "endLoop"
        /\ new.op \in Middles \cup Ends
    BY <1>2, <1>9 DEF Ends
  <2> QED
    BY <1>1, <1>2, <1>3, <1>9, <1>10, <1>12, <2>1, OpensInnermost
<1>19. OpenFrame(Depth)
  BY <1>4 DEF OpenFrames
<1>20. Jump(o, m)'
  <2>1. \A t \in (o + 1)..(m - 1) : t \in 1..Len(code)
    BY <1>1, <1>4, <1>12
  <2>2. code'[o].level = Depth - 1 /\ m - 1 = Len(code)
    BY <1>1, <1>3, <1>4, <1>12, <1>13, <1>19 DEF OpenFrame
  <2>3. ASSUME NEW t \in (o + 1)..(m - 1), code'[t].level = code'[o].level
        PROVE  Entails(noted'[t], noted'[m])
    <3>1. t \in Reached(Depth)
      BY <1>3, <1>13, <2>1, <2>2, <2>3 DEF Reached
    <3>2. frames[Depth].hasMerged /\ noted'[t] = noted[t]
      BY <1>4, <1>13, <2>1, <3>1
    <3>3. Entails(noted[t], [map |-> frames[Depth].mergedProvenance,
                             visible |-> frames[Depth].visible])
      BY <1>4, <3>1
    <3> QED
      BY <1>5, <1>6, <1>13, <3>2, <3>3 DEF Entails
  <2>4. CASE frames[Depth].kind = "if"
    <3>1. Entails(noted'[o], noted'[m])
      BY <1>4, <1>5, <1>6, <1>13, <2>4 DEF Entails
    <3> QED
      BY <1>9, <1>13, <2>3, <3>1 DEF Jump
  <2>5. CASE frames[Depth].kind = "else"
    <3>1. PICK t \in Reached(Depth) : code[t].op = "else"
      BY <1>19, <2>5 DEF OpenFrame
    <3>2. t \in (o + 1)..(m - 1) /\ code'[t] = code[t] /\ code[t].level = Depth - 1
      BY <1>3, <1>13, <2>1, <2>2, <3>1 DEF Reached
    <3> QED
      BY <1>9, <1>13, <2>2, <2>3, <3>1, <3>2 DEF Jump
  <2> QED
    BY <1>2, <2>4, <2>5
<1>21. Jumps'
  BY <1>1, <1>10, <1>12, <1>15, <1>18, <1>20, JumpsExtended
<1>22. RunTypeOK'
  BY <1>1, <1>2, <1>10, <1>11, RunTypes
<1>23. \A k \in 1..Depth : k \in 1..(Depth - 1) \/ k = Depth
  BY <1>1
<1>24. WellNested'
  <2>1. /\ \E i \in 1..Len(code) : Opens(i, m)'
        /\ \A i \in 1..Len(code) : (\E k \in 1..Depth : opened[k] = i) =>
              \/ \E k \in 1..Depth' : opened'[k] = i
              \/ new.op \in Ends /\ Opens(i, m)'
    <3>1. ASSUME NEW i \in 1..Len(code), NEW k \in 1..Depth, opened[k] = i
          PROVE  \/ \E q \in 1..Depth' : opened'[q] = i
                 \/ new.op \in Ends /\ Opens(i, m)'
      <4>1. CASE k = Depth
        BY <1>3, <1>9, <1>18, <3>1, <4>1 DEF Ends
      <4>2. CASE k \in 1..(Depth - 1)
        BY <1>2, <1>10, <3>1, <4>2
      <4> QED
        BY <1>23, <4>1, <4>2
    <3> QED
      BY <1>4, <1>18, <3>1
  <2>2. new.op \notin Openers
    BY <1>9 DEF Openers
  <2> QED
    BY <1>1, <1>10, <1>12, <2>1, <2>2, NestingExtended
<1>25. OpenFrames' /\ Pending'
  <2>1. Depth - 1 \in 0..Depth /\ new.level >= Depth - 1
    BY <1>1, <1>2, <1>9
  <2>2. \A k \in 1..(Depth - 1) : frames'[k] = frames[k] /\ opened'[k] = opened[k]
                                  /\ frames[k].visible \subseteq visible'
    BY <1>2, <1>4, <1>10
  <2>3. \A k \in 1..(Depth - 1) : OpenFrame(k)' /\ PendingFrame(k)'
    BY <1>1, <1>10, <2>1, <2>2, FramesKept
  <2> QED
    BY <1>2, <2>3 DEF OpenFrames, Pending
<1>26. Executing'
  BY <1>1, <1>10, <1>11, ExecutingKept
<1>27. ScopesTracked'
  <2>1. \A k \in 1..Depth' : k \in 1..Depth /\ frames'[k] = frames[k]
    BY <1>1, <1>2
  <2>2. \A id \in Params \cup visible' : Tracked(sliceProvenance', id)
    BY <1>2, <1>5
  <2> QED
    BY <2>1, <2>2 DEF ScopesTracked, Tracked, Untracked
<1>28. OpenLoop'
  <2> SUFFICES ASSUME Fragment, NEW k \in 1..Depth', frames'[k].kind = "loop"
               PROVE  LoopFrame(k)'
    BY DEF OpenLoop, Fragment
  <2>a. 1..Depth' = 1..(Depth - 1) /\ \A i \in 1..(Depth - 1) : i \in 1..Depth
    BY <1>1, <1>2
  <2>b. \A i \in 1..(Depth - 1) : frames'[i] = frames[i] /\ opened'[i] = opened[i]
    BY <1>2, <1>10
  <2>0. \A i \in 1..Depth' : i \in 1..Depth /\ i \in 1..(Depth - 1) /\ frames'[i] = frames[i]
                             /\ opened'[i] = opened[i]
    BY <2>a, <2>b, Zenon
  <2>1. LoopFrame(k) /\ opened[k] \in 1..Len(code) /\ noted'[opened[k]] = noted[opened[k]]
    BY <1>1, <1>13, <2>0 DEF OpenLoop
  <2>2. \A t \in (opened[k] + 1)..m :
           /\ code'[t].op \notin {"return", "endLoop"}
           /\ code'[t].op = "store" => code'[t].target \in touched'
    <3> TAKE t \in (opened[k] + 1)..m
    <3>1. t = m \/ (t \in (opened[k] + 1)..Len(code) /\ t \in 1..Len(code))
      BY <1>1, <1>12, <2>1
    <3>2. CASE t = m
      BY <1>9, <1>13, <3>2
    <3>3. CASE t \in (opened[k] + 1)..Len(code) /\ t \in 1..Len(code)
      BY <1>2, <1>13, <2>1, <3>3 DEF LoopFrame
    <3> QED
      BY <3>1, <3>2, <3>3
  <2>3. ASSUME NEW id \in (Params \cup frames[k].visible) \ touched
        PROVE  /\ sliceProvenance'[id] = noted[opened[k]].map[id]
               /\ \A i \in (k + 1)..Depth' :
                     /\ frames'[i].entryProvenance[id] = noted[opened[k]].map[id]
                     /\ frames'[i].hasMerged =>
                           frames'[i].mergedProvenance[id] = noted[opened[k]].map[id]
    <3> DEFINE base == noted[opened[k]].map[id]
    <3>1. Depth \in (k + 1)..Depth
      BY <1>1, <2>0
    <3>2. /\ sliceProvenance[id] = base
          /\ \A i \in (k + 1)..Depth :
                /\ frames[i].entryProvenance[id] = base
                /\ frames[i].hasMerged => frames[i].mergedProvenance[id] = base
      BY <2>1 DEF LoopFrame
    <3>3. id \in Params \cup frames[Depth].visible
      BY <1>4, <2>0
    <3> HIDE DEF base
    <3>4. sliceProvenance'[id] = base
      BY <1>5, <3>1, <3>2, <3>3
    <3>5. \A i \in (k + 1)..Depth' : i \in (k + 1)..Depth /\ frames'[i] = frames[i]
      BY <1>1, <1>2, <2>0
    <3> QED
      BY <3>2, <3>4, <3>5 DEF base
  <2>4. touchTracking' /\ touched' = touched
    BY <1>2, <2>1 DEF LoopFrame
  <2>5. \A i \in 1..Depth' : frames'[i].kind = "loop" => i = k
    BY <2>0, <2>1 DEF LoopFrame
  <2> QED
    BY <1>13, <2>0, <2>1, <2>2, <2>3, <2>4, <2>5 DEF LoopFrame
<1> QED
  BY <1>17, <1>21, <1>22, <1>24, <1>25, <1>26, <1>27, <1>28

\* The end of a loop: what the body stored to is forgotten all through it, and
\* the rest is at the end what it was at the start.
LEMMA ExitLoopStep ==
    ASSUME RunIInv, checkLoopStmtExit, Record("endLoop", NoOperand, NoOperand, Depth - 1)
    PROVE  RunIInv'
<1> USE DEF RunIInv
<1> DEFINE new == Entry("endLoop", NoOperand, NoOperand, Depth - 1)
<1>1. /\ RunTypeOK /\ TypeOK /\ Depth \in Nat /\ Len(code) \in Nat
      /\ \A k \in 1..Depth : opened[k] \in 1..Len(code) /\ frames[k] \in Frames
                              /\ frames[k].visible \subseteq Locals
      /\ opened \in Seq(1..Len(code)) /\ Len(opened) = Depth
      /\ Known \in KnownSet /\ \A t \in 1..Len(code) : noted[t] \in KnownSet
  BY ArrivingFacts, FrameFacts DEF RunTypeOK
<1>2. /\ TypeOK' /\ Depth' = Depth - 1 /\ Depth > 0
      /\ \A k \in 1..(Depth - 1) : frames'[k] = frames[k]
      /\ frames[Depth].kind = "loop"
      /\ visible' = frames[Depth].visible
      /\ touchTracking' = FALSE /\ touched' = {}
      /\ sliceProvenance' = Weaken(Known, touched).map
      /\ rejected' = rejected
  BY <1>1, LoopExitEffect
<1>3. PICK o : o = opened[Depth]
  OBVIOUS
<1>4. PICK ids : ids = touched
  OBVIOUS
<1>5. /\ o \in 1..Len(code) /\ Depth \in 1..Depth
      /\ frames[Depth].visible = noted[o].visible
      /\ frames[Depth].visible \subseteq visible
      /\ \A k \in 1..(Depth - 1) : frames[k].visible \subseteq frames[Depth].visible
      /\ Params \cup frames[Depth].visible \subseteq Symbols
      /\ OpenFrame(Depth)
      /\ code[o].level = Depth - 1 /\ code[o].op = "loop"
  <2>1. Depth \in 1..Depth
    BY <1>1, <1>2
  <2>2. PendingFrame(Depth) /\ OpenFrame(Depth)
    BY <2>1 DEF Pending, OpenFrames
  <2> QED
    BY <1>1, <1>2, <1>3, <2>1, <2>2 DEF PendingFrame, OpenFrame, Symbols
<1>6. ASSUME Fragment
      PROVE  /\ \A m \in 1..Depth : frames[m].kind = "loop" => m = Depth
             /\ \A t \in (o + 1)..Len(code) :
                   /\ code[t].op \notin {"return", "endLoop"}
                   /\ code[t].op = "store" => code[t].target \in ids
             /\ \A id \in (Params \cup frames[Depth].visible) \ ids :
                   sliceProvenance[id] = noted[o].map[id]
  <2>1. LoopFrame(Depth)
    BY <1>2, <1>5, <1>6 DEF OpenLoop
  <2> QED
    BY <1>3, <1>4, <2>1 DEF LoopFrame
<1>7. /\ Known' \in KnownSet /\ Known'.visible = frames[Depth].visible
      /\ \A id \in Symbols : Known'.map[id] = IF id \in ids THEN "Unknown" ELSE sliceProvenance[id]
  <2>1. Known'.map = sliceProvenance' /\ Known'.visible = visible' /\ Known.map = sliceProvenance
    BY DEF Known
  <2>2. Known' \in KnownSet
    BY <1>2 DEF TypeOK, Known, KnownSet, Maps, Provenance, Untracked, Symbols
  <2>3. \A id \in Symbols : Weaken(Known, ids).map[id] = IF id \in ids THEN "Unknown" ELSE sliceProvenance[id]
    BY <1>1, <2>1, WeakenType
  <2> QED
    BY <1>2, <1>4, <2>1, <2>2, <2>3
<1>8. Entails(Weaken(Known, touched), Known')
  <2>1. /\ Weaken(Known, ids).visible = visible
        /\ \A id \in Symbols : Weaken(Known, ids).map[id] = Known'.map[id]
    BY <1>1, <1>7, WeakenType DEF Known
  <2> QED
    BY <1>4, <1>5, <1>7, <2>1 DEF Entails
<1>9. Depth - 1 \in Nat
  BY <1>1, <1>2
<1>10. /\ new \in Entries /\ new.op = "endLoop" /\ new.source = NoOperand /\ new.level = Depth - 1
  BY <1>9, SourcesInEntries DEF Ends
<1>11. /\ Extends(new, opened[Depth], touched)
       /\ noted'[Len(code) + 1] = Known'
       /\ opened' \in Seq(1..(Len(code) + 1)) /\ Len(opened') = Depth - 1
       /\ \A k \in 1..(Depth - 1) : opened'[k] = opened[k]
  <2>1. Depth \in Nat \ {0} /\ (rejected => rejected')
    BY <1>1, <1>2
  <2> QED
    BY <1>1, <1>7, <1>8, <1>10, <2>1, RecordEndLoop
<1>12. Extends(new, o, ids)
  BY <1>3, <1>4, <1>11
<1>13. phase = "checking" /\ UNCHANGED <<phase, runVars>>
  BY <1>1, <1>10, CodeAppended
<1> HIDE DEF new
<1>14. PICK m : m = Len(code) + 1
  OBVIOUS
<1>15. /\ code'[m] = new /\ Len(code') = m /\ m \in Nat
       /\ \A t \in 1..Len(code) : code'[t] = code[t]
       /\ \A t \in 1..(o - 1) : noted'[t] = noted[t]
       /\ noted'[o] = Weaken(noted[o], ids)
       /\ noted'[m] = Known'
  BY <1>1, <1>5, <1>11, <1>12, <1>14 DEF Extends
<1>16. Arriving(m + 1)' = Known'
  <2>1. PICK next : next = m + 1
    OBVIOUS
  <2>2. Arriving(next)' = Known'
    BY <1>1, <1>12, <1>14, <2>1, ArrivingNext
  <2> QED
    BY <2>1, <2>2
<1>17. Forgets(o, ids)
  <2>1. \A t \in o..Len(code) : t = o \/ t \in (o + 1)..Len(code)
    BY <1>1, <1>5
  <2> QED
    BY <1>5, <1>6, <2>1 DEF Forgets
<1>18. Flow(m)'
  BY <1>10, <1>15 DEF Flow, NoOperand, Openers
<1>19. Flows'
  BY <1>1, <1>12, <1>14, <1>17, <1>18, FlowsExtended
<1>20. \A i \in 1..Len(code) : Opens(i, m)' <=> i = o
  <2>1. /\ frames[Depth].kind = "loop" <=> new.op = "endLoop"
        /\ new.op \in Middles \cup Ends
    BY <1>2, <1>10 DEF Ends
  <2> QED
    BY <1>1, <1>2, <1>3, <1>10, <1>12, <1>14, <2>1, OpensInnermost
<1>21. Jump(o, m)'
  <2>1. /\ noted'[o].visible = frames[Depth].visible
        /\ \A id \in Symbols : noted'[o].map[id] = IF id \in ids THEN "Unknown" ELSE noted[o].map[id]
    BY <1>1, <1>5, <1>15, WeakenType
  <2>2. Fragment => \A id \in Params \cup frames[Depth].visible : noted'[o].map[id] = Known'.map[id]
    BY <1>5, <1>6, <1>7, <2>1
  <2>3. Entails(noted'[o], Known') /\ Entails(Known', noted'[o])
    BY <1>7, <2>1, <2>2 DEF Entails
  <2> QED
    BY <1>10, <1>15, <1>16, <2>3 DEF Jump
<1>22. Jumps'
  BY <1>1, <1>12, <1>14, <1>17, <1>20, <1>21, JumpsExtended
<1>23. RunTypeOK'
  BY <1>1, <1>2, <1>11, <1>13, RunTypes
<1>24. \A k \in 1..Depth : k \in 1..(Depth - 1) \/ k = Depth
  BY <1>1
<1>25. WellNested'
  <2>1. /\ \E i \in 1..Len(code) : Opens(i, m)'
        /\ \A i \in 1..Len(code) : (\E k \in 1..Depth : opened[k] = i) =>
              \/ \E k \in 1..Depth' : opened'[k] = i
              \/ new.op \in Ends /\ Opens(i, m)'
    <3>1. ASSUME NEW i \in 1..Len(code), NEW k \in 1..Depth, opened[k] = i
          PROVE  \/ \E q \in 1..Depth' : opened'[q] = i
                 \/ new.op \in Ends /\ Opens(i, m)'
      <4>1. CASE k = Depth
        BY <1>3, <1>10, <1>20, <3>1, <4>1 DEF Ends
      <4>2. CASE k \in 1..(Depth - 1)
        BY <1>2, <1>11, <3>1, <4>2
      <4> QED
        BY <1>24, <4>1, <4>2
    <3> QED
      BY <1>5, <1>20, <3>1
  <2>2. new.op \notin Openers
    BY <1>10 DEF Openers
  <2> QED
    BY <1>1, <1>12, <1>14, <2>1, <2>2, NestingExtended
<1>26. OpenFrames' /\ Pending'
  <2>1. Depth - 1 \in 0..Depth /\ new.level >= Depth - 1
    BY <1>1, <1>2, <1>10
  <2>2. \A k \in 1..(Depth - 1) : frames'[k] = frames[k] /\ opened'[k] = opened[k]
                                  /\ frames[k].visible \subseteq visible'
    BY <1>2, <1>5, <1>11
  <2>3. \A k \in 1..(Depth - 1) : OpenFrame(k)' /\ PendingFrame(k)'
    BY <1>1, <1>11, <2>1, <2>2, FramesKept
  <2> QED
    BY <1>2, <2>3 DEF OpenFrames, Pending
<1>27. Executing'
  BY <1>1, <1>12, <1>13, ExecutingKept
<1>28. ScopesTracked'
  <2>1. \A k \in 1..Depth' : k \in 1..Depth /\ frames'[k] = frames[k]
    BY <1>1, <1>2
  <2>2. \A id \in Params \cup visible' : Tracked(sliceProvenance', id)
    <3>1. \A id \in Params \cup visible : Tracked(sliceProvenance, id)
      BY DEF ScopesTracked
    <3>2. Known'.map = sliceProvenance'
      BY DEF Known
    <3> QED
      BY <1>2, <1>5, <1>7, <3>1, <3>2 DEF Tracked, Untracked
  <2> QED
    BY <2>1, <2>2 DEF ScopesTracked, Tracked, Untracked
<1>29. OpenLoop'
  <2>1. \A k \in 1..Depth' : k \in 1..Depth /\ k # Depth /\ frames'[k] = frames[k]
    BY <1>1, <1>2
  <2> QED
    BY <1>6, <2>1 DEF OpenLoop, Fragment
<1> QED
  BY <1>19, <1>22, <1>23, <1>25, <1>26, <1>27, <1>28, <1>29

----------------------------------------------------------------------------
(* The execution *)

LEMMA HoldsNext ==
    ASSUME NEW a, NEW b, Entails(a, b), Holds(a)'
    PROVE  Holds(b)'
  BY DEF Entails, Holds, Unset, Fragment, Definite

\* An execution step leaves the checker and the history alone.
LEMMA StaticKept ==
    ASSUME RunIInv, UNCHANGED <<checkerVars, code, historyVars>>,
           phase' \in {"checking", "running", "returned", "stuck"},
           pc' \in 1..(Len(code) + 1), storage' \in [Symbols -> Origins \cup {Unset}],
           result' \in Origins \cup {Unset}, Executing'
    PROVE  RunIInv'
<1>1. /\ UNCHANGED <<sliceProvenance, touchTracking, touched, visible, frames, rejected>>
      /\ UNCHANGED <<code, noted, opened>>
  BY DEF checkerVars, historyVars
<1>2. Depth' = Depth
  BY <1>1 DEF Depth
<1>3. RunTypeOK'
  <2>1. TypeOK'
    BY <1>1 DEF RunIInv, RunTypeOK, TypeOK
  <2>2. /\ Entries' = Entries /\ KnownSet' = KnownSet /\ Symbols' = Symbols
        /\ Origins' = Origins /\ Unset' = Unset
    BY DEF Entries, KnownSet, Maps, Symbols, Provenance, Untracked, Origins, Unset,
       Openers, Middles, Ends, NoOperand
  <2> QED
    BY <1>1, <1>2, <2>1, <2>2 DEF RunIInv, RunTypeOK
<1>4. OpenFrames'
  BY <1>1, <1>2 DEF RunIInv, OpenFrames, OpenFrame, Reached, Middles
<1>5. WellNested'
  BY <1>1, <1>2 DEF RunIInv, WellNested, Opens, Openers, Middles, Ends
<1>6. Flows'
  <2>1. \A t : Arriving(t)' = Arriving(t)
    BY <1>1 DEF Arriving, Known
  <2> QED
    BY <1>1, <2>1 DEF RunIInv, Flows, Flow, NoOperand, Openers
<1>7. Jumps'
  <2>1. \A t : Arriving(t)' = Arriving(t)
    BY <1>1 DEF Arriving, Known
  <2> QED
    BY <1>1, <2>1 DEF RunIInv, Jumps, Jump, Opens, Openers, Middles, Ends
<1>8. Pending'
  BY <1>1, <1>2 DEF RunIInv, Pending, PendingFrame, Reached
<1>9. ScopesTracked'
  BY <1>1, <1>2 DEF RunIInv, ScopesTracked, Tracked, Untracked
<1>10. OpenLoop'
  BY <1>1, <1>2 DEF RunIInv, OpenLoop, LoopFrame, Fragment
<1> QED
  BY <1>3, <1>4, <1>5, <1>6, <1>7, <1>8, <1>9, <1>10 DEF RunIInv

\* Control goes on, to where what is noted is entailed.
LEMMA GotoStep ==
    ASSUME RunIInv, phase = "running", pc \in 1..Len(code),
           UNCHANGED <<checkerVars, code, historyVars, storage, result, phase>>,
           NEW t \in 1..(Len(code) + 1), pc' = t, Entails(noted[pc], Arriving(t))
    PROVE  RunIInv'
<1>1. Arriving(pc) = noted[pc] /\ Holds(Arriving(pc))
  BY ArrivingFacts DEF RunIInv, Executing
<1>2. Holds(Arriving(t))
  BY <1>1, HoldsEntailed
<1>3. PICK known : known = Arriving(t)
  OBVIOUS
<1>4. Arriving(t)' = known
  BY <1>3 DEF Arriving, Known, checkerVars, historyVars
<1>5. Holds(known)'
  BY <1>2, <1>3 DEF Holds, Unset, Fragment, Definite
<1>6. Holds(Arriving(pc))'
  BY <1>4, <1>5
<1>7. Executing'
  BY <1>6 DEF RunIInv, Executing, Depth, checkerVars
<1>8. /\ phase' \in {"checking", "running", "returned", "stuck"}
      /\ pc' \in 1..(Len(code) + 1) /\ storage' \in [Symbols -> Origins \cup {Unset}]
      /\ result' \in Origins \cup {Unset}
  BY DEF RunIInv, RunTypeOK
<1> QED
  BY <1>7, <1>8, StaticKept

\* The end that EndOf finds, and the delimiters before it.
LEMMA EndOfOpener ==
    ASSUME RunTypeOK, NEW i \in 1..Len(code), NEW e \in 1..Len(code), Opens(i, e), code[e].op \in Ends
    PROVE  /\ EndOf(i) = e
           /\ Delimiters(i) = {j \in (i + 1)..e : code[j].level = code[i].level}
<1> DEFINE S == {j \in (i + 1)..Len(code) :
                    code[j].level = code[i].level /\ code[j].op \in {"endIf", "endLoop"}}
           T == {j \in (i + 1)..e : code[j].level = code[i].level}
<1>1. /\ Len(code) \in Nat /\ i < e /\ code[e].level = code[i].level
      /\ \A k \in (i + 1)..(e - 1) : code[k].level = code[i].level => code[k].op \in Middles
  BY ArrivingFacts DEF Opens
<1>2. e \in S /\ \A j \in S : e <= j
  <2>1. e \in S
    BY <1>1 DEF Ends
  <2>2. ASSUME NEW j \in S, ~(e <= j)
        PROVE  FALSE
    <3>1. j \in (i + 1)..(e - 1)
      BY <1>1, <2>2
    <3> QED
      BY <1>1, <2>2, <3>1 DEF Middles
  <2> QED
    BY <2>1, <2>2
<1>3. e \in T /\ \A j \in T : e >= j
  BY <1>1
<1>4. S \subseteq Int /\ T \subseteq Int
  BY <1>1
<1>5. Delimiters(i) = {j \in (i + 1)..Min(S) : code[j].level = code[i].level}
  BY DEF Delimiters
<1> HIDE DEF S
<1>6. Min(S) = e
  <2>1. \A x \in S : (\A y \in S : x <= y) => x = e
    BY <1>2, <1>4
  <2> QED
    BY <1>2, <2>1 DEF Min
<1>7. Delimiters(i) = T
  BY <1>5, <1>6
<1> HIDE DEF T
<1>8. Max(T) = e
  <2>1. \A x \in T : (\A y \in T : x >= y) => x = e
    BY <1>3, <1>4
  <2> QED
    BY <1>3, <2>1 DEF Max
<1> QED
  BY <1>7, <1>8 DEF EndOf, T

\* The opener that OpenerOf finds.
LEMMA OpenerOfDelimiter ==
    ASSUME RunTypeOK, NEW i \in 1..Len(code), NEW j \in 1..Len(code), Opens(i, j)
    PROVE  OpenerOf(j) = i
<1> DEFINE S == {k \in 1..(j - 1) : code[k].level = code[j].level /\ code[k].op \in {"if", "loop"}}
<1>1. /\ Len(code) \in Nat /\ i < j /\ code[j].level = code[i].level /\ code[i].op \in Openers
      /\ \A k \in (i + 1)..(j - 1) : code[k].level = code[i].level => code[k].op \in Middles
  BY ArrivingFacts DEF Opens
<1>2. i \in S /\ \A k \in S : i >= k
  <2>1. i \in S
    BY <1>1 DEF Openers
  <2>2. ASSUME NEW k \in S, ~(i >= k)
        PROVE  FALSE
    <3>1. k \in (i + 1)..(j - 1)
      BY <1>1, <2>2
    <3> QED
      BY <1>1, <2>2, <3>1 DEF Middles
  <2> QED
    BY <2>1, <2>2
<1>3. S \subseteq Int
  BY <1>1
<1>4. OpenerOf(j) = Max(S)
  BY DEF OpenerOf
<1> HIDE DEF S
<1>5. Max(S) = i
  <2>1. \A x \in S : (\A y \in S : x >= y) => x = i
    BY <1>2, <1>3
  <2> QED
    BY <1>2, <2>1 DEF Max
<1> QED
  BY <1>4, <1>5

\* In a body walked to its end every statement has one.
LEMMA Closed ==
    ASSUME RunIInv, Depth = 0, NEW i \in 1..Len(code), code[i].op \in Openers
    PROVE  \E e \in 1..Len(code) :
              /\ code[e].op = IF code[i].op = "loop" THEN "endLoop" ELSE "endIf"
              /\ Opens(i, e) /\ Jump(i, e)
              /\ EndOf(i) = e
              /\ Delimiters(i) = {j \in (i + 1)..e : code[j].level = code[i].level}
<1>1. PICK e \in 1..Len(code) : code[e].op \in Ends /\ Opens(i, e)
  BY DEF RunIInv, WellNested
<1>2. Jump(i, e)
  BY <1>1 DEF RunIInv, Jumps
<1>3. code[e].op = IF code[i].op = "loop" THEN "endLoop" ELSE "endIf"
  BY <1>1 DEF Opens, Ends
<1> QED
  BY <1>1, <1>2, <1>3, EndOfOpener DEF RunIInv

\* A delimiter between an if and its end belongs to that if.
LEMMA BetweenBelongs ==
    ASSUME RunIInv, NEW i \in 1..Len(code), NEW e \in 1..Len(code), Opens(i, e),
           code[e].op = "endIf", NEW j \in (i + 1)..(e - 1), code[j].level = code[i].level
    PROVE  j \in 1..Len(code) /\ Opens(i, j) /\ Jump(i, j) /\ code[j].op \in Middles
<1>1. /\ Len(code) \in Nat /\ i < e /\ code[i].op \in Openers
      /\ \A k \in (i + 1)..(e - 1) : code[k].level = code[i].level => code[k].op \in Middles
      /\ code[i].op # "loop"
  BY ArrivingFacts DEF RunIInv, Opens
<1>2. j \in 1..Len(code) /\ i < j /\ \A k \in (i + 1)..(j - 1) : k \in (i + 1)..(e - 1)
  BY <1>1
<1>3. code[j].op \in Middles
  BY <1>1
<1>4. Opens(i, j)
  BY <1>1, <1>2, <1>3 DEF Opens, Middles
<1> QED
  BY <1>2, <1>3, <1>4 DEF RunIInv, Jumps

LEMMA RunIfStep ==
    ASSUME RunIInv, RunIf
    PROVE  RunIInv'
<1>1. /\ phase = "running" /\ pc \in 1..Len(code) /\ code[pc].op = "if"
      /\ UNCHANGED <<checkerVars, code, historyVars, storage, result, phase>>
      /\ pc' \in Arms(pc)
  BY DEF RunIf, Running, Goto
<1>2. Depth = 0 /\ Len(code) \in Nat
  BY <1>1, ArrivingFacts DEF RunIInv, Executing
<1>3. PICK i \in 1..Len(code) : i = pc
  BY <1>1
<1>4. PICK e \in 1..Len(code) :
         /\ code[e].op = "endIf" /\ Opens(i, e) /\ Jump(i, e) /\ EndOf(i) = e
         /\ Delimiters(i) = {j \in (i + 1)..e : code[j].level = code[i].level}
  BY <1>1, <1>2, <1>3, Closed DEF Openers
<1>5. PICK t : t = pc'
  OBVIOUS
<1>6. /\ i < e /\ Arriving(e) = noted[e] /\ e \in 1..(Len(code) + 1)
      /\ i + 1 \in 1..(Len(code) + 1)
  BY <1>2, <1>4, ArrivingFacts DEF Opens, RunIInv
<1>7. ASSUME NEW j \in Delimiters(i), code[j].op \in {"elseIf", "else"}
      PROVE  Entails(noted[i], Arriving(j + 1)) /\ j + 1 \in 1..(Len(code) + 1)
  <2>1. j \in (i + 1)..(e - 1) /\ code[j].level = code[i].level
    BY <1>2, <1>4, <1>6, <1>7
  <2>2. j \in 1..Len(code) /\ Jump(i, j)
    BY <1>4, <2>1, BetweenBelongs
  <2> QED
    BY <1>2, <1>7, <2>2 DEF Jump
<1>8. Entails(noted[i], Arriving(i + 1))
  BY <1>1, <1>3 DEF RunIInv, Flows, Flow, Openers
<1>9. ASSUME \A j \in Delimiters(i) : code[j].op # "else"
      PROVE  Entails(noted[i], Arriving(e))
  <2>1. \A k \in (i + 1)..(e - 1) : k \in (i + 1)..e
    BY <1>2
  <2> QED
    BY <1>4, <1>6, <1>9, <2>1 DEF Jump
<1>10. t \in Arms(i)
  BY <1>1, <1>3, <1>5
<1>11. Entails(noted[i], Arriving(t)) /\ t \in 1..(Len(code) + 1)
  <2> DEFINE elses == {j \in Delimiters(i) : code[j].op = "else"}
  <2>1. /\ t \in {i + 1} \cup {j + 1 : j \in {k \in Delimiters(i) : code[k].op = "elseIf"}}
                \cup (IF elses = {} THEN {e} ELSE {j + 1 : j \in elses})
    BY <1>4, <1>10 DEF Arms
  <2>2. CASE t = i + 1
    BY <1>6, <1>8, <2>2
  <2>3. CASE \E j \in Delimiters(i) : code[j].op \in {"elseIf", "else"} /\ t = j + 1
    BY <1>7, <2>3
  <2>4. CASE elses = {} /\ t = e
    BY <1>6, <1>9, <2>4
  <2> QED
    BY <2>1, <2>2, <2>3, <2>4
<1> QED
  BY <1>1, <1>3, <1>5, <1>11, GotoStep

\* From the end of a branch to the end of its if.
LEMMA RunMiddleStep ==
    ASSUME RunIInv, NEW op \in Middles, Running(op), Goto({EndOf(OpenerOf(pc))})
    PROVE  RunIInv'
<1>1. /\ phase = "running" /\ pc \in 1..Len(code) /\ code[pc].op = op
      /\ UNCHANGED <<checkerVars, code, historyVars, storage, result, phase>>
      /\ pc' = EndOf(OpenerOf(pc))
  BY DEF Running, Goto
<1>2. Depth = 0 /\ Len(code) \in Nat
  BY <1>1, ArrivingFacts DEF RunIInv, Executing
<1>3. PICK j \in 1..Len(code) : j = pc
  BY <1>1
<1>4. PICK i \in 1..Len(code) : Opens(i, j)
  BY <1>1, <1>3 DEF RunIInv, WellNested
<1>5. OpenerOf(j) = i /\ code[i].op = "if" /\ i < j /\ code[i].level = code[j].level
      /\ \A k \in (i + 1)..(j - 1) : code[k].level = code[i].level => code[k].op \in Middles
  BY <1>1, <1>3, <1>4, OpenerOfDelimiter DEF RunIInv, Opens, Openers, Middles
<1>6. PICK e \in 1..Len(code) : code[e].op = "endIf" /\ Opens(i, e) /\ Jump(i, e) /\ EndOf(i) = e
  BY <1>2, <1>5, Closed DEF Openers
<1>7. j \in (i + 1)..(e - 1)
  <2>1. e # j /\ e > i /\ code[e].level = code[i].level
    BY <1>1, <1>3, <1>6 DEF Middles, Opens
  <2>2. ~(e \in (i + 1)..(j - 1))
    BY <1>5, <1>6, <2>1 DEF Middles
  <2> QED
    BY <1>2, <1>5, <2>1, <2>2
<1>8. Entails(noted[j], noted[e])
  BY <1>5, <1>6, <1>7 DEF Jump
<1>9. Arriving(e) = noted[e] /\ e \in 1..(Len(code) + 1)
  BY <1>2, ArrivingFacts DEF RunIInv
<1> QED
  BY <1>1, <1>3, <1>5, <1>6, <1>8, <1>9, GotoStep

LEMMA RunEndIfStep ==
    ASSUME RunIInv, Running("endIf"), Goto({pc + 1})
    PROVE  RunIInv'
<1>1. /\ phase = "running" /\ pc \in 1..Len(code) /\ code[pc].op = "endIf"
      /\ UNCHANGED <<checkerVars, code, historyVars, storage, result, phase>>
      /\ pc' = pc + 1
  BY DEF Running, Goto
<1>2. PICK t : t = pc + 1
  OBVIOUS
<1>3. t \in 1..(Len(code) + 1) /\ Entails(noted[pc], Arriving(t))
  BY <1>1, <1>2, ArrivingFacts DEF RunIInv, Flows, Flow
<1> QED
  BY <1>1, <1>2, <1>3, GotoStep

LEMMA RunLoopStep ==
    ASSUME RunIInv, RunLoop
    PROVE  RunIInv'
<1>1. /\ phase = "running" /\ pc \in 1..Len(code) /\ code[pc].op = "loop"
      /\ UNCHANGED <<checkerVars, code, historyVars, storage, result, phase>>
      /\ pc' \in {pc + 1, EndOf(pc) + 1}
  BY DEF RunLoop, Running, Goto
<1>2. Depth = 0 /\ Len(code) \in Nat
  BY <1>1, ArrivingFacts DEF RunIInv, Executing
<1>3. PICK i \in 1..Len(code) : i = pc
  BY <1>1
<1>4. PICK e \in 1..Len(code) : code[e].op = "endLoop" /\ Jump(i, e) /\ EndOf(i) = e
  BY <1>1, <1>2, <1>3, Closed DEF Openers
<1>5. PICK t : t = pc'
  OBVIOUS
<1>6. t \in 1..(Len(code) + 1) /\ Entails(noted[i], Arriving(t))
  <2>1. CASE t = i + 1
    BY <1>1, <1>2, <1>3, <2>1 DEF RunIInv, Flows, Flow, Openers
  <2>2. CASE t = e + 1
    BY <1>2, <1>4, <2>2 DEF Jump
  <2> QED
    BY <1>1, <1>3, <1>4, <1>5, <2>1, <2>2
<1> QED
  BY <1>1, <1>3, <1>5, <1>6, GotoStep

LEMMA RunLoopEndStep ==
    ASSUME RunIInv, RunLoopEnd
    PROVE  RunIInv'
<1>1. /\ phase = "running" /\ pc \in 1..Len(code) /\ code[pc].op = "endLoop"
      /\ UNCHANGED <<checkerVars, code, historyVars, storage, result, phase>>
      /\ pc' = OpenerOf(pc)
  BY DEF RunLoopEnd, Running, Goto
<1>2. PICK j \in 1..Len(code) : j = pc
  BY <1>1
<1>3. PICK i \in 1..Len(code) : Opens(i, j)
  BY <1>1, <1>2 DEF RunIInv, WellNested, Ends
<1>4. OpenerOf(j) = i /\ Jump(i, j)
  BY <1>3, OpenerOfDelimiter DEF RunIInv, Jumps
<1>5. Entails(noted[j], noted[i]) /\ Arriving(i) = noted[i] /\ i \in 1..(Len(code) + 1)
  BY <1>1, <1>2, <1>4, ArrivingFacts DEF RunIInv, Jump
<1> QED
  BY <1>1, <1>2, <1>4, <1>5, GotoStep

LEMMA RunStoreStep ==
    ASSUME RunIInv, RunStore
    PROVE  RunIInv'
<1>1. /\ phase = "running" /\ pc \in 1..Len(code) /\ code[pc].op = "store"
      /\ UNCHANGED <<checkerVars, code, historyVars, result, phase>>
      /\ pc' = pc + 1
  BY DEF RunStore, Running
<1>2. PICK a \in KnownSet : a = noted[pc]
  BY <1>1, ArrivingFacts DEF RunIInv
<1>3. PICK e \in Entries : e = code[pc]
  BY <1>1, ArrivingFacts DEF RunIInv
<1>4. PICK t : t = pc + 1
  OBVIOUS
<1>5. PICK o \in OriginsOf(e.source) : storage' = [storage EXCEPT ![e.target] = o]
  BY <1>3 DEF RunStore
<1>6. PICK after : after = AfterStore(a, e)
  OBVIOUS
<1>7. PICK known : known = Arriving(t)
  OBVIOUS
<1>8. /\ e.target \in Locals /\ e.source \in Params \cup a.visible \cup {SliceCall, OtherCall}
      /\ Entails(after, known)
  BY <1>1, <1>2, <1>3, <1>4, <1>6, <1>7 DEF RunIInv, Flows, Flow
<1>9. Holds(a)
  BY <1>1, <1>2, ArrivingFacts DEF RunIInv, Executing
<1>10. storage \in [Symbols -> Origins \cup {Unset}]
  BY DEF RunIInv, RunTypeOK
<1>11. Holds(known)'
  BY <1>2, <1>3, <1>5, <1>6, <1>8, <1>9, <1>10, HoldsAfterStore, HoldsNext
<1>12. Arriving(t)' = known
  BY <1>1, <1>7 DEF Arriving, Known, checkerVars, historyVars
<1>13. Holds(Arriving(pc))'
  BY <1>1, <1>4, <1>11, <1>12
<1>14. Executing'
  BY <1>1, <1>13 DEF RunIInv, Executing, Depth, checkerVars
<1>15. storage' \in [Symbols -> Origins \cup {Unset}]
  <2>1. OriginsOf(e.source) \subseteq Origins \cup {Unset}
    BY <1>10, SourceCases DEF OriginsOf, Origins
  <2> QED
    BY <1>5, <1>10, <2>1
<1>16. pc' \in 1..(Len(code) + 1)
  BY <1>1, ArrivingFacts DEF RunIInv
<1> QED
  BY <1>1, <1>14, <1>15, <1>16, StaticKept DEF RunIInv, RunTypeOK

LEMMA RunReturnStep ==
    ASSUME RunIInv, RunReturn
    PROVE  RunIInv'
<1>1. /\ phase = "running" /\ pc \in 1..Len(code) /\ code[pc].op = "return"
      /\ UNCHANGED <<checkerVars, code, historyVars, pc, storage>>
      /\ phase' = "returned" /\ result' \in OriginsOf(code[pc].source)
  BY DEF RunReturn, Running
<1>2. PICK src : src = code[pc].source
  OBVIOUS
<1>3. /\ src \in Params \cup noted[pc].visible \cup {SliceCall, OtherCall}
      /\ Fragment => ProvenanceIn(noted[pc].map, src) = "External"
      /\ Holds(noted[pc]) /\ noted[pc] \in KnownSet
  BY <1>1, <1>2, ArrivingFacts DEF RunIInv, Flows, Flow, Executing
<1>4. Fragment => result' = "External"
  <2> SUFFICES ASSUME Fragment PROVE result' = "External"
    OBVIOUS
  <2>1. src \in Params \cup noted[pc].visible /\ src \in Symbols
    BY <1>3, SourceCases, SymbolsAssumption DEF Symbols, KnownSet
  <2>2. noted[pc].map[src] = "External"
    BY <1>3, <2>1, SourceCases
  <2>3. storage[src] = "External"
    BY <1>3, <2>1, <2>2 DEF Holds, Definite
  <2> QED
    BY <1>1, <1>2, <2>1, <2>3, SourceCases
<1>5. Executing'
  BY <1>1, <1>4 DEF Executing, Fragment
<1>6. result' \in Origins \cup {Unset}
  <2>1. OriginsOf(src) \subseteq Origins \cup {Unset}
    BY SourceCases DEF OriginsOf, Origins, RunIInv, RunTypeOK
  <2> QED
    BY <1>1, <1>2, <2>1
<1> QED
  BY <1>1, <1>5, <1>6, StaticKept DEF RunIInv, RunTypeOK

LEMMA AcceptStep ==
    ASSUME RunIInv, Accept
    PROVE  RunIInv'
<1>1. /\ phase = "checking" /\ Depth = 0
      /\ phase' = IF rejected THEN "stuck" ELSE "running"
      /\ UNCHANGED <<checkerVars, code, historyVars, pc, storage, result>>
  BY DEF Accept, runVars
<1>2. Holds(Arriving(pc))
  BY <1>1 DEF RunIInv, Executing
<1>3. PICK known : known = Arriving(pc)
  OBVIOUS
<1>4. Arriving(pc)' = known
  BY <1>1, <1>3 DEF Arriving, Known, checkerVars, historyVars
<1>5. Holds(known)'
  BY <1>1, <1>2, <1>3 DEF Holds, Unset, Fragment, Definite
<1>6. Holds(Arriving(pc))'
  BY <1>4, <1>5
<1>7. Executing'
  BY <1>1, <1>6 DEF Executing, Depth, checkerVars
<1>8. phase' \in {"checking", "running", "returned", "stuck"}
  BY <1>1
<1> QED
  BY <1>1, <1>7, <1>8, StaticKept DEF RunIInv, RunTypeOK

LEMMA WalkStep ==
    ASSUME RunIInv, Walk
    PROVE  RunIInv'
<1>1. CASE \E s \in Locals, src \in Sources :
              checkVarDecl(s, src) /\ Record("store", s, src, Depth)
  BY <1>1, StoreStep DEF checkVarDecl
<1>2. CASE \E s \in Locals, src \in Sources :
              checkVariableAssignmentTarget(s, src) /\ Record("store", s, src, Depth)
  <2>1. PICK s \in Locals, src \in Sources :
            checkVariableAssignmentTarget(s, src) /\ Record("store", s, src, Depth)
    BY <1>2
  <2>2. visible' = visible \cup {s}
    BY <2>1 DEF checkVariableAssignmentTarget
  <2> QED
    BY <2>1, <2>2, StoreStep DEF checkVariableAssignmentTarget
<1>3. CASE \E src \in Sources :
              checkReturnStmt(src) /\ Record("return", NoOperand, src, Depth)
  BY <1>3, ReturnStep
<1>4. CASE checkIfStmtEnter /\ Record("if", NoOperand, NoOperand, Depth)
  BY <1>4, EnterIfStep
<1>5. CASE checkIfStmtNextBranch("if") /\ Record("elseIf", NoOperand, NoOperand, Depth - 1)
  BY <1>5, NextBranchStep DEF Middles
<1>6. CASE checkIfStmtNextBranch("else") /\ Record("else", NoOperand, NoOperand, Depth - 1)
  BY <1>6, NextBranchStep DEF Middles
<1>7. CASE checkIfStmtExit /\ Record("endIf", NoOperand, NoOperand, Depth - 1)
  BY <1>7, ExitIfStep
<1>8. CASE checkLoopStmtEnter(TRUE) /\ Record("loop", NoOperand, NoOperand, Depth)
  BY <1>8, EnterLoopStep
<1>9. CASE checkLoopStmtExit /\ Record("endLoop", NoOperand, NoOperand, Depth - 1)
  BY <1>9, ExitLoopStep
<1> QED
  BY <1>1, <1>2, <1>3, <1>4, <1>5, <1>6, <1>7, <1>8, <1>9 DEF Walk

LEMMA RunStep ==
    ASSUME RunIInv, [RunNext]_vars
    PROVE  RunIInv'
<1>1. CASE Walk
  BY <1>1, WalkStep
<1>2. CASE Accept
  BY <1>2, AcceptStep
<1>3. CASE RunStore
  BY <1>3, RunStoreStep
<1>4. CASE RunReturn
  BY <1>4, RunReturnStep
<1>5. CASE RunIf
  BY <1>5, RunIfStep
<1>6. CASE RunBranchEnd
  BY <1>6, RunMiddleStep, RunEndIfStep DEF RunBranchEnd, Middles
<1>7. CASE RunLoop
  BY <1>7, RunLoopStep
<1>8. CASE RunLoopEnd
  BY <1>8, RunLoopEndStep
<1>9. CASE UNCHANGED vars
  <2>1. UNCHANGED <<checkerVars, code, historyVars, phase, pc, storage, result>>
    BY <1>9 DEF vars, runVars
  <2>2. Executing'
    <3>1. PICK known : known = Arriving(pc)
      OBVIOUS
    <3>2. Arriving(pc)' = known
      BY <2>1, <3>1 DEF Arriving, Known, checkerVars, historyVars
    <3>3. Holds(known) => Holds(known)'
      BY <2>1 DEF Holds, Unset, Fragment, Definite
    <3>4. Holds(Arriving(pc)) => Holds(Arriving(pc))'
      BY <3>1, <3>2, <3>3
    <3> QED
      BY <2>1, <3>4 DEF RunIInv, Executing, Depth, Fragment, checkerVars
  <2> QED
    BY <2>1, <2>2, StaticKept DEF RunIInv, RunTypeOK
<1> QED
  BY <1>1, <1>2, <1>3, <1>4, <1>5, <1>6, <1>7, <1>8, <1>9 DEF RunNext

LEMMA RunStart == RunInit => RunIInv
<1> SUFFICES ASSUME RunInit PROVE RunIInv
  OBVIOUS
<1>1. /\ Len(code) = 0 /\ Depth = 0 /\ visible = {} /\ phase = "checking" /\ pc = 1
      /\ code = <<>> /\ noted = <<>> /\ opened = <<>> /\ frames = <<>>
      /\ sliceProvenance = [id \in Symbols |-> IF id \in Params THEN "External" ELSE Untracked]
      /\ storage = [id \in Symbols |-> IF id \in Params THEN "External" ELSE Unset]
  BY DEF RunInit, Init, Depth
<1>2. Params \subseteq Symbols
  BY DEF Symbols
<1>3. RunTypeOK
  <2>1. sliceProvenance \in Maps
    BY <1>1 DEF Maps, Provenance
  <2>2. frames \in Seq(Frames)
    BY <1>1
  <2>3. TypeOK
    BY <2>1, <2>2 DEF RunInit, Init, TypeOK
  <2> QED
    BY <1>1, <2>3 DEF RunInit, RunTypeOK, Origins
<1>4. OpenFrames /\ Pending /\ OpenLoop
  BY <1>1 DEF OpenFrames, Pending, OpenLoop
<1>5. WellNested /\ Flows /\ Jumps
  BY <1>1 DEF WellNested, Flows, Jumps
<1>6. ScopesTracked
  <2>1. \A id \in Params \cup visible : sliceProvenance[id] = "External"
    BY <1>1, <1>2
  <2>2. 1..Depth = {}
    BY <1>1
  <2> QED
    BY <2>1, <2>2 DEF ScopesTracked, Tracked, Untracked
<1>7. Arriving(1) = Known
  BY <1>1 DEF Arriving
<1>8. Holds(Known)
  BY <1>1, <1>2 DEF Holds, Known, Unset
<1>9. Executing
  BY <1>1, <1>7, <1>8 DEF Executing
<1> QED
  BY <1>3, <1>4, <1>5, <1>6, <1>9 DEF RunIInv

----------------------------------------------------------------------------
(* The theorems *)

\* In every body, with any nesting of loops and returns anywhere, the checker's
\* frames are the open statements, every entry leads only to entries whose note
\* it entails, and an execution's slots are as noted where it stands.
THEOREM RunInvariant == RunSpec => []RunIInv
<1>1. RunInit => RunIInv
  BY RunStart
<1>2. RunIInv /\ [RunNext]_vars => RunIInv'
  BY RunStep
<1> QED
  BY <1>1, <1>2, PTL DEF RunSpec

\* Where no loop stands inside a loop and no return inside one, a function that
\* TypeChecker accepts never returns a slice of its own frame, however often its
\* loops iterate.  With a return in a loop it may: see the run slice_loop_return.
THEOREM AcceptedIsSafe ==
    ASSUME ~NestedLoops, ~ReturnInLoop
    PROVE  RunSpec => []AcceptedNeverReturnsLocal
<1>1. RunIInv => AcceptedNeverReturnsLocal
  BY DEF RunIInv, Executing, AcceptedNeverReturnsLocal, Fragment
<1> QED
  BY <1>1, RunInvariant, PTL

\* No execution reads a slice binding that was not stored to before: what the
\* checker's scopes let a statement name has been written on every way there.
THEOREM ReadsAreStored == RunSpec => []NoUnsetRead
<1>1. RunIInv => NoUnsetRead
  <2> SUFFICES ASSUME RunIInv, phase = "running", pc \in 1..Len(code), code[pc].source \in Symbols
               PROVE  storage[code[pc].source] # Unset
    BY DEF NoUnsetRead
  <2>1. Flow(pc) /\ Holds(noted[pc])
    BY ArrivingFacts DEF RunIInv, Flows, Executing
  <2>2. code[pc].source \in Params \cup noted[pc].visible
    BY <2>1, SymbolsAssumption, OperandAssumption DEF Flow, Symbols
  <2> QED
    BY <2>1, <2>2 DEF Holds
<1> QED
  BY <1>1, RunInvariant, PTL
=============================================================================
