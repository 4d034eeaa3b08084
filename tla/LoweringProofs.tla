----------------------------- MODULE LoweringProofs -----------------------------
(****************************************************************************)
(* BlockLowering for every number of blocks and every nesting depth: the    *)
(* two passes agree, no return value is ever missing, and every block the   *)
(* function keeps holds exactly one terminator once lowering has left it.   *)
(*                                                                          *)
(* A finished function is well formed because of FlowInv: a kept block that *)
(* no call is still to continue in is in every set of blocks that holds the *)
(* entry and is closed under jumps, and each phi has the predecessors it    *)
(* will have.  That Reachable is such a set counts blocks: it grows with    *)
(* each jump or has stopped growing, and there are MaxBlocks of them.       *)
(****************************************************************************)
EXTENDS BlockLowering, RangeLoop, SequenceTheorems, FiniteSetTheorems, WellFoundedInduction, TLAPS

----------------------------------------------------------------------------
(* The invariant: what the stack of lowering calls owns *)

\* The blocks one call has still to continue in.
Pending(f) ==
    {f.merge} \cup (IF f.part \in {"then", "condition"} THEN {f.other} ELSE {})

Awaiting(q) == UNION {Pending(q[i]) : i \in 1..Len(q)}

\* Parts that lower one expression or one nested if, and so start falling through.
Undone == {"elseIf", "condition", "right"}

\* One call, among the blocks K of the function.
FrameOK(f, K) ==
    /\ f.merge \in K
    /\ f.part \in {"then", "condition"} => f.other # f.merge
    /\ f.part = "condition" => f.other \in K
    /\ f.part = "then" => f.other \in K \cup {NoBlock}
    /\ f.part \in {"condition", "body", "right"} => f.back \in Blocks
    /\ f.thenTerminated = f.thenReturns

\* No two calls await the same block, and an if is a statement of a list or the
\* content of an else block.
StackOK(q, K) ==
    /\ \A i \in 1..Len(q) : FrameOK(q[i], K)
    /\ \A i, j \in 1..Len(q) : i < j => Pending(q[i]) \cap Pending(q[j]) \subseteq {NoBlock}
    /\ \A i \in 1..Len(q) :
          i > 1 /\ q[i].part \in {"then", "else", "elseIf", "elseIfDone"}
             => q[i - 1].part \notin Undone

Position ==
    /\ erased \subseteq 1..created
    /\ insertBlock \in Kept
    /\ insertBlock \notin Awaiting(frames)
    /\ \A b \in Blocks : b > created => terminators[b] = 0
    /\ Depth > 0 /\ Part \in Undone => ~terminated

IInv ==
    /\ TypeOK
    /\ StackOK(frames, Kept)
    /\ Position
    /\ terminated = returns
    /\ NeverInventsAReturn
    /\ OneTerminatorEach

----------------------------------------------------------------------------
(* Facts about stacks *)

LEMMA PendingBlocks ==
    ASSUME NEW K, NEW f, FrameOK(f, K)
    PROVE  Pending(f) \subseteq K \cup {NoBlock}
BY DEF FrameOK, Pending

LEMMA AwaitingBlocks ==
    ASSUME NEW K, NEW q, StackOK(q, K)
    PROVE  Awaiting(q) \subseteq K \cup {NoBlock}
BY PendingBlocks DEF StackOK, Awaiting

\* Only the blocks it awaits matter to a stack.
LEMMA StackOKOver ==
    ASSUME NEW K, NEW L, NEW q, StackOK(q, K),
           \A b \in Awaiting(q) : b \in K => b \in L
    PROVE  StackOK(q, L)
<1>1. \A i \in 1..Len(q) : Pending(q[i]) \subseteq Awaiting(q)
  BY DEF Awaiting
<1>2. \A i \in 1..Len(q) : FrameOK(q[i], L)
  BY <1>1 DEF StackOK, FrameOK, Pending
<1> QED
  BY <1>2 DEF StackOK

LEMMA EmptyStack ==
    ASSUME NEW K
    PROVE  StackOK(<<>>, K) /\ Awaiting(<<>>) = {}
BY DEF StackOK, Awaiting

LEMMA AppendElements ==
    ASSUME NEW q \in Seq(Frames), NEW f \in Frames
    PROVE  /\ Append(q, f) \in Seq(Frames)
           /\ Len(q) \in Nat
           /\ Len(Append(q, f)) = Len(q) + 1
           /\ \A i \in 1..Len(q) : Append(q, f)[i] = q[i]
           /\ Append(q, f)[Len(q) + 1] = f
BY AppendProperties

LEMMA AwaitingAppend ==
    ASSUME NEW q \in Seq(Frames), NEW f \in Frames
    PROVE  Awaiting(Append(q, f)) = Awaiting(q) \cup Pending(f)
<1> DEFINE r == Append(q, f)
<1>1. /\ Len(q) \in Nat
      /\ Len(r) = Len(q) + 1
      /\ \A i \in 1..Len(q) : r[i] = q[i]
      /\ r[Len(q) + 1] = f
  BY AppendElements
<1> HIDE DEF r
<1>2. \A b : b \in Awaiting(r) <=> \E i \in 1..Len(r) : b \in Pending(r[i])
  BY DEF Awaiting
<1>3. \A b : b \in Awaiting(q) <=> \E i \in 1..Len(q) : b \in Pending(q[i])
  BY DEF Awaiting
<1>4. \A b : b \in Awaiting(r) <=> b \in Awaiting(q) \/ b \in Pending(f)
  <2> TAKE b
  <2>1. ASSUME b \in Awaiting(r) PROVE b \in Awaiting(q) \/ b \in Pending(f)
    <3>1. PICK i \in 1..Len(r) : b \in Pending(r[i])
      BY <2>1, <1>2
    <3>2. i = Len(q) + 1 \/ i \in 1..Len(q)
      BY <3>1, <1>1
    <3> QED
      BY <3>1, <3>2, <1>1, <1>3
  <2>2. ASSUME b \in Awaiting(q) PROVE b \in Awaiting(r)
    <3>1. PICK i \in 1..Len(q) : b \in Pending(q[i])
      BY <2>2, <1>3
    <3>2. i \in 1..Len(r) /\ r[i] = q[i]
      BY <3>1, <1>1
    <3> QED
      BY <3>1, <3>2, <1>2
  <2>3. ASSUME b \in Pending(f) PROVE b \in Awaiting(r)
    <3>1. Len(q) + 1 \in 1..Len(r)
      BY <1>1
    <3> QED
      BY <2>3, <3>1, <1>1, <1>2
  <2> QED
    BY <2>1, <2>2, <2>3
<1>5. Awaiting(r) = Awaiting(q) \cup Pending(f)
  BY <1>4
<1> QED
  BY <1>5 DEF r

\* A stack is sound exactly when its last call fits on a sound one.
LEMMA StackAppend ==
    ASSUME NEW q \in Seq(Frames), NEW f \in Frames, NEW K
    PROVE  StackOK(Append(q, f), K) <=>
              /\ StackOK(q, K)
              /\ FrameOK(f, K)
              /\ Pending(f) \cap Awaiting(q) \subseteq {NoBlock}
              /\ Len(q) > 0 /\ f.part \in {"then", "else", "elseIf", "elseIfDone"}
                    => q[Len(q)].part \notin Undone
<1> DEFINE r == Append(q, f)
           n == Len(q)
<1>1. /\ n \in Nat
      /\ Len(r) = n + 1
      /\ \A i \in 1..n : r[i] = q[i]
      /\ r[n + 1] = f
  BY AppendElements
<1>2. \A b : b \in Awaiting(q) <=> \E i \in 1..n : b \in Pending(q[i])
  BY DEF Awaiting
<1>3. 1..Len(r) = (1..n) \cup {n + 1}
  BY <1>1
<1> HIDE DEF r, n
<1>4. (\A i \in 1..Len(r) : FrameOK(r[i], K)) <=> (\A i \in 1..n : FrameOK(q[i], K)) /\ FrameOK(f, K)
  <2>1. \A i \in 1..n : FrameOK(r[i], K) <=> FrameOK(q[i], K)
    BY <1>1
  <2>2. FrameOK(r[n + 1], K) <=> FrameOK(f, K)
    BY <1>1
  <2> QED
    BY <2>1, <2>2, <1>3
<1>5. (\A i, j \in 1..Len(r) : i < j => Pending(r[i]) \cap Pending(r[j]) \subseteq {NoBlock})
         <=> /\ \A i, j \in 1..n : i < j => Pending(q[i]) \cap Pending(q[j]) \subseteq {NoBlock}
             /\ Pending(f) \cap Awaiting(q) \subseteq {NoBlock}
  <2>1. \A i \in 1..n : Pending(r[i]) = Pending(q[i])
    BY <1>1
  <2>2. Pending(r[n + 1]) = Pending(f)
    BY <1>1
  <2>3. (\A i \in 1..n : Pending(q[i]) \cap Pending(f) \subseteq {NoBlock})
           <=> Pending(f) \cap Awaiting(q) \subseteq {NoBlock}
    BY <1>2
  <2>4. \A i, j \in 1..Len(r) : i < j => i \in 1..n /\ (j = n + 1 \/ j \in 1..n)
    BY <1>1
  <2>5. \A i \in 1..n : i \in 1..Len(r) /\ n + 1 \in 1..Len(r) /\ i < n + 1
    BY <1>1
  <2>6. ASSUME \A i, j \in 1..Len(r) : i < j => Pending(r[i]) \cap Pending(r[j]) \subseteq {NoBlock}
        PROVE  /\ \A i, j \in 1..n : i < j => Pending(q[i]) \cap Pending(q[j]) \subseteq {NoBlock}
               /\ \A i \in 1..n : Pending(q[i]) \cap Pending(f) \subseteq {NoBlock}
    BY <2>1, <2>2, <2>5, <2>6
  <2>7. ASSUME \A i, j \in 1..n : i < j => Pending(q[i]) \cap Pending(q[j]) \subseteq {NoBlock},
               \A i \in 1..n : Pending(q[i]) \cap Pending(f) \subseteq {NoBlock}
        PROVE  \A i, j \in 1..Len(r) : i < j => Pending(r[i]) \cap Pending(r[j]) \subseteq {NoBlock}
    BY <2>1, <2>2, <2>4, <2>7
  <2> QED
    BY <2>3, <2>6, <2>7
<1>6. (\A i \in 1..Len(r) : i > 1 /\ r[i].part \in {"then", "else", "elseIf", "elseIfDone"}
                               => r[i - 1].part \notin Undone)
         <=> /\ \A i \in 1..n : i > 1 /\ q[i].part \in {"then", "else", "elseIf", "elseIfDone"}
                                   => q[i - 1].part \notin Undone
             /\ n > 0 /\ f.part \in {"then", "else", "elseIf", "elseIfDone"}
                   => q[n].part \notin Undone
  <2>1. \A i \in 1..n : i > 1 => r[i] = q[i] /\ r[i - 1] = q[i - 1]
    BY <1>1
  <2>2. n > 0 => r[(n + 1) - 1] = q[n] /\ n + 1 > 1
    BY <1>1
  <2>3. ~ (0 + 1 > 1)
    OBVIOUS
  <2> QED
    BY <2>1, <2>2, <2>3, <1>1, <1>3, SMTT(20)
<1>7. StackOK(r, K) <=>
              /\ StackOK(q, K)
              /\ FrameOK(f, K)
              /\ Pending(f) \cap Awaiting(q) \subseteq {NoBlock}
              /\ n > 0 /\ f.part \in {"then", "else", "elseIf", "elseIfDone"}
                    => q[n].part \notin Undone
  BY <1>4, <1>5, <1>6 DEF StackOK, n
<1> QED
  BY <1>7 DEF r, n

\* Every stack is its outer calls and the innermost one.
LEMMA StackSplit ==
    ASSUME frames \in Seq(Frames), Depth > 0
    PROVE  /\ Outer \in Seq(Frames)
           /\ Innermost \in Frames
           /\ Part = Innermost.part
           /\ frames = Append(Outer, Innermost)
           /\ \A f \in Frames : [frames EXCEPT ![Depth] = f] = Append(Outer, f)
<1>1. Len(frames) \in Nat /\ Len(frames) \in 1..Len(frames)
  BY DEF Depth
<1>2. Innermost \in Frames
  BY <1>1, ElementOfSeq DEF Innermost, Depth
<1>3. /\ Outer \in Seq(Frames)
      /\ Len(Outer) = Len(frames) - 1
      /\ \A i \in 1..(Len(frames) - 1) : Outer[i] = frames[i]
  BY <1>1, SubSeqProperties DEF Outer, Depth
<1>4. ASSUME NEW f \in Frames
      PROVE  [frames EXCEPT ![Depth] = f] = Append(Outer, f)
  <2>1. /\ Append(Outer, f) \in Seq(Frames)
        /\ Len(Append(Outer, f)) = Len(frames)
        /\ \A i \in 1..(Len(frames) - 1) : Append(Outer, f)[i] = frames[i]
        /\ Append(Outer, f)[Len(frames)] = f
    BY <1>1, <1>3, AppendElements
  <2>2. /\ [frames EXCEPT ![Depth] = f] \in Seq(Frames)
        /\ Len([frames EXCEPT ![Depth] = f]) = Len(frames)
        /\ \A i \in 1..(Len(frames) - 1) : [frames EXCEPT ![Depth] = f][i] = frames[i]
        /\ [frames EXCEPT ![Depth] = f][Len(frames)] = f
    BY <1>1, ExceptSeq DEF Depth
  <2>3. 1..Len(frames) = 1..(Len(frames) - 1) \cup {Len(frames)}
    BY <1>1
  <2>4. \A i \in 1..Len(frames) : [frames EXCEPT ![Depth] = f][i] = Append(Outer, f)[i]
    BY <2>1, <2>2, <2>3
  <2> HIDE DEF Outer, Depth
  <2> QED
    BY <2>1, <2>2, <2>4, SeqEqual
<1>5. [frames EXCEPT ![Depth] = Innermost] = frames
  BY <1>1 DEF Innermost, Depth
<1>6. frames = Append(Outer, Innermost)
  BY <1>2, <1>4, <1>5
<1> QED
  BY <1>1, <1>2, <1>3, <1>4, <1>6 DEF Part

----------------------------------------------------------------------------
(* What the invariant says where a step starts, and what it takes at its end *)

LEMMA AwaitedIsAwaiting == Awaited = Awaiting(frames) /\ Awaited' = Awaiting(frames')
BY DEF Awaited, Awaiting, Pending, Depth

LEMMA Situation ==
    ASSUME IInv
    PROVE  /\ created \in Nat /\ created >= 1 /\ created <= MaxBlocks /\ MaxBlocks \in Nat
           /\ Kept \subseteq 1..created /\ erased \subseteq 1..created
           /\ NoBlock \notin Kept
           /\ frames \in Seq(Frames) /\ Depth \in Nat
           /\ terminators \in [Blocks -> Nat]
           /\ insertBlock \in Kept /\ insertBlock \in Blocks
           /\ terminated \in BOOLEAN /\ returns = terminated
           /\ insertBlock \notin Awaiting(frames)
           /\ Awaiting(frames) \subseteq Kept \cup {NoBlock}
           /\ status = "open" =>
                 \A b \in Kept : terminators[b] =
                    IF b \in Awaiting(frames) \/ (b = insertBlock /\ ~terminated) THEN 0 ELSE 1
<1>1. created \in Nat /\ created >= 1 /\ created <= MaxBlocks /\ MaxBlocks \in Nat
  BY LoweringBounds DEF IInv, TypeOK, Blocks
<1>2. Kept \subseteq 1..created /\ NoBlock \notin Kept
  BY <1>1 DEF Kept, NoBlock
<1>3. Awaiting(frames) \subseteq Kept \cup {NoBlock}
  BY AwaitingBlocks DEF IInv
<1>4. frames \in Seq(Frames) /\ Depth \in Nat
  BY DEF IInv, TypeOK, Depth
<1>5. /\ terminators \in [Blocks -> Nat]
      /\ insertBlock \in Kept /\ insertBlock \in Blocks
      /\ terminated \in BOOLEAN /\ returns = terminated
      /\ insertBlock \notin Awaiting(frames)
      /\ erased \subseteq 1..created
  BY DEF IInv, TypeOK, Position
<1>6. status = "open" =>
         \A b \in Kept : terminators[b] =
            IF b \in Awaiting(frames) \/ (b = insertBlock /\ ~terminated) THEN 0 ELSE 1
  BY AwaitedIsAwaiting DEF IInv, OneTerminatorEach
<1> QED
  BY <1>1, <1>2, <1>3, <1>4, <1>5, <1>6

LEMMA Assemble ==
    ASSUME IInv, TypeOK', StackOK(frames', Kept'), erased' \subseteq 1..created',
           insertBlock' \in Kept', insertBlock' \notin Awaiting(frames'),
           \A b \in Blocks : b > created' => terminators'[b] = 0,
           Depth' > 0 /\ Part' \in Undone => ~terminated',
           terminated' = returns', status' = "open",
           \A b \in Kept' : terminators'[b] =
              IF b \in Awaiting(frames') \/ (b = insertBlock' /\ ~terminated') THEN 0 ELSE 1
    PROVE  IInv'
<1>1. Position'
  BY DEF Position
<1>2. OneTerminatorEach'
  BY AwaitedIsAwaiting DEF OneTerminatorEach
<1>3. NeverInventsAReturn'
  BY DEF NeverInventsAReturn
<1> QED
  BY <1>1, <1>2, <1>3 DEF IInv

\* The innermost call and the ones around it.
LEMMA InnermostCall ==
    ASSUME IInv, Depth > 0
    PROVE  /\ Outer \in Seq(Frames) /\ Innermost \in Frames /\ Part = Innermost.part
           /\ \A f \in Frames : [frames EXCEPT ![Depth] = f] = Append(Outer, f)
           /\ StackOK(Outer, Kept) /\ FrameOK(Innermost, Kept)
           /\ Awaiting(frames) = Awaiting(Outer) \cup Pending(Innermost)
           /\ Pending(Innermost) \cap Awaiting(Outer) \subseteq {NoBlock}
           /\ Innermost.merge \in Kept /\ Innermost.merge \in Blocks
           /\ Innermost.merge \in Pending(Innermost)
           /\ Innermost.merge \notin Awaiting(Outer)
           /\ Len(Outer) > 0 /\ Part \in {"then", "else", "elseIf", "elseIfDone"}
                 => Outer[Len(Outer)].part \notin Undone
<1>1. /\ Outer \in Seq(Frames) /\ Innermost \in Frames /\ Part = Innermost.part
      /\ frames = Append(Outer, Innermost)
      /\ \A f \in Frames : [frames EXCEPT ![Depth] = f] = Append(Outer, f)
  BY Situation, StackSplit
<1> HIDE DEF Outer, Innermost, Part, Depth
<1>2. StackOK(Append(Outer, Innermost), Kept)
  BY <1>1 DEF IInv
<1>3. /\ StackOK(Outer, Kept) /\ FrameOK(Innermost, Kept)
      /\ Pending(Innermost) \cap Awaiting(Outer) \subseteq {NoBlock}
      /\ Len(Outer) > 0 /\ Part \in {"then", "else", "elseIf", "elseIfDone"}
                 => Outer[Len(Outer)].part \notin Undone
  BY <1>1, <1>2, StackAppend
<1>4. Awaiting(frames) = Awaiting(Outer) \cup Pending(Innermost)
  BY <1>1, AwaitingAppend
<1>5. Innermost.merge \in Kept /\ Innermost.merge \in Pending(Innermost)
  BY <1>3 DEF FrameOK, Pending
<1>6. Innermost.merge \in Blocks /\ Innermost.merge # NoBlock
  BY <1>5, Situation DEF Blocks
<1> QED
  BY <1>1, <1>3, <1>4, <1>5, <1>6

\* A step that pushes a frame f on the calls q and creates n blocks.
LEMMA PushOK ==
    ASSUME IInv, NEW q \in Seq(Frames), NEW f \in Frames, NEW n \in Nat,
           created' = created + n, erased' = erased,
           StackOK(q, Kept), Awaiting(q) = Awaiting(frames), frames' = Append(q, f),
           Pending(f) \subseteq (created + 1)..(created + n) \cup {NoBlock},
           FrameOK(f, Kept'),
           Len(q) > 0 /\ f.part \in {"then", "else", "elseIf", "elseIfDone"}
              => q[Len(q)].part \notin Undone
    PROVE  /\ StackOK(frames', Kept')
           /\ frames' \in Seq(Frames)
           /\ Kept' = Kept \cup (created + 1)..(created + n)
           /\ erased' \subseteq 1..created'
           /\ Awaiting(frames') = Awaiting(frames) \cup Pending(f)
           /\ Depth' > 0 /\ Part' = f.part
<1>1. created \in Nat /\ erased \subseteq 1..created /\ Kept \subseteq 1..created
      /\ Awaiting(frames) \subseteq Kept \cup {NoBlock}
  BY Situation
<1>2. Kept' = Kept \cup (created + 1)..(created + n) /\ erased' \subseteq 1..created'
  BY <1>1 DEF Kept
<1>3. StackOK(q, Kept')
  BY <1>2, StackOKOver
<1>4. Pending(f) \cap Awaiting(q) \subseteq {NoBlock}
  BY <1>1
<1>5. StackOK(Append(q, f), Kept')
  BY <1>3, <1>4, StackAppend
<1>6. Awaiting(frames') = Awaiting(frames) \cup Pending(f)
  BY AwaitingAppend
<1>7. Depth' = Len(q) + 1 /\ Depth' > 0 /\ frames'[Depth'] = f /\ frames' \in Seq(Frames)
  BY AppendElements DEF Depth
<1> QED
  BY <1>2, <1>5, <1>6, <1>7 DEF Part, Innermost

\* A step that replaces the innermost frame by one that awaits no more blocks.
LEMMA ReplaceOK ==
    ASSUME IInv, Depth > 0, NEW f \in Frames,
           created' = created, erased' = erased, frames' = Append(Outer, f),
           Pending(f) \subseteq Pending(Innermost), FrameOK(f, Kept),
           f.part \in {"then", "else", "elseIf", "elseIfDone"}
              => Part \in {"then", "else", "elseIf", "elseIfDone"}
    PROVE  /\ StackOK(frames', Kept')
           /\ frames' \in Seq(Frames)
           /\ Kept' = Kept
           /\ Awaiting(frames') = Awaiting(Outer) \cup Pending(f)
           /\ Depth' > 0 /\ Part' = f.part
<1>1. Kept' = Kept
  BY DEF Kept
<1>2. /\ Outer \in Seq(Frames)
      /\ StackOK(Outer, Kept)
      /\ Pending(Innermost) \cap Awaiting(Outer) \subseteq {NoBlock}
      /\ Len(Outer) > 0 /\ Part \in {"then", "else", "elseIf", "elseIfDone"}
                 => Outer[Len(Outer)].part \notin Undone
  BY InnermostCall
<1> HIDE DEF Outer, Innermost
<1>3. StackOK(Append(Outer, f), Kept)
  BY <1>2, StackAppend
<1>4. Awaiting(frames') = Awaiting(Outer) \cup Pending(f)
  BY <1>2, AwaitingAppend
<1>5. Depth' > 0 /\ frames'[Depth'] = f /\ frames' \in Seq(Frames)
  BY <1>2, AppendElements DEF Depth
<1> QED
  BY <1>1, <1>3, <1>4, <1>5 DEF Part, Innermost

----------------------------------------------------------------------------
(* The builder *)

LEMMA TerminateOne ==
    ASSUME IInv, NEW x, NEW targets \in SUBSET Blocks, Terminate({<<x, targets>>})
    PROVE  /\ terminators' \in [Blocks -> Nat] /\ successors' \in [Blocks -> SUBSET Blocks]
           /\ \A b \in Blocks : terminators'[b] = terminators[b] + (IF b = x THEN 1 ELSE 0)
<1> DEFINE Of(b) == {e \in {<<x, targets>>} : e[1] = b}
<1>1. /\ terminators' = [b \in Blocks |-> terminators[b] + (IF Of(b) = {} THEN 0 ELSE 1)]
      /\ successors' = [b \in Blocks |-> successors[b] \cup UNION {e[2] : e \in Of(b)}]
  BY DEF Terminate
<1>2. \A b : Of(b) = IF b = x THEN {<<x, targets>>} ELSE {}
  OBVIOUS
<1>3. \A b : UNION {e[2] : e \in Of(b)} \subseteq Blocks
  OBVIOUS
<1>4. terminators \in [Blocks -> Nat] /\ successors \in [Blocks -> SUBSET Blocks]
  BY DEF IInv, TypeOK
<1>5. \A b \in Blocks : successors[b] \cup UNION {e[2] : e \in Of(b)} \in SUBSET Blocks
  BY <1>3, <1>4
<1>6. \A b : Of(b) = {} <=> b # x
  BY <1>2
<1> HIDE DEF Of
<1>7. successors' \in [Blocks -> SUBSET Blocks]
  BY <1>1, <1>5
<1> QED
  BY <1>1, <1>4, <1>6, <1>7

\* Two blocks at once: a for loop's preheader and its condition block, or the
\* block of an index and the block that traps.
LEMMA TerminateTwo ==
    ASSUME IInv, NEW x, NEW y, x # y, NEW xs \in SUBSET Blocks, NEW ys \in SUBSET Blocks,
           Terminate({<<x, xs>>, <<y, ys>>})
    PROVE  /\ terminators' \in [Blocks -> Nat] /\ successors' \in [Blocks -> SUBSET Blocks]
           /\ \A b \in Blocks : terminators'[b] = terminators[b] + (IF b \in {x, y} THEN 1 ELSE 0)
<1> DEFINE Of(b) == {e \in {<<x, xs>>, <<y, ys>>} : e[1] = b}
<1>1. /\ terminators' = [b \in Blocks |-> terminators[b] + (IF Of(b) = {} THEN 0 ELSE 1)]
      /\ successors' = [b \in Blocks |-> successors[b] \cup UNION {e[2] : e \in Of(b)}]
  BY DEF Terminate
<1>2. \A b : Of(b) = {} <=> b \notin {x, y}
  <2> TAKE b
  <2>1. CASE b = x
    <3>1. <<x, xs>> \in Of(b)
      BY <2>1
    <3> QED
      BY <2>1, <3>1
  <2>2. CASE b = y
    <3>1. <<y, ys>> \in Of(b)
      BY <2>2
    <3> QED
      BY <2>2, <3>1
  <2>3. CASE b \notin {x, y}
    <3>1. \A e \in {<<x, xs>>, <<y, ys>>} : e[1] \in {x, y}
      OBVIOUS
    <3> QED
      BY <2>3, <3>1
  <2> QED
    BY <2>1, <2>2, <2>3
<1>3. \A b : UNION {e[2] : e \in Of(b)} \subseteq Blocks
  OBVIOUS
<1>4. terminators \in [Blocks -> Nat] /\ successors \in [Blocks -> SUBSET Blocks]
  BY DEF IInv, TypeOK
<1> QED
  BY <1>1, <1>2, <1>3, <1>4

LEMMA TerminateFallthrough ==
    ASSUME IInv, NEW target \in Blocks, Terminate(Fallthrough(target))
    PROVE  /\ terminators' \in [Blocks -> Nat] /\ successors' \in [Blocks -> SUBSET Blocks]
           /\ \A b \in Blocks : terminators'[b] =
                 terminators[b] + (IF b = insertBlock /\ ~terminated THEN 1 ELSE 0)
<1>1. CASE terminated
  <2>1. Fallthrough(target) = {}
    BY <1>1 DEF Fallthrough
  <2>2. terminators \in [Blocks -> Nat] /\ successors \in [Blocks -> SUBSET Blocks]
    BY DEF IInv, TypeOK
  <2>3. /\ terminators' = [b \in Blocks |-> terminators[b] + 0]
        /\ successors' = [b \in Blocks |-> successors[b] \cup {}]
    BY <2>1 DEF Terminate
  <2> QED
    BY <1>1, <2>2, <2>3
<1>2. CASE ~terminated
  <2>1. Terminate({<<insertBlock, {target}>>}) /\ {target} \in SUBSET Blocks
    BY <1>2 DEF Fallthrough
  <2> QED
    BY <1>2, <2>1, TerminateOne
<1> QED
  BY <1>1, <1>2

----------------------------------------------------------------------------
(* One lemma per action *)

LEMMA InvInit == Init => IInv
<1> SUFFICES ASSUME Init PROVE IInv
  OBVIOUS
<1>1. MaxBlocks \in Nat /\ 1 \in Blocks
  BY LoweringBounds DEF Blocks
<1>2. TypeOK
  BY <1>1, EmptySeq DEF Init, TypeOK, Statuses, Entry
<1>3. StackOK(frames, Kept) /\ Awaiting(frames) = {} /\ Depth = 0
  BY EmptyStack DEF Init, Depth
<1>4. Kept = {1}
  BY DEF Init, Kept
<1>5. Position
  BY <1>1, <1>3, <1>4 DEF Init, Position, Entry
<1>6. OneTerminatorEach
  BY <1>1, <1>3, <1>4, AwaitedIsAwaiting DEF Init, OneTerminatorEach, Entry
<1> QED
  BY <1>2, <1>3, <1>5, <1>6 DEF Init, IInv, NeverInventsAReturn

\* The blocks still without a terminator, among those the function keeps.
Unfinished == Awaiting(frames) \cup (IF terminated THEN {} ELSE {insertBlock})

\* A step that creates n blocks and terminates the blocks of ends.
LEMMA TerminatorStep ==
    ASSUME IInv, status = "open", NEW n \in Nat, created' = created + n, created' <= MaxBlocks,
           NEW ends \in SUBSET (Unfinished \cup (created + 1)..(created + n)),
           \A b \in Blocks : terminators'[b] = terminators[b] + (IF b \in ends THEN 1 ELSE 0),
           Kept' \subseteq Kept \cup (created + 1)..(created + n),
           \A b \in Kept' : b \in Unfinished' <=>
              b \in (Unfinished \cup (created + 1)..(created + n)) \ ends
    PROVE  /\ \A b \in Blocks : b > created' => terminators'[b] = 0
           /\ \A b \in Kept' : terminators'[b] =
                 IF b \in Awaiting(frames') \/ (b = insertBlock' /\ ~terminated') THEN 0 ELSE 1
<1>1. /\ created \in Nat /\ Kept \subseteq 1..created /\ insertBlock \in Kept
      /\ Awaiting(frames) \subseteq Kept \cup {NoBlock}
      /\ \A b \in Kept : terminators[b] =
           IF b \in Awaiting(frames) \/ (b = insertBlock /\ ~terminated) THEN 0 ELSE 1
      /\ MaxBlocks \in Nat
  BY Situation
<1>2. \A b \in Kept : terminators[b] = IF b \in Unfinished THEN 0 ELSE 1
  BY <1>1 DEF Unfinished
<1>3. \A b \in Unfinished : b \in 0..created
  <2>1. \A b \in Unfinished : b \in Kept \/ b = NoBlock
    BY <1>1 DEF Unfinished
  <2>2. \A b \in 1..created : b \in 0..created
    BY <1>1
  <2>3. NoBlock \in 0..created
    BY <1>1 DEF NoBlock
  <2>4. \A b \in Kept : b \in 1..created
    BY <1>1
  <2> QED
    BY <2>1, <2>2, <2>3, <2>4
<1>4. \A b \in Blocks : b > created => terminators[b] = 0
  BY DEF IInv, Position
<1>5. ASSUME NEW b \in Blocks, b > created'
      PROVE  terminators'[b] = 0
  <2>1. b \in Nat /\ b > created /\ b > created + n
    BY <1>1, <1>5 DEF Blocks
  <2>2. b \notin Unfinished
    BY <1>1, <1>3, <2>1
  <2>3. b \notin (created + 1)..(created + n)
    BY <1>1, <2>1
  <2>4. b \notin ends
    BY <2>2, <2>3
  <2> QED
    BY <1>4, <2>1, <2>4
<1>6. ASSUME NEW b \in Kept'
      PROVE  terminators'[b] = IF b \in Unfinished' THEN 0 ELSE 1
  <2>1. b \in Kept \/ b \in (created + 1)..(created + n)
    BY <1>6
  <2>2. b \in Blocks /\ (b \in ends <=> b \notin Unfinished' /\ b \in Unfinished \cup (created + 1)..(created + n))
    <3>1. b \in Blocks
      BY <1>1, <2>1 DEF Blocks
    <3> QED
      BY <3>1, <1>6
  <2>3. terminators'[b] = terminators[b] + (IF b \in ends THEN 1 ELSE 0)
    BY <2>2
  <2>4. CASE b \in Kept
    <3>1. b \notin (created + 1)..(created + n)
      BY <1>1, <2>4
    <3>2. terminators[b] = IF b \in Unfinished THEN 0 ELSE 1
      BY <1>2, <2>4
    <3>3. b \in Unfinished' <=> b \in Unfinished /\ b \notin ends
      BY <1>6, <3>1
    <3>4. b \in ends => b \in Unfinished
      BY <3>1
    <3> QED
      BY <2>3, <3>2, <3>3, <3>4
  <2>5. CASE b \in (created + 1)..(created + n)
    <3>1. terminators[b] = 0
      BY <1>1, <1>4, <2>2, <2>5
    <3>2. b \in Unfinished' <=> b \notin ends
      BY <1>6, <2>5
    <3> QED
      BY <2>3, <3>1, <3>2
  <2> QED
    BY <2>1, <2>4, <2>5
<1>7. \A b : b \in Unfinished' <=> b \in Awaiting(frames') \/ (b = insertBlock' /\ ~terminated')
  BY DEF Unfinished
<1> QED
  BY <1>5, <1>6, <1>7

LEMMA ReturnStep == IInv /\ generateReturnStmt => IInv'
<1> SUFFICES ASSUME IInv, generateReturnStmt PROVE IInv'
  OBVIOUS
<1>1. /\ Terminate({<<insertBlock, {}>>}) /\ {} \in SUBSET Blocks
      /\ created' = created /\ erased' = erased /\ incoming' = incoming
      /\ insertBlock' = insertBlock /\ frames' = frames /\ status' = status
      /\ terminated' = TRUE /\ returns' = TRUE
  BY DEF generateReturnStmt
<1>2. status = "open" /\ ~terminated /\ Part \notin Undone
  BY DEF generateReturnStmt, AtStatement, InList, Undone
<1>3. Kept' = Kept /\ Depth' = Depth /\ Part' = Part
  BY <1>1 DEF Kept, Depth, Part, Innermost
<1>4. /\ terminators' \in [Blocks -> Nat] /\ successors' \in [Blocks -> SUBSET Blocks]
      /\ \A b \in Blocks : terminators'[b] = terminators[b] + (IF b = insertBlock THEN 1 ELSE 0)
  BY <1>1, TerminateOne
<1>5. TypeOK'
  BY <1>1, <1>4 DEF IInv, TypeOK
<1>6. \A b \in Kept' : b \in Blocks
  BY <1>3, Situation DEF Blocks
<1>7. \A b \in Blocks : b > created' => terminators'[b] = 0
  BY <1>1, <1>4, Situation DEF IInv, Position
<1>8. \A b \in Kept' : terminators'[b] =
         IF b \in Awaiting(frames') \/ (b = insertBlock' /\ ~terminated') THEN 0 ELSE 1
  BY <1>1, <1>2, <1>3, <1>4, <1>6, Situation
<1>9. StackOK(frames', Kept') /\ insertBlock' \in Kept' /\ insertBlock' \notin Awaiting(frames')
      /\ erased' \subseteq 1..created'
  BY <1>1, <1>3, Situation DEF IInv
<1> QED
  BY <1>1, <1>2, <1>3, <1>5, <1>7, <1>8, <1>9, Assemble

LEMMA FailStep == IInv /\ LoweringFails => IInv'
<1> SUFFICES ASSUME IInv, LoweringFails PROVE IInv'
  OBVIOUS
<1>1. /\ created' = created /\ erased' = erased /\ terminators' = terminators
      /\ successors' = successors /\ incoming' = incoming
      /\ insertBlock' = insertBlock /\ frames' = frames
      /\ terminated' = terminated /\ returns' = returns /\ status' = "failed"
  BY DEF LoweringFails, graph
<1>2. Kept' = Kept /\ Depth' = Depth /\ Part' = Part
  BY <1>1 DEF Kept, Depth, Part, Innermost
<1>3. TypeOK'
  BY <1>1 DEF IInv, TypeOK, Statuses
<1>4. Position'
  BY <1>1, <1>2 DEF IInv, Position
<1> QED
  BY <1>1, <1>2, <1>3, <1>4 DEF IInv, OneTerminatorEach, NeverInventsAReturn

\* Where an expression is lowered, control falls through.
LEMMA ExpressionFallsThrough ==
    ASSUME IInv, AtExpression
    PROVE  status = "open" /\ ~terminated
<1>1. Part # "functionBody" => Depth > 0
  BY Situation DEF Part
<1>2. Part \in Undone => ~terminated
  BY <1>1 DEF IInv, Position, Undone
<1> QED
  BY <1>2 DEF AtExpression, AtStatement, Undone

LEMMA LogicalRightStep == IInv /\ lowerLogicalRight => IInv'
<1> SUFFICES ASSUME IInv, lowerLogicalRight PROVE IInv'
  OBVIOUS
<1> DEFINE right == created + 1
           end == created + 2
           f == [construct |-> "logical", part |-> "right",
                 back |-> insertBlock, other |-> NoBlock, merge |-> end,
                 thenTerminated |-> FALSE, thenReturns |-> FALSE]
<1>1. /\ created' = created + 2 /\ created + 2 <= MaxBlocks
      /\ Terminate({<<insertBlock, {right, end}>>})
      /\ insertBlock' = right /\ frames' = Append(frames, f)
      /\ erased' = erased /\ incoming' = incoming /\ terminated' = terminated
      /\ returns' = returns /\ status' = status
  BY DEF lowerLogicalRight, Create, NewBlock, Push
<1>2. status = "open" /\ ~terminated
  BY ExpressionFallsThrough DEF lowerLogicalRight
<1>3. /\ right \in Blocks /\ end \in Blocks /\ end \in 0..MaxBlocks /\ insertBlock \in 0..MaxBlocks
      /\ 0 \in 0..MaxBlocks /\ {right, end} \in SUBSET Blocks
  BY <1>1, Situation DEF Blocks
<1>4. f \in Frames
  BY <1>3 DEF Frames, NoBlock
<1>5. created' \in Nat /\ end \in Kept' /\ right # end
  BY <1>1, Situation DEF Kept
<1>6. Pending(f) = {end} /\ FrameOK(f, Kept')
  BY <1>5, Situation DEF Pending, FrameOK
<1> HIDE DEF f
<1>7. /\ StackOK(frames', Kept') /\ frames' \in Seq(Frames)
      /\ Kept' = Kept \cup (created + 1)..(created + 2) /\ erased' \subseteq 1..created'
      /\ Awaiting(frames') = Awaiting(frames) \cup {end}
  <2>1. Pending(f) \subseteq (created + 1)..(created + 2) \cup {NoBlock}
    BY <1>6, Situation
  <2>2. frames \in Seq(Frames) /\ StackOK(frames, Kept) /\ 2 \in Nat
    BY Situation DEF IInv
  <2>3. f.part \notin {"then", "else", "elseIf", "elseIfDone"}
    BY DEF f
  <2> QED
    BY <1>1, <1>4, <1>6, <2>1, <2>2, <2>3, PushOK
<1>8. /\ terminators' \in [Blocks -> Nat] /\ successors' \in [Blocks -> SUBSET Blocks]
      /\ \A b \in Blocks : terminators'[b] = terminators[b] + (IF b = insertBlock THEN 1 ELSE 0)
  BY <1>1, <1>3, TerminateOne
<1>9. TypeOK'
  BY <1>1, <1>3, <1>5, <1>7, <1>8 DEF IInv, TypeOK, Blocks
<1>10. insertBlock' \in Kept' /\ insertBlock' \notin Awaiting(frames')
  BY <1>1, <1>5, <1>7, Situation DEF NoBlock
<1>11. /\ \A b \in Blocks : b > created' => terminators'[b] = 0
       /\ \A b \in Kept' : terminators'[b] =
             IF b \in Awaiting(frames') \/ (b = insertBlock' /\ ~terminated') THEN 0 ELSE 1
  <2>1. Unfinished = Awaiting(frames) \cup {insertBlock}
    BY <1>2 DEF Unfinished
  <2>2. Unfinished' = Awaiting(frames) \cup {right, end}
    BY <1>1, <1>2, <1>7 DEF Unfinished
  <2>3. (created + 1)..(created + 2) = {right, end} /\ insertBlock \notin {right, end}
    BY Situation
  <2>4. insertBlock \notin Awaiting(frames)
    BY Situation
  <2> HIDE DEF right, end
  <2>5. {insertBlock} \in SUBSET (Unfinished \cup (created + 1)..(created + 2))
    BY <2>1
  <2>6. \A b : b \in Unfinished' <=> b \in (Unfinished \cup (created + 1)..(created + 2)) \ {insertBlock}
    BY <2>1, <2>2, <2>3, <2>4
  <2> QED
    BY <1>1, <1>2, <1>7, <1>8, <2>5, <2>6, TerminatorStep
<1> QED
  BY <1>1, <1>2, <1>7, <1>9, <1>10, <1>11, Assemble, Situation

LEMMA IndexBoundsStep == IInv /\ lowerCheckedIndexBounds => IInv'
<1> SUFFICES ASSUME IInv, lowerCheckedIndexBounds PROVE IInv'
  OBVIOUS
<1> PICK inbounds, outofbounds : inbounds = created + 1 /\ outofbounds = created + 2
  OBVIOUS
<1>1. /\ created' = created + 2 /\ created + 2 <= MaxBlocks
      /\ Terminate({<<insertBlock, {inbounds, outofbounds}>>, <<outofbounds, {}>>})
      /\ insertBlock' = inbounds /\ frames' = frames
      /\ erased' = erased /\ incoming' = incoming /\ terminated' = terminated
      /\ returns' = returns /\ status' = status
  BY DEF lowerCheckedIndexBounds, Create, NewBlock
<1>2. status = "open" /\ ~terminated
  BY ExpressionFallsThrough DEF lowerCheckedIndexBounds
<1>3. /\ created \in Nat /\ Kept \subseteq 1..created /\ erased \subseteq 1..created
      /\ insertBlock \in Kept /\ insertBlock \notin Awaiting(frames)
      /\ Awaiting(frames) \subseteq Kept \cup {NoBlock}
  BY Situation
<1>4. /\ inbounds \in Blocks /\ outofbounds \in Blocks /\ created' \in Blocks
      /\ inbounds # outofbounds /\ inbounds # NoBlock
      /\ inbounds \notin Kept /\ outofbounds \notin Kept
      /\ (created + 1)..(created + 2) = {inbounds, outofbounds}
  BY <1>1, <1>3, Situation DEF Blocks, NoBlock
<1>5. Kept' = Kept \cup {inbounds, outofbounds} /\ erased' \subseteq 1..created'
  BY <1>1, <1>3 DEF Kept
<1>6. /\ terminators' \in [Blocks -> Nat] /\ successors' \in [Blocks -> SUBSET Blocks]
      /\ \A b \in Blocks : terminators'[b] =
            terminators[b] + (IF b \in {insertBlock, outofbounds} THEN 1 ELSE 0)
  <2>1. insertBlock # outofbounds
    BY <1>3, <1>4
  <2>2. {inbounds, outofbounds} \in SUBSET Blocks /\ {} \in SUBSET Blocks
    BY <1>4
  <2> QED
    BY <1>1, <2>1, <2>2, TerminateTwo
<1>7. TypeOK'
  BY <1>1, <1>4, <1>6 DEF IInv, TypeOK
<1>8. StackOK(frames', Kept')
  <2>1. StackOK(frames, Kept')
    BY <1>5, StackOKOver DEF IInv
  <2> QED
    BY <1>1, <2>1
<1>9. insertBlock' \in Kept' /\ insertBlock' \notin Awaiting(frames')
  BY <1>1, <1>3, <1>4, <1>5
<1>10. Depth' > 0 /\ Part' \in Undone => ~terminated'
  BY <1>1, <1>2
<1>11. /\ \A b \in Blocks : b > created' => terminators'[b] = 0
       /\ \A b \in Kept' : terminators'[b] =
             IF b \in Awaiting(frames') \/ (b = insertBlock' /\ ~terminated') THEN 0 ELSE 1
  <2>1. Unfinished = Awaiting(frames) \cup {insertBlock}
    BY <1>2 DEF Unfinished
  <2>2. Unfinished' = Awaiting(frames) \cup {inbounds}
    BY <1>1, <1>2 DEF Unfinished
  <2>3. {insertBlock, outofbounds} \in SUBSET (Unfinished \cup (created + 1)..(created + 2))
    BY <1>4, <2>1
  <2>4. outofbounds \notin Awaiting(frames) /\ inbounds # insertBlock
    <3>1. outofbounds # NoBlock
      BY <1>3 DEF NoBlock
    <3> QED
      BY <1>3, <1>4, <3>1
  <2>5. \A b \in Kept' : b \in Unfinished' <=>
           b \in (Unfinished \cup (created + 1)..(created + 2)) \ {insertBlock, outofbounds}
    BY <1>3, <1>4, <2>1, <2>2, <2>4
  <2>6. Kept' \subseteq Kept \cup (created + 1)..(created + 2)
    BY <1>4, <1>5
  <2> QED
    BY <1>1, <1>2, <1>6, <2>3, <2>5, <2>6, TerminatorStep
<1> QED
  BY <1>1, <1>2, <1>5, <1>7, <1>8, <1>9, <1>10, <1>11, Assemble, Situation

\* A call returns to its caller.
LEMMA PopOK ==
    ASSUME IInv, Depth > 0, frames' = Outer, created' = created, erased' = erased
    PROVE  /\ StackOK(frames', Kept') /\ frames' \in Seq(Frames)
           /\ Kept' = Kept /\ erased' \subseteq 1..created'
           /\ Awaiting(frames') = Awaiting(Outer)
           /\ Depth' > 0 /\ Part' \in Undone => Part \notin {"then", "else", "elseIf", "elseIfDone"}
<1>1. Kept' = Kept
  BY DEF Kept
<1>2. Depth' = Len(Outer) /\ (Depth' > 0 => Part' = Outer[Len(Outer)].part)
  <2>1. Depth' = Len(Outer)
    BY DEF Depth
  <2>2. Outer \in Seq(Frames)
    BY InnermostCall
  <2>3. Part' = IF Len(Outer) = 0 THEN "functionBody" ELSE Outer[Len(Outer)].part
    BY <2>1 DEF Part, Innermost
  <2> HIDE DEF Outer
  <2>4. Len(Outer) \in Nat
    BY <2>2
  <2> QED
    BY <2>1, <2>3, <2>4
<1>3. erased' \subseteq 1..created'
  BY Situation
<1> QED
  BY <1>1, <1>2, <1>3, InnermostCall

\* The ends of a fall-through branch.
LEMMA FallthroughEnds ==
    ASSUME IInv, NEW target \in Blocks, Terminate(Fallthrough(target))
    PROVE  /\ terminators' \in [Blocks -> Nat] /\ successors' \in [Blocks -> SUBSET Blocks]
           /\ \A b \in Blocks : terminators'[b] = terminators[b]
                 + (IF b \in (IF terminated THEN {} ELSE {insertBlock}) THEN 1 ELSE 0)
BY TerminateFallthrough

\* A construct that control leaves through its merge block.
LEMMA LeaveByMerge ==
    ASSUME IInv, status = "open", status' = "open", Depth > 0, frames' = Outer,
           Part \in {"then", "else", "elseIfDone", "body", "right"},
           Part = "then" => Innermost.other = NoBlock,
           created' = created, erased' = erased, insertBlock' = Innermost.merge,
           terminated' = FALSE, returns' = FALSE,
           incoming' \in [Blocks -> SUBSET Blocks],
           NEW target \in Blocks, Terminate(Fallthrough(target))
    PROVE  IInv'
<1> DEFINE merge == Innermost.merge
<1>1. /\ Awaiting(frames) = Awaiting(Outer) \cup Pending(Innermost)
      /\ merge \in Kept /\ merge \in Blocks /\ merge \notin Awaiting(Outer)
      /\ Part = Innermost.part
  BY InnermostCall
<1>2. Pending(Innermost) \ {NoBlock} = {merge} \ {NoBlock} /\ merge \in Pending(Innermost)
  BY <1>1 DEF Pending
<1>3. /\ StackOK(frames', Kept') /\ frames' \in Seq(Frames)
      /\ Kept' = Kept /\ erased' \subseteq 1..created'
      /\ Awaiting(frames') = Awaiting(Outer)
  BY PopOK
<1>4. /\ terminators' \in [Blocks -> Nat] /\ successors' \in [Blocks -> SUBSET Blocks]
      /\ \A b \in Blocks : terminators'[b] = terminators[b]
            + (IF b \in (IF terminated THEN {} ELSE {insertBlock}) THEN 1 ELSE 0)
  BY FallthroughEnds
<1>5. TypeOK'
  BY <1>1, <1>3, <1>4 DEF IInv, TypeOK
<1> DEFINE ends == IF terminated THEN {} ELSE {insertBlock}
<1>6. Unfinished = Awaiting(Outer) \cup Pending(Innermost) \cup ends
  BY <1>1 DEF Unfinished
<1>7. Unfinished' = Awaiting(Outer) \cup {merge}
  BY <1>3 DEF Unfinished
<1>8. \A b \in ends : b \notin Awaiting(Outer) /\ b # merge
  BY <1>1, <1>2, Situation
<1>9. \A b \in Kept' : b \in Unfinished' <=> b \in Unfinished \ ends
  <2>1. \A b \in Kept' : b # NoBlock
    BY <1>3, Situation
  <2> HIDE DEF ends, merge
  <2> QED
    BY <2>1, <1>2, <1>6, <1>7, <1>8
<1>10. /\ created + 0 = created /\ (created + 1)..(created + 0) = {} /\ created' <= MaxBlocks
  BY Situation
<1>11. /\ \A b \in Blocks : b > created' => terminators'[b] = 0
       /\ \A b \in Kept' : terminators'[b] =
             IF b \in Awaiting(frames') \/ (b = insertBlock' /\ ~terminated') THEN 0 ELSE 1
  <2>1. ends \in SUBSET (Unfinished \cup (created + 1)..(created + 0))
    BY <1>6
  <2>2. Kept' \subseteq Kept \cup (created + 1)..(created + 0)
    BY <1>3
  <2>3. \A b \in Kept' : b \in Unfinished' <=>
           b \in (Unfinished \cup (created + 1)..(created + 0)) \ ends
    BY <1>9, <1>10
  <2> HIDE DEF ends
  <2>4. \A b \in Blocks : terminators'[b] = terminators[b] + (IF b \in ends THEN 1 ELSE 0)
    BY <1>4 DEF ends
  <2> QED
    BY <1>10, <2>1, <2>2, <2>3, <2>4, TerminatorStep
<1> QED
  BY <1>1, <1>3, <1>5, <1>11, Assemble

LEMMA LogicalMergeStep == IInv /\ lowerLogicalMerge => IInv'
<1> SUFFICES ASSUME IInv, lowerLogicalMerge PROVE IInv'
  OBVIOUS
<1>1. status = "open" /\ Part = "right" /\ Depth > 0
  BY Situation DEF lowerLogicalMerge, Part
<1>2. ~terminated /\ ~returns
  BY <1>1, Situation DEF IInv, Position, Undone
<1>3. /\ Innermost.merge \in Blocks /\ Innermost.back \in Blocks
  BY <1>1, InnermostCall DEF FrameOK
<1>4. Terminate(Fallthrough(Innermost.merge))
  BY <1>2 DEF lowerLogicalMerge, Fallthrough
<1>5. incoming' \in [Blocks -> SUBSET Blocks]
  BY <1>3 DEF lowerLogicalMerge, IInv, TypeOK
<1>6. terminated' = FALSE /\ returns' = FALSE
  BY <1>2, Situation DEF lowerLogicalMerge
<1>7. /\ created' = created /\ erased' = erased /\ frames' = Outer
      /\ insertBlock' = Innermost.merge /\ status' = status
  BY DEF lowerLogicalMerge
<1> QED
  BY <1>1, <1>3, <1>4, <1>5, <1>6, <1>7, LeaveByMerge

LEMMA IfEndNoElseStep == IInv /\ generateIfEndNoElse => IInv'
<1> SUFFICES ASSUME IInv, generateIfEndNoElse PROVE IInv'
  OBVIOUS
<1>1. status = "open" /\ Part = "then" /\ Innermost.other = NoBlock /\ Depth > 0
  BY Situation DEF generateIfEndNoElse, Part
<1>2. Innermost.merge \in Blocks
  BY <1>1, InnermostCall
<1>3. incoming' \in [Blocks -> SUBSET Blocks]
  BY DEF generateIfEndNoElse, IInv, TypeOK
<1>4. /\ Terminate(Fallthrough(Innermost.merge))
      /\ created' = created /\ erased' = erased /\ frames' = Outer
      /\ insertBlock' = Innermost.merge /\ status' = status
      /\ terminated' = FALSE /\ returns' = FALSE
  BY DEF generateIfEndNoElse
<1> QED
  BY <1>1, <1>2, <1>3, <1>4, LeaveByMerge

LEMMA LoopEndStep == IInv /\ generateLoopEnd => IInv'
<1> SUFFICES ASSUME IInv, generateLoopEnd PROVE IInv'
  OBVIOUS
<1>1. status = "open" /\ Part = "body" /\ Depth > 0
  BY Situation DEF generateLoopEnd, Part
<1>2. Innermost.back \in Blocks
  BY <1>1, InnermostCall DEF FrameOK
<1>3. incoming' \in [Blocks -> SUBSET Blocks]
  BY DEF generateLoopEnd, IInv, TypeOK
<1>4. /\ Terminate(Fallthrough(Innermost.back))
      /\ created' = created /\ erased' = erased /\ frames' = Outer
      /\ insertBlock' = Innermost.merge /\ status' = status
      /\ terminated' = FALSE /\ returns' = FALSE
  BY DEF generateLoopEnd
<1> QED
  BY <1>1, <1>2, <1>3, <1>4, LeaveByMerge

\* The innermost call goes on with its other block.
LEMMA ContinueInOther ==
    ASSUME IInv, status = "open", status' = "open", Depth > 0,
           Part \in {"then", "condition"}, Innermost.other # NoBlock,
           NEW f \in Frames, frames' = Append(Outer, f), FrameOK(f, Kept),
           f.merge = Innermost.merge, f.part \in {"else", "elseIf", "body"},
           f.part \in {"else", "elseIf"} => Part = "then",
           created' = created, erased' = erased, insertBlock' = Innermost.other,
           terminated' = FALSE, returns' = FALSE, incoming' = incoming,
           successors' \in [Blocks -> SUBSET Blocks], terminators' \in [Blocks -> Nat],
           NEW ends, ends = IF terminated THEN {} ELSE {insertBlock},
           \A b \in Blocks : terminators'[b] = terminators[b] + (IF b \in ends THEN 1 ELSE 0)
    PROVE  IInv'
<1> DEFINE merge == Innermost.merge
           other == Innermost.other
<1>1. /\ Awaiting(frames) = Awaiting(Outer) \cup Pending(Innermost)
      /\ Pending(Innermost) \cap Awaiting(Outer) \subseteq {NoBlock}
      /\ merge \in Kept /\ FrameOK(Innermost, Kept)
      /\ Part = Innermost.part
  BY InnermostCall
<1>2. Pending(Innermost) = {merge, other} /\ other \in Kept /\ other # merge
  BY <1>1 DEF Pending, FrameOK
<1>3. Pending(f) = {merge}
  BY DEF Pending
<1>4. /\ StackOK(frames', Kept') /\ frames' \in Seq(Frames)
      /\ Kept' = Kept
      /\ Awaiting(frames') = Awaiting(Outer) \cup {merge}
  <2>1. Pending(f) \subseteq Pending(Innermost)
    BY <1>2, <1>3
  <2>2. f.part \in {"then", "else", "elseIf", "elseIfDone"}
           => Part \in {"then", "else", "elseIf", "elseIfDone"}
    OBVIOUS
  <2> QED
    BY <1>3, <2>1, <2>2, ReplaceOK
<1>5. insertBlock' \in Kept' /\ insertBlock' \in Blocks /\ insertBlock' \notin Awaiting(frames')
  <2>1. other \in Blocks
    BY <1>2, Situation DEF Blocks
  <2>2. other \notin Awaiting(Outer)
    BY <1>1, <1>2
  <2> HIDE DEF merge
  <2> QED
    BY <1>2, <1>4, <2>1, <2>2
<1>6. TypeOK'
  BY <1>4, <1>5 DEF IInv, TypeOK
<1>7. created + 0 = created /\ (created + 1)..(created + 0) = {} /\ created' <= MaxBlocks
  BY Situation
<1>8. /\ \A b \in Blocks : b > created' => terminators'[b] = 0
      /\ \A b \in Kept' : terminators'[b] =
            IF b \in Awaiting(frames') \/ (b = insertBlock' /\ ~terminated') THEN 0 ELSE 1
  <2>1. Unfinished = Awaiting(Outer) \cup {merge, other} \cup ends
    BY <1>1, <1>2 DEF Unfinished
  <2>2. Unfinished' = Awaiting(Outer) \cup {merge, other}
    BY <1>4 DEF Unfinished
  <2>3. \A b \in ends : b \notin Awaiting(Outer) \cup {merge, other}
    BY <1>1, <1>2, Situation
  <2> HIDE DEF merge, other
  <2>4. ends \in SUBSET (Unfinished \cup (created + 1)..(created + 0))
    BY <2>1
  <2>5. Kept' \subseteq Kept \cup (created + 1)..(created + 0)
    BY <1>4
  <2>6. \A b \in Kept' : b \in Unfinished' <=>
           b \in (Unfinished \cup (created + 1)..(created + 0)) \ ends
    BY <1>7, <2>1, <2>2, <2>3
  <2> QED
    BY <1>7, <2>4, <2>5, <2>6, TerminatorStep
<1>9. erased' \subseteq 1..created'
  BY Situation
<1>10. Depth' > 0 /\ Part' \in Undone => ~terminated'
  OBVIOUS
<1> QED
  BY <1>4, <1>5, <1>6, <1>8, <1>9, <1>10, Assemble

LEMMA ElseStep ==
    ASSUME IInv, NEW kind \in {"else", "elseIf"}, generateElse(kind)
    PROVE  IInv'
<1> DEFINE f == [Innermost EXCEPT !.part = kind, !.thenTerminated = terminated,
                                  !.thenReturns = returns]
<1>1. status = "open" /\ Part = "then" /\ Innermost.other # NoBlock /\ Depth > 0
  BY Situation DEF generateElse, Part
<1>2. /\ Innermost \in Frames /\ FrameOK(Innermost, Kept) /\ Innermost.merge \in Blocks
      /\ \A g \in Frames : [frames EXCEPT ![Depth] = g] = Append(Outer, g)
  BY <1>1, InnermostCall
<1>3. terminated \in BOOLEAN /\ returns = terminated
  BY Situation
<1>4. /\ f \in Frames /\ f.merge = Innermost.merge /\ f.part = kind
      /\ f.thenTerminated = f.thenReturns
  BY <1>2, <1>3 DEF Frames
<1>5. FrameOK(f, Kept)
  BY <1>2, <1>4 DEF FrameOK
<1>6. frames' = [frames EXCEPT ![Depth] = f]
  BY DEF generateElse, Innermost
<1>7. frames' = Append(Outer, f)
  BY <1>2, <1>4, <1>6
<1>8. /\ Terminate(Fallthrough(Innermost.merge)) /\ insertBlock' = Innermost.other
      /\ terminated' = FALSE /\ returns' = FALSE
      /\ created' = created /\ erased' = erased /\ incoming' = incoming /\ status' = status
  BY DEF generateElse
<1>9. /\ terminators' \in [Blocks -> Nat] /\ successors' \in [Blocks -> SUBSET Blocks]
      /\ \A b \in Blocks : terminators'[b] = terminators[b]
            + (IF b \in (IF terminated THEN {} ELSE {insertBlock}) THEN 1 ELSE 0)
  BY <1>2, <1>8, FallthroughEnds
<1> HIDE DEF f
<1> QED
  BY <1>1, <1>4, <1>5, <1>7, <1>8, <1>9, ContinueInOther

LEMMA WhileBodyStep == IInv /\ generateWhileBody => IInv'
<1> SUFFICES ASSUME IInv, generateWhileBody PROVE IInv'
  OBVIOUS
<1> DEFINE f == [Innermost EXCEPT !.part = "body"]
<1>1. status = "open" /\ Part = "condition" /\ Depth > 0
  BY Situation DEF generateWhileBody, Part
<1>2. /\ Innermost \in Frames /\ FrameOK(Innermost, Kept) /\ Innermost.part = "condition"
      /\ Innermost.merge \in Blocks
      /\ \A g \in Frames : [frames EXCEPT ![Depth] = g] = Append(Outer, g)
  BY <1>1, InnermostCall
<1>3. Innermost.other \in Kept /\ Innermost.other # NoBlock /\ Innermost.other \in Blocks
  BY <1>2, Situation DEF FrameOK, Blocks
<1>4. /\ f \in Frames /\ f.merge = Innermost.merge /\ f.part = "body" /\ f.back = Innermost.back
      /\ f.thenTerminated = Innermost.thenTerminated /\ f.thenReturns = Innermost.thenReturns
  BY <1>2 DEF Frames
<1>5. FrameOK(f, Kept)
  BY <1>2, <1>4 DEF FrameOK
<1>6. frames' = [frames EXCEPT ![Depth] = f]
  BY DEF generateWhileBody, Innermost
<1>7. frames' = Append(Outer, f)
  BY <1>2, <1>4, <1>6
<1>8. ~terminated /\ ~returns
  BY <1>1, Situation DEF IInv, Position, Undone
<1>9. /\ Terminate({<<insertBlock, {Innermost.other, Innermost.merge}>>})
      /\ insertBlock' = Innermost.other
      /\ terminated' = FALSE /\ returns' = FALSE
      /\ created' = created /\ erased' = erased /\ incoming' = incoming /\ status' = status
  BY <1>8, Situation DEF generateWhileBody
<1>10. {Innermost.other, Innermost.merge} \in SUBSET Blocks
  BY <1>2, <1>3
<1>11. /\ terminators' \in [Blocks -> Nat] /\ successors' \in [Blocks -> SUBSET Blocks]
       /\ \A b \in Blocks : terminators'[b] = terminators[b] + (IF b = insertBlock THEN 1 ELSE 0)
  BY <1>9, <1>10, TerminateOne
<1>12. PICK ends : ends = IF terminated THEN {} ELSE {insertBlock}
  OBVIOUS
<1>13. \A b \in Blocks : terminators'[b] = terminators[b] + (IF b \in ends THEN 1 ELSE 0)
  BY <1>8, <1>11, <1>12
<1> HIDE DEF f
<1> QED
  BY <1>1, <1>3, <1>4, <1>5, <1>7, <1>9, <1>11, <1>12, <1>13, ContinueInOther

LEMMA IfEndStep == IInv /\ generateIfEnd => IInv'
<1> SUFFICES ASSUME IInv, generateIfEnd PROVE IInv'
  OBVIOUS
<1> DEFINE merge == Innermost.merge
<1>1. status = "open" /\ Part \in {"else", "elseIfDone"} /\ Depth > 0
  BY Situation DEF generateIfEnd, Part
<1>2. /\ Awaiting(frames) = Awaiting(Outer) \cup Pending(Innermost)
      /\ merge \in Kept /\ merge \in Blocks /\ merge \notin Awaiting(Outer)
      /\ Part = Innermost.part /\ FrameOK(Innermost, Kept) /\ Innermost \in Frames
  BY <1>1, InnermostCall
<1>3. /\ Terminate(Fallthrough(merge))
      /\ terminated' = (Innermost.thenTerminated /\ terminated)
      /\ returns' = (Innermost.thenReturns /\ returns)
      /\ frames' = Outer /\ created' = created /\ incoming' = incoming /\ status' = status
  BY DEF generateIfEnd
<1>4. Innermost.thenTerminated = Innermost.thenReturns /\ Innermost.thenTerminated \in BOOLEAN
  BY <1>2 DEF FrameOK, Frames
<1>5. terminated \in BOOLEAN /\ returns = terminated
  BY Situation
<1>6. CASE ~(Innermost.thenTerminated /\ terminated)
  <2>1. terminated' = FALSE /\ returns' = FALSE
    BY <1>3, <1>4, <1>5, <1>6
  <2>2. erased' = erased /\ insertBlock' = merge
    BY <1>6 DEF generateIfEnd
  <2>3. incoming' \in [Blocks -> SUBSET Blocks]
    BY <1>3 DEF IInv, TypeOK
  <2> QED
    BY <1>1, <1>2, <1>3, <2>1, <2>2, <2>3, LeaveByMerge
<1>7. CASE Innermost.thenTerminated /\ terminated
  <2>1. terminated' = TRUE /\ returns' = TRUE
    BY <1>3, <1>4, <1>5, <1>7
  <2>2. erased' = erased \cup {merge} /\ insertBlock' = insertBlock
    BY <1>7 DEF generateIfEnd
  <2>3. Kept' = Kept \ {merge}
    BY <1>3, <2>2 DEF Kept
  <2>4. /\ StackOK(Outer, Kept) /\ Outer \in Seq(Frames)
        /\ Len(Outer) > 0 => Outer[Len(Outer)].part \notin Undone
    BY <1>1, InnermostCall
  <2>5. StackOK(frames', Kept') /\ frames' \in Seq(Frames)
    BY <1>2, <1>3, <2>3, <2>4, StackOKOver
  <2>6. Depth' > 0 => Part' \notin Undone
    <3>1. Depth' = Len(Outer)
      BY <1>3 DEF Depth
    <3>2. Part' = IF Len(Outer) = 0 THEN "functionBody" ELSE Outer[Len(Outer)].part
      BY <1>3, <3>1 DEF Part, Innermost
    <3> HIDE DEF Outer
    <3>3. Len(Outer) \in Nat
      BY <2>4
    <3> QED
      BY <2>4, <3>1, <3>2, <3>3
  <2>7. Pending(Innermost) = {merge} /\ insertBlock # merge
    BY <1>1, <1>2, Situation DEF Pending
  <2>8. insertBlock' \in Kept' /\ insertBlock' \notin Awaiting(frames')
    BY <1>2, <1>3, <2>2, <2>3, <2>7, Situation
  <2>9. /\ terminators' \in [Blocks -> Nat] /\ successors' \in [Blocks -> SUBSET Blocks]
        /\ \A b \in Blocks : terminators'[b] = terminators[b] + 0
    BY <1>2, <1>3, <1>7, FallthroughEnds
  <2>10. \A b \in Blocks : terminators'[b] = terminators[b]
    BY <2>9, Situation
  <2>11. erased' \subseteq 1..created' /\ erased' \subseteq Blocks
    <3>1. merge \in 1..created
      BY <1>2, Situation
    <3> QED
      BY <1>2, <1>3, <2>2, <3>1, Situation DEF IInv, TypeOK
  <2>12. TypeOK'
    BY <1>3, <2>1, <2>2, <2>5, <2>9, <2>11 DEF IInv, TypeOK
  <2>13. \A b \in Blocks : b > created' => terminators'[b] = 0
    BY <1>3, <2>10 DEF IInv, Position
  <2>14. \A b \in Kept' : terminators'[b] =
            IF b \in Awaiting(frames') \/ (b = insertBlock' /\ ~terminated') THEN 0 ELSE 1
    <3>1. \A b \in Kept : b \in Blocks
      BY Situation DEF Blocks
    <3>2. \A b \in Kept : terminators[b] =
             IF b \in Awaiting(frames) \/ (b = insertBlock /\ ~terminated) THEN 0 ELSE 1
      BY <1>1, Situation
    <3> HIDE DEF merge
    <3> QED
      BY <1>2, <1>3, <1>7, <2>1, <2>3, <2>7, <2>10, <3>1, <3>2
  <2> QED
    BY <1>1, <1>3, <2>1, <2>5, <2>6, <2>8, <2>11, <2>12, <2>13, <2>14, Assemble
<1> QED
  BY <1>6, <1>7

\* A call that starts a construct and creates its n blocks: the builder goes on
\* in the first of them, and the frame f awaits the others.
LEMMA StartConstruct ==
    ASSUME IInv, status = "open", status' = "open", ~terminated,
           NEW q \in Seq(Frames), StackOK(q, Kept), Awaiting(q) = Awaiting(frames),
           NEW f \in Frames, frames' = Append(q, f),
           NEW n \in Nat, n > 0, created' = created + n, created + n <= MaxBlocks,
           FrameOK(f, Kept'),
           Len(q) > 0 /\ f.part \in {"then", "else", "elseIf", "elseIfDone"}
              => q[Len(q)].part \notin Undone,
           erased' = erased, incoming' = incoming,
           terminated' = terminated, returns' = returns,
           successors' \in [Blocks -> SUBSET Blocks], terminators' \in [Blocks -> Nat],
           NEW closed \in SUBSET ((created + 1)..(created + n)),
           \A b \in Blocks : terminators'[b] =
              terminators[b] + (IF b \in {insertBlock} \cup closed THEN 1 ELSE 0),
           insertBlock' \in (created + 1)..(created + n),
           insertBlock' \notin Pending(f), insertBlock' \notin closed,
           Pending(f) \cup {NoBlock} =
              (((created + 1)..(created + n)) \ (closed \cup {insertBlock'})) \cup {NoBlock}
    PROVE  IInv'
<1> DEFINE new == (created + 1)..(created + n)
<1>1. /\ created \in Nat /\ MaxBlocks \in Nat /\ insertBlock \in Kept
      /\ Kept \subseteq 1..created /\ Awaiting(frames) \subseteq Kept \cup {NoBlock}
      /\ insertBlock \notin Awaiting(frames) /\ returns = terminated /\ NoBlock \notin Kept
  BY Situation
<1>2. \A b \in new : b \notin Kept /\ b # NoBlock /\ b \in Blocks
  BY <1>1 DEF Blocks, NoBlock
<1> HIDE DEF new
<1>3. /\ StackOK(frames', Kept') /\ frames' \in Seq(Frames)
      /\ Kept' = Kept \cup new /\ erased' \subseteq 1..created'
      /\ Awaiting(frames') = Awaiting(frames) \cup Pending(f)
      /\ Part' = f.part
  <2>1. Pending(f) \subseteq (created + 1)..(created + n) \cup {NoBlock}
    OBVIOUS
  <2> QED
    BY <2>1, PushOK DEF new
<1>4. insertBlock' \in new /\ insertBlock' \in Blocks /\ insertBlock' \in Kept'
  BY <1>2, <1>3 DEF new
<1>5. insertBlock' \notin Awaiting(frames')
  BY <1>1, <1>2, <1>3, <1>4
<1>6. created' \in Blocks
  BY <1>1 DEF Blocks
<1>7. TypeOK'
  BY <1>3, <1>4, <1>6 DEF IInv, TypeOK
<1>8. Unfinished = Awaiting(frames) \cup {insertBlock}
  BY DEF Unfinished
<1>9. Unfinished' = Awaiting(frames) \cup Pending(f) \cup {insertBlock'}
  BY <1>3 DEF Unfinished
<1>10. {insertBlock} \cup closed \in SUBSET (Unfinished \cup new)
  BY <1>8 DEF new
<1>11. \A b \in Kept' : b \in Unfinished' <=> b \in (Unfinished \cup new) \ ({insertBlock} \cup closed)
  <2> SUFFICES ASSUME NEW b \in Kept'
               PROVE  b \in Unfinished' <=> b \in (Unfinished \cup new) \ ({insertBlock} \cup closed)
    OBVIOUS
  <2>1. b # NoBlock /\ (b \in Kept \/ b \in new)
    BY <1>1, <1>2, <1>3
  <2>2. b \in Pending(f) <=> b \in new /\ b \notin closed /\ b # insertBlock'
    BY <2>1 DEF new
  <2>3. b \in closed => b \in new
    BY DEF new
  <2> QED
    BY <1>1, <1>2, <1>4, <1>8, <1>9, <2>1, <2>2, <2>3
<1>12. /\ \A b \in Blocks : b > created' => terminators'[b] = 0
       /\ \A b \in Kept' : terminators'[b] =
             IF b \in Awaiting(frames') \/ (b = insertBlock' /\ ~terminated') THEN 0 ELSE 1
  BY <1>3, <1>10, <1>11, TerminatorStep DEF new
<1> QED
  BY <1>1, <1>3, <1>4, <1>5, <1>7, <1>12, Assemble

LEMMA WhileStep == IInv /\ generateWhileStmt => IInv'
<1> SUFFICES ASSUME IInv, generateWhileStmt PROVE IInv'
  OBVIOUS
<1> DEFINE f == LoopFrame("condition")
<1>1. /\ created' = created + 3 /\ created + 3 <= MaxBlocks
      /\ Terminate({<<insertBlock, {created + 1}>>})
      /\ insertBlock' = created + 1 /\ frames' = Append(frames, f)
      /\ erased' = erased /\ incoming' = incoming /\ terminated' = terminated
      /\ returns' = returns /\ status' = status
  BY DEF generateWhileStmt, Create, NewBlock, Push
<1>2. status = "open" /\ ~terminated
  BY DEF generateWhileStmt, AtStatement
<1>3. created \in Nat /\ MaxBlocks \in Nat /\ erased \subseteq 1..created /\ frames \in Seq(Frames)
  BY Situation
<1>4. /\ f.part = "condition" /\ f.back = created + 1 /\ f.other = created + 2
      /\ f.merge = created + 3 /\ f.thenTerminated = f.thenReturns
  BY DEF LoopFrame, NewBlock
<1>5. f \in Frames
  BY <1>1, <1>3 DEF Frames, LoopFrame, NewBlock
<1>6. FrameOK(f, Kept')
  BY <1>1, <1>3, <1>4 DEF FrameOK, Kept, Blocks
<1>7. Pending(f) = {created + 2, created + 3}
  BY <1>4 DEF Pending
<1>8. (created + 1)..(created + 3) = {created + 1, created + 2, created + 3}
  BY <1>3
<1>9. {created + 1} \in SUBSET Blocks
  BY <1>1, <1>3 DEF Blocks
<1>10. /\ terminators' \in [Blocks -> Nat] /\ successors' \in [Blocks -> SUBSET Blocks]
       /\ \A b \in Blocks : terminators'[b] = terminators[b] + (IF b \in {insertBlock} \cup {} THEN 1 ELSE 0)
  BY <1>1, <1>9, TerminateOne
<1> HIDE DEF f
<1>11. /\ {} \in SUBSET ((created + 1)..(created + 3))
       /\ insertBlock' \in (created + 1)..(created + 3)
       /\ insertBlock' \notin Pending(f)
       /\ Pending(f) \cup {NoBlock} =
            (((created + 1)..(created + 3)) \ ({} \cup {insertBlock'})) \cup {NoBlock}
  BY <1>1, <1>3, <1>7, <1>8
<1>12. StackOK(frames, Kept) /\ 3 \in Nat /\ 3 > 0
  BY DEF IInv
<1> QED
  BY <1>1, <1>2, <1>3, <1>4, <1>5, <1>6, <1>10, <1>11, <1>12, StartConstruct

LEMMA ForStep == IInv /\ generateForStmt => IInv'
<1> SUFFICES ASSUME IInv, generateForStmt PROVE IInv'
  OBVIOUS
<1> DEFINE f == LoopFrame("body")
<1>1. /\ created' = created + 3 /\ created + 3 <= MaxBlocks
      /\ Terminate({<<insertBlock, {created + 1}>>, <<created + 1, {created + 2, created + 3}>>})
      /\ insertBlock' = created + 2 /\ frames' = Append(frames, f)
      /\ erased' = erased /\ incoming' = incoming /\ terminated' = terminated
      /\ returns' = returns /\ status' = status
  BY DEF generateForStmt, Create, NewBlock, Push
<1>2. status = "open" /\ ~terminated
  BY DEF generateForStmt, AtStatement
<1>3. /\ created \in Nat /\ MaxBlocks \in Nat /\ erased \subseteq 1..created /\ frames \in Seq(Frames)
      /\ insertBlock \in 1..created
  BY Situation
<1>4. /\ f.part = "body" /\ f.back = created + 1
      /\ f.merge = created + 3 /\ f.thenTerminated = f.thenReturns
  BY DEF LoopFrame, NewBlock
<1>5. f \in Frames
  BY <1>1, <1>3 DEF Frames, LoopFrame, NewBlock
<1>6. FrameOK(f, Kept')
  BY <1>1, <1>3, <1>4 DEF FrameOK, Kept, Blocks
<1>7. Pending(f) = {created + 3}
  BY <1>4 DEF Pending
<1>8. (created + 1)..(created + 3) = {created + 1, created + 2, created + 3}
  BY <1>3
<1>9. /\ {created + 1} \in SUBSET Blocks /\ {created + 2, created + 3} \in SUBSET Blocks
      /\ insertBlock # created + 1
  BY <1>1, <1>3 DEF Blocks
<1>10. /\ terminators' \in [Blocks -> Nat] /\ successors' \in [Blocks -> SUBSET Blocks]
       /\ \A b \in Blocks : terminators'[b] =
             terminators[b] + (IF b \in {insertBlock} \cup {created + 1} THEN 1 ELSE 0)
  <2>1. PICK condition : condition = created + 1
    OBVIOUS
  <2>2. PICK xs : xs = {condition}
    OBVIOUS
  <2>3. PICK ys : ys = {created + 2, created + 3}
    OBVIOUS
  <2>4. Terminate({<<insertBlock, xs>>, <<condition, ys>>})
    BY <1>1, <2>1, <2>2, <2>3
  <2>5. insertBlock # condition /\ xs \in SUBSET Blocks /\ ys \in SUBSET Blocks
    BY <1>9, <2>1, <2>2, <2>3
  <2>6. /\ terminators' \in [Blocks -> Nat] /\ successors' \in [Blocks -> SUBSET Blocks]
        /\ \A b \in Blocks : terminators'[b] =
              terminators[b] + (IF b \in {insertBlock, condition} THEN 1 ELSE 0)
    BY <2>4, <2>5, TerminateTwo
  <2>7. {insertBlock} \cup {created + 1} = {insertBlock, condition}
    BY <2>1
  <2> QED
    BY <2>6, <2>7
<1> HIDE DEF f
<1>11. /\ {created + 1} \in SUBSET ((created + 1)..(created + 3))
       /\ insertBlock' \in (created + 1)..(created + 3)
       /\ insertBlock' \notin Pending(f) /\ insertBlock' \notin {created + 1}
       /\ Pending(f) \cup {NoBlock} =
            (((created + 1)..(created + 3)) \ ({created + 1} \cup {insertBlock'})) \cup {NoBlock}
  BY <1>1, <1>3, <1>7, <1>8
<1>12. StackOK(frames, Kept) /\ 3 \in Nat /\ 3 > 0
  BY DEF IInv
<1> QED
  BY <1>1, <1>2, <1>3, <1>4, <1>5, <1>6, <1>10, <1>11, <1>12, StartConstruct

\* The calls an if is pushed on: an else block that holds this if has it done.
LEMMA IfStep ==
    ASSUME IInv, NEW alternative \in {"none", "else"}, generateIfStmt(alternative)
    PROVE  IInv'
<1> DEFINE hasElse == alternative # "none"
           then == created + 1
           else == IF hasElse THEN created + 2 ELSE NoBlock
           n == IF hasElse THEN 3 ELSE 2
           merge == created + n
           f == [construct |-> "if", part |-> "then",
                 back |-> NoBlock, other |-> else, merge |-> merge,
                 thenTerminated |-> FALSE, thenReturns |-> FALSE]
           caller == IF Part = "elseIf"
                     THEN [frames EXCEPT ![Depth].part = "elseIfDone"]
                     ELSE frames
<1>1. /\ created' = created + n /\ created + n <= MaxBlocks
      /\ Terminate({<<insertBlock, {then, IF hasElse THEN else ELSE merge}>>})
      /\ insertBlock' = then /\ frames' = Append(caller, f)
      /\ erased' = erased /\ incoming' = incoming /\ terminated' = terminated
      /\ returns' = returns /\ status' = status
  BY DEF generateIfStmt, Create, NewBlock
<1>2. AtStatement \/ (status = "open" /\ Part = "elseIf")
  BY DEF generateIfStmt
<1>3. status = "open" /\ ~terminated
  BY <1>2, ExpressionFallsThrough DEF AtExpression
<1>4. /\ created \in Nat /\ MaxBlocks \in Nat /\ erased \subseteq 1..created
      /\ frames \in Seq(Frames) /\ Depth \in Nat
  BY Situation
<1>5. /\ caller \in Seq(Frames) /\ StackOK(caller, Kept) /\ Awaiting(caller) = Awaiting(frames)
      /\ Len(caller) > 0 => caller[Len(caller)].part \notin Undone
  <2>1. CASE Part # "elseIf"
    <3>1. caller = frames /\ InList
      BY <1>2, <2>1 DEF AtStatement
    <3>2. Len(frames) > 0 => frames[Len(frames)].part \notin Undone
      BY <1>4, <3>1 DEF InList, Part, Innermost, Depth, Undone
    <3> QED
      BY <1>4, <3>1, <3>2 DEF IInv
  <2>2. CASE Part = "elseIf"
    <3> DEFINE g == [Innermost EXCEPT !.part = "elseIfDone"]
    <3>1. Depth > 0
      BY <1>4, <2>2 DEF Part
    <3>2. /\ Outer \in Seq(Frames) /\ Innermost \in Frames /\ Innermost.part = "elseIf"
          /\ \A h \in Frames : [frames EXCEPT ![Depth] = h] = Append(Outer, h)
          /\ StackOK(Outer, Kept) /\ FrameOK(Innermost, Kept)
          /\ Awaiting(frames) = Awaiting(Outer) \cup Pending(Innermost)
          /\ Pending(Innermost) \cap Awaiting(Outer) \subseteq {NoBlock}
          /\ Len(Outer) > 0 => Outer[Len(Outer)].part \notin Undone
      BY <2>2, <3>1, InnermostCall
    <3>3. /\ g \in Frames /\ g.part = "elseIfDone" /\ g.merge = Innermost.merge
          /\ g.thenTerminated = Innermost.thenTerminated
          /\ g.thenReturns = Innermost.thenReturns
      BY <3>2 DEF Frames
    <3>4. caller = [frames EXCEPT ![Depth] = g]
      BY <2>2 DEF Innermost
    <3>5. caller = Append(Outer, g)
      BY <3>2, <3>3, <3>4
    <3>6. Pending(g) = Pending(Innermost) /\ FrameOK(g, Kept)
      BY <3>2, <3>3 DEF Pending, FrameOK
    <3> HIDE DEF g, caller, Outer, Innermost
    <3>7. StackOK(caller, Kept) /\ Awaiting(caller) = Awaiting(frames)
      BY <3>2, <3>3, <3>5, <3>6, StackAppend, AwaitingAppend
    <3>8. caller \in Seq(Frames) /\ caller[Len(caller)] = g
      BY <3>2, <3>3, <3>5, AppendElements
    <3> QED
      BY <3>3, <3>7, <3>8 DEF Undone
  <2> QED
    BY <2>1, <2>2
<1>6. n \in Nat /\ n > 0
  OBVIOUS
<1> HIDE DEF caller
<1>7. /\ f.part = "then" /\ f.other = else /\ f.merge = merge /\ f.thenTerminated = f.thenReturns
  OBVIOUS
<1>8. f \in Frames
  BY <1>1, <1>4 DEF Frames, NoBlock
<1> HIDE DEF f
<1>9. FrameOK(f, Kept')
  BY <1>1, <1>4, <1>7 DEF FrameOK, Kept, NoBlock
<1>10. {then, IF hasElse THEN else ELSE merge} \in SUBSET Blocks
  BY <1>1, <1>4 DEF Blocks
<1>11. /\ terminators' \in [Blocks -> Nat] /\ successors' \in [Blocks -> SUBSET Blocks]
       /\ \A b \in Blocks : terminators'[b] = terminators[b] + (IF b \in {insertBlock} \cup {} THEN 1 ELSE 0)
  BY <1>1, <1>10, TerminateOne
<1>12. Pending(f) = {merge, else}
  BY <1>7 DEF Pending
<1>13. (created + 1)..(created + n) = {then, merge} \cup (IF hasElse THEN {else} ELSE {})
  BY <1>4
<1>14. /\ {} \in SUBSET ((created + 1)..(created + n))
       /\ insertBlock' \in (created + 1)..(created + n)
       /\ insertBlock' \notin Pending(f)
       /\ Pending(f) \cup {NoBlock} =
            (((created + 1)..(created + n)) \ ({} \cup {insertBlock'})) \cup {NoBlock}
  BY <1>1, <1>4, <1>12, <1>13 DEF NoBlock
<1> HIDE DEF n
<1> QED
  BY <1>1, <1>3, <1>5, <1>6, <1>8, <1>9, <1>11, <1>14, StartConstruct

LEMMA DefineStep ==
    ASSUME IInv, NEW isUnit \in BOOLEAN, defineFunction(isUnit)
    PROVE  IInv'
<1>1. /\ created' = created /\ erased' = erased /\ incoming' = incoming
      /\ insertBlock' = insertBlock /\ frames' = frames
      /\ terminated' = terminated /\ returns' = returns
  BY DEF defineFunction
<1>2. Kept' = Kept /\ Depth' = Depth /\ Part' = Part
  BY <1>1 DEF Kept, Depth, Part, Innermost
<1>3. status' \in {"MissingReturn", "defined"}
  BY Situation DEF defineFunction, checkFunctionDecl
<1>4. /\ terminators' \in [Blocks -> Nat] /\ successors' \in [Blocks -> SUBSET Blocks]
      /\ \A b \in Blocks : b # insertBlock => terminators'[b] = terminators[b]
  <2>1. CASE Terminate({<<insertBlock, {}>>})
    <3>1. {} \in SUBSET Blocks
      OBVIOUS
    <3>2. /\ terminators' \in [Blocks -> Nat] /\ successors' \in [Blocks -> SUBSET Blocks]
          /\ \A b \in Blocks : terminators'[b] = terminators[b] + (IF b = insertBlock THEN 1 ELSE 0)
      BY <2>1, <3>1, TerminateOne
    <3>3. terminators \in [Blocks -> Nat]
      BY Situation
    <3> QED
      BY <3>2, <3>3
  <2>2. CASE UNCHANGED <<terminators, successors>>
    BY <2>2 DEF IInv, TypeOK
  <2> QED
    BY <2>1, <2>2 DEF defineFunction
<1>5. TypeOK'
  BY <1>1, <1>3, <1>4 DEF IInv, TypeOK, Statuses
<1>6. \A b \in Blocks : b > created' => terminators'[b] = 0
  BY <1>1, <1>4, Situation DEF IInv, Position
<1>7. Position'
  BY <1>1, <1>2, <1>6 DEF IInv, Position
<1> QED
  BY <1>1, <1>2, <1>3, <1>5, <1>7 DEF IInv, OneTerminatorEach, NeverInventsAReturn

LEMMA InvStep == IInv /\ [Next]_vars => IInv'
<1> SUFFICES ASSUME IInv, [Next]_vars PROVE IInv'
  OBVIOUS
<1>1. CASE generateReturnStmt
  BY <1>1, ReturnStep
<1>2. CASE LoweringFails
  BY <1>2, FailStep
<1>3. CASE lowerLogicalRight
  BY <1>3, LogicalRightStep
<1>4. CASE lowerLogicalMerge
  BY <1>4, LogicalMergeStep
<1>5. ASSUME NEW alternative \in {"none", "else"}, generateIfStmt(alternative) PROVE IInv'
  BY <1>5, IfStep
<1>6. ASSUME NEW kind \in {"else", "elseIf"}, generateElse(kind) PROVE IInv'
  BY <1>6, ElseStep
<1>7. CASE generateIfEndNoElse
  BY <1>7, IfEndNoElseStep
<1>8. CASE generateIfEnd
  BY <1>8, IfEndStep
<1>9. CASE generateWhileStmt
  BY <1>9, WhileStep
<1>10. CASE generateWhileBody
  BY <1>10, WhileBodyStep
<1>11. CASE generateForStmt
  BY <1>11, ForStep
<1>12. CASE generateLoopEnd
  BY <1>12, LoopEndStep
<1>13. ASSUME NEW isUnit \in BOOLEAN, defineFunction(isUnit) PROVE IInv'
  BY <1>13, DefineStep
<1>14. CASE lowerCheckedIndexBounds
  BY <1>14, IndexBoundsStep
<1>15. CASE UNCHANGED vars
  <2>1. /\ Kept' = Kept /\ Depth' = Depth /\ Part' = Part /\ Awaited' = Awaited
        /\ frames' = frames /\ status' = status /\ terminated' = terminated
        /\ returns' = returns /\ insertBlock' = insertBlock
    BY <1>15 DEF vars, Kept, Depth, Part, Innermost, Awaited
  <2>2. TypeOK' /\ Position'
    BY <1>15, <2>1 DEF vars, IInv, TypeOK, Position
  <2>3. OneTerminatorEach'
    BY <1>15, <2>1 DEF vars, IInv, OneTerminatorEach
  <2> QED
    BY <2>1, <2>2, <2>3 DEF IInv, NeverInventsAReturn
<1> QED
  BY <1>1, <1>2, <1>3, <1>4, <1>5, <1>6, <1>7, <1>8, <1>9, <1>10, <1>11, <1>12, <1>13, <1>14, <1>15
     DEF Next

LEMMA Invariance == Spec => []IInv
BY InvInit, InvStep, PTL DEF Spec

----------------------------------------------------------------------------
(* Theorems *)

\* Types.
THEOREM TypeCorrect == Spec => []TypeOK
<1>1. IInv => TypeOK
  BY DEF IInv
<1> QED
  BY <1>1, Invariance, PTL

\* analyzeBlock and generateBlock, two recursions over the same body, agree on
\* where control falls through after every statement of every body.
THEOREM Agreement == Spec => []PassesAgree
<1>1. IInv => PassesAgree
  BY DEF IInv, PassesAgree, StackOK, FrameOK, Depth
<1> QED
  BY <1>1, Invariance, PTL

\* defineFunction's last branch is unreachable: no function that passed
\* checkFunctionDecl falls off its end owing a value.
THEOREM NoMissingValue == Spec => []NeverInventsAReturn
<1>1. IInv => NeverInventsAReturn
  BY DEF IInv
<1> QED
  BY <1>1, Invariance, PTL

\* The builder never appends after a terminator and never leaves a block open:
\* every block lowering is done with has exactly one terminator.
THEOREM TerminatorsCorrect == Spec => []OneTerminatorEach
<1>1. IInv => OneTerminatorEach
  BY DEF IInv
<1> QED
  BY <1>1, Invariance, PTL

----------------------------------------------------------------------------
(* The invariant: the graph of the blocks *)

\* The awaited blocks that nothing jumps to so far.
Ahead(f) ==
    {b \in Pending(f) : \/ f.part = "then" /\ f.other # NoBlock /\ b = f.merge
                        \/ f.part \in {"else", "elseIf", "elseIfDone"} /\ f.thenTerminated
                        \/ f.part = "condition"}

AheadOf(q) == UNION {Ahead(q[i]) : i \in 1..Len(q)}

\* The blocks a call has still to jump to.
JumpTargets(f) ==
    {f.merge} \cup (IF f.part = "condition" THEN {f.other} ELSE {})
              \cup (IF f.part \in {"condition", "body"} THEN {f.back} ELSE {})

\* One call, of those that await the blocks A among the blocks K.  A target has
\* no phi yet; a loop's condition block is in the graph already; a logical
\* operator's end follows the end of the left operand and nothing else.
FrameFlow(f, K, A, targets, phis) ==
    /\ \A b \in JumpTargets(f) : b \in Blocks \ {Entry} /\ phis[b] = {}
    /\ f.part \in {"condition", "body"} => f.back \in K \ A
    /\ \A b \in Ahead(f), p \in Blocks : b \notin targets[p]
    /\ f.part = "right" => \A p \in Blocks : f.merge \in targets[p] <=> p = f.back

StackFlow(q, K, A, targets, phis) ==
    \A i \in 1..Len(q) : FrameFlow(q[i], K, A, targets, phis)

\* Every set of blocks that has the entry and the targets of its blocks has b.
Closed(S, targets) == Entry \in S /\ \A p \in S : targets[p] \subseteq S

Reached(b, targets) == \A S \in SUBSET Blocks : Closed(S, targets) => b \in S

TargetsKept ==
    /\ Entry \in Kept
    /\ \A p \in Blocks : successors[p] \subseteq Kept \ {Entry}
    /\ \A p \in Blocks : p \notin Kept \/ terminators[p] = 0 => successors[p] = {}

PhisComplete ==
    /\ \A b \in Blocks : b > created => incoming[b] = {}
    /\ \A b \in Blocks : incoming[b] # {} =>
          \A p \in Blocks : p \in incoming[b] <=> b \in successors[p]

BlocksReached == \A b \in Kept : b \notin AheadOf(frames) => Reached(b, successors)

FlowInv ==
    /\ StackFlow(frames, Kept, Awaiting(frames), successors, incoming)
    /\ TargetsKept
    /\ PhisComplete
    /\ BlocksReached
    /\ status = "defined" => frames = <<>> /\ \A b \in Kept : terminators[b] = 1

----------------------------------------------------------------------------
(* Facts about the graph *)

LEMMA ReachedMore ==
    ASSUME NEW s, NEW t, \A p \in Blocks : s[p] \subseteq t[p], NEW b, Reached(b, s)
    PROVE  Reached(b, t)
<1> SUFFICES ASSUME NEW S \in SUBSET Blocks, Closed(S, t) PROVE b \in S
  BY DEF Reached
<1>1. Closed(S, s)
  BY DEF Closed
<1> QED
  BY <1>1 DEF Reached

LEMMA ReachedNext ==
    ASSUME NEW s, NEW p, Reached(p, s), NEW b \in s[p]
    PROVE  Reached(b, s)
BY DEF Reached, Closed

LEMMA ReachedEntry == ASSUME NEW s PROVE Reached(Entry, s)
BY DEF Reached, Closed

LEMMA AheadPending ==
    ASSUME NEW q
    PROVE  /\ \A f : Ahead(f) \subseteq Pending(f)
           /\ AheadOf(q) \subseteq Awaiting(q)
BY DEF Ahead, AheadOf, Awaiting

LEMMA AheadAppend ==
    ASSUME NEW q \in Seq(Frames), NEW f \in Frames
    PROVE  AheadOf(Append(q, f)) = AheadOf(q) \cup Ahead(f)
<1> DEFINE r == Append(q, f)
           n == Len(q)
<1>1. /\ n \in Nat
      /\ Len(r) = n + 1
      /\ \A i \in 1..n : r[i] = q[i]
      /\ r[n + 1] = f
  BY AppendElements
<1>2. 1..Len(r) = (1..n) \cup {n + 1}
  BY <1>1
<1> HIDE DEF r, n
<1>3. \A b : b \in AheadOf(r) <=> \E i \in 1..Len(r) : b \in Ahead(r[i])
  BY DEF AheadOf
<1>4. \A b : b \in AheadOf(q) <=> \E i \in 1..n : b \in Ahead(q[i])
  BY DEF AheadOf, n
<1>5. \A b : b \in AheadOf(r) <=> b \in AheadOf(q) \/ b \in Ahead(f)
  <2> TAKE b
  <2>1. (\E i \in 1..Len(r) : b \in Ahead(r[i])) <=> (\E i \in 1..n : b \in Ahead(r[i])) \/ b \in Ahead(r[n + 1])
    BY <1>2
  <2>2. (\E i \in 1..n : b \in Ahead(r[i])) <=> \E i \in 1..n : b \in Ahead(q[i])
    BY <1>1
  <2> QED
    BY <1>1, <1>3, <1>4, <2>1, <2>2
<1>6. AheadOf(r) = AheadOf(q) \cup Ahead(f)
  BY <1>5
<1> QED
  BY <1>6 DEF r

LEMMA StackFlowAppend ==
    ASSUME NEW q \in Seq(Frames), NEW f \in Frames, NEW K, NEW A, NEW s, NEW c
    PROVE  StackFlow(Append(q, f), K, A, s, c) <=> StackFlow(q, K, A, s, c) /\ FrameFlow(f, K, A, s, c)
<1> DEFINE r == Append(q, f)
           n == Len(q)
<1>1. /\ n \in Nat
      /\ Len(r) = n + 1
      /\ \A i \in 1..n : r[i] = q[i]
      /\ r[n + 1] = f
  BY AppendElements
<1>2. 1..Len(r) = (1..n) \cup {n + 1}
  BY <1>1
<1> HIDE DEF r, n
<1>3. (\A i \in 1..Len(r) : FrameFlow(r[i], K, A, s, c))
         <=> (\A i \in 1..n : FrameFlow(r[i], K, A, s, c)) /\ FrameFlow(r[n + 1], K, A, s, c)
  BY <1>2
<1>4. (\A i \in 1..n : FrameFlow(r[i], K, A, s, c)) <=> \A i \in 1..n : FrameFlow(q[i], K, A, s, c)
  BY <1>1
<1>5. StackFlow(r, K, A, s, c) <=> StackFlow(q, K, A, s, c) /\ FrameFlow(f, K, A, s, c)
  BY <1>1, <1>3, <1>4 DEF StackFlow, n
<1> QED
  BY <1>5 DEF r

\* A step that jumps to no block a stack awaits, and gives no target of its a phi.
LEMMA StackFlowKept ==
    ASSUME NEW q, NEW K, NEW A, NEW s, NEW c, NEW L, NEW B, NEW t, NEW d,
           StackFlow(q, K, A, s, c),
           \A p \in Blocks, b \in Awaiting(q) : b \in t[p] <=> b \in s[p],
           \A b \in Blocks : b \in Awaiting(q) => d[b] = c[b],
           \A b \in K \ A : b \in L \ B /\ d[b] = c[b]
    PROVE  StackFlow(q, L, B, t, d)
<1> SUFFICES ASSUME NEW i \in 1..Len(q) PROVE FrameFlow(q[i], L, B, t, d)
  BY DEF StackFlow
<1> DEFINE f == q[i]
<1>1. FrameFlow(f, K, A, s, c)
  BY DEF StackFlow
<1>2. Pending(f) \subseteq Awaiting(q)
  BY DEF Awaiting
<1> HIDE DEF f
<1>3. \A b \in JumpTargets(f) : b \in Awaiting(q) \/ (b = f.back /\ f.part \in {"condition", "body"})
  BY <1>2 DEF JumpTargets, Pending
<1>4. f.part \in {"condition", "body"} => f.back \in K \ A
  BY <1>1 DEF FrameFlow
<1>5. \A b \in JumpTargets(f) : b \in Blocks \ {Entry} /\ d[b] = {}
  <2> TAKE b \in JumpTargets(f)
  <2>1. b \in Blocks \ {Entry} /\ c[b] = {}
    BY <1>1 DEF FrameFlow
  <2>2. CASE b \in Awaiting(q)
    BY <2>1, <2>2
  <2>3. CASE b = f.back /\ f.part \in {"condition", "body"}
    BY <1>4, <2>1, <2>3
  <2> QED
    BY <1>3, <2>2, <2>3
<1>6. f.part \in {"condition", "body"} => f.back \in L \ B
  BY <1>4
<1>7. \A b \in Ahead(f), p \in Blocks : b \notin t[p]
  <2> TAKE b \in Ahead(f)
  <2> TAKE p \in Blocks
  <2>1. b \notin s[p]
    BY <1>1 DEF FrameFlow
  <2>2. b \in Awaiting(q)
    BY <1>2 DEF Ahead
  <2> QED
    BY <2>1, <2>2
<1>8. f.part = "right" => \A p \in Blocks : f.merge \in t[p] <=> p = f.back
  <2>1. f.merge \in Awaiting(q)
    BY <1>2 DEF Pending
  <2> QED
    BY <1>1, <2>1 DEF FrameFlow
<1>9. FrameFlow(f, L, B, t, d)
  BY <1>5, <1>6, <1>7, <1>8 DEF FrameFlow
<1> QED
  BY <1>9 DEF f

----------------------------------------------------------------------------
(* The builder's branches *)

LEMMA TargetsOf ==
    ASSUME NEW x, NEW targets
    PROVE  /\ UNION {e[2] : e \in {<<x, targets>>}} = targets
           /\ UNION {e[2] : e \in {}} = {}
<1>1. PICK d : d = <<x, targets>>
  OBVIOUS
<1>2. d[2] = targets
  BY <1>1
<1>3. UNION {e[2] : e \in {d}} = d[2]
  OBVIOUS
<1> QED
  BY <1>1, <1>2, <1>3

LEMMA BranchFrom ==
    ASSUME IInv, NEW x \in Blocks, NEW targets \in SUBSET Blocks, Terminate({<<x, targets>>})
    PROVE  /\ \A p \in Blocks : successors'[p] = successors[p] \cup (IF p = x THEN targets ELSE {})
           /\ \A p \in Blocks : terminators'[p] = 0 => terminators[p] = 0
           /\ terminators'[x] # 0
<1> DEFINE Of(b) == {e \in {<<x, targets>>} : e[1] = b}
<1>1. successors' = [b \in Blocks |-> successors[b] \cup UNION {e[2] : e \in Of(b)}]
  BY DEF Terminate
<1>2. \A b : UNION {e[2] : e \in Of(b)} = IF b = x THEN targets ELSE {}
  <2> TAKE b
  <2>1. Of(b) = IF b = x THEN {<<x, targets>>} ELSE {}
    OBVIOUS
  <2> HIDE DEF Of
  <2> QED
    BY <2>1, TargetsOf
<1>3. \A b \in Blocks : terminators'[b] = terminators[b] + (IF b = x THEN 1 ELSE 0)
  BY TerminateOne
<1>4. terminators \in [Blocks -> Nat]
  BY DEF IInv, TypeOK
<1>5. \A p \in Blocks : successors'[p] = successors[p] \cup (IF p = x THEN targets ELSE {})
  <2> HIDE DEF Of
  <2> QED
    BY <1>1, <1>2
<1> QED
  BY <1>3, <1>4, <1>5

LEMMA BranchFromTwo ==
    ASSUME IInv, NEW x \in Blocks, NEW y \in Blocks, x # y,
           NEW xs \in SUBSET Blocks, NEW ys \in SUBSET Blocks,
           Terminate({<<x, xs>>, <<y, ys>>})
    PROVE  /\ \A p \in Blocks : successors'[p] =
                 successors[p] \cup (IF p = x THEN xs ELSE IF p = y THEN ys ELSE {})
           /\ \A p \in Blocks : terminators'[p] = 0 => terminators[p] = 0
           /\ terminators'[x] # 0 /\ terminators'[y] # 0
<1> DEFINE Of(b) == {e \in {<<x, xs>>, <<y, ys>>} : e[1] = b}
<1>1. successors' = [b \in Blocks |-> successors[b] \cup UNION {e[2] : e \in Of(b)}]
  BY DEF Terminate
<1>2. \A b : UNION {e[2] : e \in Of(b)} = IF b = x THEN xs ELSE IF b = y THEN ys ELSE {}
  <2> TAKE b
  <2>1. CASE b = x
    <3>1. Of(b) = {<<x, xs>>}
      BY <2>1
    <3> HIDE DEF Of
    <3> QED
      BY <2>1, <3>1, TargetsOf
  <2>2. CASE b = y
    <3>1. Of(b) = {<<y, ys>>}
      BY <2>2
    <3> HIDE DEF Of
    <3> QED
      BY <2>2, <3>1, TargetsOf
  <2>3. CASE b # x /\ b # y
    <3>1. Of(b) = {}
      BY <2>3
    <3> QED
      BY <2>3, <3>1
  <2> QED
    BY <2>1, <2>2, <2>3
<1>3. \A b \in Blocks : terminators'[b] = terminators[b] + (IF b \in {x, y} THEN 1 ELSE 0)
  BY TerminateTwo
<1>4. terminators \in [Blocks -> Nat]
  BY DEF IInv, TypeOK
<1>5. \A p \in Blocks : successors'[p] =
         successors[p] \cup (IF p = x THEN xs ELSE IF p = y THEN ys ELSE {})
  <2> HIDE DEF Of
  <2> QED
    BY <1>1, <1>2
<1> QED
  BY <1>3, <1>4, <1>5

LEMMA FallthroughFrom ==
    ASSUME IInv, NEW target \in Blocks, Terminate(Fallthrough(target))
    PROVE  /\ \A p \in Blocks : successors'[p] =
                 successors[p] \cup (IF p = insertBlock /\ ~terminated THEN {target} ELSE {})
           /\ \A p \in Blocks : terminators'[p] = 0 => terminators[p] = 0
           /\ ~terminated => terminators'[insertBlock] # 0
<1>1. CASE terminated
  <2>1. Fallthrough(target) = {}
    BY <1>1 DEF Fallthrough
  <2>2. terminators \in [Blocks -> Nat] /\ successors \in [Blocks -> SUBSET Blocks]
    BY DEF IInv, TypeOK
  <2>3. /\ terminators' = [b \in Blocks |-> terminators[b] + 0]
        /\ successors' = [b \in Blocks |-> successors[b] \cup {}]
    BY <2>1 DEF Terminate
  <2> QED
    BY <1>1, <2>2, <2>3
<1>2. CASE ~terminated
  <2>1. Terminate({<<insertBlock, {target}>>}) /\ {target} \in SUBSET Blocks /\ insertBlock \in Blocks
    BY <1>2, Situation DEF Fallthrough
  <2> QED
    BY <1>2, <2>1, BranchFrom
<1> QED
  BY <1>1, <1>2

----------------------------------------------------------------------------
(* What a step owes the graph *)

\* The step jumps from blocks of P, and to blocks of T.
JumpsFrom(P, T) ==
    /\ \A p \in Blocks : successors[p] \subseteq successors'[p]
    /\ \A p \in Blocks : \A b \in successors'[p] : b \in successors[p] \/ (p \in P /\ b \in T)
    /\ \A p \in P : terminators'[p] # 0
    /\ \A p \in Blocks : terminators'[p] = 0 => terminators[p] = 0

LEMMA FlowAssemble ==
    ASSUME IInv, FlowInv, IInv',
           NEW T \in SUBSET Blocks, NEW P \in SUBSET Blocks,
           JumpsFrom(P, T),
           \A p \in P : p \in Kept',
           \A b \in T : b \in Kept' /\ b # Entry,
           \A p \in Blocks : p \notin Kept' => p \notin Kept \/ terminators[p] = 0,
           \A p \in Blocks : \A b \in successors[p] : b \in Kept',
           Entry \in Kept',
           \A b \in Blocks : b > created' => incoming'[b] = {},
           \A b \in Blocks : incoming'[b] # {} =>
              \/ incoming'[b] = incoming[b] /\ b \notin T
              \/ \A p \in Blocks : p \in incoming'[b] <=> b \in successors'[p],
           StackFlow(frames', Kept', Awaiting(frames'), successors', incoming'),
           \A b \in Kept' : b \notin AheadOf(frames') =>
              (b \in Kept /\ b \notin AheadOf(frames)) \/ Reached(b, successors'),
           status' = "defined" => frames' = <<>> /\ \A b \in Kept' : terminators'[b] = 1
    PROVE  FlowInv'
<1>1. TargetsKept'
  <2>1. \A p \in Blocks : successors'[p] \subseteq Kept' \ {Entry}
    BY DEF FlowInv, TargetsKept, JumpsFrom
  <2>2. \A p \in Blocks : p \notin Kept' \/ terminators'[p] = 0 => successors'[p] = {}
    BY DEF FlowInv, TargetsKept, JumpsFrom
  <2>3. (Entry \in Kept)'
    BY DEF Entry
  <2> QED
    BY <2>1, <2>2, <2>3 DEF TargetsKept, Entry
<1>2. PhisComplete'
  <2>1. ASSUME NEW b \in Blocks, incoming'[b] # {}, NEW p \in Blocks
        PROVE  p \in incoming'[b] <=> b \in successors'[p]
    <3>1. CASE incoming'[b] = incoming[b] /\ b \notin T
      <4>1. p \in incoming[b] <=> b \in successors[p]
        BY <2>1, <3>1 DEF FlowInv, PhisComplete
      <4>2. b \in successors'[p] <=> b \in successors[p]
        BY <3>1 DEF JumpsFrom
      <4> QED
        BY <3>1, <4>1, <4>2
    <3>2. CASE \A r \in Blocks : r \in incoming'[b] <=> b \in successors'[r]
      BY <3>2
    <3> QED
      BY <2>1, <3>1, <3>2
  <2> QED
    BY <2>1 DEF PhisComplete
<1>3. BlocksReached'
  <2> SUFFICES ASSUME NEW b \in Kept', b \notin AheadOf(frames') PROVE Reached(b, successors')
    BY DEF BlocksReached
  <2>1. CASE b \in Kept /\ b \notin AheadOf(frames)
    <3>1. Reached(b, successors)
      BY <2>1 DEF FlowInv, BlocksReached
    <3> QED
      BY <3>1, ReachedMore DEF JumpsFrom
  <2> QED
    BY <2>1
<1> QED
  BY <1>1, <1>2, <1>3 DEF FlowInv

\* The innermost call and the ones around it.
LEMMA FlowInnermost ==
    ASSUME IInv, FlowInv, Depth > 0
    PROVE  /\ StackFlow(Outer, Kept, Awaiting(frames), successors, incoming)
           /\ FrameFlow(Innermost, Kept, Awaiting(frames), successors, incoming)
           /\ AheadOf(frames) = AheadOf(Outer) \cup Ahead(Innermost)
<1>1. Outer \in Seq(Frames) /\ Innermost \in Frames /\ frames = Append(Outer, Innermost)
  BY Situation, StackSplit
<1> HIDE DEF Outer, Innermost
<1>2. StackFlow(Append(Outer, Innermost), Kept, Awaiting(frames), successors, incoming)
  BY <1>1 DEF FlowInv
<1> QED
  BY <1>1, <1>2, StackFlowAppend, AheadAppend

\* The insertion block is reached.
LEMMA InsertionReached ==
    ASSUME IInv, FlowInv
    PROVE  Reached(insertBlock, successors)
BY Situation, AheadPending DEF FlowInv, BlocksReached

\* New blocks, and jumps to new blocks only: the calls in progress are not disturbed.
LEMMA NewBlocksFlow ==
    ASSUME IInv, FlowInv, NEW n \in Nat, created' = created + n, erased' = erased,
           incoming' = incoming,
           NEW q, StackFlow(q, Kept, Awaiting(frames), successors, incoming),
           Awaiting(q) \subseteq Awaiting(frames),
           \A p \in Blocks : successors[p] \subseteq successors'[p],
           \A p \in Blocks : \A b \in successors'[p] :
              b \in successors[p] \/ b \in (created + 1)..(created + n),
           NEW B, B \subseteq Awaiting(frames) \cup (created + 1)..(created + n)
    PROVE  StackFlow(q, Kept', B, successors', incoming')
<1> DEFINE new == (created + 1)..(created + n)
<1>1. /\ created \in Nat /\ Kept \subseteq 1..created /\ erased \subseteq 1..created
      /\ Awaiting(frames) \subseteq Kept \cup {NoBlock}
  BY Situation
<1>2. \A b \in new : b \notin Kept /\ b # NoBlock
  BY <1>1 DEF NoBlock
<1>3. Kept' = Kept \cup new
  BY <1>1 DEF Kept
<1>4. \A p \in Blocks : \A b \in successors'[p] : b \in successors[p] \/ b \in new
  OBVIOUS
<1> HIDE DEF new
<1>5. \A p \in Blocks, b \in Awaiting(q) : b \in successors'[p] <=> b \in successors[p]
  BY <1>1, <1>2, <1>4
<1>6. \A b \in Kept \ Awaiting(frames) : b \in Kept' \ B /\ incoming'[b] = incoming[b]
  BY <1>2, <1>3 DEF new
<1> QED
  BY <1>5, <1>6, StackFlowKept

----------------------------------------------------------------------------
(* Steps that create blocks *)

LEMMA NewBlocks ==
    ASSUME IInv, FlowInv, NEW n \in Nat, created' = created + n, created + n <= MaxBlocks,
           erased' = erased
    PROVE  /\ Kept' = Kept \cup (created + 1)..(created + n)
           /\ \A b \in (created + 1)..(created + n) :
                 /\ b \in Blocks /\ b # Entry /\ b # NoBlock /\ b # insertBlock
                 /\ b \notin Kept /\ b \notin Awaiting(frames)
                 /\ incoming[b] = {}
                 /\ \A p \in Blocks : b \notin successors[p]
<1>1. /\ created \in Nat /\ created >= 1 /\ MaxBlocks \in Nat
      /\ Kept \subseteq 1..created /\ erased \subseteq 1..created
      /\ insertBlock \in Kept /\ Awaiting(frames) \subseteq Kept \cup {NoBlock}
  BY Situation
<1>2. Kept' = Kept \cup (created + 1)..(created + n)
  BY <1>1 DEF Kept
<1> SUFFICES ASSUME NEW b \in (created + 1)..(created + n)
             PROVE  /\ b \in Blocks /\ b # Entry /\ b # NoBlock /\ b # insertBlock
                    /\ b \notin Kept /\ b \notin Awaiting(frames)
                    /\ incoming[b] = {}
                    /\ \A p \in Blocks : b \notin successors[p]
  BY <1>2
<1>3. b \in Blocks /\ b # Entry /\ b # NoBlock /\ b > created /\ b \notin 1..created
  BY <1>1 DEF Blocks, Entry, NoBlock
<1>4. b \notin Kept
  BY <1>1, <1>3
<1> QED
  BY <1>1, <1>3, <1>4 DEF FlowInv, PhisComplete, TargetsKept

\* The step creates n blocks and jumps to some of them.
LEMMA FlowStart ==
    ASSUME IInv, FlowInv, IInv', NEW n \in Nat, created' = created + n, created + n <= MaxBlocks,
           erased' = erased, incoming' = incoming, status' # "defined",
           NEW T \in SUBSET ((created + 1)..(created + n)),
           NEW P \in SUBSET ({insertBlock} \cup (created + 1)..(created + n)),
           JumpsFrom(P, T),
           StackFlow(frames', Kept', Awaiting(frames'), successors', incoming'),
           AheadOf(frames) \subseteq AheadOf(frames'),
           \A b \in (created + 1)..(created + n) : b \notin AheadOf(frames') => Reached(b, successors')
    PROVE  FlowInv'
<1> DEFINE new == (created + 1)..(created + n)
<1>1. /\ Kept' = Kept \cup new
      /\ \A b \in new : b \in Blocks /\ b # Entry /\ incoming[b] = {}
  BY NewBlocks
<1>2. insertBlock \in Kept /\ insertBlock \in Blocks /\ created \in Nat
  BY Situation
<1>3. T \subseteq new /\ P \subseteq {insertBlock} \cup new
  OBVIOUS
<1>4. \A b \in Blocks : b > created' => incoming'[b] = {}
  <2> TAKE b \in Blocks
  <2>1. b > created' => b > created
    BY <1>2, LoweringBounds DEF Blocks
  <2> QED
    BY <2>1 DEF FlowInv, PhisComplete
<1>5. \A b \in new : b \notin AheadOf(frames') => Reached(b, successors')
  OBVIOUS
<1> HIDE DEF new
<1>6. T \in SUBSET Blocks /\ P \in SUBSET Blocks
  BY <1>1, <1>2, <1>3
<1>7. \A p \in P : p \in Kept'
  BY <1>1, <1>2, <1>3
<1>8. \A b \in T : b \in Kept' /\ b # Entry /\ incoming[b] = {}
  BY <1>1, <1>3
<1>9. \A p \in Blocks : p \notin Kept' => p \notin Kept
  BY <1>1
<1>10. \A p \in Blocks : \A b \in successors[p] : b \in Kept'
  BY <1>1 DEF FlowInv, TargetsKept
<1>11. Entry \in Kept'
  BY <1>1 DEF FlowInv, TargetsKept
<1>12. \A b \in Blocks : incoming'[b] # {} => incoming'[b] = incoming[b] /\ b \notin T
  BY <1>8
<1>13. \A b \in Kept' : b \notin AheadOf(frames') =>
              (b \in Kept /\ b \notin AheadOf(frames)) \/ Reached(b, successors')
  BY <1>1, <1>5
<1> QED
  BY <1>4, <1>6, <1>7, <1>8, <1>9, <1>10, <1>11, <1>12, <1>13, FlowAssemble

\* The step creates n blocks, jumps to some of them and starts a construct.
LEMMA FlowPush ==
    ASSUME IInv, FlowInv, IInv', NEW n \in Nat, created' = created + n, created + n <= MaxBlocks,
           erased' = erased, incoming' = incoming, status' # "defined",
           NEW T \in SUBSET ((created + 1)..(created + n)),
           NEW P \in SUBSET ({insertBlock} \cup (created + 1)..(created + n)),
           JumpsFrom(P, T),
           NEW q \in Seq(Frames), Awaiting(q) = Awaiting(frames), AheadOf(q) = AheadOf(frames),
           StackFlow(q, Kept, Awaiting(frames), successors, incoming),
           NEW f \in Frames, frames' = Append(q, f),
           \A b \in JumpTargets(f) : b \in (created + 1)..(created + n),
           \A b \in Pending(f) : b \in (created + 1)..(created + n) \/ b = NoBlock,
           f.part \in {"condition", "body"} => f.back \notin Pending(f),
           \A b \in Ahead(f) : b \in (created + 1)..(created + n) /\ b \notin T,
           f.part = "right" => \A p \in Blocks : f.merge \in successors'[p] <=> p = f.back,
           \A b \in (created + 1)..(created + n) : b \notin Ahead(f) => Reached(b, successors')
    PROVE  FlowInv'
<1> DEFINE new == (created + 1)..(created + n)
<1>1. /\ Kept' = Kept \cup new
      /\ \A b \in new : /\ b \in Blocks /\ b # Entry /\ b # NoBlock
                        /\ b \notin Awaiting(frames)
                        /\ incoming[b] = {}
                        /\ \A p \in Blocks : b \notin successors[p]
  BY NewBlocks
<1>2. Awaiting(frames') = Awaiting(frames) \cup Pending(f) /\ AheadOf(frames') = AheadOf(frames) \cup Ahead(f)
  BY AwaitingAppend, AheadAppend
<1>3. \A b \in Pending(f) : b \in new \/ b = NoBlock
  OBVIOUS
<1>4. \A b \in JumpTargets(f) : b \in new
  OBVIOUS
<1>5. \A b \in Ahead(f) : b \in new /\ b \notin T
  OBVIOUS
<1>6. StackFlow(q, Kept', Awaiting(frames) \cup new, successors', incoming')
  <2>1. Awaiting(frames) \cup new \subseteq Awaiting(frames) \cup (created + 1)..(created + n)
    OBVIOUS
  <2>2. /\ \A p \in Blocks : successors[p] \subseteq successors'[p]
        /\ \A p \in Blocks : \A b \in successors'[p] :
              b \in successors[p] \/ b \in (created + 1)..(created + n)
    BY DEF JumpsFrom
  <2>3. Awaiting(q) \subseteq Awaiting(frames)
    OBVIOUS
  <2> QED
    BY <2>1, <2>2, <2>3, NewBlocksFlow
<1> HIDE DEF new
<1>7. StackFlow(q, Kept', Awaiting(frames'), successors', incoming')
  <2>1. \A b \in Kept' \ (Awaiting(frames) \cup new) : b \in Kept' \ Awaiting(frames')
    <3>1. \A b \in Kept' : b # NoBlock
      BY <1>1, Situation
    <3> QED
      BY <1>2, <1>3, <3>1
  <2>2. StackFlow(q, Kept', Awaiting(frames'), successors', incoming')
    BY <1>6, <2>1, NewBlocksFlow, StackFlowKept
  <2> QED
    BY <2>2
<1>8. FrameFlow(f, Kept', Awaiting(frames'), successors', incoming')
  <2>1. \A b \in JumpTargets(f) : b \in Blocks \ {Entry} /\ incoming'[b] = {}
    BY <1>1, <1>4
  <2>2. f.part \in {"condition", "body"} => f.back \in Kept' \ Awaiting(frames')
    <3>1. f.part \in {"condition", "body"} => f.back \in JumpTargets(f)
      BY DEF JumpTargets
    <3> QED
      BY <1>1, <1>2, <1>4, <3>1
  <2>3. \A b \in Ahead(f), p \in Blocks : b \notin successors'[p]
    BY <1>1, <1>5 DEF JumpsFrom
  <2> QED
    BY <2>1, <2>2, <2>3 DEF FrameFlow
<1>9. StackFlow(frames', Kept', Awaiting(frames'), successors', incoming')
  BY <1>7, <1>8, StackFlowAppend
<1>10. AheadOf(frames) \subseteq AheadOf(frames')
  BY <1>2
<1>11. \A b \in (created + 1)..(created + n) : b \notin AheadOf(frames') => Reached(b, successors')
  BY <1>2
<1> QED
  BY <1>9, <1>10, <1>11, FlowStart

\* A branch of the builder, as jumps.
LEMMA JumpsOne ==
    ASSUME IInv, NEW x \in Blocks, NEW targets \in SUBSET Blocks, Terminate({<<x, targets>>})
    PROVE  /\ JumpsFrom({x}, targets)
           /\ \A p \in Blocks : successors'[p] = successors[p] \cup (IF p = x THEN targets ELSE {})
<1>1. /\ \A p \in Blocks : successors'[p] = successors[p] \cup (IF p = x THEN targets ELSE {})
      /\ \A p \in Blocks : terminators'[p] = 0 => terminators[p] = 0
      /\ terminators'[x] # 0
  BY BranchFrom
<1> QED
  BY <1>1 DEF JumpsFrom

\* Two branches at once, and what they add.
TwoEnds(x, xs, y, ys) == {<<x, xs>>, <<y, ys>>}

TwoTargets(x, xs, y, ys) ==
    \A p \in Blocks : successors'[p] =
        successors[p] \cup (IF p = x THEN xs ELSE IF p = y THEN ys ELSE {})

LEMMA JumpsTwo ==
    ASSUME IInv, NEW x \in Blocks, NEW y \in Blocks, x # y,
           NEW xs \in SUBSET Blocks, NEW ys \in SUBSET Blocks,
           Terminate(TwoEnds(x, xs, y, ys)), NEW P, P = {x, y}, NEW T, T = xs \cup ys
    PROVE  /\ JumpsFrom(P, T)
           /\ TwoTargets(x, xs, y, ys)
<1> USE DEF TwoEnds
<1>1. /\ \A p \in Blocks : successors'[p] =
            successors[p] \cup (IF p = x THEN xs ELSE IF p = y THEN ys ELSE {})
      /\ \A p \in Blocks : terminators'[p] = 0 => terminators[p] = 0
      /\ terminators'[x] # 0 /\ terminators'[y] # 0
  BY BranchFromTwo
<1> QED
  BY <1>1 DEF JumpsFrom, TwoTargets

LEMMA WhileFlow ==
    ASSUME IInv, FlowInv, IInv', generateWhileStmt
    PROVE  FlowInv'
<1> DEFINE f == LoopFrame("condition")
<1> PICK condition, body, end : condition = created + 1 /\ body = created + 2 /\ end = created + 3
  OBVIOUS
<1>1. /\ created' = created + 3 /\ created + 3 <= MaxBlocks
      /\ Terminate({<<insertBlock, {condition}>>})
      /\ frames' = Append(frames, f)
      /\ erased' = erased /\ incoming' = incoming /\ status' = "open"
  BY DEF generateWhileStmt, Create, NewBlock, Push, AtStatement
<1>2. created \in Nat /\ MaxBlocks \in Nat /\ frames \in Seq(Frames) /\ insertBlock \in Blocks
  BY Situation
<1>3. (created + 1)..(created + 3) = {condition, body, end}
  BY <1>2
<1>4. /\ f.part = "condition" /\ f.back = condition /\ f.other = body /\ f.merge = end
      /\ f \in Frames
  BY <1>1, <1>2 DEF Frames, LoopFrame, NewBlock
<1>5. condition # body /\ condition # end /\ {condition} \in SUBSET Blocks /\ 3 \in Nat
  BY <1>1, <1>2 DEF Blocks
<1> HIDE DEF f
<1>6. /\ JumpsFrom({insertBlock}, {condition})
      /\ \A p \in Blocks : successors'[p] = successors[p] \cup (IF p = insertBlock THEN {condition} ELSE {})
  BY <1>1, <1>2, <1>5, JumpsOne
<1>7. Pending(f) = {end, body} /\ Ahead(f) = {end, body} /\ JumpTargets(f) = {end, body, condition}
  BY <1>4 DEF Pending, Ahead, JumpTargets
<1>8. Reached(condition, successors')
  <2>1. Reached(insertBlock, successors')
    BY <1>6, InsertionReached, ReachedMore DEF JumpsFrom
  <2> QED
    BY <1>2, <1>6, <2>1, ReachedNext
<1>9. /\ {condition} \in SUBSET ((created + 1)..(created + 3))
      /\ {insertBlock} \in SUBSET ({insertBlock} \cup (created + 1)..(created + 3))
      /\ \A b \in JumpTargets(f) : b \in (created + 1)..(created + 3)
      /\ \A b \in Pending(f) : b \in (created + 1)..(created + 3) \/ b = NoBlock
      /\ f.back \notin Pending(f)
      /\ \A b \in Ahead(f) : b \in (created + 1)..(created + 3) /\ b \notin {condition}
      /\ \A b \in (created + 1)..(created + 3) : b \notin Ahead(f) => Reached(b, successors')
      /\ f.part # "right"
  BY <1>3, <1>4, <1>5, <1>7, <1>8
<1>10. StackFlow(frames, Kept, Awaiting(frames), successors, incoming)
  BY DEF FlowInv
<1> QED
  BY <1>1, <1>2, <1>4, <1>5, <1>6, <1>9, <1>10, FlowPush

LEMMA ForFlow ==
    ASSUME IInv, FlowInv, IInv', generateForStmt
    PROVE  FlowInv'
<1> DEFINE f == LoopFrame("body")
<1> PICK condition, body, end : condition = created + 1 /\ body = created + 2 /\ end = created + 3
  OBVIOUS
<1>1. /\ created' = created + 3 /\ created + 3 <= MaxBlocks
      /\ Terminate({<<insertBlock, {condition}>>, <<condition, {body, end}>>})
      /\ frames' = Append(frames, f)
      /\ erased' = erased /\ incoming' = incoming /\ status' = "open"
  BY DEF generateForStmt, Create, NewBlock, Push, AtStatement
<1>2. created \in Nat /\ MaxBlocks \in Nat /\ frames \in Seq(Frames) /\ insertBlock \in Blocks
  BY Situation
<1>3. (created + 1)..(created + 3) = {condition, body, end}
  BY <1>2
<1>4. /\ f.part = "body" /\ f.back = condition /\ f.other = body /\ f.merge = end
      /\ f \in Frames
  BY <1>1, <1>2 DEF Frames, LoopFrame, NewBlock
<1>5. /\ condition # end /\ condition \in Blocks /\ {condition} \in SUBSET Blocks
      /\ {body, end} \in SUBSET Blocks /\ 3 \in Nat
  BY <1>1, <1>2 DEF Blocks
<1>6. insertBlock # condition
  BY <1>1, <1>3, NewBlocks
<1> HIDE DEF f
<1>7. /\ JumpsFrom({insertBlock, condition}, {condition} \cup {body, end})
      /\ \A p \in Blocks : successors'[p] =
            successors[p] \cup (IF p = insertBlock THEN {condition}
                                ELSE IF p = condition THEN {body, end} ELSE {})
  <2>1. PICK xs, ys : xs = {condition} /\ ys = {body, end}
    OBVIOUS
  <2>2. /\ Terminate({<<insertBlock, xs>>, <<condition, ys>>})
        /\ xs \in SUBSET Blocks /\ ys \in SUBSET Blocks
    BY <1>1, <1>5, <2>1
  <2>3. PICK x : x = insertBlock
    OBVIOUS
  <2>4. PICK y : y = condition
    OBVIOUS
  <2>5. x \in Blocks /\ y \in Blocks /\ x # y /\ Terminate(TwoEnds(x, xs, y, ys))
    BY <1>2, <1>5, <1>6, <2>2, <2>3, <2>4 DEF TwoEnds
  <2>6. PICK P, T : P = {x, y} /\ T = xs \cup ys
    OBVIOUS
  <2>7. JumpsFrom(P, T)
    BY <2>2, <2>5, <2>6, JumpsTwo
  <2>8. TwoTargets(x, xs, y, ys)
    BY <2>2, <2>5, <2>6, JumpsTwo
  <2> QED
    BY <2>1, <2>3, <2>4, <2>6, <2>7, <2>8 DEF TwoTargets
<1>8. Pending(f) = {end} /\ Ahead(f) = {} /\ JumpTargets(f) = {end, condition}
  BY <1>4 DEF Pending, Ahead, JumpTargets
<1>9. Reached(condition, successors') /\ Reached(body, successors') /\ Reached(end, successors')
  <2>1. Reached(insertBlock, successors')
    BY <1>7, InsertionReached, ReachedMore DEF JumpsFrom
  <2>2. Reached(condition, successors')
    BY <1>2, <1>7, <2>1, ReachedNext
  <2>3. body \in successors'[condition] /\ end \in successors'[condition]
    BY <1>5, <1>6, <1>7
  <2> QED
    BY <2>2, <2>3, ReachedNext
<1>10. /\ {condition} \cup {body, end} \in SUBSET ((created + 1)..(created + 3))
       /\ {insertBlock, condition} \in SUBSET ({insertBlock} \cup (created + 1)..(created + 3))
       /\ \A b \in JumpTargets(f) : b \in (created + 1)..(created + 3)
       /\ \A b \in Pending(f) : b \in (created + 1)..(created + 3) \/ b = NoBlock
       /\ f.back \notin Pending(f)
       /\ \A b \in Ahead(f) : b \in (created + 1)..(created + 3) /\ b \notin {condition} \cup {body, end}
       /\ \A b \in (created + 1)..(created + 3) : b \notin Ahead(f) => Reached(b, successors')
       /\ f.part # "right"
  BY <1>3, <1>4, <1>5, <1>8, <1>9
<1>11. StackFlow(frames, Kept, Awaiting(frames), successors, incoming)
  BY DEF FlowInv
<1> QED
  BY <1>1, <1>2, <1>4, <1>5, <1>7, <1>10, <1>11, FlowPush

LEMMA LogicalRightFlow ==
    ASSUME IInv, FlowInv, IInv', lowerLogicalRight
    PROVE  FlowInv'
<1> PICK right, end : right = created + 1 /\ end = created + 2
  OBVIOUS
<1> DEFINE f == [construct |-> "logical", part |-> "right",
                 back |-> insertBlock, other |-> NoBlock, merge |-> end,
                 thenTerminated |-> FALSE, thenReturns |-> FALSE]
<1>1. /\ created' = created + 2 /\ created + 2 <= MaxBlocks
      /\ Terminate({<<insertBlock, {right, end}>>})
      /\ frames' = Append(frames, f)
      /\ erased' = erased /\ incoming' = incoming /\ status' = status
  BY DEF lowerLogicalRight, Create, NewBlock, Push
<1>2. created \in Nat /\ MaxBlocks \in Nat /\ frames \in Seq(Frames) /\ insertBlock \in Blocks
  BY Situation
<1>3. (created + 1)..(created + 2) = {right, end} /\ status' = "open"
  BY <1>1, <1>2, ExpressionFallsThrough DEF lowerLogicalRight
<1>4. /\ right \in Blocks /\ end \in Blocks /\ end \in 0..MaxBlocks /\ insertBlock \in 0..MaxBlocks
      /\ 0 \in 0..MaxBlocks /\ {right, end} \in SUBSET Blocks /\ 2 \in Nat
  BY <1>1, <1>2 DEF Blocks
<1>5. f.part = "right" /\ f.back = insertBlock /\ f.merge = end /\ f \in Frames
  BY <1>4 DEF Frames, NoBlock
<1> HIDE DEF f
<1>6. /\ JumpsFrom({insertBlock}, {right, end})
      /\ \A p \in Blocks : successors'[p] = successors[p] \cup (IF p = insertBlock THEN {right, end} ELSE {})
  BY <1>1, <1>2, <1>4, JumpsOne
<1>7. Pending(f) = {end} /\ Ahead(f) = {} /\ JumpTargets(f) = {end}
  BY <1>5 DEF Pending, Ahead, JumpTargets
<1>8. Reached(right, successors') /\ Reached(end, successors')
  <2>1. Reached(insertBlock, successors')
    BY <1>6, InsertionReached, ReachedMore DEF JumpsFrom
  <2> QED
    BY <1>2, <1>6, <2>1, ReachedNext
<1>9. \A p \in Blocks : f.merge \in successors'[p] <=> p = f.back
  <2>1. \A p \in Blocks : end \notin successors[p]
    BY <1>1, <1>3, <1>4, NewBlocks
  <2> QED
    BY <1>5, <1>6, <2>1
<1>10. /\ {right, end} \in SUBSET ((created + 1)..(created + 2))
       /\ {insertBlock} \in SUBSET ({insertBlock} \cup (created + 1)..(created + 2))
       /\ \A b \in JumpTargets(f) : b \in (created + 1)..(created + 2)
       /\ \A b \in Pending(f) : b \in (created + 1)..(created + 2) \/ b = NoBlock
       /\ \A b \in Ahead(f) : b \in (created + 1)..(created + 2) /\ b \notin {right, end}
       /\ \A b \in (created + 1)..(created + 2) : b \notin Ahead(f) => Reached(b, successors')
       /\ f.part \notin {"condition", "body"}
  BY <1>3, <1>5, <1>7, <1>8
<1>11. StackFlow(frames, Kept, Awaiting(frames), successors, incoming)
  BY DEF FlowInv
<1> QED
  BY <1>1, <1>2, <1>3, <1>4, <1>5, <1>6, <1>9, <1>10, <1>11, FlowPush

LEMMA IndexBoundsFlow ==
    ASSUME IInv, FlowInv, IInv', lowerCheckedIndexBounds
    PROVE  FlowInv'
<1> PICK inbounds, outofbounds : inbounds = created + 1 /\ outofbounds = created + 2
  OBVIOUS
<1>1. /\ created' = created + 2 /\ created + 2 <= MaxBlocks
      /\ Terminate({<<insertBlock, {inbounds, outofbounds}>>, <<outofbounds, {}>>})
      /\ frames' = frames
      /\ erased' = erased /\ incoming' = incoming /\ status' = status
  BY DEF lowerCheckedIndexBounds, Create, NewBlock
<1>2. created \in Nat /\ MaxBlocks \in Nat /\ insertBlock \in Blocks /\ 2 \in Nat
  BY Situation
<1>3. (created + 1)..(created + 2) = {inbounds, outofbounds} /\ status' = "open"
  BY <1>1, <1>2, ExpressionFallsThrough DEF lowerCheckedIndexBounds
<1>4. outofbounds \in Blocks /\ {inbounds, outofbounds} \in SUBSET Blocks /\ {} \in SUBSET Blocks
  BY <1>1, <1>2 DEF Blocks
<1>5. insertBlock # outofbounds
  BY <1>1, <1>2, <1>3, NewBlocks
<1>6. /\ JumpsFrom({insertBlock, outofbounds}, {inbounds, outofbounds} \cup {})
      /\ \A p \in Blocks : successors'[p] =
            successors[p] \cup (IF p = insertBlock THEN {inbounds, outofbounds}
                                ELSE IF p = outofbounds THEN {} ELSE {})
  <2>1. PICK xs, ys : xs = {inbounds, outofbounds} /\ ys = {}
    OBVIOUS
  <2>2. /\ Terminate({<<insertBlock, xs>>, <<outofbounds, ys>>})
        /\ xs \in SUBSET Blocks /\ ys \in SUBSET Blocks
    BY <1>1, <1>4, <2>1
  <2>3. PICK x : x = insertBlock
    OBVIOUS
  <2>4. PICK y : y = outofbounds
    OBVIOUS
  <2>5. x \in Blocks /\ y \in Blocks /\ x # y /\ Terminate(TwoEnds(x, xs, y, ys))
    BY <1>2, <1>4, <1>5, <2>2, <2>3, <2>4 DEF TwoEnds
  <2>6. PICK P, T : P = {x, y} /\ T = xs \cup ys
    OBVIOUS
  <2>7. JumpsFrom(P, T)
    BY <2>2, <2>5, <2>6, JumpsTwo
  <2>8. TwoTargets(x, xs, y, ys)
    BY <2>2, <2>5, <2>6, JumpsTwo
  <2> QED
    BY <2>1, <2>3, <2>4, <2>6, <2>7, <2>8 DEF TwoTargets
<1>7. Reached(inbounds, successors') /\ Reached(outofbounds, successors')
  <2>1. Reached(insertBlock, successors')
    BY <1>6, InsertionReached, ReachedMore DEF JumpsFrom
  <2> QED
    BY <1>2, <1>6, <2>1, ReachedNext
<1>8. /\ {inbounds, outofbounds} \cup {} \in SUBSET ((created + 1)..(created + 2))
      /\ {insertBlock, outofbounds} \in SUBSET ({insertBlock} \cup (created + 1)..(created + 2))
      /\ \A b \in (created + 1)..(created + 2) : Reached(b, successors')
  BY <1>3, <1>7
<1>9. StackFlow(frames', Kept', Awaiting(frames'), successors', incoming')
  <2>1. StackFlow(frames, Kept, Awaiting(frames), successors, incoming)
    BY DEF FlowInv
  <2>2. /\ \A p \in Blocks : successors[p] \subseteq successors'[p]
        /\ \A p \in Blocks : \A b \in successors'[p] :
              b \in successors[p] \/ b \in (created + 1)..(created + 2)
    BY <1>3, <1>6
  <2>3. Awaiting(frames) \subseteq Awaiting(frames) \cup (created + 1)..(created + 2)
    OBVIOUS
  <2> QED
    BY <1>1, <1>2, <2>1, <2>2, <2>3, NewBlocksFlow
<1>10. AheadOf(frames) \subseteq AheadOf(frames')
  BY <1>1
<1> QED
  BY <1>1, <1>2, <1>3, <1>6, <1>8, <1>9, <1>10, FlowStart

\* The calls an if is pushed on.
LEMMA IfCaller ==
    ASSUME IInv, FlowInv, NEW caller,
           caller = IF Part = "elseIf" THEN [frames EXCEPT ![Depth].part = "elseIfDone"] ELSE frames
    PROVE  /\ caller \in Seq(Frames)
           /\ Awaiting(caller) = Awaiting(frames) /\ AheadOf(caller) = AheadOf(frames)
           /\ StackFlow(caller, Kept, Awaiting(frames), successors, incoming)
<1>1. frames \in Seq(Frames) /\ Depth \in Nat
  BY Situation
<1>2. CASE Part # "elseIf"
  BY <1>1, <1>2 DEF FlowInv
<1>3. CASE Part = "elseIf"
  <2> DEFINE g == [Innermost EXCEPT !.part = "elseIfDone"]
  <2>1. Depth > 0
    BY <1>1, <1>3 DEF Part
  <2>2. /\ Outer \in Seq(Frames) /\ Innermost \in Frames /\ Innermost.part = "elseIf"
        /\ \A h \in Frames : [frames EXCEPT ![Depth] = h] = Append(Outer, h)
        /\ Awaiting(frames) = Awaiting(Outer) \cup Pending(Innermost)
    BY <1>3, <2>1, InnermostCall
  <2>3. /\ StackFlow(Outer, Kept, Awaiting(frames), successors, incoming)
        /\ FrameFlow(Innermost, Kept, Awaiting(frames), successors, incoming)
        /\ AheadOf(frames) = AheadOf(Outer) \cup Ahead(Innermost)
    BY <2>1, FlowInnermost
  <2>4. /\ g \in Frames /\ g.part = "elseIfDone" /\ g.merge = Innermost.merge
        /\ g.thenTerminated = Innermost.thenTerminated /\ g.other = Innermost.other
    BY <2>2 DEF Frames
  <2>5. caller = [frames EXCEPT ![Depth] = g]
    BY <1>3 DEF Innermost
  <2>6. caller = Append(Outer, g)
    BY <2>2, <2>4, <2>5
  <2> HIDE DEF g, Outer, Innermost
  <2>7. Pending(g) = Pending(Innermost)
    BY <2>2, <2>4 DEF Pending
  <2>8. Ahead(g) = Ahead(Innermost)
    BY <2>2, <2>4, <2>7 DEF Ahead
  <2>9. JumpTargets(g) = JumpTargets(Innermost)
    BY <2>2, <2>4 DEF JumpTargets
  <2>10. FrameFlow(g, Kept, Awaiting(frames), successors, incoming)
    BY <2>2, <2>3, <2>4, <2>8, <2>9 DEF FrameFlow
  <2>11. caller \in Seq(Frames)
    BY <2>2, <2>4, <2>6, AppendElements
  <2>12. Awaiting(caller) = Awaiting(frames) /\ AheadOf(caller) = AheadOf(frames)
    BY <2>2, <2>3, <2>4, <2>6, <2>7, <2>8, AwaitingAppend, AheadAppend
  <2>13. StackFlow(caller, Kept, Awaiting(frames), successors, incoming)
    <3>1. StackFlow(Append(Outer, g), Kept, Awaiting(frames), successors, incoming)
      BY <2>2, <2>3, <2>4, <2>10, StackFlowAppend
    <3> QED
      BY <2>6, <3>1
  <2> QED
    BY <2>11, <2>12, <2>13
<1> QED
  BY <1>2, <1>3

LEMMA IfFlow ==
    ASSUME IInv, FlowInv, IInv', NEW alternative \in {"none", "else"}, generateIfStmt(alternative)
    PROVE  FlowInv'
<1>1. PICK n \in Nat : n = IF alternative # "none" THEN 3 ELSE 2
  OBVIOUS
<1>2. PICK then, else, merge : /\ then = created + 1 /\ merge = created + n
                               /\ else = IF alternative # "none" THEN created + 2 ELSE NoBlock
  OBVIOUS
<1>3. PICK next : next = IF alternative # "none" THEN else ELSE merge
  OBVIOUS
<1>4. PICK caller : caller = IF Part = "elseIf" THEN [frames EXCEPT ![Depth].part = "elseIfDone"] ELSE frames
  OBVIOUS
<1> DEFINE f == [construct |-> "if", part |-> "then",
                 back |-> NoBlock, other |-> else, merge |-> merge,
                 thenTerminated |-> FALSE, thenReturns |-> FALSE]
<1>5. /\ created' = created + n /\ created + n <= MaxBlocks
      /\ Terminate({<<insertBlock, {then, next}>>})
      /\ frames' = Append(caller, f)
      /\ erased' = erased /\ incoming' = incoming /\ status' = "open"
  BY <1>1, <1>2, <1>3, <1>4 DEF generateIfStmt, Create, NewBlock, AtStatement
<1>6. created \in Nat /\ MaxBlocks \in Nat /\ insertBlock \in Blocks
  BY Situation
<1>7. /\ caller \in Seq(Frames)
      /\ Awaiting(caller) = Awaiting(frames) /\ AheadOf(caller) = AheadOf(frames)
      /\ StackFlow(caller, Kept, Awaiting(frames), successors, incoming)
  BY <1>4, IfCaller
<1>8. /\ (created + 1)..(created + n) = {then, next, merge}
      /\ then \in Blocks /\ next \in Blocks /\ {then, next} \in SUBSET Blocks
      /\ alternative # "none" => merge # then /\ merge # next
      /\ alternative = "none" => next = merge
  BY <1>1, <1>2, <1>3, <1>5, <1>6 DEF Blocks
<1>9. /\ f.part = "then" /\ f.other = else /\ f.merge = merge /\ f.thenTerminated = FALSE
      /\ f \in Frames
  BY <1>1, <1>2, <1>5, <1>6 DEF Frames, NoBlock
<1> HIDE DEF f
<1>10. /\ JumpsFrom({insertBlock}, {then, next})
       /\ \A p \in Blocks : successors'[p] = successors[p] \cup (IF p = insertBlock THEN {then, next} ELSE {})
  BY <1>5, <1>6, <1>8, JumpsOne
<1>11. /\ Pending(f) = {merge, else} /\ JumpTargets(f) = {merge}
       /\ \A b \in Ahead(f) : b = merge /\ alternative # "none"
       /\ alternative # "none" => merge \in Ahead(f)
  <2>1. created + 2 # NoBlock
    BY <1>6 DEF NoBlock
  <2> QED
    BY <1>2, <1>9, <2>1 DEF Pending, Ahead, JumpTargets
<1>12. Reached(then, successors') /\ Reached(next, successors')
  <2>1. Reached(insertBlock, successors')
    BY <1>10, InsertionReached, ReachedMore DEF JumpsFrom
  <2> QED
    BY <1>6, <1>10, <2>1, ReachedNext
<1>13. /\ {then, next} \in SUBSET ((created + 1)..(created + n))
       /\ {insertBlock} \in SUBSET ({insertBlock} \cup (created + 1)..(created + n))
       /\ \A b \in JumpTargets(f) : b \in (created + 1)..(created + n)
       /\ \A b \in Pending(f) : b \in (created + 1)..(created + n) \/ b = NoBlock
       /\ \A b \in Ahead(f) : b \in (created + 1)..(created + n) /\ b \notin {then, next}
       /\ \A b \in (created + 1)..(created + n) : b \notin Ahead(f) => Reached(b, successors')
       /\ f.part \notin {"condition", "body"} /\ f.part # "right"
  BY <1>2, <1>3, <1>8, <1>9, <1>11, <1>12
<1> QED
  BY <1>1, <1>5, <1>7, <1>9, <1>10, <1>13, FlowPush

----------------------------------------------------------------------------
(* Steps that create no block *)

LEMMA FlowMove ==
    ASSUME IInv, FlowInv, IInv', created' = created, erased' = erased, status' # "defined",
           NEW T \in SUBSET Blocks, NEW P \in SUBSET {insertBlock}, JumpsFrom(P, T),
           \A b \in T : b \in Kept /\ b # Entry,
           \A b \in Blocks : b > created => incoming'[b] = {},
           \A b \in Blocks : incoming'[b] # {} =>
              \/ incoming'[b] = incoming[b] /\ b \notin T
              \/ \A p \in Blocks : p \in incoming'[b] <=> b \in successors'[p],
           StackFlow(frames', Kept, Awaiting(frames'), successors', incoming'),
           \A b \in Kept : b \notin AheadOf(frames') =>
              b \notin AheadOf(frames) \/ Reached(b, successors')
    PROVE  FlowInv'
<1>1. Kept' = Kept
  BY DEF Kept
<1>2. insertBlock \in Kept /\ insertBlock \in Blocks
  BY Situation
<1>3. P \in SUBSET Blocks /\ \A p \in P : p \in Kept'
  BY <1>1, <1>2
<1>4. \A p \in Blocks : \A b \in successors[p] : b \in Kept'
  BY <1>1 DEF FlowInv, TargetsKept
<1>5. Entry \in Kept'
  BY <1>1 DEF FlowInv, TargetsKept
<1>6. \A p \in Blocks : p \notin Kept' => p \notin Kept
  BY <1>1
<1>7. \A b \in T : b \in Kept' /\ b # Entry
  BY <1>1
<1>8. \A b \in Kept' : b \notin AheadOf(frames') =>
         (b \in Kept /\ b \notin AheadOf(frames)) \/ Reached(b, successors')
  BY <1>1
<1>9. StackFlow(frames', Kept', Awaiting(frames'), successors', incoming')
  BY <1>1
<1> QED
  BY <1>3, <1>4, <1>5, <1>6, <1>7, <1>8, <1>9, FlowAssemble

\* A step that disturbs neither the graph nor the calls.
LEMMA FlowSame ==
    ASSUME FlowInv, UNCHANGED <<graph, frames>>, status' = "defined" => status = "defined"
    PROVE  FlowInv'
<1>1. Kept' = Kept
  BY DEF Kept, graph
<1>2. TargetsKept' /\ PhisComplete'
  BY <1>1 DEF graph, FlowInv, TargetsKept, PhisComplete
<1>3. BlocksReached'
  BY <1>1 DEF graph, FlowInv, BlocksReached
<1>4. StackFlow(frames', Kept', Awaiting(frames'), successors', incoming')
  BY <1>1 DEF graph, FlowInv
<1>5. status' = "defined" => frames' = <<>> /\ \A b \in Kept' : terminators'[b] = 1
  BY <1>1 DEF graph, FlowInv
<1> QED
  BY <1>2, <1>3, <1>4, <1>5 DEF FlowInv

LEMMA FailFlow ==
    ASSUME FlowInv, LoweringFails
    PROVE  FlowInv'
BY FlowSame DEF LoweringFails

LEMMA ReturnFlow ==
    ASSUME IInv, FlowInv, IInv', generateReturnStmt
    PROVE  FlowInv'
<1>1. PICK T : T = {}
  OBVIOUS
<1>2. /\ Terminate({<<insertBlock, T>>})
      /\ created' = created /\ erased' = erased /\ incoming' = incoming
      /\ frames' = frames /\ status' = "open"
  BY <1>1 DEF generateReturnStmt, AtStatement
<1>3. insertBlock \in Blocks /\ T \in SUBSET Blocks /\ {insertBlock} \in SUBSET {insertBlock}
  BY <1>1, Situation
<1>4. /\ JumpsFrom({insertBlock}, T)
      /\ \A p \in Blocks : successors'[p] = successors[p] \cup (IF p = insertBlock THEN T ELSE {})
  BY <1>2, <1>3, JumpsOne
<1>5. \A p \in Blocks, b \in Awaiting(frames) : b \in successors'[p] <=> b \in successors[p]
  BY <1>1, <1>4
<1>6. StackFlow(frames, Kept, Awaiting(frames), successors', incoming')
  BY <1>2, <1>5, StackFlowKept DEF FlowInv
<1>7. /\ \A b \in T : b \in Kept /\ b # Entry
      /\ \A b \in Blocks : b > created => incoming'[b] = {}
      /\ \A b \in Blocks : incoming'[b] # {} => incoming'[b] = incoming[b] /\ b \notin T
  BY <1>1, <1>2 DEF FlowInv, PhisComplete
<1> QED
  BY <1>2, <1>3, <1>4, <1>6, <1>7, FlowMove

\* A fall-through branch, as jumps.
LEMMA JumpsFallthrough ==
    ASSUME IInv, NEW target \in Blocks, Terminate(Fallthrough(target)),
           NEW P, P = (IF terminated THEN {} ELSE {insertBlock}),
           NEW T, T = (IF terminated THEN {} ELSE {target})
    PROVE  /\ JumpsFrom(P, T)
           /\ terminated => \A p \in Blocks : successors'[p] = successors[p]
           /\ ~terminated => target \in successors'[insertBlock]
           /\ P \in SUBSET {insertBlock} /\ T \in SUBSET {target}
<1>1. /\ \A p \in Blocks : successors'[p] =
            successors[p] \cup (IF p = insertBlock /\ ~terminated THEN {target} ELSE {})
      /\ \A p \in Blocks : terminators'[p] = 0 => terminators[p] = 0
      /\ ~terminated => terminators'[insertBlock] # 0
  BY FallthroughFrom
<1>2. insertBlock \in Blocks
  BY Situation
<1>3. CASE terminated
  BY <1>1, <1>3 DEF JumpsFrom
<1>4. CASE ~terminated
  BY <1>1, <1>2, <1>4 DEF JumpsFrom
<1> QED
  BY <1>3, <1>4

\* A call returns to its caller, and control goes on in its merge block.
LEMMA FlowPop ==
    ASSUME IInv, FlowInv, IInv', Depth > 0, frames' = Outer,
           created' = created, erased' = erased, status' # "defined",
           NEW target, target \in JumpTargets(Innermost), target \in Kept,
           target \notin Awaiting(Outer), Terminate(Fallthrough(target)),
           \A b \in Blocks : incoming'[b] # incoming[b] =>
              b = Innermost.merge /\ \A p \in Blocks : p \in incoming'[b] <=> b \in successors'[p],
           \A b \in Ahead(Innermost) : b = target /\ ~terminated
    PROVE  FlowInv'
<1>1. /\ StackFlow(Outer, Kept, Awaiting(frames), successors, incoming)
      /\ FrameFlow(Innermost, Kept, Awaiting(frames), successors, incoming)
      /\ AheadOf(frames) = AheadOf(Outer) \cup Ahead(Innermost)
  BY FlowInnermost
<1>2. /\ Awaiting(frames) = Awaiting(Outer) \cup Pending(Innermost)
      /\ Innermost.merge \in Pending(Innermost) /\ Innermost.merge \notin Awaiting(Outer)
      /\ Innermost.merge \in Kept
  BY InnermostCall
<1>3. target \in Blocks /\ target # Entry /\ incoming[target] = {}
  BY <1>1 DEF FrameFlow
<1>4. PICK P, T : P = (IF terminated THEN {} ELSE {insertBlock}) /\ T = (IF terminated THEN {} ELSE {target})
  OBVIOUS
<1>5. JumpsFrom(P, T)
  BY <1>3, <1>4, JumpsFallthrough
<1>6. /\ ~terminated => target \in successors'[insertBlock]
      /\ P \in SUBSET {insertBlock} /\ T \in SUBSET {target}
  BY <1>3, <1>4, JumpsFallthrough
<1>7. \A p \in Blocks, b \in Awaiting(Outer) : b \in successors'[p] <=> b \in successors[p]
  BY <1>5, <1>6 DEF JumpsFrom
<1>8. \A b \in Blocks : b \in Awaiting(Outer) => incoming'[b] = incoming[b]
  BY <1>2
<1> HIDE DEF Outer, Innermost
<1>9. \A b \in Kept \ Awaiting(frames) : b \in Kept \ Awaiting(Outer) /\ incoming'[b] = incoming[b]
  <2>1. \A b \in Kept : b \in Blocks
    BY Situation DEF Blocks
  <2> QED
    BY <1>2, <2>1
<1>10. StackFlow(Outer, Kept, Awaiting(Outer), successors', incoming')
  BY <1>1, <1>7, <1>8, <1>9, StackFlowKept
<1>11. \A b \in Ahead(Innermost) : Reached(b, successors')
  <2>1. Reached(insertBlock, successors')
    BY <1>5, InsertionReached, ReachedMore DEF JumpsFrom
  <2>2. ~terminated => Reached(target, successors')
    BY <1>6, <2>1, ReachedNext
  <2> QED
    BY <2>2
<1>12. \A b \in Kept : b \notin AheadOf(frames') => b \notin AheadOf(frames) \/ Reached(b, successors')
  BY <1>1, <1>11
<1>13. \A b \in Blocks : b > created => incoming'[b] = {}
  <2>1. \A b \in Blocks : b > created => b # Innermost.merge
    BY <1>2, Situation
  <2> QED
    BY <2>1 DEF FlowInv, PhisComplete
<1>14. \A b \in Blocks : incoming'[b] # {} =>
              \/ incoming'[b] = incoming[b] /\ b \notin T
              \/ \A p \in Blocks : p \in incoming'[b] <=> b \in successors'[p]
  BY <1>3, <1>6
<1>15. T \in SUBSET Blocks /\ \A b \in T : b \in Kept /\ b # Entry
  BY <1>3, <1>6
<1>16. StackFlow(frames', Kept, Awaiting(frames'), successors', incoming')
  BY <1>10
<1> QED
  BY <1>5, <1>6, <1>12, <1>13, <1>14, <1>15, <1>16, FlowMove

LEMMA LogicalMergeFlow ==
    ASSUME IInv, FlowInv, IInv', lowerLogicalMerge
    PROVE  FlowInv'
<1> DEFINE merge == Innermost.merge
<1>1. status = "open" /\ Part = "right" /\ Depth > 0
  BY Situation DEF lowerLogicalMerge, Part
<1>2. ~terminated
  BY <1>1 DEF IInv, Position, Undone
<1>3. /\ Innermost.part = "right" /\ merge \in Kept /\ merge \notin Awaiting(Outer)
  BY <1>1, InnermostCall
<1>4. FrameFlow(Innermost, Kept, Awaiting(frames), successors, incoming)
  BY <1>1, FlowInnermost
<1>5. /\ Ahead(Innermost) = {} /\ merge \in JumpTargets(Innermost)
      /\ \A p \in Blocks : merge \in successors[p] <=> p = Innermost.back
  BY <1>3, <1>4 DEF FrameFlow, Ahead, JumpTargets
<1>6. /\ Terminate(Fallthrough(merge))
      /\ incoming' = [incoming EXCEPT ![merge] = {Innermost.back, insertBlock}]
      /\ created' = created /\ erased' = erased /\ frames' = Outer /\ status' # "defined"
  BY <1>1, <1>2 DEF lowerLogicalMerge, Fallthrough
<1>7. incoming \in [Blocks -> SUBSET Blocks]
  BY DEF IInv, TypeOK
<1>8. merge \in Blocks
  BY <1>1, InnermostCall
<1> HIDE DEF merge
<1>9. \A p \in Blocks : successors'[p] =
         successors[p] \cup (IF p = insertBlock /\ ~terminated THEN {merge} ELSE {})
  BY <1>6, <1>8, FallthroughFrom
<1>10. \A b \in Blocks : incoming'[b] # incoming[b] =>
          b = merge /\ \A p \in Blocks : p \in incoming'[b] <=> b \in successors'[p]
  <2>1. \A b \in Blocks : b # merge => incoming'[b] = incoming[b]
    BY <1>6, <1>7
  <2>2. incoming'[merge] = {Innermost.back, insertBlock}
    BY <1>6, <1>7, <1>8
  <2>3. \A p \in Blocks : p \in incoming'[merge] <=> merge \in successors'[p]
    BY <1>2, <1>5, <1>9, <2>2
  <2> QED
    BY <2>1, <2>3
<1>11. \A b \in Blocks : incoming'[b] # incoming[b] =>
          b = Innermost.merge /\ \A p \in Blocks : p \in incoming'[b] <=> b \in successors'[p]
  BY <1>10 DEF merge
<1> QED
  BY <1>1, <1>3, <1>5, <1>6, <1>11, FlowPop

LEMMA IfEndNoElseFlow ==
    ASSUME IInv, FlowInv, IInv', generateIfEndNoElse
    PROVE  FlowInv'
<1> DEFINE merge == Innermost.merge
<1>1. status = "open" /\ Part = "then" /\ Innermost.other = NoBlock /\ Depth > 0
  BY Situation DEF generateIfEndNoElse, Part
<1>2. /\ Innermost.part = "then" /\ merge \in Kept /\ merge \notin Awaiting(Outer)
  BY <1>1, InnermostCall
<1>3. Ahead(Innermost) = {} /\ merge \in JumpTargets(Innermost)
  BY <1>1, <1>2 DEF Ahead, JumpTargets
<1>4. /\ Terminate(Fallthrough(merge)) /\ incoming' = incoming
      /\ created' = created /\ erased' = erased /\ frames' = Outer /\ status' # "defined"
  BY <1>1 DEF generateIfEndNoElse
<1> QED
  BY <1>1, <1>2, <1>3, <1>4, FlowPop

LEMMA LoopEndFlow ==
    ASSUME IInv, FlowInv, IInv', generateLoopEnd
    PROVE  FlowInv'
<1> DEFINE back == Innermost.back
<1>1. status = "open" /\ Part = "body" /\ Depth > 0
  BY Situation DEF generateLoopEnd, Part
<1>2. /\ Innermost.part = "body"
      /\ Awaiting(frames) = Awaiting(Outer) \cup Pending(Innermost)
  BY <1>1, InnermostCall
<1>3. FrameFlow(Innermost, Kept, Awaiting(frames), successors, incoming)
  BY <1>1, FlowInnermost
<1>4. /\ Ahead(Innermost) = {} /\ back \in JumpTargets(Innermost)
      /\ back \in Kept /\ back \notin Awaiting(Outer)
  BY <1>2, <1>3 DEF FrameFlow, Ahead, JumpTargets
<1>5. /\ Terminate(Fallthrough(back)) /\ incoming' = incoming
      /\ created' = created /\ erased' = erased /\ frames' = Outer /\ status' # "defined"
  BY <1>1 DEF generateLoopEnd
<1> QED
  BY <1>1, <1>4, <1>5, FlowPop

LEMMA IfEndFlow ==
    ASSUME IInv, FlowInv, IInv', generateIfEnd
    PROVE  FlowInv'
<1> DEFINE merge == Innermost.merge
<1>1. status = "open" /\ Part \in {"else", "elseIfDone"} /\ Depth > 0
  BY Situation DEF generateIfEnd, Part
<1>2. /\ Innermost.part \in {"else", "elseIfDone"}
      /\ merge \in Kept /\ merge \in Blocks /\ merge \notin Awaiting(Outer)
      /\ merge \in Pending(Innermost)
      /\ Awaiting(frames) = Awaiting(Outer) \cup Pending(Innermost)
  BY <1>1, InnermostCall
<1>3. /\ Terminate(Fallthrough(merge)) /\ incoming' = incoming
      /\ created' = created /\ frames' = Outer /\ status' # "defined"
  BY <1>1 DEF generateIfEnd
<1>4. /\ merge \in JumpTargets(Innermost) /\ Pending(Innermost) = {merge}
      /\ \A b \in Ahead(Innermost) : b = merge /\ Innermost.thenTerminated
      /\ Innermost.thenTerminated => merge \in Ahead(Innermost)
  BY <1>2 DEF Ahead, JumpTargets, Pending
<1>5. CASE ~(Innermost.thenTerminated /\ terminated)
  <2>1. erased' = erased
    BY <1>5 DEF generateIfEnd
  <2>2. \A b \in Ahead(Innermost) : b = merge /\ ~terminated
    BY <1>4, <1>5
  <2> QED
    BY <1>1, <1>2, <1>3, <1>4, <2>1, <2>2, FlowPop
<1>6. CASE Innermost.thenTerminated /\ terminated
  <2>1. Kept' = Kept \ {merge}
    BY <1>3, <1>6 DEF generateIfEnd, Kept
  <2>2. /\ StackFlow(Outer, Kept, Awaiting(frames), successors, incoming)
        /\ FrameFlow(Innermost, Kept, Awaiting(frames), successors, incoming)
        /\ AheadOf(frames) = AheadOf(Outer) \cup Ahead(Innermost)
    BY <1>1, FlowInnermost
  <2>3. merge # Entry /\ \A p \in Blocks : merge \notin successors[p]
    BY <1>4, <1>6, <2>2 DEF FrameFlow
  <2>4. PICK P, T : P = (IF terminated THEN {} ELSE {insertBlock}) /\ T = (IF terminated THEN {} ELSE {merge})
    OBVIOUS
  <2>5. P = {} /\ T = {}
    BY <1>6, <2>4
  <2> HIDE DEF merge
  <2>6. JumpsFrom(P, T)
    BY <1>2, <1>3, <2>4, JumpsFallthrough
  <2>7. \A p \in Blocks : successors'[p] = successors[p]
    BY <2>5, <2>6 DEF JumpsFrom
  <2>8. terminators[merge] = 0
    BY <1>1, <1>2, Situation
  <2>9. \A p \in Blocks : p \notin Kept' => p \notin Kept \/ terminators[p] = 0
    BY <2>1, <2>8
  <2>10. (\A p \in Blocks : \A b \in successors[p] : b \in Kept') /\ Entry \in Kept'
    BY <2>1, <2>3 DEF FlowInv, TargetsKept
  <2>11. (\A b \in Blocks : b > created' => incoming'[b] = {}) /\ \A b \in Blocks : incoming'[b] = incoming[b]
    BY <1>3 DEF FlowInv, PhisComplete
  <2>12. StackFlow(Outer, Kept', Awaiting(Outer), successors', incoming')
    <3>1. \A b \in Kept \ Awaiting(frames) : b \in Kept' \ Awaiting(Outer) /\ incoming'[b] = incoming[b]
      BY <1>2, <1>3, <2>1
    <3>2. \A p \in Blocks, b \in Awaiting(Outer) : b \in successors'[p] <=> b \in successors[p]
      BY <2>7
    <3> QED
      BY <2>2, <2>11, <3>1, <3>2, StackFlowKept
  <2>13. \A b \in Kept' : b \notin AheadOf(frames') => b \in Kept /\ b \notin AheadOf(frames)
    BY <1>3, <1>4, <2>1, <2>2 DEF merge
  <2>14. StackFlow(frames', Kept', Awaiting(frames'), successors', incoming')
    BY <1>3, <2>12
  <2>15. /\ T \in SUBSET Blocks /\ P \in SUBSET Blocks
         /\ \A p \in P : p \in Kept'
         /\ \A b \in T : b \in Kept' /\ b # Entry
         /\ \A b \in Blocks : incoming'[b] # {} => incoming'[b] = incoming[b] /\ b \notin T
    BY <2>5, <2>11
  <2> QED
    BY <1>3, <2>6, <2>9, <2>10, <2>11, <2>13, <2>14, <2>15, FlowAssemble
<1> QED
  BY <1>5, <1>6

\* The innermost call goes on, with one block less to await.
LEMMA FlowContinue ==
    ASSUME IInv, FlowInv, IInv', Depth > 0, NEW f \in Frames, frames' = Append(Outer, f),
           created' = created, erased' = erased, incoming' = incoming, status' # "defined",
           Pending(f) \subseteq Pending(Innermost),
           NEW T, T \subseteq JumpTargets(Innermost), T \subseteq Kept,
           \A b \in T : b \notin Awaiting(Outer),
           NEW P \in SUBSET {insertBlock}, JumpsFrom(P, T),
           FrameFlow(f, Kept, Awaiting(Outer) \cup Pending(f), successors', incoming'),
           \A b \in Ahead(Innermost) : b \in Ahead(f) \/ Reached(b, successors')
    PROVE  FlowInv'
<1>1. /\ StackFlow(Outer, Kept, Awaiting(frames), successors, incoming)
      /\ FrameFlow(Innermost, Kept, Awaiting(frames), successors, incoming)
      /\ AheadOf(frames) = AheadOf(Outer) \cup Ahead(Innermost)
  BY FlowInnermost
<1>2. /\ Awaiting(frames) = Awaiting(Outer) \cup Pending(Innermost)
      /\ Outer \in Seq(Frames)
  BY InnermostCall
<1>3. \A b \in T : b \in Blocks /\ b # Entry /\ incoming[b] = {}
  BY <1>1 DEF FrameFlow
<1> HIDE DEF Outer, Innermost
<1>4. Awaiting(frames') = Awaiting(Outer) \cup Pending(f)
  BY <1>2, AwaitingAppend
<1>5. AheadOf(frames') = AheadOf(Outer) \cup Ahead(f)
  BY <1>2, AheadAppend
<1>6. \A p \in Blocks, b \in Awaiting(Outer) : b \in successors'[p] <=> b \in successors[p]
  BY DEF JumpsFrom
<1>7. \A b \in Kept \ Awaiting(frames) : b \in Kept \ Awaiting(frames') /\ incoming'[b] = incoming[b]
  BY <1>2, <1>4
<1>8. StackFlow(Outer, Kept, Awaiting(frames'), successors', incoming')
  BY <1>1, <1>6, <1>7, StackFlowKept
<1>9. FrameFlow(f, Kept, Awaiting(frames'), successors', incoming')
  BY <1>4
<1>10. StackFlow(Append(Outer, f), Kept, Awaiting(frames'), successors', incoming')
  BY <1>2, <1>8, <1>9, StackFlowAppend
<1>11. StackFlow(frames', Kept, Awaiting(frames'), successors', incoming')
  BY <1>10
<1>12. \A b \in Kept : b \notin AheadOf(frames') => b \notin AheadOf(frames) \/ Reached(b, successors')
  BY <1>1, <1>5
<1>13. /\ T \in SUBSET Blocks
       /\ \A b \in T : b \in Kept /\ b # Entry
       /\ \A b \in Blocks : b > created => incoming'[b] = {}
       /\ \A b \in Blocks : incoming'[b] # {} => incoming'[b] = incoming[b] /\ b \notin T
  BY <1>3 DEF FlowInv, PhisComplete
<1> QED
  BY <1>11, <1>12, <1>13, FlowMove

LEMMA ElseFlow ==
    ASSUME IInv, FlowInv, IInv', NEW kind \in {"else", "elseIf"}, generateElse(kind)
    PROVE  FlowInv'
<1> DEFINE f == [Innermost EXCEPT !.part = kind, !.thenTerminated = terminated,
                                  !.thenReturns = returns]
           merge == Innermost.merge
<1>1. status = "open" /\ Part = "then" /\ Innermost.other # NoBlock /\ Depth > 0
  BY Situation DEF generateElse, Part
<1>2. /\ Innermost \in Frames /\ Innermost.part = "then" /\ merge \in Kept /\ merge \in Blocks
      /\ merge \notin Awaiting(Outer) /\ merge \in Pending(Innermost)
      /\ Awaiting(frames) = Awaiting(Outer) \cup Pending(Innermost)
      /\ \A g \in Frames : [frames EXCEPT ![Depth] = g] = Append(Outer, g)
  BY <1>1, InnermostCall
<1>3. FrameFlow(Innermost, Kept, Awaiting(frames), successors, incoming)
  BY <1>1, FlowInnermost
<1>4. terminated \in BOOLEAN /\ returns = terminated
  BY Situation
<1>5. f \in Frames /\ f.merge = merge /\ f.part = kind /\ f.thenTerminated = terminated
  BY <1>2, <1>4 DEF Frames
<1>6. frames' = [frames EXCEPT ![Depth] = f]
  BY DEF generateElse, Innermost
<1>7. frames' = Append(Outer, f)
  BY <1>2, <1>5, <1>6
<1>8. /\ Terminate(Fallthrough(merge)) /\ status' # "defined"
      /\ created' = created /\ erased' = erased /\ incoming' = incoming
  BY <1>1 DEF generateElse
<1> HIDE DEF f
<1>9. /\ Pending(f) = {merge} /\ JumpTargets(f) = {merge}
      /\ Ahead(f) = IF terminated THEN {merge} ELSE {}
  BY <1>5 DEF Pending, JumpTargets, Ahead
<1>10. Ahead(Innermost) = {merge} /\ JumpTargets(Innermost) = {merge}
  BY <1>1, <1>2 DEF Ahead, JumpTargets, Pending
<1> HIDE DEF merge
<1>11. PICK P, T : P = (IF terminated THEN {} ELSE {insertBlock}) /\ T = (IF terminated THEN {} ELSE {merge})
  OBVIOUS
<1>12. JumpsFrom(P, T)
  BY <1>2, <1>8, <1>11, JumpsFallthrough
<1>13. /\ terminated => \A p \in Blocks : successors'[p] = successors[p]
       /\ ~terminated => merge \in successors'[insertBlock]
       /\ P \in SUBSET {insertBlock} /\ T \in SUBSET {merge}
  BY <1>2, <1>8, <1>11, JumpsFallthrough
<1>14. FrameFlow(f, Kept, Awaiting(Outer) \cup Pending(f), successors', incoming')
  <2>1. \A b \in JumpTargets(f) : b \in Blocks \ {Entry} /\ incoming'[b] = {}
    BY <1>3, <1>8, <1>9, <1>10 DEF FrameFlow
  <2>2. \A b \in Ahead(f), p \in Blocks : b \notin successors'[p]
    BY <1>3, <1>9, <1>10, <1>13 DEF FrameFlow
  <2> QED
    BY <1>5, <2>1, <2>2 DEF FrameFlow
<1>15. \A b \in Ahead(Innermost) : b \in Ahead(f) \/ Reached(b, successors')
  <2>1. Reached(insertBlock, successors')
    BY <1>12, InsertionReached, ReachedMore DEF JumpsFrom
  <2>2. ~terminated => Reached(merge, successors')
    BY <1>13, <2>1, ReachedNext
  <2> QED
    BY <1>9, <1>10, <2>2
<1>16. /\ Pending(f) \subseteq Pending(Innermost)
       /\ T \subseteq JumpTargets(Innermost) /\ T \subseteq Kept
       /\ \A b \in T : b \notin Awaiting(Outer)
  BY <1>2, <1>9, <1>10, <1>13
<1> QED
  BY <1>1, <1>5, <1>7, <1>8, <1>12, <1>13, <1>14, <1>15, <1>16, FlowContinue

LEMMA WhileBodyFlow ==
    ASSUME IInv, FlowInv, IInv', generateWhileBody
    PROVE  FlowInv'
<1> DEFINE f == [Innermost EXCEPT !.part = "body"]
<1> PICK merge, other : merge = Innermost.merge /\ other = Innermost.other
  OBVIOUS
<1>1. status = "open" /\ Part = "condition" /\ Depth > 0
  BY Situation DEF generateWhileBody, Part
<1>2. /\ Innermost \in Frames /\ FrameOK(Innermost, Kept) /\ Innermost.part = "condition"
      /\ merge \in Kept /\ merge \notin Awaiting(Outer) /\ merge \in Blocks
      /\ Awaiting(frames) = Awaiting(Outer) \cup Pending(Innermost)
      /\ Pending(Innermost) \cap Awaiting(Outer) \subseteq {NoBlock}
      /\ \A g \in Frames : [frames EXCEPT ![Depth] = g] = Append(Outer, g)
  BY <1>1, InnermostCall
<1>3. other \in Kept /\ other # NoBlock /\ other \in Blocks
  BY <1>2, Situation DEF FrameOK, Blocks
<1>4. FrameFlow(Innermost, Kept, Awaiting(frames), successors, incoming)
  BY <1>1, FlowInnermost
<1>5. f \in Frames /\ f.merge = merge /\ f.part = "body" /\ f.back = Innermost.back
  BY <1>2 DEF Frames
<1>6. frames' = [frames EXCEPT ![Depth] = f]
  BY DEF generateWhileBody, Innermost
<1>7. frames' = Append(Outer, f)
  BY <1>2, <1>5, <1>6
<1>8. PICK T : T = {other, merge}
  OBVIOUS
<1>9. /\ Terminate({<<insertBlock, T>>}) /\ status' # "defined"
      /\ created' = created /\ erased' = erased /\ incoming' = incoming
  BY <1>1, <1>8 DEF generateWhileBody
<1> HIDE DEF f
<1>10. T \in SUBSET Blocks /\ insertBlock \in Blocks /\ {insertBlock} \in SUBSET {insertBlock}
  BY <1>2, <1>3, <1>8, Situation
<1>11. /\ JumpsFrom({insertBlock}, T)
       /\ \A p \in Blocks : successors'[p] = successors[p] \cup (IF p = insertBlock THEN T ELSE {})
  BY <1>9, <1>10, JumpsOne
<1>12. /\ Pending(f) = {merge} /\ JumpTargets(f) = {merge, f.back} /\ Ahead(f) = {}
       /\ Pending(Innermost) = {merge, other}
       /\ JumpTargets(Innermost) = {merge, other, Innermost.back}
       /\ \A b \in Ahead(Innermost) : b \in T
  BY <1>2, <1>5, <1>8 DEF Pending, JumpTargets, Ahead
<1>13. FrameFlow(f, Kept, Awaiting(Outer) \cup Pending(f), successors', incoming')
  <2>1. \A b \in JumpTargets(f) : b \in Blocks \ {Entry} /\ incoming'[b] = {}
    BY <1>4, <1>5, <1>9, <1>12 DEF FrameFlow
  <2>2. f.back \in Kept \ (Awaiting(Outer) \cup Pending(f))
    BY <1>2, <1>4, <1>5, <1>12 DEF FrameFlow
  <2> QED
    BY <1>5, <1>12, <2>1, <2>2 DEF FrameFlow
<1>14. \A b \in Ahead(Innermost) : b \in Ahead(f) \/ Reached(b, successors')
  <2>1. Reached(insertBlock, successors')
    BY <1>11, InsertionReached, ReachedMore DEF JumpsFrom
  <2>2. \A b \in T : Reached(b, successors')
    BY <1>10, <1>11, <2>1, ReachedNext
  <2> QED
    BY <1>12, <2>2
<1>15. /\ Pending(f) \subseteq Pending(Innermost)
       /\ T \subseteq JumpTargets(Innermost) /\ T \subseteq Kept
       /\ \A b \in T : b \notin Awaiting(Outer)
  BY <1>2, <1>3, <1>8, <1>12
<1> QED
  BY <1>1, <1>5, <1>7, <1>9, <1>10, <1>11, <1>13, <1>14, <1>15, FlowContinue

----------------------------------------------------------------------------
(* The end of the function, and every step together *)

LEMMA DefineFlow ==
    ASSUME IInv, FlowInv, IInv', NEW isUnit \in BOOLEAN, defineFunction(isUnit)
    PROVE  FlowInv'
<1>1. /\ created' = created /\ erased' = erased /\ incoming' = incoming /\ frames' = frames
      /\ status = "open" /\ Depth = 0
  BY DEF defineFunction
<1>2. Kept' = Kept
  BY <1>1 DEF Kept
<1>3. frames = <<>> /\ Awaiting(frames) = {}
  <2>1. frames \in Seq(Frames) /\ Len(frames) = 0
    BY <1>1, Situation DEF Depth
  <2>2. frames = <<>>
    BY <2>1, EmptySeq
  <2> QED
    BY <2>2, EmptyStack
<1>4. \A b \in Kept : terminators[b] = IF b = insertBlock /\ ~terminated THEN 0 ELSE 1
  BY <1>1, <1>3, Situation
<1>5. CASE terminators' = terminators /\ successors' = successors
  <2>1. status' = "defined" => terminated
    <3>1. insertBlock \in Blocks /\ terminators[insertBlock] \in Nat
      BY Situation
    <3>2. CASE ~terminated /\ status' = "defined"
      <4>1. PICK T : T = {}
        OBVIOUS
      <4>2. Terminate({<<insertBlock, T>>}) /\ T \in SUBSET Blocks
        BY <3>2, <4>1 DEF defineFunction
      <4>3. terminators'[insertBlock] # 0
        BY <3>1, <4>2, BranchFrom
      <4>4. terminators[insertBlock] = 0
        BY <1>4, <3>2, Situation
      <4> QED
        BY <1>5, <4>3, <4>4
    <3> QED
      BY <3>2
  <2>2. StackFlow(frames', Kept', Awaiting(frames'), successors', incoming')
    BY <1>1, <1>2, <1>5 DEF FlowInv
  <2>3. TargetsKept' /\ PhisComplete'
    BY <1>1, <1>2, <1>5 DEF FlowInv, TargetsKept, PhisComplete
  <2>4. BlocksReached'
    BY <1>1, <1>2, <1>5 DEF FlowInv, BlocksReached
  <2>5. status' = "defined" => frames' = <<>> /\ \A b \in Kept' : terminators'[b] = 1
    BY <1>1, <1>2, <1>3, <1>4, <1>5, <2>1
  <2> QED
    BY <2>2, <2>3, <2>4, <2>5 DEF FlowInv
<1>6. CASE ~(terminators' = terminators /\ successors' = successors)
  <2>1. PICK T : T = {}
    OBVIOUS
  <2>2. PICK P : P = {insertBlock}
    OBVIOUS
  <2>3. Terminate({<<insertBlock, T>>}) /\ ~terminated
    BY <1>6, <2>1 DEF defineFunction
  <2>4. T \in SUBSET Blocks /\ insertBlock \in Blocks /\ insertBlock \in Kept
    BY <2>1, Situation
  <2>5. /\ JumpsFrom({insertBlock}, T)
        /\ \A p \in Blocks : successors'[p] = successors[p] \cup (IF p = insertBlock THEN T ELSE {})
    BY <2>3, <2>4, JumpsOne
  <2>6. \A b \in Blocks : terminators'[b] = terminators[b] + (IF b = insertBlock THEN 1 ELSE 0)
    BY <2>3, <2>4, TerminateOne
  <2>7. frames' = <<>> /\ \A b \in Kept' : terminators'[b] = 1
    <3>1. \A b \in Kept : b \in Blocks
      BY Situation DEF Blocks
    <3> QED
      BY <1>1, <1>2, <1>3, <1>4, <2>3, <2>6, <3>1
  <2>8. StackFlow(frames', Kept', Awaiting(frames'), successors', incoming')
    <3>1. frames' = <<>>
      BY <2>7
    <3> QED
      BY <3>1 DEF StackFlow
  <2>9. JumpsFrom(P, T)
    BY <2>2, <2>5
  <2>10. /\ P \in SUBSET Blocks
         /\ \A p \in P : p \in Kept'
         /\ \A b \in T : b \in Kept' /\ b # Entry
         /\ \A p \in Blocks : p \notin Kept' => p \notin Kept
         /\ \A b \in Blocks : b > created' => incoming'[b] = {}
         /\ \A b \in Blocks : incoming'[b] # {} => incoming'[b] = incoming[b] /\ b \notin T
    BY <1>1, <1>2, <2>1, <2>2, <2>4 DEF FlowInv, PhisComplete
  <2>11. (\A p \in Blocks : \A b \in successors[p] : b \in Kept') /\ Entry \in Kept'
    BY <1>2 DEF FlowInv, TargetsKept
  <2>12. \A b \in Kept' : b \notin AheadOf(frames') => b \in Kept /\ b \notin AheadOf(frames)
    BY <1>1, <1>2
  <2> QED
    BY <2>4, <2>7, <2>8, <2>9, <2>10, <2>11, <2>12, FlowAssemble
<1> QED
  BY <1>5, <1>6

LEMMA FlowInit == Init => FlowInv
<1> SUFFICES ASSUME Init PROVE FlowInv
  OBVIOUS
<1>1. /\ frames = <<>> /\ Kept = {Entry} /\ created = 1 /\ status = "open"
      /\ \A b \in Blocks : successors[b] = {} /\ incoming[b] = {}
  BY DEF Init, Kept, Entry
<1>2. StackFlow(frames, Kept, Awaiting(frames), successors, incoming)
  BY <1>1 DEF StackFlow
<1>3. TargetsKept /\ PhisComplete
  BY <1>1 DEF TargetsKept, PhisComplete
<1>4. BlocksReached
  BY <1>1, ReachedEntry DEF BlocksReached
<1> QED
  BY <1>1, <1>2, <1>3, <1>4 DEF FlowInv

LEMMA FlowStep ==
    ASSUME IInv, FlowInv, [Next]_vars, IInv'
    PROVE  FlowInv'
<1>1. CASE generateReturnStmt
  BY <1>1, ReturnFlow
<1>2. CASE LoweringFails
  BY <1>2, FailFlow
<1>3. CASE lowerLogicalRight
  BY <1>3, LogicalRightFlow
<1>4. CASE lowerLogicalMerge
  BY <1>4, LogicalMergeFlow
<1>5. ASSUME NEW alternative \in {"none", "else"}, generateIfStmt(alternative) PROVE FlowInv'
  BY <1>5, IfFlow
<1>6. ASSUME NEW kind \in {"else", "elseIf"}, generateElse(kind) PROVE FlowInv'
  BY <1>6, ElseFlow
<1>7. CASE generateIfEndNoElse
  BY <1>7, IfEndNoElseFlow
<1>8. CASE generateIfEnd
  BY <1>8, IfEndFlow
<1>9. CASE generateWhileStmt
  BY <1>9, WhileFlow
<1>10. CASE generateWhileBody
  BY <1>10, WhileBodyFlow
<1>11. CASE generateForStmt
  BY <1>11, ForFlow
<1>12. CASE generateLoopEnd
  BY <1>12, LoopEndFlow
<1>13. ASSUME NEW isUnit \in BOOLEAN, defineFunction(isUnit) PROVE FlowInv'
  BY <1>13, DefineFlow
<1>14. CASE lowerCheckedIndexBounds
  BY <1>14, IndexBoundsFlow
<1>15. CASE UNCHANGED vars
  BY <1>15, FlowSame DEF vars, graph
<1> QED
  BY <1>1, <1>2, <1>3, <1>4, <1>5, <1>6, <1>7, <1>8, <1>9, <1>10, <1>11, <1>12, <1>13, <1>14, <1>15
     DEF Next

LEMMA FlowInvariance == Spec => [](IInv /\ FlowInv)
<1>1. Init => IInv /\ FlowInv
  BY InvInit, FlowInit
<1>2. (IInv /\ FlowInv) /\ [Next]_vars => (IInv /\ FlowInv)'
  BY InvStep, FlowStep
<1> QED
  BY <1>1, <1>2, PTL DEF Spec

----------------------------------------------------------------------------
(* Recursion over the length of a path *)

\* The least-number principle, for a set instead of a predicate.
LEMMA LeastNumber ==
    ASSUME NEW T \in SUBSET Nat, T # {}
    PROVE  \E m \in T : \A k \in T : m <= k
<1> DEFINE R == {p \in Nat \X Nat : p[1] < p[2]}
<1>1. IsWellFoundedOn(R, Nat)
  BY NatLessThanWellFounded DEF OpToRel
<1>2. \A x, y \in Nat : <<x, y>> \in R <=> x < y
  OBVIOUS
<1> HIDE DEF R
<1>3. PICK m \in T : \A k \in T : <<k, m>> \notin R
  BY <1>1, WFMin
<1>4. \A k \in T : ~(k < m)
  BY <1>2, <1>3
<1> QED
  BY <1>4

\* The step functions, and the values up to n they unroll to.
Steps(n, S) == [(1..n) \X S -> S]

Unrolled(n, S, c, F) ==
    {f \in [0..n -> S] : f[0] = c /\ \A k \in 1..n : f[k] = F[<<k, f[k - 1]>>]}

\* What is defined from a first value and a step from each to the next exists.
\* Counting from 0 to n inside a set that has 0 and, with each number, the next.
LEMMA CountingUp ==
    ASSUME NEW n \in Nat, NEW G, 0 \in G, \A k \in 1..n : k - 1 \in G => k \in G
    PROVE  \A k \in 0..n : k \in G
<1> DEFINE T == {k \in 0..n : k \notin G}
<1> SUFFICES ASSUME T # {} PROVE FALSE
  OBVIOUS
<1>1. T \in SUBSET Nat
  OBVIOUS
<1>2. PICK m \in T : \A k \in T : m <= k
  <2> HIDE DEF T
  <2> QED
    BY <1>1, LeastNumber
<1>3. m \in 1..n /\ m \notin G
  OBVIOUS
<1>4. m - 1 \in 0..n /\ ~(m <= m - 1)
  BY <1>3
<1>5. m - 1 \notin T
  BY <1>2, <1>4
<1> QED
  BY <1>3, <1>4, <1>5

\* What is defined from a first value and a step from each to the next exists.
LEMMA BoundedRecursion ==
    ASSUME NEW n \in Nat, NEW S, NEW c \in S, NEW F \in Steps(n, S)
    PROVE  Unrolled(n, S, c, F) # {}
<1> DEFINE Upto(m, f) == f[0] = c /\ \A k \in 1..m : f[k] = F[<<k, f[k - 1]>>]
           G == {m \in 0..n : \E f \in [0..m -> S] : Upto(m, f)}
<1>1. 0 \in G
  <2>1. [i \in 0..0 |-> c] \in [0..0 -> S] /\ Upto(0, [i \in 0..0 |-> c])
    OBVIOUS
  <2>2. \E f \in [0..0 -> S] : Upto(0, f)
    BY <2>1
  <2>3. 0 \in 0..n
    OBVIOUS
  <2> HIDE DEF Upto
  <2> QED
    BY <2>2, <2>3
<1>2. ASSUME NEW m \in 1..n, m - 1 \in G
      PROVE  m \in G
  <2>1. PICK f \in [0..(m - 1) -> S] : Upto(m - 1, f)
    BY <1>2
  <2>2. f[m - 1] \in S /\ F[<<m, f[m - 1]>>] \in S
    BY DEF Steps
  <2> DEFINE g == [i \in 0..m |-> IF i < m THEN f[i] ELSE F[<<m, f[m - 1]>>]]
  <2>3. g \in [0..m -> S]
    BY <2>2
  <2>4. \A i \in 0..(m - 1) : g[i] = f[i]
    OBVIOUS
  <2>5. g[m] = F[<<m, f[m - 1]>>]
    OBVIOUS
  <2>6. \A k \in 1..m : g[k] = F[<<k, g[k - 1]>>]
    <3> HIDE DEF g
    <3> TAKE k \in 1..m
    <3>1. k - 1 \in 0..(m - 1) /\ (k = m \/ k \in 1..(m - 1))
      OBVIOUS
    <3>2. CASE k = m
      BY <2>4, <2>5, <3>1, <3>2
    <3>3. CASE k \in 1..(m - 1)
      <4>1. f[k] = F[<<k, f[k - 1]>>]
        BY <2>1, <3>3
      <4>2. k \in 0..(m - 1)
        BY <3>3
      <4> QED
        BY <2>4, <3>1, <4>1, <4>2
    <3> QED
      BY <3>1, <3>2, <3>3
  <2>7. g[0] = c
    BY <2>1, <2>4
  <2> HIDE DEF g
  <2> QED
    BY <2>3, <2>6, <2>7
<1>3. n \in G
  <2>1. \A k \in 1..n : k - 1 \in G => k \in G
    BY <1>2
  <2> HIDE DEF G
  <2>2. \A k \in 0..n : k \in G
    BY <1>1, <2>1, CountingUp
  <2> QED
    BY <2>2
<1>4. PICK f \in [0..n -> S] : Upto(n, f)
  BY <1>3
<1>5. f \in Unrolled(n, S, c, F)
  BY <1>4 DEF Unrolled
<1> QED
  BY <1>5

\* The blocks of X, and what they jump to.
WithTargets(X) == X \cup UNION {successors[b] : b \in X}

\* The recursive definition means what it says.
LEMMA Paths ==
    TypeOK => /\ InJumps[0] = {Entry}
              /\ \A n \in 1..MaxBlocks : InJumps[n] = WithTargets(InJumps[n - 1])
<1> SUFFICES ASSUME TypeOK
             PROVE  /\ InJumps[0] = {Entry}
                    /\ \A n \in 1..MaxBlocks : InJumps[n] = WithTargets(InJumps[n - 1])
  OBVIOUS
<1>1. MaxBlocks \in Nat /\ Entry \in Blocks /\ successors \in [Blocks -> SUBSET Blocks]
  BY LoweringBounds DEF TypeOK, Blocks, Entry
<1>2. InJumps = [n \in 0..MaxBlocks |-> IF n = 0 THEN {Entry} ELSE WithTargets(InJumps[n - 1])]
  <2> DEFINE S == SUBSET Blocks
             Step == [x \in (1..MaxBlocks) \X S |-> WithTargets(x[2])]
  <2>1. \A X \in S : WithTargets(X) \in S
    BY <1>1 DEF WithTargets
  <2>2. {Entry} \in S
    BY <1>1
  <2>3. \A k \in 1..MaxBlocks, X \in S : Step[<<k, X>>] = WithTargets(X)
    OBVIOUS
  <2> HIDE DEF S
  <2>4. Step \in Steps(MaxBlocks, S)
    <3>1. \A x \in (1..MaxBlocks) \X S : WithTargets(x[2]) \in S
      BY <2>1
    <3> QED
      BY <3>1 DEF Steps
  <2> HIDE DEF Step
  <2>5. Unrolled(MaxBlocks, S, {Entry}, Step) # {}
    <3>1. PICK c : c = {Entry}
      OBVIOUS
    <3> QED
      BY <1>1, <2>2, <2>4, <3>1, BoundedRecursion
  <2>6. PICK f \in [0..MaxBlocks -> S] :
           f[0] = {Entry} /\ \A k \in 1..MaxBlocks : f[k] = Step[<<k, f[k - 1]>>]
    BY <2>5 DEF Unrolled
  <2>7. \A k \in 0..MaxBlocks : f[k] = IF k = 0 THEN {Entry} ELSE WithTargets(f[k - 1])
    <3> TAKE k \in 0..MaxBlocks
    <3>1. CASE k = 0
      BY <2>6, <3>1
    <3>2. CASE k # 0
      <4>1. k \in 1..MaxBlocks /\ k - 1 \in 0..MaxBlocks
        BY <1>1, <3>2
      <4> QED
        BY <2>3, <2>6, <3>2, <4>1
    <3> QED
      BY <3>1, <3>2
  <2>8. f = [k \in 0..MaxBlocks |-> IF k = 0 THEN {Entry} ELSE WithTargets(f[k - 1])]
    BY <2>6, <2>7
  <2> QED
    BY <2>8 DEF InJumps, WithTargets
<1>3. 0 \in 0..MaxBlocks /\ \A n \in 1..MaxBlocks : n \in 0..MaxBlocks /\ n # 0
  BY <1>1
<1> QED
  BY <1>2, <1>3

\* Each number of jumps stays inside a set that the targets do not leave.
LEMMA PathsStay ==
    ASSUME TypeOK, NEW K, Entry \in K, \A p \in K : successors[p] \subseteq K
    PROVE  \A n \in 0..MaxBlocks : InJumps[n] \subseteq K /\ Entry \in InJumps[n]
<1> DEFINE G == {n \in 0..MaxBlocks : InJumps[n] \subseteq K /\ Entry \in InJumps[n]}
<1>1. /\ InJumps[0] = {Entry}
      /\ \A n \in 1..MaxBlocks : InJumps[n] = WithTargets(InJumps[n - 1])
  BY Paths
<1>2. MaxBlocks \in Nat
  BY LoweringBounds
<1>3. 0 \in G
  <2>1. 0 \in 0..MaxBlocks
    BY <1>2
  <2>2. InJumps[0] \subseteq K /\ Entry \in InJumps[0]
    BY <1>1
  <2>3. \A n \in 0..MaxBlocks : InJumps[n] \subseteq K /\ Entry \in InJumps[n] => n \in G
    OBVIOUS
  <2> HIDE DEF G
  <2> QED
    BY <2>1, <2>2, <2>3
<1>4. ASSUME NEW n \in 1..MaxBlocks, n - 1 \in G
      PROVE  n \in G
  <2>1. PICK X : X = InJumps[n - 1] /\ X \subseteq K /\ Entry \in X
    BY <1>4
  <2>2. InJumps[n] = WithTargets(X) /\ n \in 0..MaxBlocks
    BY <1>1, <2>1
  <2>3. WithTargets(X) \subseteq K /\ Entry \in WithTargets(X)
    BY <2>1 DEF WithTargets
  <2> QED
    BY <2>2, <2>3
<1> HIDE DEF G
<1>5. \A n \in 0..MaxBlocks : n \in G
  BY <1>2, <1>3, <1>4, CountingUp
<1> QED
  BY <1>5 DEF G

\* A set of blocks that the targets do not leave.
NoWayOut(X) == \A p \in X : successors[p] \subseteq X

\* Each jump reaches a block more, until none is left to reach.
LEMMA PathsGrow ==
    ASSUME TypeOK
    PROVE  \A n \in 0..MaxBlocks : NoWayOut(InJumps[n]) \/ Cardinality(InJumps[n]) >= n + 1
<1> DEFINE G == {n \in 0..MaxBlocks : NoWayOut(InJumps[n]) \/ Cardinality(InJumps[n]) >= n + 1}
<1>1. /\ InJumps[0] = {Entry}
      /\ \A n \in 1..MaxBlocks : InJumps[n] = WithTargets(InJumps[n - 1])
  BY Paths
<1>2. MaxBlocks \in Nat /\ Entry \in Blocks /\ \A p \in Blocks : successors[p] \subseteq Blocks
  BY LoweringBounds DEF TypeOK, Blocks, Entry
<1>3. \A n \in 0..MaxBlocks : InJumps[n] \subseteq Blocks
  BY <1>2, PathsStay
<1>4. IsFiniteSet(Blocks) /\ Cardinality(Blocks) = MaxBlocks
  <2>1. /\ IsFiniteSet(1..MaxBlocks)
        /\ Cardinality(1..MaxBlocks) = IF 1 > MaxBlocks THEN 0 ELSE MaxBlocks - 1 + 1
    BY <1>2, FS_Interval
  <2> QED
    BY <1>2, <2>1 DEF Blocks
<1>5. 0 \in G
  <2>1. 0 \in 0..MaxBlocks
    BY <1>2
  <2>2. Cardinality({Entry}) = 1
    BY FS_Singleton
  <2>3. Cardinality(InJumps[0]) >= 0 + 1
    BY <1>1, <2>2
  <2> QED
    BY <2>1, <2>3
<1>6. ASSUME NEW n \in 1..MaxBlocks, n - 1 \in G
      PROVE  n \in G
  <2>1. PICK X : X = InJumps[n - 1]
    OBVIOUS
  <2>2. PICK Y : Y = InJumps[n]
    OBVIOUS
  <2>3. n \in 0..MaxBlocks /\ n - 1 \in 0..MaxBlocks /\ n \in Nat
    BY <1>2
  <2>4. Y = WithTargets(X) /\ X \subseteq Blocks /\ Y \subseteq Blocks
    BY <1>1, <1>3, <2>1, <2>2, <2>3
  <2>5. NoWayOut(X) \/ Cardinality(X) >= n
    <3>1. NoWayOut(X) \/ Cardinality(X) >= (n - 1) + 1
      BY <1>6, <2>1
    <3>2. (n - 1) + 1 = n
      BY <2>3
    <3> QED
      BY <3>1, <3>2
  <2> HIDE DEF G
  <2>6. CASE NoWayOut(X)
    <3>1. Y = X
      BY <2>4, <2>6 DEF NoWayOut, WithTargets
    <3> QED
      BY <2>2, <2>3, <2>6, <3>1 DEF G
  <2>7. CASE ~NoWayOut(X) /\ Cardinality(X) >= n
    <3>1. PICK p \in X : \E b \in successors[p] : b \notin X
      BY <2>7 DEF NoWayOut
    <3>9. PICK b \in successors[p] : b \notin X
      BY <3>1
    <3>2. b \in Y /\ X \subseteq Y
      BY <2>4, <3>1, <3>9 DEF WithTargets
    <3>3. IsFiniteSet(X) /\ IsFiniteSet(Y)
      BY <1>4, <2>4, FS_Subset
    <3>4. Cardinality(X \cup {b}) = Cardinality(X) + 1
      BY <3>9, <3>3, FS_AddElement
    <3>5. X \cup {b} \in SUBSET Y
      BY <3>2
    <3>6. Cardinality(X \cup {b}) <= Cardinality(Y)
      BY <3>3, <3>5, FS_Subset
    <3>7. Cardinality(X) \in Nat /\ Cardinality(Y) \in Nat
      BY <3>3, FS_CardinalityType
    <3>8. Cardinality(Y) >= n + 1
      BY <2>3, <2>7, <3>4, <3>6, <3>7
    <3> QED
      BY <2>2, <2>3, <3>8 DEF G
  <2> QED
    BY <2>5, <2>6, <2>7
<1> HIDE DEF G
<1>7. \A n \in 0..MaxBlocks : n \in G
  BY <1>2, <1>5, <1>6, CountingUp
<1> QED
  BY <1>7 DEF G

\* MaxBlocks jumps are enough: Reachable is what Reached says.
LEMMA ReachableClosed ==
    ASSUME TypeOK
    PROVE  Reachable \in SUBSET Blocks /\ Closed(Reachable, successors)
<1>1. MaxBlocks \in Nat /\ Entry \in Blocks /\ \A p \in Blocks : successors[p] \subseteq Blocks
  BY LoweringBounds DEF TypeOK, Blocks, Entry
<1>2. MaxBlocks \in 0..MaxBlocks
  BY <1>1
<1>3. Reachable \subseteq Blocks /\ Entry \in Reachable
  BY <1>1, <1>2, PathsStay DEF Reachable
<1>4. Cardinality(Reachable) \in Nat /\ Cardinality(Reachable) <= MaxBlocks
  <2>1. /\ IsFiniteSet(1..MaxBlocks)
        /\ Cardinality(1..MaxBlocks) = IF 1 > MaxBlocks THEN 0 ELSE MaxBlocks - 1 + 1
    BY <1>1, FS_Interval
  <2>2. Cardinality(1..MaxBlocks) = MaxBlocks
    BY <1>1, <2>1
  <2>3. Reachable \in SUBSET (1..MaxBlocks)
    BY <1>3 DEF Blocks
  <2>4. IsFiniteSet(Reachable) /\ Cardinality(Reachable) <= Cardinality(1..MaxBlocks)
    BY <2>1, <2>3, FS_Subset
  <2> QED
    BY <2>2, <2>4, FS_CardinalityType
<1>5. NoWayOut(Reachable) \/ Cardinality(Reachable) >= MaxBlocks + 1
  BY <1>2, PathsGrow DEF Reachable
<1>6. NoWayOut(Reachable)
  BY <1>1, <1>4, <1>5
<1> QED
  BY <1>3, <1>6 DEF Closed, NoWayOut

\* The function the verifier is handed is well formed: control reaches every kept
\* block and no erased one, nothing jumps back to the entry, each block ends in
\* one terminator, and a phi has one incoming value per predecessor.
THEOREM FunctionsAreWellFormed == Spec => []WellFormedFunction
<1>1. IInv /\ FlowInv => WellFormedFunction
  <2> SUFFICES ASSUME IInv, FlowInv, status = "defined"
               PROVE  /\ \A b \in Kept : terminators[b] = 1
                      /\ Reachable = Kept
                      /\ Predecessors(Entry) = {}
                      /\ \A b \in Kept : incoming[b] # {} => incoming[b] = Predecessors(b)
    BY DEF WellFormedFunction
  <2>1. /\ TypeOK /\ frames = <<>> /\ \A b \in Kept : terminators[b] = 1
        /\ TargetsKept /\ PhisComplete /\ BlocksReached
    BY DEF IInv, FlowInv
  <2>2. \A b \in Kept : b \in Blocks
    BY Situation DEF Blocks
  <2>3. Kept \subseteq Reachable
    <3>1. AheadOf(frames) = {}
      BY <2>1 DEF AheadOf
    <3>2. \A b \in Kept : Reached(b, successors)
      BY <2>1, <3>1 DEF BlocksReached
    <3> QED
      BY <2>1, <3>2, ReachableClosed DEF Reached
  <2>4. Reachable \subseteq Kept
    <3>1. Entry \in Kept /\ \A p \in Kept : successors[p] \subseteq Kept
      BY <2>1, <2>2 DEF TargetsKept
    <3>2. MaxBlocks \in 0..MaxBlocks
      BY LoweringBounds
    <3> QED
      BY <2>1, <3>1, <3>2, PathsStay DEF Reachable
  <2>5. Predecessors(Entry) = {}
    BY <2>1, <2>2 DEF Predecessors, TargetsKept
  <2>6. ASSUME NEW b \in Kept, incoming[b] # {}
        PROVE  incoming[b] = Predecessors(b)
    <3>1. \A p \in Blocks : p \in incoming[b] <=> b \in successors[p]
      BY <2>1, <2>2, <2>6 DEF PhisComplete
    <3>2. incoming[b] \subseteq Blocks
      BY <2>1, <2>2 DEF TypeOK
    <3>3. \A p \in Blocks : b \in successors[p] => p \in Kept
      BY <2>1 DEF TargetsKept
    <3> QED
      BY <2>2, <3>1, <3>2, <3>3 DEF Predecessors
  <2> QED
    BY <2>1, <2>3, <2>4, <2>5, <2>6
<1> QED
  BY <1>1, FlowInvariance, PTL

----------------------------------------------------------------------------
(* RangeLoop for every set of element types and every bound on the writes. *)

\* Why the increment cannot wrap: it is only reached below the end, which is
\* itself a value of the type.
LEMMA IncrementIsPlusOne ==
    ASSUME NEW t \in Types, NEW a \in Bits(t), NEW b \in Bits(t), Below(t, a, b)
    PROVE  /\ Increment(t, a) \in Bits(t)
           /\ Value(t, Increment(t, a)) = Value(t, a) + 1
<1>1. t.half \in Nat \ {0} /\ t.signed \in BOOLEAN
  BY TypesAssumption
<1>2. CASE t.signed
  BY <1>1, <1>2 DEF Bits, Below, Value, Increment
<1>3. CASE ~t.signed
  BY <1>1, <1>3 DEF Bits, Below, Value, Increment
<1> QED
  BY <1>1, <1>2, <1>3

LEMMA ValueIsInteger ==
    ASSUME NEW t \in Types, NEW b \in Bits(t)
    PROVE  Value(t, b) \in Int
<1>1. t.half \in Nat \ {0}
  BY TypesAssumption
<1> QED
  BY <1>1 DEF Bits, Value

----------------------------------------------------------------------------
(* CountsTheRange is inductive once the condition block is known to be entered *)
(* again only at or below the end.                                             *)

AtOrBelowTheEnd ==
    /\ ~Started => iterations = 0
    /\ phase = "condition" /\ iterations # 0 => Current <= Last

CountingInv == LoopTypeOK /\ CountsTheRange /\ AtOrBelowTheEnd

LEMMA CountingInit == LoopInit => CountingInv
<1> SUFFICES ASSUME LoopInit PROVE CountingInv
  OBVIOUS
<1>1. type \in Types /\ type.half \in Nat \ {0}
  BY TypesAssumption DEF LoopInit
<1>2. LoopTypeOK
  BY <1>1, WritesAssumption DEF LoopInit, LoopTypeOK, Phases, Bits
<1>3. ~Started
  BY DEF LoopInit, Started
<1> QED
  BY <1>2, <1>3 DEF CountingInv, CountsTheRange, AtOrBelowTheEnd, LoopInit

\* What a state of the invariant says of the integers behind the bit patterns.
LEMMA Integers ==
    ASSUME LoopTypeOK
    PROVE  /\ First \in Int
           /\ Last \in Int
           /\ Current \in Int
           /\ iterations \in Nat
BY ValueIsInteger DEF LoopTypeOK, First, Last, Current

LEMMA ConditionStep == CountingInv /\ Condition => CountingInv'
<1> SUFFICES ASSUME CountingInv, Condition PROVE CountingInv'
  OBVIOUS
<1>1. LoopTypeOK'
  BY DEF CountingInv, Condition, LoopTypeOK, Phases
<1>2. Started /\ Started' /\ phase = "condition"
  BY DEF Condition, Started
<1>3. Current' = Current /\ First' = First /\ Last' = Last /\ iterations' = iterations
  BY DEF Condition, Current, First, Last
<1>4. phase' = IF Current < Last THEN "body" ELSE "exit"
  BY DEF Condition, Below, Current, Last
<1>5. /\ Current = First + iterations
      /\ iterations = 0 \/ Current <= Last
  BY <1>2 DEF CountingInv, CountsTheRange, AtOrBelowTheEnd
<1>6. First \in Int /\ Last \in Int /\ Current \in Int /\ iterations \in Nat
  BY Integers DEF CountingInv
<1>7. CountsTheRange'
  BY <1>2, <1>3, <1>4, <1>5, <1>6 DEF CountsTheRange
<1>8. AtOrBelowTheEnd'
  BY <1>2, <1>4 DEF AtOrBelowTheEnd
<1> QED
  BY <1>1, <1>7, <1>8 DEF CountingInv

LEMMA BodyStep == CountingInv /\ BodyFallsThrough => CountingInv'
<1> SUFFICES ASSUME CountingInv, BodyFallsThrough PROVE CountingInv'
  OBVIOUS
<1>1. Started /\ Started' /\ phase = "body" /\ phase' = "condition"
  BY DEF BodyFallsThrough, Started
<1>2. Current = First + iterations /\ Current < Last
  BY <1>1 DEF CountingInv, CountsTheRange
<1>3. /\ induction' \in Bits(type)
      /\ Value(type, induction') = Value(type, induction) + 1
  <2>1. Below(type, induction, endValue)
    BY <1>2 DEF Below, Current, Last
  <2> QED
    BY <2>1, IncrementIsPlusOne DEF CountingInv, LoopTypeOK, BodyFallsThrough
<1>4. LoopTypeOK'
  BY <1>1, <1>3, WritesAssumption DEF CountingInv, BodyFallsThrough, LoopTypeOK, Phases
<1>5. Current' = Current + 1 /\ First' = First /\ Last' = Last /\ iterations' = iterations + 1
  BY <1>3 DEF BodyFallsThrough, Current, First, Last
<1>6. First \in Int /\ Last \in Int /\ Current \in Int /\ iterations \in Nat
  BY Integers DEF CountingInv
<1>7. CountsTheRange'
  BY <1>1, <1>2, <1>5, <1>6 DEF CountsTheRange
<1>8. AtOrBelowTheEnd'
  BY <1>1, <1>2, <1>5, <1>6 DEF AtOrBelowTheEnd
<1> QED
  BY <1>4, <1>7, <1>8 DEF CountingInv

LEMMA CountingStep == CountingInv /\ [LoopNext]_loopVars => CountingInv'
<1> SUFFICES ASSUME CountingInv, [LoopNext]_loopVars PROVE CountingInv'
  OBVIOUS
<1>1. CASE EvaluateStart
  BY <1>1 DEF CountingInv, EvaluateStart, LoopTypeOK, Phases, CountsTheRange, AtOrBelowTheEnd, Started
<1>2. CASE EvaluateEnd
  <2>1. LoopTypeOK'
    BY <1>2 DEF CountingInv, EvaluateEnd, LoopTypeOK, Phases
  <2>2. phase' = "condition" /\ iterations = 0 /\ iterations' = 0
    BY <1>2 DEF CountingInv, AtOrBelowTheEnd, EvaluateEnd, Started
  <2>3. Current' = First /\ First' = First
    BY <1>2 DEF EvaluateEnd, Current, First
  <2>4. First \in Int
    BY Integers DEF CountingInv
  <2>5. CountsTheRange'
    BY <2>2, <2>3, <2>4 DEF CountsTheRange
  <2>6. AtOrBelowTheEnd'
    BY <2>2 DEF AtOrBelowTheEnd, Started
  <2> QED
    BY <2>1, <2>5, <2>6 DEF CountingInv
<1>3. CASE Condition
  BY <1>3, ConditionStep
<1>4. ASSUME NEW b \in Bits(type), AssignLimit(b) PROVE CountingInv'
  <2>1. LoopTypeOK'
    BY <1>4, WritesAssumption DEF CountingInv, AssignLimit, LoopTypeOK
  <2> QED
    BY <1>4, <2>1 DEF CountingInv, AssignLimit, CountsTheRange, AtOrBelowTheEnd,
                      Started, First, Last, Current
<1>5. CASE BodyReturns
  <2>1. LoopTypeOK'
    BY <1>5 DEF CountingInv, BodyReturns, LoopTypeOK, Phases
  <2> QED
    BY <1>5, <2>1 DEF CountingInv, BodyReturns, CountsTheRange, AtOrBelowTheEnd,
                      Started, First, Last, Current
<1>6. CASE BodyFallsThrough
  BY <1>6, BodyStep
<1>7. CASE UNCHANGED loopVars
  BY <1>7 DEF CountingInv, loopVars, LoopTypeOK, CountsTheRange, AtOrBelowTheEnd, Started, First, Last, Current
<1> QED
  BY <1>1, <1>2, <1>3, <1>4, <1>5, <1>6, <1>7 DEF LoopNext

LEMMA CountingInvariance == LoopSpec => []CountingInv
BY CountingInit, CountingStep, PTL DEF LoopSpec

\* Every slot of the loop stays a value of the range's element type.
THEOREM LoopTypeCorrect == LoopSpec => []LoopTypeOK
<1>1. CountingInv => LoopTypeOK
  BY DEF CountingInv
<1> QED
  BY <1>1, CountingInvariance, PTL

\* generateForStmt: for every element type, signed or not and of any width, the
\* loop counts from start up to, and not including, end, without wrapping.
THEOREM CountingCorrect == LoopSpec => []CountsTheRange
<1>1. CountingInv => CountsTheRange
  BY DEF CountingInv
<1> QED
  BY <1>1, CountingInvariance, PTL

----------------------------------------------------------------------------
(* How long the loop can run.  What an iteration may still do is counted with *)
(* the iterations that are left.                                             *)

\* The steps of one iteration are at most these: the writes, the back edge and
\* the comparison.
StepsPerIteration == MaxWrites + 2

IterationsLeft == IF Current < Last THEN Last - Current ELSE 0

StepsLeft ==
    CASE phase = "start" -> StepsPerIteration * (2 * type.half) + 3
      [] phase = "end" -> StepsPerIteration * (2 * type.half) + 2
      [] phase = "condition" -> StepsPerIteration * IterationsLeft + 1
      [] phase = "body" -> StepsPerIteration * IterationsLeft - writes
      [] OTHER -> 0

LEMMA OneFewer ==
    ASSUME NEW k \in Nat, NEW d \in Int
    PROVE  k * (d - 1) = k * d - k
OBVIOUS

LEMMA ProductGrows ==
    ASSUME NEW k \in Nat, NEW m \in Nat, NEW n \in Nat, m <= n
    PROVE  k * m \in Nat /\ k * n \in Nat /\ k * m <= k * n
OBVIOUS

\* A range has no more elements than its type has values.
FitsTheType == IterationsLeft \in Nat /\ IterationsLeft <= 2 * type.half /\ 2 * type.half \in Nat

LEMMA IterationsFit == LoopTypeOK => FitsTheType
<1> SUFFICES ASSUME LoopTypeOK PROVE FitsTheType
  OBVIOUS
<1>1. type.half \in Nat \ {0} /\ type.signed \in BOOLEAN
  BY TypesAssumption DEF LoopTypeOK
<1>2. Current \in Int /\ Last \in Int
  BY Integers
<1>3. Last - Current <= 2 * type.half
  <2>1. CASE type.signed
    BY <1>1, <2>1 DEF LoopTypeOK, Bits, Value, Last, Current
  <2>2. CASE ~type.signed
    BY <1>1, <2>2 DEF LoopTypeOK, Bits, Value, Last, Current
  <2> QED
    BY <1>1, <2>1, <2>2
<1> QED
  BY <1>1, <1>2, <1>3 DEF IterationsLeft, FitsTheType

LEMMA IterationsFitAfter == LoopTypeOK' => FitsTheType'
BY IterationsFit, PTL

LEMMA IterationsBounded ==
    ASSUME LoopTypeOK
    PROVE  /\ IterationsLeft \in Nat /\ IterationsLeft <= 2 * type.half
           /\ 2 * type.half \in Nat /\ StepsPerIteration \in Nat
           /\ StepsPerIteration * IterationsLeft \in Nat
           /\ StepsPerIteration * (2 * type.half) \in Nat
           /\ StepsPerIteration * IterationsLeft <= StepsPerIteration * (2 * type.half)
<1>1. StepsPerIteration \in Nat
  BY WritesAssumption DEF StepsPerIteration
<1> QED
  BY <1>1, IterationsFit, ProductGrows DEF FitsTheType

LEMMA StepsLeftCounts == CountingInv => StepsLeft \in Nat
<1> SUFFICES ASSUME CountingInv PROVE StepsLeft \in Nat
  OBVIOUS
<1>1. LoopTypeOK
  BY DEF CountingInv
<1>2. CASE phase = "body"
  <2>1. Current < Last /\ Current \in Int /\ Last \in Int
    BY <1>1, <1>2, Integers DEF CountingInv, CountsTheRange, Started
  <2>2. IterationsLeft >= 1
    BY <2>1 DEF IterationsLeft
  <2>3. StepsPerIteration * 1 <= StepsPerIteration * IterationsLeft
    BY <1>1, <2>2, IterationsBounded, ProductGrows
  <2>4. writes \in Nat /\ writes <= StepsPerIteration * IterationsLeft
    BY <1>1, <2>3, WritesAssumption, IterationsBounded DEF LoopTypeOK, StepsPerIteration
  <2> QED
    BY <1>1, <1>2, <2>4, IterationsBounded DEF StepsLeft
<1>3. CASE phase # "body"
  BY <1>1, <1>3, IterationsBounded DEF StepsLeft
<1> QED
  BY <1>2, <1>3

LEMMA StepsRunDown == CountingInv /\ CountingInv' /\ LoopNext => StepsLeft' < StepsLeft
<1> SUFFICES ASSUME CountingInv, CountingInv', LoopNext PROVE StepsLeft' < StepsLeft
  OBVIOUS
<1> DEFINE K == StepsPerIteration
<1>b. LoopTypeOK /\ LoopTypeOK'
  BY DEF CountingInv
<1>k. K \in Nat /\ K' = K /\ K >= 2
  BY WritesAssumption DEF StepsPerIteration
<1>n. type' = type
  BY DEF LoopNext, EvaluateStart, EvaluateEnd, Condition, AssignLimit, BodyReturns, BodyFallsThrough
<1>1. CASE EvaluateStart
  BY <1>1, <1>n, <1>b, IterationsBounded DEF EvaluateStart, StepsLeft, StepsPerIteration
<1>2. CASE EvaluateEnd
  <2>1. phase = "end" /\ phase' = "condition"
    BY <1>2 DEF EvaluateEnd
  <2>2. /\ (K * IterationsLeft)' \in Nat /\ K * (2 * type.half) \in Nat
        /\ (K * IterationsLeft)' <= K * (2 * type.half)
    <3>1. IterationsLeft' \in Nat /\ IterationsLeft' <= 2 * type.half /\ 2 * type.half \in Nat
      BY <1>b, <1>n, IterationsFitAfter DEF FitsTheType
    <3> QED
      BY <1>k, <3>1, ProductGrows
  <2>3. StepsLeft' = (K * IterationsLeft)' + 1 /\ StepsLeft = K * (2 * type.half) + 2
    BY <2>1 DEF StepsLeft
  <2> QED
    BY <2>2, <2>3
<1>3. CASE Condition
  <2>1. phase = "condition" /\ Current' = Current /\ Last' = Last /\ writes' = writes
    BY <1>3 DEF Condition, Current, Last
  <2>2. (K * IterationsLeft)' = K * IterationsLeft
    BY <1>k, <2>1 DEF IterationsLeft
  <2>3. K * IterationsLeft \in Nat /\ writes \in Nat
    BY <1>b, WritesAssumption, IterationsBounded DEF LoopTypeOK
  <2>4. phase' \in {"body", "exit"}
    BY <1>3 DEF Condition
  <2>5. StepsLeft = K * IterationsLeft + 1
    BY <2>1 DEF StepsLeft
  <2>6. CASE phase' = "body"
    <3>1. StepsLeft' = (K * IterationsLeft)' - writes'
      BY <2>6 DEF StepsLeft
    <3> QED
      BY <2>1, <2>2, <2>3, <2>5, <3>1
  <2>7. CASE phase' = "exit"
    <3>1. StepsLeft' = 0
      BY <2>7 DEF StepsLeft
    <3> QED
      BY <2>3, <2>5, <3>1
  <2> QED
    BY <2>4, <2>6, <2>7
<1>4. ASSUME NEW b \in Bits(type), AssignLimit(b) PROVE StepsLeft' < StepsLeft
  <2>1. phase = "body" /\ phase' = "body" /\ Current' = Current /\ Last' = Last /\ writes' = writes + 1
    BY <1>4 DEF AssignLimit, Current, Last
  <2>2. (K * IterationsLeft)' = K * IterationsLeft
    BY <1>k, <2>1 DEF IterationsLeft
  <2>3. K * IterationsLeft \in Nat /\ writes \in Nat
    BY <1>b, WritesAssumption, IterationsBounded DEF LoopTypeOK
  <2>4. StepsLeft = K * IterationsLeft - writes /\ StepsLeft' = (K * IterationsLeft)' - writes'
    BY <2>1 DEF StepsLeft
  <2> QED
    BY <2>1, <2>2, <2>3, <2>4
<1>5. CASE BodyReturns
  <2>1. phase = "body" /\ phase' = "returned"
    BY <1>5 DEF BodyReturns
  <2>2. Current < Last /\ Current \in Int /\ Last \in Int
    BY <1>b, <2>1, Integers DEF CountingInv, CountsTheRange, Started
  <2>3. IterationsLeft >= 1
    BY <2>2 DEF IterationsLeft
  <2>4. K * 1 <= K * IterationsLeft
    BY <1>b, <2>3, IterationsBounded, ProductGrows
  <2>5. writes \in Nat /\ writes < K * IterationsLeft
    BY <1>b, <2>4, WritesAssumption, IterationsBounded DEF LoopTypeOK, StepsPerIteration
  <2>6. StepsLeft' = 0 /\ StepsLeft = K * IterationsLeft - writes
    BY <2>1 DEF StepsLeft
  <2> QED
    BY <1>b, <2>5, <2>6, IterationsBounded
<1>6. CASE BodyFallsThrough
  <2>1. phase = "body" /\ phase' = "condition" /\ Last' = Last
    BY <1>6 DEF BodyFallsThrough, Last
  <2>2. Current < Last /\ Current \in Int /\ Last \in Int
    BY <1>b, <2>1, Integers DEF CountingInv, CountsTheRange, Started
  <2>3. Current' = Current + 1
    <3>1. Below(type, induction, endValue)
      BY <2>2 DEF Below, Current, Last
    <3> QED
      BY <1>6, <1>b, <3>1, IncrementIsPlusOne DEF LoopTypeOK, BodyFallsThrough, Current
  <2>4. IterationsLeft' = IterationsLeft - 1 /\ IterationsLeft \in Nat
    BY <2>1, <2>2, <2>3 DEF IterationsLeft
  <2>5. (K * IterationsLeft)' = K * IterationsLeft - K
    BY <1>k, <2>4, OneFewer
  <2>6. writes \in Nat /\ writes <= K - 2 /\ K * IterationsLeft \in Nat
    BY <1>b, WritesAssumption, IterationsBounded DEF LoopTypeOK, StepsPerIteration
  <2>7. StepsLeft' = (K * IterationsLeft)' + 1 /\ StepsLeft = K * IterationsLeft - writes
    BY <2>1 DEF StepsLeft
  <2> QED
    BY <1>k, <2>5, <2>6, <2>7
<1> QED
  BY <1>1, <1>2, <1>3, <1>4, <1>5, <1>6 DEF LoopNext

\* generateForStmt: no width and no signedness makes the loop endless.  Each step
\* it takes uses up one of a number that is fixed when it starts, as long as each
\* iteration of its body ends.
THEOREM LoopStepsRunOut ==
    LoopSpec => /\ [](StepsLeft \in Nat)
                /\ [][StepsLeft' < StepsLeft]_loopVars
<1>1. CountingInv /\ CountingInv' /\ [LoopNext]_loopVars => [StepsLeft' < StepsLeft]_loopVars
  BY StepsRunDown
<1> QED
  BY <1>1, StepsLeftCounts, CountingInvariance, PTL DEF LoopSpec

----------------------------------------------------------------------------
(* The refinement *)

LEMMA InitRefines == LoopInit => Abstract!Init
BY DEF LoopInit, Abstract!Init, Started

LEMMA StepRefines == CountingInv /\ [LoopNext]_loopVars => [Abstract!Next]_(Abstract!vars)
<1> SUFFICES ASSUME CountingInv, [LoopNext]_loopVars PROVE [Abstract!Next]_(Abstract!vars)
  OBVIOUS
<1> USE DEF Abstract!vars
<1>t. First \in Int /\ Last \in Int /\ Current \in Int /\ iterations \in Nat
  BY Integers DEF CountingInv
<1>1. CASE EvaluateStart
  BY <1>1 DEF EvaluateStart, Started
<1>2. CASE EvaluateEnd
  <2>1. Current' = First /\ Last' = Value(type, limit)
    BY <1>2 DEF EvaluateEnd, Current, First, Last
  <2>2. Value(type, limit) \in Int
    BY ValueIsInteger DEF CountingInv, LoopTypeOK
  <2>3. phase = "end" /\ phase' = "condition"
    BY <1>2 DEF EvaluateEnd
  <2>4. Current' \in Int /\ Last' \in Int
    BY <1>t, <2>1, <2>2
  <2> QED
    BY <2>3, <2>4 DEF Abstract!Next, Abstract!Begin, Started
<1>3. CASE Condition
  <2>1. /\ Started /\ Started' /\ phase = "condition"
        /\ Current' = Current /\ Last' = Last
        /\ phase' = IF Current < Last THEN "body" ELSE "exit"
    BY <1>3 DEF Condition, Started, Current, Last, Below
  <2> QED
    BY <2>1 DEF Abstract!Next, Abstract!Iterate, Abstract!Finish
<1>4. ASSUME NEW b \in Bits(type), AssignLimit(b) PROVE [Abstract!Next]_(Abstract!vars)
  BY <1>4 DEF AssignLimit, Started, Current, Last
<1>5. CASE BodyReturns
  <2>1. /\ Started /\ Started' /\ phase = "body" /\ phase' = "returned"
        /\ Current' = Current /\ Last' = Last
    BY <1>5 DEF BodyReturns, Started, Current, Last
  <2> QED
    BY <2>1 DEF Abstract!Next, Abstract!Leave
<1>6. CASE BodyFallsThrough
  <2>1. /\ Started /\ Started' /\ phase = "body" /\ phase' = "condition" /\ Last' = Last
    BY <1>6 DEF BodyFallsThrough, Started, Last
  <2>2. Current' = Current + 1
    <3>1. Below(type, induction, endValue)
      BY <2>1 DEF CountingInv, CountsTheRange, Below, Current, Last
    <3> QED
      BY <1>6, <3>1, IncrementIsPlusOne DEF CountingInv, LoopTypeOK, BodyFallsThrough, Current
  <2> QED
    BY <2>1, <2>2 DEF Abstract!Next, Abstract!Advance
<1>7. CASE UNCHANGED loopVars
  BY <1>7 DEF loopVars, Started, Current, Last
<1> QED
  BY <1>1, <1>2, <1>3, <1>4, <1>5, <1>6, <1>7 DEF LoopNext

\* The loop on machine integers implements the loop over the integers, for every
\* element type: nothing of the width or the signedness shows.
THEOREM Refinement == LoopSpec => ImplementsRange
BY InitRefines, StepRefines, CountingInvariance, PTL
   DEF LoopSpec, ImplementsRange, Abstract!Spec
=============================================================================
