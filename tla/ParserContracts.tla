---------------------------- MODULE ParserContracts ----------------------------
(****************************************************************************)
(* What every routine of the parser promises of the tokens behind it, over  *)
(* any file: which of the ends that the grammar derives it stops at         *)
(* (Decides), and what it has built by then (Builds).                       *)
(****************************************************************************)
EXTENDS ParseTree

\* The only assumption about the tokens: none of them is the end of the file.
IsFile == IsText(tokens)

End == Len(tokens) + 1

\* Where a routine stands in the order of the calls at one position.
Rank(routine) ==
    IF routine <= UnaryTier THEN UnaryTier - routine
    ELSE IF routine \in {ExpressionList, TypeList, StatementList} THEN 9 ELSE 0

\* What routine r called at p may call: h at q.
Before(h, q, r, p) == q > p \/ (q = p /\ Rank(h) < Rank(r))

\* The order as a number, which no chain of calls can decrease for ever.
Key(r, p) == 10 * (End - p) + Rank(r)

\* The routines for what may be left out: lists, and the loops behind something.
Nullable == {SuffixList, StatementList, ElseList, DeclarationList} \cup 11 .. 17

\* A result that is accepted has consumed nothing or something ...
Stays(r, p) == Accepted(r) => reached(r) \in Positions /\ reached(r) >= p

\* ... and one that has consumed something.
Moves(r, p) == Accepted(r) => reached(r) \in Positions /\ reached(r) > p

----------------------------------------------------------------------------
(* Reading *)

\* What may stand behind an operand of a tier.
Operators(tier) == SuffixStarts \cup UNION {Tiers[t] : t \in tier .. 7}

\* What may follow an end of a routine's and belong to it nonetheless.
Continuations(routine) ==
    CASE routine = Expression -> Operators(1) \cup {"="}
      [] routine \in 1 .. 7 -> Operators(routine)
      [] routine = ExpressionList -> Operators(1) \cup {"=", "Comma"}
      [] routine - 10 \in 1 .. 7 -> Operators(routine - 10)
      [] routine = TypeSyntax -> {"<"}
      [] routine = TypeList -> {"<", "Newline", "Comma"}
      [] routine = ParamList -> {"<", "Comma"}
      [] OTHER -> SuffixStarts

\* A result reads a set of ends: where it is accepted it stops at one of
\* them; and it stops at each of them that has none of the continuations
\* behind it, in a file where no block is a statement by itself.
Reads(r, ends, continuations) ==
    /\ Accepted(r) => reached(r) \in ends
    /\ ~HasBareBlock =>
          \A e \in ends : At(e) \notin continuations => Accepted(r) /\ reached(r) = e

\* The statements of a block end at its brace, and the declarations at the
\* end of the file.
EndsAt(S, kind) == {e \in S : At(e) = kind}

\* The branches of an if end where its last one does, or, when no else has
\* been found there, behind the line breaks that follow it.
ReadsElses(r, E) ==
    /\ Accepted(r) => \E e \in E : reached(r) \in Breaks({e})
    /\ ~HasBareBlock =>
          \A e \in E : At(skipNewlines(e)) # "else" => Accepted(r) /\ reached(r) \in Breaks({e})

\* The ends of a statement without a block, and of any statement.
Terminated(E) == {q \in E : At(q) \in Terminators}

StatementEnds(p) == Terminated(simpleEnds(derive, p)) \cup compoundEnds(derive, p)

\* No brace at p opens a block that is a statement, unless some brace does.
Unbraced(p) == At(p) = "LeftBrace" => HasBareBlock

\* The parser reads what the grammar derives.  A list of statements is only
\* read where one may stand: there, a brace at its start is a bare block's.
Decides(routine, p) ==
    LET r == call(parse, routine, p)
        E == call(derive, routine, p)
    IN  CASE routine = StatementList -> Unbraced(p) => Reads(r, EndsAt(E, "RightBrace"), {})
          [] routine = DeclarationList -> Reads(r, EndsAt(E, "EndOfFile"), {})
          [] routine = ElseList -> ReadsElses(r, E)
          [] OTHER -> Reads(r, E, Continuations(routine))

----------------------------------------------------------------------------
(* Building *)

\* A set of nodes of which each is as it should be, and has its parts in it.
Closed(N) == \A m \in N : Covers(m) /\ Stratified(m) /\ Parts(m) \subseteq N

\* A node that is as it should be, all the way down.
Whole(n) == \E N : n \in N /\ Closed(N)

Wholes(nodes) == \E S : nodes \in Seq(S) /\ \A m \in S : Whole(m)

\* A node over the tokens from p to before q.
Spans(n, p, q) ==
    /\ p \in Positions /\ q \in Positions /\ p < q
    /\ n.from = p /\ n.to = q - 1 /\ Whole(n)

\* A primary expression, as the operators take it.
Tight(r, p) == Spans(built(r), p, reached(r)) /\ Level(built(r)) = 10

\* A statement from p on; only line breaks are behind it, up to q.
Stands(n, p, q) ==
    /\ p \in Positions /\ q \in Positions /\ n.from = p /\ n.to \in p .. q - 1
    /\ Only({"Newline"}, n.to + 1, q) /\ Whole(n)

\* What the loops make of an expression and what they read: the suffixes of
\* one loop, the operations of the others.
Joined(loop, e, x) == IF loop = SuffixList THEN Suffixed(e, x) ELSE Extended(e, x)

Folded(loop, e, s) == IF loop = SuffixList THEN FoldLeft(Suffixed, e, s) ELSE FoldLeft(Extended, e, s)

\* What a suffix makes of an expression that is before it.
Fastens(x, p, q) ==
    \A e, from : Spans(e, from, p) /\ Level(e) \in 9 .. 10 =>
        Spans(Suffixed(e, x), from, q) /\ Level(Suffixed(e, x)) = 9

\* The tier an expression must have for a loop to go on with it.
Takes(loop) == IF loop = SuffixList THEN 9 ELSE loop - 10 + (IF loop = Rest(RangeTier) THEN 1 ELSE 0)

Gives(loop) == IF loop = SuffixList THEN 9 ELSE loop - 10

Carries(loop, v, p, q) ==
    /\ \E S : v \in Seq(S)
    /\ \A e, from : Spans(e, from, p) /\ Level(e) \in Takes(loop) .. 10 =>
          Spans(Folded(loop, e, v), from, q) /\ Level(Folded(loop, e, v)) \in Gives(loop) .. 10

\* The other branches of an if, and what each of them ends with.
Braced(m) == m.node \in {"Branch", "Else"} /\ At(m.to) = "RightBrace"

BranchList(branches, final, p, q) ==
    /\ Wholes(branches) /\ Wholes(final) /\ Len(final) <= 1
    /\ Sequenced(branches \o final, {"Newline"}, p, q)
    /\ \A k \in DOMAIN branches : At(branches[k].from) = "else"
    /\ \A m \in Range(branches) \cup Range(final) : Braced(m)

Branches(v, p, q) ==
    v = [branches |-> v.branches, final |-> v.final] /\ BranchList(v.branches, v.final, p, q)

\* What a routine has built from the tokens from p to before q.
Fits(routine, v, p, q) ==
    CASE routine \in 0 .. 8 -> Spans(v, p, q) /\ Level(v) \in routine .. 10
      [] routine = TypeSyntax -> Spans(v, p, q)
      [] routine = TypeList -> Wholes(v) /\ v # <<>> /\ Listed(v, {"Newline"}, p, q)
      [] routine \in {ExpressionList, ParamList} -> Wholes(v) /\ v # <<>> /\ Listed(v, {}, p, q)
      [] routine \in {StatementList, DeclarationList} -> Wholes(v) /\ Sequenced(v, Separators, p, q)
      [] routine = ElseList -> Branches(v, p, q)
      [] OTHER -> Carries(routine, v, p, q)

Builds(routine, p) ==
    LET r == call(parse, routine, p) IN Accepted(r) => Fits(routine, built(r), p, reached(r))

=============================================================================
