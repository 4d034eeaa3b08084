------------------------------ MODULE LexerProofs ------------------------------
(****************************************************************************)
(* What Lexer promises of every text, whatever the letters, the digits and  *)
(* the keywords are.                                                        *)
(*                                                                          *)
(* The two recursions of the lexer run towards the end of the text, so they *)
(* are unfolded by induction on what is left of it: BackwardRecursion gives *)
(* the value of skipTriviaAndMaybeNewline and of LiteralFrom at a position  *)
(* from the values behind it, and CountingDown carries a fact from the end  *)
(* of the text to every position.                                           *)
(*                                                                          *)
(* CallEmits says of each way a call can end what token it hands out        *)
(* (TokenSound) and what it does to the two counters; CursorInv adds that   *)
(* the cursor is behind the last token and that the counters are what the   *)
(* tokens leave open, which is not what they count: a closing bracket that  *)
(* matches none is dropped.  TokensTile and LineBreaks follow from it.      *)
(* Lexemes needs the lexemes themselves: GrammaticalForms says how a lexeme *)
(* begins, so that only one scan can find it, and a scan stops at Max of    *)
(* the ends; a literal is compared with the set of escapes in Escaped.      *)
(****************************************************************************)
EXTENDS Lexer, FiniteSetTheorems, SequenceTheorems, WellFoundedInduction, TLAPS

----------------------------------------------------------------------------
(* Recursion from the end of a text *)

\* The least-number principle, for a set instead of a predicate.
LEMMA LeastNumber ==
    ASSUME NEW T \in SUBSET Nat, T # {}
    PROVE  \E m \in T : \A k \in T : m <= k
<1> DEFINE R == {p \in Nat \X Nat : p[1] < p[2]}
<1>1. IsWellFoundedOn(R, Nat)
  BY NatLessThanWellFounded DEF OpToRel
<1>2. \A x, y \in Nat : <<x, y>> \in R <=> x < y
  OBVIOUS
<1> HIDE DEF R
<1>3. PICK m \in T : \A k \in T : <<k, m>> \notin R
  BY <1>1, WFMin
<1>4. \A k \in T : ~(k < m)
  BY <1>2, <1>3
<1> QED
  BY <1>4

\* The greatest of the numbers up to n.
LEMMA GreatestNumber ==
    ASSUME NEW n \in Nat, NEW T \in SUBSET (1..n), T # {}
    PROVE  \E m \in T : \A k \in T : k <= m
<1> DEFINE D == {n - k : k \in T}
<1>1. D \in SUBSET Nat /\ D # {}
  <2>1. \A k \in T : n - k \in Nat
    OBVIOUS
  <2>2. PICK k \in T : TRUE
    OBVIOUS
  <2>3. n - k \in D
    OBVIOUS
  <2> QED
    BY <2>1, <2>3
<1>2. PICK d \in D : \A e \in D : d <= e
  <2> HIDE DEF D
  <2> QED
    BY <1>1, LeastNumber
<1>3. PICK m \in T : d = n - m
  OBVIOUS
<1>4. ASSUME NEW k \in T PROVE k <= m
  <2>1. n - m <= n - k
    BY <1>2, <1>3, <1>4
  <2>2. k \in 1..n /\ m \in 1..n
    OBVIOUS
  <2> QED
    BY <2>1, <2>2
<1> QED
  BY <1>4

\* Counting down from n inside a set that has each number whose successors it has.
LEMMA CountingDown ==
    ASSUME NEW n \in Nat, NEW G, \A i \in 1..n : (\A j \in (i + 1)..n : j \in G) => i \in G
    PROVE  \A i \in 1..n : i \in G
<1> DEFINE T == {i \in 1..n : i \notin G}
<1> SUFFICES ASSUME T # {} PROVE FALSE
  OBVIOUS
<1>1. T \in SUBSET (1..n)
  OBVIOUS
<1>2. PICK m \in T : \A k \in T : k <= m
  <2> HIDE DEF T
  <2> QED
    BY <1>1, GreatestNumber
<1>3. m \in 1..n /\ m \notin G
  OBVIOUS
<1>4. \A j \in (m + 1)..n : j \in 1..n /\ ~(j <= m)
  BY <1>3
<1>5. \A j \in (m + 1)..n : j \in G
  BY <1>2, <1>4
<1> QED
  BY <1>3, <1>5

\* The steps that compute a value from the values behind it, and what they define.
StepsBack(n, S) ==
    {F \in [(1..n) \X [1..n -> S] -> S] :
        \A i \in 1..n, f, g \in [1..n -> S] :
           (\A j \in (i + 1)..n : f[j] = g[j]) => F[<<i, f>>] = F[<<i, g>>]}

Defined(n, S, F) == {f \in [1..n -> S] : \A i \in 1..n : f[i] = F[<<i, f>>]}

LEMMA BackwardRecursion ==
    ASSUME NEW n \in Nat, NEW S, S # {}, NEW F \in StepsBack(n, S)
    PROVE  Defined(n, S, F) # {}
<1> DEFINE Good(k) == \E f \in [1..n -> S] : \A i \in k..n : f[i] = F[<<i, f>>]
           G == {k \in 1..(n + 1) : Good(k)}
<1>0. /\ F \in [(1..n) \X [1..n -> S] -> S]
      /\ \A i \in 1..n, f, g \in [1..n -> S] :
            (\A j \in (i + 1)..n : f[j] = g[j]) => F[<<i, f>>] = F[<<i, g>>]
  BY DEF StepsBack
<1>1. Good(n + 1)
  <2>1. PICK c : c \in S
    OBVIOUS
  <2>2. PICK f : f = [i \in 1..n |-> c]
    OBVIOUS
  <2>3. f \in [1..n -> S] /\ (n + 1)..n = {}
    BY <2>1, <2>2
  <2> QED
    BY <2>3
<1>2. ASSUME NEW k \in 1..n, Good(k + 1)
      PROVE  Good(k)
  <2>1. PICK f \in [1..n -> S] : \A i \in (k + 1)..n : f[i] = F[<<i, f>>]
    BY <1>2
  <2>2. PICK g : g = [f EXCEPT ![k] = F[<<k, f>>]]
    OBVIOUS
  <2>3. F[<<k, f>>] \in S
    BY <1>0
  <2>4. g \in [1..n -> S] /\ g[k] = F[<<k, f>>] /\ \A j \in 1..n : j # k => g[j] = f[j]
    BY <2>2, <2>3
  <2>5. ASSUME NEW i \in k..n PROVE g[i] = F[<<i, g>>]
    <3>1. i \in 1..n /\ \A j \in (i + 1)..n : j \in 1..n /\ j # k
      OBVIOUS
    <3>2. F[<<i, f>>] = F[<<i, g>>]
      BY <1>0, <2>4, <3>1
    <3>3. CASE i = k
      BY <2>4, <3>2, <3>3
    <3>4. CASE i # k
      <4>1. i \in (k + 1)..n
        BY <3>4
      <4> QED
        BY <2>1, <2>4, <3>1, <3>2, <3>4, <4>1
    <3> QED
      BY <3>3, <3>4
  <2> QED
    BY <2>4, <2>5
<1> HIDE DEF Good
<1>3. ASSUME NEW i \in 1..(n + 1), \A j \in (i + 1)..(n + 1) : j \in G
      PROVE  i \in G
  <2>1. CASE i = n + 1
    BY <1>1, <2>1
  <2>2. CASE i # n + 1
    <3>1. i \in 1..n /\ i + 1 \in (i + 1)..(n + 1)
      BY <2>2
    <3>2. Good(i + 1)
      BY <1>3, <3>1
    <3> QED
      BY <1>2, <3>1, <3>2
  <2> QED
    BY <2>1, <2>2
<1>4. 1 \in G
  <2>1. n + 1 \in Nat /\ 1 \in 1..(n + 1)
    OBVIOUS
  <2> HIDE DEF G
  <2>2. \A i \in 1..(n + 1) : i \in G
    BY <1>3, <2>1, CountingDown
  <2> QED
    BY <2>1, <2>2
<1>5. PICK f \in [1..n -> S] : \A i \in 1..n : f[i] = F[<<i, f>>]
  BY <1>4 DEF Good
<1>6. f \in Defined(n, S, F)
  BY <1>5 DEF Defined
<1> QED
  BY <1>6

----------------------------------------------------------------------------
(* The text *)

IsText == buffer \in Seq(STRING)

LEMMA TextFacts ==
    ASSUME IsText
    PROVE  /\ Len(buffer) \in Nat /\ DOMAIN buffer = 1..Len(buffer)
           /\ Len(buffer) + 1 \in Positions
           /\ \A i \in Positions : i \in Nat /\ i >= 1
           /\ \A i \in Positions : ~isAtEnd(i) <=> i \in DOMAIN buffer
           /\ \A i \in DOMAIN buffer : i \in Positions /\ i + 1 \in Positions /\ CharAt(i) = buffer[i]
           /\ \A i \in Positions : i \notin DOMAIN buffer => i = Len(buffer) + 1 /\ CharAt(i) = "NUL"
<1>1. Len(buffer) \in Nat /\ DOMAIN buffer = 1..Len(buffer)
  BY DEF IsText
<1> QED
  BY <1>1 DEF Positions, isAtEnd, CharAt

\* The end of a run is the first position from i on that is outside of it.
LEMMA RunEnds ==
    ASSUME IsText, NEW i \in Positions, NEW run \in SUBSET DOMAIN buffer
    PROVE  /\ EndOf(i, run) \in Positions /\ EndOf(i, run) >= i /\ EndOf(i, run) \notin run
           /\ \A p \in i..(EndOf(i, run) - 1) : p \in run
<1> DEFINE T == {p \in i..(Len(buffer) + 1) : p \notin run}
<1>1. /\ Len(buffer) \in Nat /\ DOMAIN buffer = 1..Len(buffer)
      /\ i \in Nat /\ i >= 1 /\ i <= Len(buffer) + 1
  BY TextFacts DEF Positions
<1>2. T \in SUBSET Nat /\ Len(buffer) + 1 \in T
  BY <1>1
<1>3. PICK m \in T : \A k \in T : m <= k
  <2> HIDE DEF T
  <2> QED
    BY <1>2, LeastNumber
<1>4. \A x \in T : (\A y \in T : x =< y) => x = m
  <2> TAKE x \in T
  <2> HAVE \A y \in T : x =< y
  <2>1. x <= m /\ m <= x /\ x \in Nat /\ m \in Nat
    <3> HIDE DEF T
    <3> QED
      BY <1>2, <1>3
  <2> QED
    BY <2>1
<1>5. EndOf(i, run) = m
  <2>1. EndOf(i, run) = Min(T)
    BY DEF EndOf
  <2> HIDE DEF T
  <2> QED
    BY <1>3, <1>4, <2>1 DEF Min
<1>6. m \in i..(Len(buffer) + 1) /\ m \notin run
  OBVIOUS
<1>7. ASSUME NEW p \in i..(m - 1) PROVE p \in run
  <2>1. p \in i..(Len(buffer) + 1) /\ ~(m <= p)
    BY <1>1, <1>6
  <2> QED
    BY <1>3, <2>1
<1> QED
  BY <1>1, <1>5, <1>6, <1>7 DEF Positions

----------------------------------------------------------------------------
(* Blanks, comments and line breaks *)

\* skipTriviaAndMaybeNewline at one position, f being its results behind it.
TriviaAt(f, i) ==
    CASE isAtEnd(i) -> Content(i)
      [] CharAt(i) \in Blank -> f[i + 1]
      [] CharAt(i) = CR /\ peekNext(i) = LF ->
            IF Significant THEN NewlineAt(i, i + 2) ELSE f[i + 2]
      [] CharAt(i) = LF ->
            IF Significant THEN NewlineAt(i, i + 1) ELSE f[i + 1]
      [] CharAt(i) = CR /\ peekNext(i) # LF -> f[i + 1]
      [] CharAt(i) = "/" /\ peekNext(i) = "/" -> f[EndOf(i + 2, Comment)]
      [] OTHER -> Content(i)

TriviaResults == [newline : BOOLEAN, from : Nat, to : Nat]

LEMMA CommentEnds ==
    ASSUME IsText, NEW i \in DOMAIN buffer, peekNext(i) = "/"
    PROVE  /\ i + 1 \in DOMAIN buffer
           /\ EndOf(i + 2, Comment) \in Positions /\ EndOf(i + 2, Comment) >= i + 2
           /\ EndOf(i + 2, Comment) \notin Comment
           /\ \A p \in (i + 2)..(EndOf(i + 2, Comment) - 1) : p \in Comment
<1>1. /\ i + 1 \in Positions
      /\ i + 1 \notin DOMAIN buffer => CharAt(i + 1) = "NUL"
  BY TextFacts
<1>2. i + 1 \in DOMAIN buffer
  BY <1>1 DEF peekNext
<1>3. (i + 1) + 1 \in Positions /\ i \in Nat
  BY <1>2, TextFacts
<1>4. i + 2 \in Positions
  BY <1>3
<1>5. Comment \in SUBSET DOMAIN buffer
  BY DEF Comment
<1> QED
  BY <1>2, <1>4, <1>5, RunEnds

\* The recursive definition means what it says.
LEMMA TriviaUnfolded ==
    ASSUME IsText
    PROVE  \A i \in Positions :
              skipTriviaAndMaybeNewline[i] = TriviaAt(skipTriviaAndMaybeNewline, i)
<1> DEFINE N == Len(buffer) + 1
           S == TriviaResults
           F == [x \in (1..N) \X [1..N -> S] |-> TriviaAt(x[2], x[1])]
<1>1. N \in Nat /\ Positions = 1..N
  BY TextFacts DEF Positions
<1>2. /\ \A i \in 1..N : Content(i) \in S
      /\ \A i \in 1..N : NewlineAt(i, i + 1) \in S /\ NewlineAt(i, i + 2) \in S
  BY <1>1 DEF Content, NewlineAt, TriviaResults
<1>3. \A i \in 1..N : ~isAtEnd(i) => i + 1 \in (i + 1)..N
  BY <1>1, TextFacts
<1>4. \A i \in 1..N : ~isAtEnd(i) /\ peekNext(i) = LF => i + 2 \in (i + 1)..N
  <2> SUFFICES ASSUME NEW i \in 1..N, ~isAtEnd(i), peekNext(i) = LF PROVE i + 2 \in (i + 1)..N
    OBVIOUS
  <2>1. i + 1 \in Positions /\ (i + 1 \notin DOMAIN buffer => CharAt(i + 1) = "NUL")
    BY <1>1, TextFacts
  <2>2. i + 1 \in DOMAIN buffer
    BY <2>1 DEF peekNext, LF
  <2> QED
    BY <1>1, <2>2, TextFacts
<1>5. \A i \in 1..N : ~isAtEnd(i) /\ peekNext(i) = "/" => EndOf(i + 2, Comment) \in (i + 1)..N
  <2> SUFFICES ASSUME NEW i \in 1..N, ~isAtEnd(i), peekNext(i) = "/"
               PROVE  EndOf(i + 2, Comment) \in (i + 1)..N
    OBVIOUS
  <2>1. i \in DOMAIN buffer
    BY <1>1, TextFacts
  <2>2. EndOf(i + 2, Comment) \in Positions /\ EndOf(i + 2, Comment) >= i + 2
    BY <2>1, CommentEnds
  <2> QED
    BY <1>1, <2>2
<1> HIDE DEF N, S
<1>6. F \in StepsBack(N, S)
  <2>1. \A i \in 1..N : \A j \in (i + 1)..N : j \in 1..N
    BY <1>1
  <2>2. ASSUME NEW i \in 1..N, NEW f \in [1..N -> S]
        PROVE  TriviaAt(f, i) \in S
    <3>1. \A j \in (i + 1)..N : f[j] \in S
      BY <2>1, <2>2
    <3>2. Content(i) \in S /\ NewlineAt(i, i + 1) \in S /\ NewlineAt(i, i + 2) \in S
      BY <1>2
    <3>3. CASE isAtEnd(i)
      BY <3>2, <3>3 DEF TriviaAt, isAtEnd, CharAt, Blank, CR, LF
    <3>4. CASE ~isAtEnd(i)
      <4>1. f[i + 1] \in S
        BY <1>3, <3>1, <3>4
      <4>2. peekNext(i) = LF => f[i + 2] \in S
        BY <1>4, <3>1, <3>4
      <4>3. peekNext(i) = "/" => f[EndOf(i + 2, Comment)] \in S
        BY <1>5, <3>1, <3>4
      <4>4. CASE CharAt(i) \in Blank
        BY <3>4, <4>1, <4>4 DEF TriviaAt, CR, LF, Blank
      <4>5. CASE CharAt(i) = CR
        BY <3>2, <3>4, <4>1, <4>2, <4>5 DEF TriviaAt, CR, LF, Blank
      <4>6. CASE CharAt(i) = LF
        BY <3>2, <3>4, <4>1, <4>6 DEF TriviaAt, CR, LF, Blank
      <4>7. CASE CharAt(i) = "/" /\ peekNext(i) = "/"
        BY <3>4, <4>3, <4>7 DEF TriviaAt, CR, LF, Blank
      <4>8. CASE /\ CharAt(i) \notin Blank \cup {CR, LF}
                 /\ ~(CharAt(i) = "/" /\ peekNext(i) = "/")
        BY <3>2, <3>4, <4>8 DEF TriviaAt, CR, LF, Blank
      <4> QED
        BY <4>4, <4>5, <4>6, <4>7, <4>8
    <3> QED
      BY <3>3, <3>4
  <2>3. ASSUME NEW i \in 1..N, NEW f \in [1..N -> S], NEW g \in [1..N -> S],
               \A j \in (i + 1)..N : f[j] = g[j]
        PROVE  TriviaAt(f, i) = TriviaAt(g, i)
    BY <1>3, <1>4, <1>5, <2>3 DEF TriviaAt
  <2>4. F \in [(1..N) \X [1..N -> S] -> S]
    BY <2>2
  <2>5. \A i \in 1..N, f \in [1..N -> S] : F[<<i, f>>] = TriviaAt(f, i)
    OBVIOUS
  <2> HIDE DEF F
  <2> QED
    BY <2>3, <2>4, <2>5 DEF StepsBack
<1>7. \A i \in 1..N, f \in [1..N -> S] : F[<<i, f>>] = TriviaAt(f, i)
  OBVIOUS
<1> HIDE DEF F
<1>8. S # {}
  <2>1. 1 \in 1..N
    BY <1>1, TextFacts
  <2> QED
    BY <1>2, <2>1
<1>9. PICK f \in [1..N -> S] : \A i \in 1..N : f[i] = F[<<i, f>>]
  BY <1>1, <1>6, <1>8, BackwardRecursion DEF Defined
<1>10. f = [i \in 1..N |-> TriviaAt(f, i)]
  BY <1>7, <1>9
<1>11. skipTriviaAndMaybeNewline = [i \in 1..N |-> TriviaAt(skipTriviaAndMaybeNewline, i)]
  BY <1>1, <1>10 DEF skipTriviaAndMaybeNewline, TriviaAt
<1> QED
  BY <1>1, <1>11

\* What the lexer reads over at p, looking from i on.
Skipped(p, i) ==
    \/ buffer[p] \in Blank \cup {CR}
    \/ buffer[p] = LF /\ ~Significant
    \/ InLineComment(p, i)

LineBreakAt(from, to) ==
    /\ from \in DOMAIN buffer
    /\ \/ to = from + 1 /\ buffer[from] = LF
       \/ to = from + 2 /\ buffer[from] = CR /\ from + 1 \in DOMAIN buffer /\ buffer[from + 1] = LF

\* A result for i: what lies before it may be skipped, a line break counts only
\* outside of brackets and keeps its CR, and nothing else that stops the scan
\* could have been skipped.
TriviaSound(i, r) ==
    /\ r.newline \in BOOLEAN /\ r.from \in i..(Len(buffer) + 1)
    /\ \A p \in i..(r.from - 1) : Skipped(p, i)
    /\ r.newline => /\ Significant
                    /\ LineBreakAt(r.from, r.to)
                    /\ r.from > i /\ buffer[r.from] = LF => buffer[r.from - 1] # CR
    /\ ~r.newline => \/ isAtEnd(r.from)
                     \/ /\ buffer[r.from] \notin Blank \cup {CR, LF}
                        /\ ~(buffer[r.from] = "/" /\ peekNext(r.from) = "/")

LEMMA SkippedFromBefore ==
    ASSUME NEW i \in Nat, NEW j \in Nat, i <= j, NEW p \in Nat, Skipped(p, j)
    PROVE  Skipped(p, i)
<1>1. InLineComment(p, j) => InLineComment(p, i)
  <2>1. \A q \in j..p : q \in i..p
    OBVIOUS
  <2> QED
    BY <2>1 DEF InLineComment
<1> QED
  BY <1>1 DEF Skipped

\* Reading over i to j - 1 and then from j on.
LEMMA SkipsOn ==
    ASSUME IsText, NEW i \in DOMAIN buffer, NEW j \in (i + 1)..(Len(buffer) + 1), NEW r,
           \A p \in i..(j - 1) : Skipped(p, i),
           Significant /\ j \in DOMAIN buffer /\ buffer[j] = LF => buffer[j - 1] # CR,
           TriviaSound(j, r)
    PROVE  TriviaSound(i, r)
<1>1. i \in Nat /\ Len(buffer) \in Nat /\ i <= Len(buffer) + 1
  BY TextFacts DEF Positions
<1>2. r.from \in j..(Len(buffer) + 1) /\ r.from \in i..(Len(buffer) + 1) /\ r.from > i
  BY <1>1 DEF TriviaSound
<1>3. ASSUME NEW p \in i..(r.from - 1) PROVE Skipped(p, i)
  <2>1. CASE p < j
    <3>1. p \in i..(j - 1)
      BY <1>1, <1>2, <2>1
    <3> QED
      BY <3>1
  <2>2. CASE p >= j
    <3>1. p \in j..(r.from - 1) /\ p \in Nat /\ j \in Nat /\ i <= j
      BY <1>1, <1>2, <2>2
    <3>2. Skipped(p, j)
      BY <3>1 DEF TriviaSound
    <3> QED
      BY <1>1, <3>1, <3>2, SkippedFromBefore
  <2> QED
    BY <1>1, <1>2, <2>1, <2>2
<1>4. ASSUME r.newline
      PROVE  /\ Significant /\ LineBreakAt(r.from, r.to)
             /\ r.from > i /\ buffer[r.from] = LF => buffer[r.from - 1] # CR
  <2>1. /\ Significant /\ LineBreakAt(r.from, r.to)
        /\ r.from > j /\ buffer[r.from] = LF => buffer[r.from - 1] # CR
    BY <1>4 DEF TriviaSound
  <2>2. r.from \in DOMAIN buffer
    BY <2>1 DEF LineBreakAt
  <2>3. CASE r.from = j
    BY <2>1, <2>2, <2>3
  <2>4. CASE r.from > j
    BY <2>1, <2>4
  <2> QED
    BY <1>1, <1>2, <2>1, <2>3, <2>4
<1>5. /\ r.newline \in BOOLEAN
      /\ ~r.newline => \/ isAtEnd(r.from)
                       \/ /\ buffer[r.from] \notin Blank \cup {CR, LF}
                          /\ ~(buffer[r.from] = "/" /\ peekNext(r.from) = "/")
  BY DEF TriviaSound
<1> QED
  BY <1>2, <1>3, <1>4, <1>5 DEF TriviaSound

\* The characters that nextToken treats differently are different.
LEMMA Distinct ==
    /\ "NUL" \notin Blank \cup {CR, LF, "/"}
    /\ CR \notin Blank /\ LF \notin Blank /\ CR # LF
    /\ "/" \notin Blank \cup {CR, LF}
  BY DEF Blank, CR, LF

LEMMA TriviaFacts ==
    ASSUME IsText
    PROVE  \A i \in Positions : TriviaSound(i, skipTriviaAndMaybeNewline[i])
<1> DEFINE skip == skipTriviaAndMaybeNewline
           G == {i \in Positions : TriviaSound(i, skip[i])}
<1>1. Len(buffer) + 1 \in Nat /\ Positions = 1..(Len(buffer) + 1) /\ Len(buffer) \in Nat
  BY TextFacts DEF Positions
<1>2. ASSUME NEW i \in 1..(Len(buffer) + 1), \A j \in (i + 1)..(Len(buffer) + 1) : j \in G
      PROVE  i \in G
  <2>1. \A j \in (i + 1)..(Len(buffer) + 1) : TriviaSound(j, skip[j])
    BY <1>2
  <2>2. skip[i] = TriviaAt(skip, i)
    BY <1>1, TriviaUnfolded
  <2>3. i \in Positions /\ i \in Nat
    BY <1>1
  <2>4. i..(i - 1) = {} /\ i \in i..(Len(buffer) + 1) /\ i..((i + 1) - 1) = {i}
    BY <1>1, <2>3
  <2> SUFFICES TriviaSound(i, skip[i])
    BY <2>3
  <2> HIDE DEF skip, G
  <2>5. CASE isAtEnd(i)
    <3>1. CharAt(i) = "NUL"
      BY <2>5 DEF CharAt
    <3>2. skip[i] = Content(i)
      BY <2>2, <2>5, <3>1, Distinct DEF TriviaAt
    <3> QED
      BY <2>4, <2>5, <3>2 DEF TriviaSound, Content
  <2>6. CASE ~isAtEnd(i)
    <3>1. /\ i \in DOMAIN buffer /\ CharAt(i) = buffer[i] /\ peekNext(i) = CharAt(i + 1)
          /\ i + 1 \in Positions /\ i + 1 \in (i + 1)..(Len(buffer) + 1)
      BY <1>1, <2>3, <2>6, TextFacts DEF peekNext
    <3>2. TriviaSound(i + 1, skip[i + 1]) /\ (i + 1) - 1 = i
      BY <2>1, <2>3, <3>1
    <3>3. peekNext(i) # "NUL" => /\ i + 1 \in DOMAIN buffer /\ peekNext(i) = buffer[i + 1]
                                /\ i + 2 \in (i + 1)..(Len(buffer) + 1) /\ (i + 2) - 1 = i + 1
                                /\ i..((i + 2) - 1) = {i, i + 1}
      <4>1. peekNext(i) # "NUL" => i + 1 \in DOMAIN buffer /\ peekNext(i) = buffer[i + 1]
        BY <3>1, TextFacts
      <4>2. i + 1 \in DOMAIN buffer => i + 1 <= Len(buffer)
        BY TextFacts
      <4> QED
        BY <1>1, <2>3, <4>1, <4>2
    <3>4. CASE CharAt(i) \in Blank
      <4>1. skip[i] = skip[i + 1]
        BY <2>2, <2>6, <3>4, Distinct DEF TriviaAt
      <4>2. \A p \in i..((i + 1) - 1) : Skipped(p, i)
        BY <2>4, <3>1, <3>4 DEF Skipped
      <4>3. buffer[(i + 1) - 1] # CR
        BY <3>1, <3>2, <3>4, Distinct
      <4> QED
        BY <3>1, <3>2, <4>1, <4>2, <4>3, SkipsOn
    <3>5. CASE CharAt(i) = CR /\ peekNext(i) = LF /\ Significant
      <4>1. skip[i] = NewlineAt(i, i + 2)
        BY <2>2, <2>6, <3>5, Distinct DEF TriviaAt
      <4>2. i + 1 \in DOMAIN buffer /\ buffer[i + 1] = LF
        BY <3>3, <3>5, Distinct
      <4>3. LineBreakAt(i, i + 2)
        BY <3>1, <3>5, <4>2 DEF LineBreakAt
      <4> QED
        BY <2>3, <2>4, <3>5, <4>1, <4>3 DEF TriviaSound, NewlineAt
    <3>6. CASE CharAt(i) = CR /\ peekNext(i) = LF /\ ~Significant
      <4>1. skip[i] = skip[i + 2]
        BY <2>2, <2>6, <3>6, Distinct DEF TriviaAt
      <4>2. \A p \in i..((i + 2) - 1) : Skipped(p, i)
        BY <3>1, <3>3, <3>6, Distinct DEF Skipped
      <4>3. TriviaSound(i + 2, skip[i + 2]) /\ i + 2 \in (i + 1)..(Len(buffer) + 1)
        BY <2>1, <3>3, <3>6, Distinct
      <4> QED
        BY <3>1, <3>6, <4>1, <4>2, <4>3, SkipsOn
    <3>7. CASE CharAt(i) = LF /\ Significant
      <4>1. skip[i] = NewlineAt(i, i + 1)
        BY <2>2, <2>6, <3>7, Distinct DEF TriviaAt
      <4>2. LineBreakAt(i, i + 1)
        BY <3>1, <3>7 DEF LineBreakAt
      <4> QED
        BY <2>3, <2>4, <3>7, <4>1, <4>2 DEF TriviaSound, NewlineAt
    <3>8. CASE CharAt(i) = LF /\ ~Significant
      <4>1. skip[i] = skip[i + 1]
        BY <2>2, <2>6, <3>8, Distinct DEF TriviaAt
      <4>2. \A p \in i..((i + 1) - 1) : Skipped(p, i)
        BY <2>4, <3>1, <3>8 DEF Skipped
      <4> QED
        BY <3>1, <3>2, <3>8, <4>1, <4>2, SkipsOn
    <3>9. CASE CharAt(i) = CR /\ peekNext(i) # LF
      <4>1. skip[i] = skip[i + 1]
        BY <2>2, <2>6, <3>9, Distinct DEF TriviaAt
      <4>2. \A p \in i..((i + 1) - 1) : Skipped(p, i)
        BY <2>4, <3>1, <3>9 DEF Skipped
      <4>3. i + 1 \in DOMAIN buffer => buffer[i + 1] # LF
        BY <3>1, <3>9, TextFacts
      <4> QED
        BY <3>1, <3>2, <4>1, <4>2, <4>3, SkipsOn
    <3>10. CASE CharAt(i) = "/" /\ peekNext(i) = "/"
      <4>1. PICK e : e = EndOf(i + 2, Comment)
        OBVIOUS
      <4>2. /\ i + 1 \in DOMAIN buffer
            /\ e \in Positions /\ e >= i + 2
            /\ \A p \in (i + 2)..(e - 1) : p \in Comment
        BY <3>1, <3>10, <4>1, CommentEnds
      <4>3. e \in (i + 1)..(Len(buffer) + 1) /\ TriviaSound(e, skip[e])
        BY <1>1, <2>1, <2>3, <4>2
      <4>4. skip[i] = skip[e]
        BY <2>2, <2>6, <3>10, <4>1, Distinct DEF TriviaAt
      <4>5. buffer[i] = "/" /\ buffer[i + 1] = "/"
        BY <3>1, <3>3, <3>10
      <4>6. \A p \in i..(e - 1) : buffer[p] # LF
        <5>1. \A p \in i..(e - 1) : p = i \/ p = i + 1 \/ p \in (i + 2)..(e - 1)
          BY <2>3, <4>3
        <5> QED
          BY <4>2, <4>5, <5>1, Distinct DEF Comment
      <4>7. \A p \in i..(e - 1) : i \in i..p /\ \A q \in i..p : q \in i..(e - 1)
        BY <2>3, <4>3
      <4>8. \A p \in i..(e - 1) : Skipped(p, i)
        BY <3>10, <4>5, <4>6, <4>7 DEF Skipped, InLineComment
      <4>9. e \in DOMAIN buffer /\ buffer[e] = LF => buffer[e - 1] # CR
        <5>1. CASE e = i + 2
          <6>1. e - 1 = i + 1
            BY <2>3, <5>1
          <6> QED
            BY <4>5, <6>1, Distinct
        <5>2. CASE e # i + 2
          <6>1. e - 1 \in (i + 2)..(e - 1) /\ (e - 1) + 1 = e
            BY <2>3, <4>2, <4>3, <5>2
          <6>2. e - 1 \in Comment
            BY <4>2, <6>1
          <6>3. e \in DOMAIN buffer => peekNext(e - 1) = buffer[e]
            BY <6>1, TextFacts DEF peekNext
          <6> QED
            BY <6>2, <6>3 DEF Comment
        <5> QED
          BY <5>1, <5>2
      <4> QED
        BY <3>1, <4>3, <4>4, <4>8, <4>9, SkipsOn
    <3>11. CASE /\ CharAt(i) \notin Blank \cup {CR, LF}
                /\ ~(CharAt(i) = "/" /\ peekNext(i) = "/")
      <4>1. skip[i] = Content(i)
        BY <2>2, <2>6, <3>11 DEF TriviaAt
      <4> QED
        BY <2>4, <3>1, <3>11, <4>1 DEF TriviaSound, Content
    <3> QED
      BY <3>4, <3>5, <3>6, <3>7, <3>8, <3>9, <3>10, <3>11
  <2> QED
    BY <2>5, <2>6
<1>3. \A i \in 1..(Len(buffer) + 1) : i \in G
  <2> HIDE DEF G
  <2> QED
    BY <1>1, <1>2, CountingDown
<1> QED
  BY <1>1, <1>3

----------------------------------------------------------------------------
(* Literals *)

\* LiteralFrom at one position, f being its results behind it.
LiteralAt(f, i, quote, escapes) ==
    CASE isAtEnd(i) \/ CharAt(i) \in {LF, CR} -> [to |-> i, valid |-> FALSE, units |-> 0]
      [] CharAt(i) = quote -> [to |-> i + 1, valid |-> TRUE, units |-> 0]
      [] CharAt(i) = "\\" /\ isAtEnd(i + 1) -> [to |-> i + 1, valid |-> FALSE, units |-> 0]
      [] CharAt(i) = "\\" /\ ~isAtEnd(i + 1) ->
            WithUnit(f[i + 2], peekNext(i) \in escapes)
      [] OTHER -> WithUnit(f[i + 1], TRUE)

LiteralResults == [to : Nat, valid : BOOLEAN, units : Nat]

\* A quote that is no other of the characters the scan looks for.
IsQuote(quote) == quote \notin {LF, CR, "\\", "NUL"}

\* What a step of the scan returns, case by case.
LiteralCase(f, i, quote, escapes) ==
    /\ isAtEnd(i) \/ CharAt(i) \in {LF, CR} =>
          LiteralAt(f, i, quote, escapes) = [to |-> i, valid |-> FALSE, units |-> 0]
    /\ CharAt(i) = quote =>
          LiteralAt(f, i, quote, escapes) = [to |-> i + 1, valid |-> TRUE, units |-> 0]
    /\ CharAt(i) = "\\" /\ isAtEnd(i + 1) =>
          LiteralAt(f, i, quote, escapes) = [to |-> i + 1, valid |-> FALSE, units |-> 0]
    /\ CharAt(i) = "\\" /\ ~isAtEnd(i + 1) =>
          LiteralAt(f, i, quote, escapes) = WithUnit(f[i + 2], peekNext(i) \in escapes)
    /\ ~isAtEnd(i) /\ CharAt(i) \notin {LF, CR, quote, "\\"} =>
          LiteralAt(f, i, quote, escapes) = WithUnit(f[i + 1], TRUE)

LEMMA LiteralCases ==
    ASSUME NEW i, NEW quote, NEW escapes, NEW f, IsQuote(quote)
    PROVE  LiteralCase(f, i, quote, escapes)
<1>1. isAtEnd(i) => CharAt(i) = "NUL"
  BY DEF CharAt
<1>2. /\ "NUL" \notin {LF, CR, "\\"} /\ "\\" \notin {LF, CR}
      /\ quote \notin {LF, CR, "\\", "NUL"}
  BY DEF IsQuote, LF, CR
<1>3. isAtEnd(i) \/ CharAt(i) \in {LF, CR} =>
         LiteralAt(f, i, quote, escapes) = [to |-> i, valid |-> FALSE, units |-> 0]
  BY <1>1, <1>2 DEF LiteralAt
<1>4. CharAt(i) = quote =>
         LiteralAt(f, i, quote, escapes) = [to |-> i + 1, valid |-> TRUE, units |-> 0]
  BY <1>1, <1>2 DEF LiteralAt
<1>5. CharAt(i) = "\\" /\ isAtEnd(i + 1) =>
         LiteralAt(f, i, quote, escapes) = [to |-> i + 1, valid |-> FALSE, units |-> 0]
  BY <1>1, <1>2 DEF LiteralAt
<1>6. CharAt(i) = "\\" /\ ~isAtEnd(i + 1) =>
         LiteralAt(f, i, quote, escapes) = WithUnit(f[i + 2], peekNext(i) \in escapes)
  BY <1>1, <1>2 DEF LiteralAt
<1>7. ~isAtEnd(i) /\ CharAt(i) \notin {LF, CR, quote, "\\"} =>
         LiteralAt(f, i, quote, escapes) = WithUnit(f[i + 1], TRUE)
  BY <1>1, <1>2 DEF LiteralAt
<1> QED
  BY <1>3, <1>4, <1>5, <1>6, <1>7 DEF LiteralCase

LEMMA LiteralUnfolded ==
    ASSUME IsText, NEW quote, NEW escapes, IsQuote(quote)
    PROVE  \A i \in Positions :
              LiteralFrom(quote, escapes)[i]
              = LiteralAt(LiteralFrom(quote, escapes), i, quote, escapes)
<1> DEFINE N == Len(buffer) + 1
           S == LiteralResults
           F == [x \in (1..N) \X [1..N -> S] |-> LiteralAt(x[2], x[1], quote, escapes)]
<1>1. N \in Nat /\ Positions = 1..N
  BY TextFacts DEF Positions
<1>2. \A i \in 1..N : /\ [to |-> i, valid |-> FALSE, units |-> 0] \in S
                      /\ [to |-> i + 1, valid |-> FALSE, units |-> 0] \in S
                      /\ [to |-> i + 1, valid |-> TRUE, units |-> 0] \in S
  BY <1>1 DEF LiteralResults
<1>3. \A i \in 1..N : ~isAtEnd(i) => i + 1 \in (i + 1)..N
  BY <1>1, TextFacts
<1>4. \A i \in 1..N : ~isAtEnd(i) /\ ~isAtEnd(i + 1) => i + 2 \in (i + 1)..N
  BY <1>1, TextFacts DEF isAtEnd
<1>5. \A r \in S : /\ WithUnit(r, TRUE) \in S
                   /\ \A i \in 1..N : WithUnit(r, peekNext(i) \in escapes) \in S
  BY DEF LiteralResults, WithUnit
<1> HIDE DEF N, S
<1>6. F \in StepsBack(N, S)
  <2>1. \A i \in 1..N : \A j \in (i + 1)..N : j \in 1..N
    BY <1>1
  <2>2. ASSUME NEW i \in 1..N, NEW f \in [1..N -> S]
        PROVE  LiteralAt(f, i, quote, escapes) \in S
    <3>1. \A j \in (i + 1)..N : f[j] \in S
      BY <2>1, <2>2
    <3>2. LiteralCase(f, i, quote, escapes)
      BY LiteralCases
    <3>3. CASE isAtEnd(i) \/ CharAt(i) \in {LF, CR}
      BY <1>2, <3>2, <3>3 DEF LiteralCase
    <3>4. CASE CharAt(i) = quote
      BY <1>2, <3>2, <3>4 DEF LiteralCase
    <3>5. CASE CharAt(i) = "\\" /\ isAtEnd(i + 1)
      BY <1>2, <3>2, <3>5 DEF LiteralCase
    <3>6. CASE CharAt(i) = "\\" /\ ~isAtEnd(i + 1)
      <4>1. f[i + 2] \in S
        <5>1. ~isAtEnd(i)
          BY <3>6 DEF CharAt
        <5> QED
          BY <1>4, <3>1, <3>6, <5>1
      <4>2. LiteralAt(f, i, quote, escapes) =
              WithUnit(f[i + 2], peekNext(i) \in escapes)
        BY <3>2, <3>6 DEF LiteralCase
      <4> QED
        BY <1>5, <4>1, <4>2
    <3>7. CASE ~isAtEnd(i) /\ CharAt(i) \notin {LF, CR, quote, "\\"}
      <4>1. f[i + 1] \in S
        BY <1>3, <3>1, <3>7
      <4>2. LiteralAt(f, i, quote, escapes) = WithUnit(f[i + 1], TRUE)
        BY <3>2, <3>7 DEF LiteralCase
      <4> QED
        BY <1>5, <4>1, <4>2
    <3> QED
      BY <3>3, <3>4, <3>5, <3>6, <3>7
  <2>3. ASSUME NEW i \in 1..N, NEW f \in [1..N -> S], NEW g \in [1..N -> S],
               \A j \in (i + 1)..N : f[j] = g[j]
        PROVE  LiteralAt(f, i, quote, escapes) = LiteralAt(g, i, quote, escapes)
    <3>1. LiteralCase(f, i, quote, escapes) /\ LiteralCase(g, i, quote, escapes)
      BY LiteralCases
    <3>2. CASE isAtEnd(i) \/ CharAt(i) \in {LF, CR}
      BY <3>1, <3>2 DEF LiteralCase
    <3>3. CASE CharAt(i) = quote
      BY <3>1, <3>3 DEF LiteralCase
    <3>4. CASE CharAt(i) = "\\" /\ isAtEnd(i + 1)
      BY <3>1, <3>4 DEF LiteralCase
    <3>5. CASE CharAt(i) = "\\" /\ ~isAtEnd(i + 1)
      <4>1. ~isAtEnd(i)
        BY <3>5 DEF CharAt
      <4>2. f[i + 2] = g[i + 2]
        BY <1>4, <2>3, <3>5, <4>1
      <4>3. LiteralAt(f, i, quote, escapes) =
              WithUnit(f[i + 2], peekNext(i) \in escapes)
        BY <3>1, <3>5 DEF LiteralCase
      <4>4. LiteralAt(g, i, quote, escapes) =
              WithUnit(g[i + 2], peekNext(i) \in escapes)
        BY <3>1, <3>5 DEF LiteralCase
      <4> QED
        BY <4>2, <4>3, <4>4
    <3>6. CASE ~isAtEnd(i) /\ CharAt(i) \notin {LF, CR, quote, "\\"}
      <4>1. f[i + 1] = g[i + 1]
        BY <1>3, <2>3, <3>6
      <4>2. LiteralAt(f, i, quote, escapes) = WithUnit(f[i + 1], TRUE)
        BY <3>1, <3>6 DEF LiteralCase
      <4>3. LiteralAt(g, i, quote, escapes) = WithUnit(g[i + 1], TRUE)
        BY <3>1, <3>6 DEF LiteralCase
      <4> QED
        BY <4>1, <4>2, <4>3
    <3> QED
      BY <3>2, <3>3, <3>4, <3>5, <3>6
  <2>4. F \in [(1..N) \X [1..N -> S] -> S]
    BY <2>2
  <2>5. \A i \in 1..N, f \in [1..N -> S] : F[<<i, f>>] = LiteralAt(f, i, quote, escapes)
    OBVIOUS
  <2> HIDE DEF F
  <2> QED
    BY <2>3, <2>4, <2>5 DEF StepsBack
<1>7. \A i \in 1..N, f \in [1..N -> S] : F[<<i, f>>] = LiteralAt(f, i, quote, escapes)
  OBVIOUS
<1> HIDE DEF F
<1>8. S # {}
  <2>1. 1 \in 1..N
    BY <1>1, TextFacts
  <2> QED
    BY <1>2, <2>1
<1>9. PICK f \in [1..N -> S] : \A i \in 1..N : f[i] = F[<<i, f>>]
  BY <1>1, <1>6, <1>8, BackwardRecursion DEF Defined
<1>10. f = [i \in 1..N |-> LiteralAt(f, i, quote, escapes)] /\ f \in [Positions -> S]
  BY <1>1, <1>7, <1>9
<1> DEFINE Meant(h) == h = [i \in Positions |->
          CASE isAtEnd(i) \/ CharAt(i) \in {LF, CR} -> [to |-> i, valid |-> FALSE, units |-> 0]
            [] CharAt(i) = quote -> [to |-> i + 1, valid |-> TRUE, units |-> 0]
            [] CharAt(i) = "\\" /\ isAtEnd(i + 1) -> [to |-> i + 1, valid |-> FALSE, units |-> 0]
            [] CharAt(i) = "\\" /\ ~isAtEnd(i + 1) ->
                  WithUnit(h[i + 2], peekNext(i) \in escapes)
            [] OTHER -> WithUnit(h[i + 1], TRUE)]
<1>11. LiteralFrom(quote, escapes) = CHOOSE h : Meant(h)
  BY DEF LiteralFrom
<1>12. Meant(f)
  BY <1>1, <1>10 DEF LiteralAt
<1>13. Meant(LiteralFrom(quote, escapes))
  <2> HIDE DEF Meant
  <2> QED
    BY <1>11, <1>12
<1>14. LiteralFrom(quote, escapes)
       = [i \in Positions |-> LiteralAt(LiteralFrom(quote, escapes), i, quote, escapes)]
  BY <1>13 DEF LiteralAt
<1> QED
  BY <1>14

LEMMA UnitIsValid ==
    ASSUME NEW rest, NEW ok
    PROVE  WithUnit(rest, ok).valid = (rest.valid /\ ok)
  BY Zenon DEF WithUnit

\* The scan of a literal ends in the text, and runs over a line break or a CR only
\* behind a backslash, which leaves it invalid.
LiteralSound(i, r) ==
    /\ r \in LiteralResults /\ r.to \in i..(Len(buffer) + 1)
    /\ \A p \in i..(r.to - 1) :
          buffer[p] \in {LF, CR} => ~r.valid /\ p > i /\ buffer[p - 1] = "\\"

LEMMA LiteralFacts ==
    ASSUME IsText, NEW quote, NEW escapes, IsQuote(quote), LF \notin escapes, CR \notin escapes
    PROVE  \A i \in Positions : LiteralSound(i, LiteralFrom(quote, escapes)[i])
<1> DEFINE from == LiteralFrom(quote, escapes)
           G == {i \in Positions : LiteralSound(i, from[i])}
<1>1. Len(buffer) + 1 \in Nat /\ Positions = 1..(Len(buffer) + 1) /\ Len(buffer) \in Nat
  BY TextFacts DEF Positions
<1>2. ASSUME NEW i \in 1..(Len(buffer) + 1), \A j \in (i + 1)..(Len(buffer) + 1) : j \in G
      PROVE  i \in G
  <2>1. \A j \in (i + 1)..(Len(buffer) + 1) : LiteralSound(j, from[j])
    BY <1>2
  <2>2. from[i] = LiteralAt(from, i, quote, escapes)
    BY <1>1, LiteralUnfolded
  <2>3. i \in Positions /\ i \in Nat /\ i >= 1
    BY <1>1
  <2>4. i..(i - 1) = {} /\ i \in i..(Len(buffer) + 1) /\ i..((i + 1) - 1) = {i}
    BY <1>1, <2>3
  <2>5. LiteralCase(from, i, quote, escapes)
    BY LiteralCases
  <2>6. ~isAtEnd(i) => /\ i \in DOMAIN buffer /\ CharAt(i) = buffer[i] /\ i + 1 \in Positions
                       /\ i + 1 \in (i + 1)..(Len(buffer) + 1)
    BY <1>1, <2>3, TextFacts
  <2>7. isAtEnd(i) => CharAt(i) = "NUL"
    BY DEF CharAt
  <2> SUFFICES LiteralSound(i, from[i])
    BY <2>3
  <2> HIDE DEF from, G
  <2>8. CASE isAtEnd(i) \/ CharAt(i) \in {LF, CR}
    <3>1. from[i] = [to |-> i, valid |-> FALSE, units |-> 0]
      BY <2>2, <2>5, <2>8 DEF LiteralCase
    <3> QED
      BY <2>3, <2>4, <3>1 DEF LiteralSound, LiteralResults
  <2>9. CASE CharAt(i) = quote
    <3>1. from[i] = [to |-> i + 1, valid |-> TRUE, units |-> 0]
      BY <2>2, <2>5, <2>9 DEF LiteralCase
    <3>2. ~isAtEnd(i) /\ quote \notin {LF, CR}
      BY <2>7, <2>9 DEF IsQuote
    <3> QED
      BY <2>3, <2>4, <2>6, <2>9, <3>1, <3>2 DEF LiteralSound, LiteralResults
  <2>10. CASE CharAt(i) = "\\" /\ isAtEnd(i + 1)
    <3>1. from[i] = [to |-> i + 1, valid |-> FALSE, units |-> 0]
      BY <2>2, <2>5, <2>10 DEF LiteralCase
    <3>2. ~isAtEnd(i) /\ "\\" \notin {LF, CR}
      BY <2>7, <2>10 DEF LF, CR
    <3> QED
      BY <2>3, <2>4, <2>6, <2>10, <3>1, <3>2 DEF LiteralSound, LiteralResults
  <2>11. CASE CharAt(i) = "\\" /\ ~isAtEnd(i + 1)
    <3>1. from[i] = WithUnit(from[i + 2], peekNext(i) \in escapes)
      BY <2>2, <2>5, <2>11 DEF LiteralCase
    <3>2. ~isAtEnd(i) /\ "\\" \notin {LF, CR}
      BY <2>7, <2>11 DEF LF, CR
    <3>3. i + 2 \in (i + 1)..(Len(buffer) + 1) /\ i + 1 \in DOMAIN buffer
      BY <1>1, <2>3, <2>6, <2>11, <3>2, TextFacts DEF isAtEnd
    <3>4. LiteralSound(i + 2, from[i + 2])
      BY <2>1, <3>3
    <3>5. peekNext(i) = buffer[i + 1]
      BY <3>3, TextFacts DEF peekNext
    <3>6. from[i].to = from[i + 2].to /\ from[i] \in LiteralResults
      BY <3>1, <3>4 DEF WithUnit, LiteralSound, LiteralResults
    <3>7. from[i].valid => from[i + 2].valid /\ buffer[i + 1] \in escapes
      <4>1. WithUnit(from[i + 2], peekNext(i) \in escapes).valid
            = (from[i + 2].valid /\ peekNext(i) \in escapes)
        BY UnitIsValid, Zenon
      <4> QED
        BY <3>1, <3>5, <4>1, Zenon
    <3>8. /\ from[i + 2].to \in (i + 2)..(Len(buffer) + 1)
          /\ \A p \in (i + 2)..(from[i + 2].to - 1) :
                buffer[p] \in {LF, CR} => ~from[i + 2].valid /\ p > i + 2 /\ buffer[p - 1] = "\\"
      BY <3>4 DEF LiteralSound
    <3>9. ASSUME NEW p \in i..(from[i].to - 1), buffer[p] \in {LF, CR}
          PROVE  ~from[i].valid /\ p > i /\ buffer[p - 1] = "\\"
      <4>1. p = i \/ p = i + 1 \/ p \in (i + 2)..(from[i + 2].to - 1)
        BY <2>3, <3>6, <3>8
      <4>2. p # i
        BY <2>6, <2>11, <3>2, <3>9
      <4>3. CASE p = i + 1
        <5>1. (i + 1) - 1 = i /\ buffer[i] = "\\"
          BY <2>3, <2>6, <2>11, <3>2
        <5> QED
          BY <2>3, <3>7, <3>9, <4>3, <5>1
      <4>4. CASE p \in (i + 2)..(from[i + 2].to - 1)
        BY <2>3, <3>7, <3>8, <3>9, <4>4
      <4> QED
        BY <4>1, <4>2, <4>3, <4>4
    <3>10. from[i].to \in i..(Len(buffer) + 1)
      BY <1>1, <2>3, <3>6, <3>8
    <3> QED
      BY <3>6, <3>9, <3>10 DEF LiteralSound
  <2>12. CASE ~isAtEnd(i) /\ CharAt(i) \notin {LF, CR, quote, "\\"}
    <3>1. from[i] = WithUnit(from[i + 1], TRUE)
      BY <2>2, <2>5, <2>12 DEF LiteralCase
    <3>2. LiteralSound(i + 1, from[i + 1])
      BY <2>1, <2>6, <2>12
    <3>3. from[i].to = from[i + 1].to /\ from[i] \in LiteralResults
      BY <3>1, <3>2 DEF WithUnit, LiteralSound, LiteralResults
    <3>4. from[i].valid => from[i + 1].valid
      <4>1. WithUnit(from[i + 1], TRUE).valid = (from[i + 1].valid /\ TRUE)
        BY UnitIsValid, Zenon
      <4> QED
        BY <3>1, <4>1, Zenon
    <3>5. /\ from[i + 1].to \in (i + 1)..(Len(buffer) + 1)
          /\ \A p \in (i + 1)..(from[i + 1].to - 1) :
                buffer[p] \in {LF, CR} => ~from[i + 1].valid /\ p > i + 1 /\ buffer[p - 1] = "\\"
      BY <3>2 DEF LiteralSound
    <3>6. ASSUME NEW p \in i..(from[i].to - 1), buffer[p] \in {LF, CR}
          PROVE  ~from[i].valid /\ p > i /\ buffer[p - 1] = "\\"
      <4>1. p = i \/ p \in (i + 1)..(from[i + 1].to - 1)
        BY <2>3, <3>3, <3>5
      <4>2. p # i
        BY <2>6, <2>12, <3>6
      <4> QED
        BY <2>3, <3>4, <3>5, <3>6, <4>1, <4>2
    <3>7. from[i].to \in i..(Len(buffer) + 1)
      BY <1>1, <2>3, <3>3, <3>5
    <3> QED
      BY <3>3, <3>6, <3>7 DEF LiteralSound
  <2> QED
    BY <2>8, <2>9, <2>10, <2>11, <2>12
<1>3. \A i \in 1..(Len(buffer) + 1) : i \in G
  <2> HIDE DEF G
  <2> QED
    BY <1>1, <1>2, CountingDown
<1> QED
  BY <1>1, <1>3

----------------------------------------------------------------------------
(* Brackets *)

Excess(ts, open, close, k, n) ==
    Cardinality({i \in k..n : ts[i].kind = open}) - Cardinality({i \in k..n : ts[i].kind = close})

UnclosedIn(ts, open, close, n) == Max({Excess(ts, open, close, k, n) : k \in 1..(n + 1)})

\* d is what some run of tokens that ends at n leaves open, and no run leaves more.
IsDepth(d, ts, open, close, n) ==
    /\ \E k \in 1..(n + 1) : Excess(ts, open, close, k, n) = d
    /\ \A k \in 1..(n + 1) : Excess(ts, open, close, k, n) <= d

DepthAfter(d, kind, open, close) ==
    CASE kind = open -> d + 1
      [] kind = close /\ d > 0 -> d - 1
      [] OTHER -> d

LEMMA DepthIsUnclosed ==
    ASSUME NEW ts, NEW open, NEW close, NEW n \in Nat, NEW d \in Nat, IsDepth(d, ts, open, close, n),
           \A k \in 1..(n + 1) : Excess(ts, open, close, k, n) \in Int
    PROVE  UnclosedIn(ts, open, close, n) = d
<1> DEFINE T == {Excess(ts, open, close, k, n) : k \in 1..(n + 1)}
<1>1. T \in SUBSET Int /\ d \in T /\ \A y \in T : y <= d
  BY DEF IsDepth
<1>2. UnclosedIn(ts, open, close, n) = Max(T)
  BY DEF UnclosedIn
<1> HIDE DEF T
<1>3. \A x \in T : (\A y \in T : x >= y) => x = d
  BY <1>1
<1>4. \A y \in T : d >= y
  BY <1>1
<1> QED
  BY <1>1, <1>2, <1>3, <1>4 DEF Max

\* One token more adds to every run, or begins one.
Begins(ts, us, n) == \A i \in 1..n : us[i] = ts[i]

ExcessWithOneMore(ts, us, open, close, n) ==
    /\ \A k \in 1..(n + 1) : /\ Excess(us, open, close, k, n) = Excess(ts, open, close, k, n)
                             /\ Excess(ts, open, close, k, n) \in Int
    /\ \A k \in 1..(n + 1) : Excess(us, open, close, k, n + 1)
          = Excess(ts, open, close, k, n)
            + (IF us[n + 1].kind = open THEN 1 ELSE 0)
            - (IF us[n + 1].kind = close THEN 1 ELSE 0)
    /\ Excess(us, open, close, n + 2, n + 1) = 0

LEMMA ExcessGrows ==
    ASSUME NEW ts, NEW us, NEW open, NEW close, NEW n \in Nat, Begins(ts, us, n)
    PROVE  ExcessWithOneMore(ts, us, open, close, n)
<1> DEFINE Of(t, kind, k, m) == {i \in k..m : t[i].kind = kind}
<1>1. ASSUME NEW k \in 1..(n + 1), NEW kind
      PROVE  /\ Of(us, kind, k, n) = Of(ts, kind, k, n)
             /\ IsFiniteSet(Of(ts, kind, k, n)) /\ Cardinality(Of(ts, kind, k, n)) \in Nat
  <2>1. \A i \in k..n : us[i] = ts[i]
    BY DEF Begins
  <2>2. IsFiniteSet(k..n) /\ Of(ts, kind, k, n) \subseteq k..n
    BY FS_Interval
  <2> QED
    BY <2>1, <2>2, FS_Subset, FS_CardinalityType
<1>2. ASSUME NEW k \in 1..(n + 1), NEW kind
      PROVE  Cardinality(Of(us, kind, k, n + 1))
             = Cardinality(Of(ts, kind, k, n)) + (IF us[n + 1].kind = kind THEN 1 ELSE 0)
  <2>1. k..(n + 1) = (k..n) \cup {n + 1} /\ n + 1 \notin k..n
    OBVIOUS
  <2>2. IsFiniteSet(Of(us, kind, k, n)) /\ Of(us, kind, k, n) = Of(ts, kind, k, n)
        /\ Cardinality(Of(ts, kind, k, n)) \in Nat
    BY <1>1
  <2>3. n + 1 \notin Of(us, kind, k, n)
    BY <2>1
  <2>4. CASE us[n + 1].kind = kind
    <3>1. Of(us, kind, k, n + 1) = Of(us, kind, k, n) \cup {n + 1}
      BY <2>1, <2>4
    <3> HIDE DEF Of
    <3> QED
      BY <2>2, <2>3, <2>4, <3>1, FS_AddElement
  <2>5. CASE us[n + 1].kind # kind
    <3>1. Of(us, kind, k, n + 1) = Of(us, kind, k, n)
      BY <2>1, <2>5
    <3> HIDE DEF Of
    <3> QED
      BY <2>2, <2>5, <3>1
  <2> QED
    BY <2>4, <2>5
<1>3. (n + 2)..(n + 1) = {}
  OBVIOUS
<1>4. \A kind : Of(us, kind, n + 2, n + 1) = {}
  BY <1>3
<1>5. Cardinality({}) = 0
  BY FS_EmptySet
<1>6. \A t, k, m : Excess(t, open, close, k, m) = Cardinality(Of(t, open, k, m)) - Cardinality(Of(t, close, k, m))
  BY DEF Excess
<1> HIDE DEF Of
<1>7. \A k \in 1..(n + 1) : /\ Excess(us, open, close, k, n) = Excess(ts, open, close, k, n)
                            /\ Excess(ts, open, close, k, n) \in Int
  BY <1>1, <1>6
<1>8. ASSUME NEW k \in 1..(n + 1)
      PROVE  Excess(us, open, close, k, n + 1)
                 = Excess(ts, open, close, k, n)
                   + (IF us[n + 1].kind = open THEN 1 ELSE 0)
                   - (IF us[n + 1].kind = close THEN 1 ELSE 0)
  <2>1. /\ Cardinality(Of(us, open, k, n + 1))
             = Cardinality(Of(ts, open, k, n)) + (IF us[n + 1].kind = open THEN 1 ELSE 0)
        /\ Cardinality(Of(us, close, k, n + 1))
             = Cardinality(Of(ts, close, k, n)) + (IF us[n + 1].kind = close THEN 1 ELSE 0)
        /\ Cardinality(Of(ts, open, k, n)) \in Nat /\ Cardinality(Of(ts, close, k, n)) \in Nat
    BY <1>1, <1>2
  <2> QED
    BY <1>6, <2>1
<1>9. Excess(us, open, close, n + 2, n + 1) = 0
  <2>1. Cardinality(Of(us, open, n + 2, n + 1)) = 0 /\ Cardinality(Of(us, close, n + 2, n + 1)) = 0
    BY <1>4, <1>5
  <2>2. Excess(us, open, close, n + 2, n + 1)
        = Cardinality(Of(us, open, n + 2, n + 1)) - Cardinality(Of(us, close, n + 2, n + 1))
    BY DEF Excess, Of
  <2> QED
    BY <2>1, <2>2
<1> QED
  BY <1>7, <1>8, <1>9 DEF ExcessWithOneMore

LEMMA DepthGrows ==
    ASSUME NEW ts, NEW us, NEW open, NEW close, open # close, NEW n \in Nat, NEW d \in Nat,
           Begins(ts, us, n), IsDepth(d, ts, open, close, n)
    PROVE  LET e == DepthAfter(d, us[n + 1].kind, open, close)
           IN  /\ e \in Nat /\ IsDepth(e, us, open, close, n + 1)
               /\ UnclosedIn(us, open, close, n + 1) = e
               /\ UnclosedIn(us, open, close, n) = UnclosedIn(ts, open, close, n)
<1> DEFINE e == DepthAfter(d, us[n + 1].kind, open, close)
           E(k) == Excess(ts, open, close, k, n)
           H(k) == Excess(us, open, close, k, n + 1)
           delta == (IF us[n + 1].kind = open THEN 1 ELSE 0) - (IF us[n + 1].kind = close THEN 1 ELSE 0)
<1>1. /\ \A k \in 1..(n + 1) : E(k) \in Int /\ Excess(us, open, close, k, n) = E(k)
      /\ \A k \in 1..(n + 1) : H(k) = E(k) + delta
      /\ H(n + 2) = 0
  <2>1. /\ \A k \in 1..(n + 1) : /\ Excess(us, open, close, k, n) = E(k) /\ E(k) \in Int
        /\ \A k \in 1..(n + 1) : H(k) = E(k) + (IF us[n + 1].kind = open THEN 1 ELSE 0)
                                             - (IF us[n + 1].kind = close THEN 1 ELSE 0)
        /\ H(n + 2) = 0
    <3>1. ExcessWithOneMore(ts, us, open, close, n)
      BY ExcessGrows
    <3> QED
      BY <3>1 DEF ExcessWithOneMore
  <2>2. PICK x \in {0, 1}, y \in {0, 1} :
           /\ x = IF us[n + 1].kind = open THEN 1 ELSE 0
           /\ y = IF us[n + 1].kind = close THEN 1 ELSE 0
    OBVIOUS
  <2>3. \A k \in 1..(n + 1) : H(k) = E(k) + x - y /\ E(k) \in Int
    BY <2>1, <2>2
  <2>4. delta = x - y
    BY <2>2
  <2> HIDE DEF E, H, delta
  <2>5. \A k \in 1..(n + 1) : H(k) = E(k) + delta
    BY <2>2, <2>3, <2>4
  <2> QED
    BY <2>1, <2>5
<1>2. \E k \in 1..(n + 1) : E(k) = d
  BY DEF IsDepth
<1>3. \A k \in 1..(n + 1) : E(k) <= d
  BY DEF IsDepth
<1>4. /\ us[n + 1].kind = open => e = d + 1 /\ delta = 1
      /\ us[n + 1].kind = close => delta = -1 /\ (d > 0 => e = d - 1) /\ (d = 0 => e = 0)
      /\ us[n + 1].kind \notin {open, close} => e = d /\ delta = 0
  BY DEF DepthAfter
<1> HIDE DEF e, E, H, delta
<1>5. e \in Nat /\ (e = d + delta \/ (e = 0 /\ d = 0 /\ delta = -1)) /\ delta \in Int
      /\ d + delta <= e
  BY <1>4
<1>6. \A k \in 1..(n + 2) : k \in 1..(n + 1) \/ k = n + 2
  OBVIOUS
<1>7. \A k \in 1..(n + 2) : H(k) \in Int /\ H(k) <= e
  BY <1>1, <1>3, <1>5, <1>6
<1>8. \E k \in 1..(n + 2) : H(k) = e
  <2>1. CASE e = d + delta
    <3>1. PICK k \in 1..(n + 1) : E(k) = d
      BY <1>2
    <3>2. k \in 1..(n + 2) /\ H(k) = e
      BY <1>1, <2>1, <3>1
    <3> QED
      BY <3>2
  <2>2. CASE e = 0
    <3>1. n + 2 \in 1..(n + 2)
      OBVIOUS
    <3> QED
      BY <1>1, <2>2, <3>1
  <2> QED
    BY <1>5, <2>1, <2>2
<1>9. (n + 1) + 1 = n + 2 /\ n + 1 \in Nat
  OBVIOUS
<1>10. IsDepth(e, us, open, close, n + 1)
  BY <1>7, <1>8, <1>9 DEF IsDepth, H
<1>11. UnclosedIn(us, open, close, n + 1) = e
  BY <1>5, <1>7, <1>9, <1>10, DepthIsUnclosed DEF H
<1>12. UnclosedIn(us, open, close, n) = UnclosedIn(ts, open, close, n)
  <2>1. {Excess(us, open, close, k, n) : k \in 1..(n + 1)}
        = {Excess(ts, open, close, k, n) : k \in 1..(n + 1)}
    BY <1>1 DEF E
  <2> QED
    BY <2>1 DEF UnclosedIn
<1> QED
  BY <1>5, <1>10, <1>11, <1>12 DEF e

----------------------------------------------------------------------------
(* What a call hands out *)

AllKinds == Kinds \cup {"Newline", "Invalid", "EndOfFile"}

Brackets == {"(", ")", "[", "]"}

LEMMA DoubleKinds ==
    /\ DOMAIN DoubleKind = {<<"-", ">">>, <<"=", "=">>, <<"!", "=">>, <<"<", "=">>,
                            <<">", "=">>, <<"&", "&">>, <<"|", "|">>, <<".", ".">>}
    /\ \A p \in DOMAIN DoubleKind :
          DoubleKind[p] \in {"->", "==", "!=", "<=", ">=", "&&", "||", ".."}
  BY DEF DoubleKind

LEMMA SingleKinds ==
    /\ DOMAIN SingleKind = {"+", "-", "*", "/", "%", "=", "!", "<", ">", "&", ".", "?",
                            "(", ")", "{", "}", "[", "]", ",", ":", ";"}
    /\ \A c \in DOMAIN SingleKind : SingleKind[c] = c
  BY DEF SingleKind

\* A line break or a CR inside a token stands behind a backslash of a literal that is Invalid.
LineFree(kind, from, to) == \A p \in from..(to - 1) :
    buffer[p] \in {LF, CR} => kind = "Invalid" /\ p > from /\ buffer[p - 1] = "\\"

\* What is true of the next token, in the state that it is asked for in.
TokenSound(kind, from, to) ==
    /\ kind \in AllKinds /\ from \in Positions /\ to \in Positions /\ offset <= from /\ from <= to
    /\ \A p \in offset..(from - 1) : Skipped(p, offset)
    /\ \/ kind = "EndOfFile" /\ from = Len(buffer) + 1
       \/ /\ kind = "Newline" /\ Significant /\ LineBreakAt(from, to)
          /\ from > offset /\ buffer[from] = LF => buffer[from - 1] # CR
       \/ kind \notin {"EndOfFile", "Newline"} /\ from < to /\ LineFree(kind, from, to)

Emits(kind, from, to) ==
    /\ TokenSound(kind, from, to)
    /\ Emit(kind, from, to)
    /\ parenDepth' = DepthAfter(parenDepth, kind, "(", ")")
    /\ bracketDepth' = DepthAfter(bracketDepth, kind, "[", "]")

LEMMA StartFacts ==
    ASSUME IsText, offset \in Positions, Scanning
    PROVE  /\ Start \in DOMAIN buffer /\ CharAt(Start) = buffer[Start] /\ offset <= Start
           /\ Start \in Positions /\ Start + 1 \in Positions /\ Start \in Nat /\ offset \in Nat
           /\ \A p \in offset..(Start - 1) : Skipped(p, offset)
           /\ buffer[Start] \notin Blank \cup {CR, LF}
           /\ ~(buffer[Start] = "/" /\ peekNext(Start) = "/")
<1>1. TriviaSound(offset, Trivia)
  BY TriviaFacts DEF Trivia
<1>2. Len(buffer) \in Nat /\ offset \in Nat /\ offset >= 1
  BY TextFacts
<1>3. Start \in offset..(Len(buffer) + 1)
  BY <1>1 DEF TriviaSound, Start
<1>4. Start \in Positions /\ offset <= Start /\ Start \in Nat
  BY <1>2, <1>3 DEF Positions
<1>5. ~isAtEnd(Start) /\ ~Trivia.newline
  BY DEF Scanning
<1>6. /\ \A p \in offset..(Start - 1) : Skipped(p, offset)
      /\ buffer[Start] \notin Blank \cup {CR, LF} /\ ~(buffer[Start] = "/" /\ peekNext(Start) = "/")
  BY <1>1, <1>5 DEF TriviaSound, Start
<1>7. Start \in DOMAIN buffer /\ Start + 1 \in Positions /\ CharAt(Start) = buffer[Start]
  BY <1>4, <1>5, TextFacts
<1> QED
  BY <1>2, <1>4, <1>6, <1>7

\* No letter or digit is one of the characters with another use.
LEMMA Alphanumeric ==
    ASSUME NEW c \in Letters \cup Digits
    PROVE  c \notin {LF, CR, "\"", "'", "\\", "NUL", "+", "-", ".", "/"}
  BY LexerAssumption, SingleKinds

LEMMA KeywordKinds ==
    ASSUME NEW k \in DOMAIN Keywords
    PROVE  Keywords[k] \in Kinds /\ Keywords[k] \notin Brackets \cup {"Newline", "Invalid", "EndOfFile"}
  BY LexerAssumption, SingleKinds DEF Kinds, Brackets

LEMMA PlainDepth ==
    ASSUME NEW kind, kind \notin Brackets
    PROVE  /\ DepthAfter(parenDepth, kind, "(", ")") = parenDepth
           /\ DepthAfter(bracketDepth, kind, "[", "]") = bracketDepth
  BY DEF DepthAfter, Brackets

LEMMA ScannedIsSound ==
    ASSUME IsText, offset \in Positions, Scanning, NEW kind, NEW to,
           kind \in AllKinds \ {"Newline", "EndOfFile"},
           to \in Positions, Start < to, LineFree(kind, Start, to)
    PROVE  TokenSound(kind, Start, to)
<1>1. /\ Start \in Positions /\ offset <= Start /\ Start <= to
      /\ \A p \in offset..(Start - 1) : Skipped(p, offset)
  BY StartFacts DEF Positions
<1> QED
  BY <1>1 DEF TokenSound

LEMMA EndOfFileEmits ==
    ASSUME IsText, offset \in Positions, eofToken
    PROVE  Emits("EndOfFile", Len(buffer) + 1, Len(buffer) + 1)
<1>1. TriviaSound(offset, Trivia)
  BY TriviaFacts DEF Trivia
<1>2. Len(buffer) \in Nat /\ offset \in Nat /\ offset >= 1
  BY TextFacts
<1>3. Start = Len(buffer) + 1
  BY <1>1, <1>2 DEF TriviaSound, Start, eofToken, isAtEnd
<1>4. offset <= Len(buffer) + 1 /\ Len(buffer) + 1 \in Positions
  BY <1>2 DEF Positions
<1>5. TokenSound("EndOfFile", Len(buffer) + 1, Len(buffer) + 1)
  BY <1>1, <1>3, <1>4 DEF TokenSound, TriviaSound, Start, AllKinds
<1>6. "EndOfFile" \notin Brackets
  BY DEF Brackets
<1> QED
  BY <1>5, <1>6, PlainDepth DEF Emits, eofToken

LEMMA NewlineEmits ==
    ASSUME IsText, offset \in Positions, Newline
    PROVE  Emits("Newline", Trivia.from, Trivia.to)
<1>1. TriviaSound(offset, Trivia)
  BY TriviaFacts DEF Trivia
<1>2. Len(buffer) \in Nat /\ offset \in Nat /\ offset >= 1
  BY TextFacts
<1>3. /\ Trivia.from \in offset..(Len(buffer) + 1) /\ Significant /\ LineBreakAt(Trivia.from, Trivia.to)
      /\ Trivia.from > offset /\ buffer[Trivia.from] = LF => buffer[Trivia.from - 1] # CR
      /\ \A p \in offset..(Trivia.from - 1) : Skipped(p, offset)
  BY <1>1 DEF Newline, TriviaSound
<1>4. Trivia.from \in Positions /\ offset <= Trivia.from
  BY <1>2, <1>3 DEF Positions
<1>5. Trivia.to \in Positions /\ Trivia.from <= Trivia.to
  <2>1. \A i \in DOMAIN buffer : i \in Nat /\ i + 1 \in Positions
    BY TextFacts
  <2> QED
    BY <1>2, <1>3, <1>4, <2>1, TextFacts DEF LineBreakAt, Positions
<1>6. TokenSound("Newline", Trivia.from, Trivia.to)
  BY <1>3, <1>4, <1>5 DEF TokenSound, AllKinds
<1>7. "Newline" \notin Brackets
  BY DEF Brackets
<1> QED
  BY <1>6, <1>7, PlainDepth DEF Emits, Newline

LEMMA IdentifierEmits ==
    ASSUME IsText, offset \in Positions, scanIdentifierOrKeyword
    PROVE  \E kind, from, to : Emits(kind, from, to)
<1> DEFINE to == EndOf(Start, isIdentifierContinue)
           kind == IF Lexeme(Start, to) \in DOMAIN Keywords THEN Keywords[Lexeme(Start, to)] ELSE "Identifier"
<1>1. Scanning /\ CharAt(Start) \in Letters /\ Emit(kind, Start, to)
      /\ UNCHANGED <<parenDepth, bracketDepth>>
  BY DEF scanIdentifierOrKeyword
<1>2. isIdentifierContinue \in SUBSET DOMAIN buffer /\ Start \in isIdentifierContinue
  BY <1>1, StartFacts DEF isIdentifierContinue
<1>3. /\ to \in Positions /\ to >= Start /\ to \notin isIdentifierContinue
      /\ \A p \in Start..(to - 1) : p \in isIdentifierContinue
  BY <1>1, <1>2, StartFacts, RunEnds
<1>4. kind \in Kinds /\ kind \notin Brackets \cup {"Newline", "EndOfFile"}
  <2>1. "Identifier" \in Kinds /\ "Identifier" \notin Brackets \cup {"Newline", "EndOfFile"}
    BY DEF Kinds, Brackets
  <2> QED
    BY <2>1, KeywordKinds
<1> HIDE DEF to, kind
<1>5. Start < to
  BY <1>1, <1>2, <1>3, StartFacts DEF Positions
<1>6. LineFree(kind, Start, to)
  BY <1>3, Alphanumeric DEF LineFree, isIdentifierContinue
<1>7. TokenSound(kind, Start, to)
  BY <1>1, <1>3, <1>4, <1>5, <1>6, ScannedIsSound DEF AllKinds
<1>8. Emits(kind, Start, to)
  BY <1>1, <1>4, <1>7, PlainDepth DEF Emits
<1> QED
  BY <1>8

LEMMA NumberEmits ==
    ASSUME IsText, offset \in Positions, scanNumber
    PROVE  \E kind, from, to : Emits(kind, from, to)
<1> DEFINE whole == EndOf(Start, isDigit)
           isFloat == CharAt(whole) = "." /\ peekNext(whole) \in Digits
           stop == IF isFloat THEN EndOf(whole + 1, isDigit) ELSE whole
<1>1. /\ Scanning /\ CharAt(Start) \in Digits /\ UNCHANGED <<parenDepth, bracketDepth>>
      /\ IF CharAt(stop) \in Letters
         THEN Emit("Invalid", Start, EndOf(stop, Malformed))
         ELSE Emit(IF isFloat THEN "FloatLiteral" ELSE "IntegerLiteral", Start, stop)
  BY DEF scanNumber
<1>2. isDigit \in SUBSET DOMAIN buffer /\ Start \in isDigit /\ Start \in Positions /\ Start \in Nat
  BY <1>1, StartFacts DEF isDigit
<1>3. /\ whole \in Positions /\ whole >= Start /\ whole \notin isDigit
      /\ \A p \in Start..(whole - 1) : p \in isDigit
  BY <1>2, RunEnds
<1>4. Start < whole
  BY <1>2, <1>3 DEF Positions
<1> HIDE DEF whole
<1>5. /\ stop \in Positions /\ whole <= stop
      /\ \A p \in Start..(stop - 1) : buffer[p] \in Digits \cup {"."}
  <2>1. CASE isFloat
    <3>1. CharAt(whole) = "." /\ stop = EndOf(whole + 1, isDigit)
      BY <2>1
    <3>2. whole \in DOMAIN buffer /\ buffer[whole] = "."
      BY <1>3, <3>1, TextFacts
    <3>3. whole + 1 \in Positions /\ whole \in Nat
      BY <3>2, TextFacts
    <3> HIDE DEF isFloat, stop
    <3>4. /\ stop \in Positions /\ stop >= whole + 1
          /\ \A p \in (whole + 1)..(stop - 1) : p \in isDigit
      BY <1>2, <3>1, <3>3, RunEnds
    <3>5. \A p \in Start..(stop - 1) : p \in Start..(whole - 1) \/ p = whole \/ p \in (whole + 1)..(stop - 1)
      BY <1>2, <3>3, <3>4 DEF Positions
    <3>6. whole <= stop
      BY <3>3, <3>4 DEF Positions
    <3>7. \A p \in isDigit : buffer[p] \in Digits
      BY DEF isDigit
    <3>8. \A p \in Start..(stop - 1) : buffer[p] \in Digits \cup {"."}
      BY <1>3, <3>2, <3>4, <3>5, <3>7
    <3> QED
      BY <3>4, <3>6, <3>8
  <2>2. CASE ~isFloat
    <3>1. stop = whole
      BY <2>2
    <3> HIDE DEF isFloat, stop
    <3> QED
      BY <1>3, <3>1 DEF isDigit, Positions
  <2> QED
    BY <2>1, <2>2
<1>6. Start < stop
  BY <1>2, <1>3, <1>4, <1>5 DEF Positions
<1>7. \A c \in Digits \cup {"."} : c \notin {LF, CR}
  BY Alphanumeric DEF LF, CR
<1>8. CASE CharAt(stop) \in Letters
  <2>1. PICK e : e = EndOf(stop, Malformed)
    OBVIOUS
  <2>2. Malformed \in SUBSET DOMAIN buffer
    BY DEF Malformed, isIdentifierContinue
  <2>3. /\ e \in Positions /\ e >= stop
        /\ \A p \in stop..(e - 1) : p \in Malformed
    BY <1>5, <2>1, <2>2, RunEnds
  <2>4. \A p \in Malformed : buffer[p] \in Letters \cup Digits \cup {"+", "-"}
    BY DEF Malformed, isIdentifierContinue
  <2>5. \A c \in Letters \cup Digits \cup {"+", "-"} : c \notin {LF, CR}
    BY Alphanumeric DEF LF, CR
  <2>6. \A p \in Start..(e - 1) : p \in Start..(stop - 1) \/ p \in stop..(e - 1)
    BY <1>2, <1>5, <2>3 DEF Positions
  <2>7. \A p \in Start..(e - 1) : buffer[p] \notin {LF, CR}
    BY <1>5, <1>7, <2>3, <2>4, <2>5, <2>6
  <2>8. LineFree("Invalid", Start, e)
    BY <2>7 DEF LineFree
  <2>9. Start < e
    BY <1>2, <1>5, <1>6, <2>3 DEF Positions
  <2>10. "Invalid" \in AllKinds \ {"Newline", "EndOfFile"} /\ "Invalid" \notin Brackets
    BY DEF AllKinds, Brackets
  <2>11. TokenSound("Invalid", Start, e)
    BY <1>1, <2>3, <2>8, <2>9, <2>10, ScannedIsSound
  <2>12. Emit("Invalid", Start, e)
    BY <1>1, <1>8, <2>1
  <2>13. Emits("Invalid", Start, e)
    BY <1>1, <2>10, <2>11, <2>12, PlainDepth DEF Emits
  <2> QED
    BY <2>13
<1>9. CASE CharAt(stop) \notin Letters
  <2>1. PICK kind : kind = IF isFloat THEN "FloatLiteral" ELSE "IntegerLiteral"
    OBVIOUS
  <2>2. Emit(kind, Start, stop)
    BY <1>1, <1>9, <2>1
  <2>3. kind \in AllKinds \ {"Newline", "EndOfFile"} /\ kind \notin Brackets
    BY <2>1 DEF AllKinds, Kinds, Brackets
  <2> HIDE DEF stop, isFloat
  <2>4. LineFree(kind, Start, stop)
    BY <1>5, <1>7 DEF LineFree
  <2>5. TokenSound(kind, Start, stop)
    BY <1>1, <1>5, <1>6, <2>3, <2>4, ScannedIsSound
  <2>6. Emits(kind, Start, stop)
    BY <1>1, <2>2, <2>3, <2>5, PlainDepth DEF Emits
  <2> QED
    BY <2>6
<1> QED
  BY <1>8, <1>9

\* A quoted literal, whose kind is Invalid when the scan found it so.
LEMMA LiteralEmits ==
    ASSUME IsText, offset \in Positions, Scanning, NEW quote, NEW escapes, NEW kind,
           CharAt(Start) = quote, IsQuote(quote), LF \notin escapes, CR \notin escapes,
           kind \in AllKinds \ {"Newline", "EndOfFile"}, kind \notin Brackets,
           ~LiteralFrom(quote, escapes)[Start + 1].valid => kind = "Invalid",
           Emit(kind, Start, LiteralFrom(quote, escapes)[Start + 1].to),
           UNCHANGED <<parenDepth, bracketDepth>>
    PROVE  \E k, from, to : Emits(k, from, to)
<1> DEFINE r == LiteralFrom(quote, escapes)[Start + 1]
           to == r.to
<1>1. /\ Start \in DOMAIN buffer /\ CharAt(Start) = buffer[Start]
      /\ Start \in Positions /\ Start + 1 \in Positions /\ Start \in Nat
  BY StartFacts
<1>2. LiteralSound(Start + 1, r)
  BY <1>1, LiteralFacts
<1> HIDE DEF r
<1>3. /\ to \in (Start + 1)..(Len(buffer) + 1)
      /\ \A p \in (Start + 1)..(to - 1) :
            buffer[p] \in {LF, CR} => ~r.valid /\ p > Start + 1 /\ buffer[p - 1] = "\\"
  BY <1>2 DEF LiteralSound
<1>4. Len(buffer) \in Nat
  BY TextFacts
<1>5. to \in Positions /\ Start < to
  BY <1>1, <1>3, <1>4 DEF Positions
<1>6. LineFree(kind, Start, to)
  <2> SUFFICES ASSUME NEW p \in Start..(to - 1), buffer[p] \in {LF, CR}
               PROVE  kind = "Invalid" /\ p > Start /\ buffer[p - 1] = "\\"
    BY DEF LineFree
  <2>1. p = Start \/ p \in (Start + 1)..(to - 1)
    BY <1>1, <1>3
  <2>2. p # Start
    BY <1>1 DEF IsQuote
  <2> QED
    BY <1>1, <1>3, <2>1, <2>2 DEF r
<1>7. TokenSound(kind, Start, to)
  BY <1>5, <1>6, ScannedIsSound
<1>8. Emits(kind, Start, to)
  BY <1>7, PlainDepth DEF Emits, r
<1> QED
  BY <1>8

LEMMA StringEmits ==
    ASSUME IsText, offset \in Positions, scanString
    PROVE  \E kind, from, to : Emits(kind, from, to)
<1> DEFINE literal == LiteralFrom("\"", StringEscapes)[Start + 1]
<1>1. PICK kind : kind = IF literal.valid THEN "StringLiteral" ELSE "Invalid"
  OBVIOUS
<1>2. /\ Scanning /\ CharAt(Start) = "\"" /\ Emit(kind, Start, literal.to)
      /\ UNCHANGED <<parenDepth, bracketDepth>>
  BY <1>1 DEF scanString
<1>3. IsQuote("\"") /\ LF \notin StringEscapes /\ CR \notin StringEscapes
  BY DEF IsQuote, StringEscapes, LF, CR
<1>4. kind \in AllKinds \ {"Newline", "EndOfFile"} /\ kind \notin Brackets
  BY <1>1 DEF AllKinds, Kinds, Brackets
<1>5. ~literal.valid => kind = "Invalid"
  BY <1>1
<1> QED
  BY <1>2, <1>3, <1>4, <1>5, LiteralEmits

LEMMA CharEmits ==
    ASSUME IsText, offset \in Positions, scanChar
    PROVE  \E kind, from, to : Emits(kind, from, to)
<1> DEFINE literal == LiteralFrom("'", CharEscapes)[Start + 1]
<1>1. PICK kind : kind = IF literal.valid /\ literal.units = 1 THEN "CharLiteral" ELSE "Invalid"
  OBVIOUS
<1>2. /\ Scanning /\ CharAt(Start) = "'" /\ Emit(kind, Start, literal.to)
      /\ UNCHANGED <<parenDepth, bracketDepth>>
  BY <1>1 DEF scanChar
<1>3. IsQuote("'") /\ LF \notin CharEscapes /\ CR \notin CharEscapes
  BY DEF IsQuote, CharEscapes, LF, CR
<1>4. kind \in AllKinds \ {"Newline", "EndOfFile"} /\ kind \notin Brackets
  BY <1>1 DEF AllKinds, Kinds, Brackets
<1>5. ~literal.valid => kind = "Invalid"
  BY <1>1
<1> QED
  BY <1>2, <1>3, <1>4, <1>5, LiteralEmits

LEMMA OperatorEmits ==
    ASSUME IsText, offset \in Positions, scanOperatorOrPunctuation
    PROVE  \E kind, from, to : Emits(kind, from, to)
<1> DEFINE pair == <<CharAt(Start), peekNext(Start)>>
<1>1. /\ Scanning
      /\ IF pair \in DOMAIN DoubleKind
         THEN Emit(DoubleKind[pair], Start, Start + 2)
         ELSE Emit(IF CharAt(Start) \in DOMAIN SingleKind THEN SingleKind[CharAt(Start)] ELSE "Invalid",
                   Start, Start + 1)
      /\ parenDepth' = Deeper(parenDepth, "(", ")")
      /\ bracketDepth' = Deeper(bracketDepth, "[", "]")
  BY DEF scanOperatorOrPunctuation
<1>2. /\ Start \in DOMAIN buffer /\ CharAt(Start) = buffer[Start] /\ buffer[Start] \notin {CR, LF}
      /\ Start \in Positions /\ Start + 1 \in Positions /\ Start \in Nat
  BY <1>1, StartFacts
<1>3. CASE pair \in DOMAIN DoubleKind
  <2>1. PICK kind : kind = DoubleKind[pair]
    OBVIOUS
  <2>2. Emit(kind, Start, Start + 2)
    BY <1>1, <1>3, <2>1
  <2>3. /\ peekNext(Start) \in {">", "=", "&", "|", "."}
        /\ CharAt(Start) \in {"-", "=", "!", "<", ">", "&", "|", "."}
        /\ kind \in {"->", "==", "!=", "<=", ">=", "&&", "||", ".."}
    BY <1>3, <2>1, DoubleKinds
  <2>4. kind \in Kinds
    BY <1>3, <2>1 DEF Kinds
  <2>5. kind \in AllKinds \ {"Newline", "EndOfFile"} /\ kind \notin Brackets
    BY <2>3, <2>4 DEF AllKinds, Brackets
  <2>6. Start + 1 \in DOMAIN buffer /\ buffer[Start + 1] \notin {CR, LF}
    BY <1>2, <2>3, TextFacts DEF peekNext, CR, LF
  <2>7. (Start + 1) + 1 = Start + 2 /\ Start..((Start + 2) - 1) = {Start, Start + 1}
    BY <1>2
  <2>8. Start + 2 \in Positions /\ Start < Start + 2
    BY <1>2, <2>6, <2>7, TextFacts
  <2>9. LineFree(kind, Start, Start + 2)
    BY <1>2, <2>6, <2>7 DEF LineFree
  <2>10. TokenSound(kind, Start, Start + 2)
    BY <1>1, <2>5, <2>8, <2>9, ScannedIsSound
  <2>11. CharAt(Start) \notin Brackets
    BY <2>3 DEF Brackets
  <2>12. parenDepth' = parenDepth /\ bracketDepth' = bracketDepth
    BY <1>1, <2>11 DEF Deeper, Brackets
  <2>13. Emits(kind, Start, Start + 2)
    BY <2>2, <2>5, <2>10, <2>12, PlainDepth DEF Emits
  <2> QED
    BY <2>13
<1>4. CASE pair \notin DOMAIN DoubleKind
  <2>1. PICK kind : kind = IF CharAt(Start) \in DOMAIN SingleKind THEN SingleKind[CharAt(Start)] ELSE "Invalid"
    OBVIOUS
  <2>2. Emit(kind, Start, Start + 1)
    BY <1>1, <1>4, <2>1
  <2>3. kind \in AllKinds \ {"Newline", "EndOfFile"}
    <3>1. CharAt(Start) \in DOMAIN SingleKind => kind \in Kinds /\ kind = CharAt(Start)
      BY <2>1, SingleKinds DEF Kinds
    <3>2. CharAt(Start) \in DOMAIN SingleKind => CharAt(Start) \notin {"Newline", "EndOfFile"}
      BY SingleKinds
    <3>3. CharAt(Start) \notin DOMAIN SingleKind => kind = "Invalid"
      BY <2>1
    <3> QED
      BY <3>1, <3>2, <3>3 DEF AllKinds
  <2>4. \A c \in Brackets : kind = c <=> CharAt(Start) = c
    <3>1. Brackets \subseteq DOMAIN SingleKind /\ "Invalid" \notin Brackets
      BY SingleKinds DEF Brackets
    <3>2. CharAt(Start) \in DOMAIN SingleKind => kind = CharAt(Start)
      BY <2>1, SingleKinds
    <3>3. CharAt(Start) \notin DOMAIN SingleKind => kind = "Invalid"
      BY <2>1
    <3> QED
      BY <3>1, <3>2, <3>3
  <2>5. Start..((Start + 1) - 1) = {Start} /\ Start < Start + 1
    BY <1>2
  <2>6. LineFree(kind, Start, Start + 1)
    BY <1>2, <2>5 DEF LineFree
  <2>7. TokenSound(kind, Start, Start + 1)
    BY <1>1, <1>2, <2>3, <2>5, <2>6, ScannedIsSound
  <2>8. /\ kind = "(" <=> CharAt(Start) = "("
        /\ kind = ")" <=> CharAt(Start) = ")"
        /\ kind = "[" <=> CharAt(Start) = "["
        /\ kind = "]" <=> CharAt(Start) = "]"
    BY <2>4 DEF Brackets
  <2>9. parenDepth' = DepthAfter(parenDepth, kind, "(", ")")
    BY <1>1, <2>8 DEF Deeper, DepthAfter
  <2>10. bracketDepth' = DepthAfter(bracketDepth, kind, "[", "]")
    BY <1>1, <2>8 DEF Deeper, DepthAfter
  <2>11. Emits(kind, Start, Start + 1)
    BY <2>2, <2>7, <2>9, <2>10 DEF Emits
  <2> QED
    BY <2>11
<1> QED
  BY <1>3, <1>4

LEMMA CallEmits ==
    ASSUME IsText, offset \in Positions, nextToken
    PROVE  \E kind, from, to : Emits(kind, from, to)
<1>1. CASE eofToken
  BY <1>1, EndOfFileEmits
<1>2. CASE Newline
  BY <1>2, NewlineEmits
<1>3. CASE scanIdentifierOrKeyword
  BY <1>3, IdentifierEmits
<1>4. CASE scanNumber
  BY <1>4, NumberEmits
<1>5. CASE scanString
  BY <1>5, StringEmits
<1>6. CASE scanChar
  BY <1>6, CharEmits
<1>7. CASE scanOperatorOrPunctuation
  BY <1>7, OperatorEmits
<1> QED
  BY <1>1, <1>2, <1>3, <1>4, <1>5, <1>6, <1>7 DEF nextToken

----------------------------------------------------------------------------
(* The cursor *)

Tokens == [kind : AllKinds, from : Nat, to : Nat]

\* The cursor is behind the last token, and the two counters are what the
\* tokens handed out leave open.
CursorInv ==
    /\ IsText
    /\ offset \in Positions
    /\ tokens \in Seq(Tokens)
    /\ offset = TokenEnd(Len(tokens))
    /\ parenDepth \in Nat /\ IsDepth(parenDepth, tokens, "(", ")", Len(tokens))
    /\ bracketDepth \in Nat /\ IsDepth(bracketDepth, tokens, "[", "]", Len(tokens))

LEMMA UnclosedKept ==
    ASSUME NEW ts, NEW us, NEW open, NEW close, NEW n \in Nat, Begins(ts, us, n)
    PROVE  UnclosedIn(us, open, close, n) = UnclosedIn(ts, open, close, n)
<1>1. ExcessWithOneMore(ts, us, open, close, n)
  BY ExcessGrows
<1>2. {Excess(us, open, close, k, n) : k \in 1..(n + 1)}
      = {Excess(ts, open, close, k, n) : k \in 1..(n + 1)}
  BY <1>1 DEF ExcessWithOneMore
<1> QED
  BY <1>2 DEF UnclosedIn

LEMMA DepthOfNothing ==
    ASSUME NEW open, NEW close
    PROVE  IsDepth(0, <<>>, open, close, 0)
<1>1. 1..0 = {} /\ 1..(0 + 1) = {1}
  OBVIOUS
<1>2. Excess(<<>>, open, close, 1, 0) = 0
  <2>1. Cardinality({}) = 0
    BY FS_EmptySet
  <2>2. {i \in 1..0 : (<<>>)[i].kind = open} = {} /\ {i \in 1..0 : (<<>>)[i].kind = close} = {}
    BY <1>1
  <2> QED
    BY <2>1, <2>2 DEF Excess
<1> QED
  BY <1>1, <1>2 DEF IsDepth

LEMMA InsideIsOpen ==
    ASSUME CursorInv
    PROVE  InsideBrackets(Len(tokens)) <=> ~Significant
<1>1. Len(tokens) \in Nat
  BY DEF CursorInv
<1>2. Begins(tokens, tokens, Len(tokens))
  BY DEF Begins
<1>3. /\ ExcessWithOneMore(tokens, tokens, "(", ")", Len(tokens))
      /\ ExcessWithOneMore(tokens, tokens, "[", "]", Len(tokens))
  BY <1>1, <1>2, ExcessGrows
<1>4. UnclosedIn(tokens, "(", ")", Len(tokens)) = parenDepth
  BY <1>1, <1>3, DepthIsUnclosed DEF CursorInv, ExcessWithOneMore
<1>5. UnclosedIn(tokens, "[", "]", Len(tokens)) = bracketDepth
  BY <1>1, <1>3, DepthIsUnclosed DEF CursorInv, ExcessWithOneMore
<1>6. \A o, c : Unclosed(o, c, Len(tokens)) = UnclosedIn(tokens, o, c, Len(tokens))
  BY DEF Unclosed, UnclosedIn, Excess
<1>7. parenDepth \in Nat /\ bracketDepth \in Nat
  BY DEF CursorInv
<1> QED
  BY <1>4, <1>5, <1>6, <1>7 DEF InsideBrackets, Significant

\* What is the same before and after a call.
Kept(n) ==
    /\ buffer' = buffer /\ Len(tokens) = n /\ n \in Nat /\ Len(tokens') = n + 1
    /\ DOMAIN tokens = 1..n /\ DOMAIN tokens' = 1..(n + 1)
    /\ \A i \in 1..n : tokens'[i] = tokens[i]
    /\ \A i \in 0..n : TokenEnd(i)' = TokenEnd(i)
    /\ \A i \in 0..n : InsideBrackets(i)' = InsideBrackets(i)

LEMMA CallKeeps ==
    ASSUME CursorInv, NEW kind, NEW from, NEW to, Emits(kind, from, to)
    PROVE  /\ Kept(Len(tokens))
           /\ tokens'[Len(tokens) + 1] = Token(kind, from, to)
           /\ tokens' \in Seq(Tokens)
<1>1. PICK n : n = Len(tokens)
  OBVIOUS
<1>2. tokens \in Seq(Tokens) /\ n \in Nat /\ DOMAIN tokens = 1..n
  BY <1>1 DEF CursorInv
<1>3. Token(kind, from, to) \in Tokens
  BY TextFacts DEF Emits, TokenSound, Token, Tokens, CursorInv
<1>4. tokens' = Append(tokens, Token(kind, from, to)) /\ buffer' = buffer
  BY DEF Emits, Emit
<1>5. /\ tokens' \in Seq(Tokens) /\ Len(tokens') = n + 1 /\ DOMAIN tokens' = 1..(n + 1)
      /\ tokens'[n + 1] = Token(kind, from, to)
      /\ \A i \in 1..n : tokens'[i] = tokens[i]
  BY <1>1, <1>2, <1>3, <1>4, AppendProperties
<1>6. ASSUME NEW i \in 0..n PROVE TokenEnd(i)' = TokenEnd(i)
  BY <1>2, <1>5 DEF TokenEnd
<1>7. ASSUME NEW i \in 0..n PROVE InsideBrackets(i)' = InsideBrackets(i)
  <2>1. i \in Nat /\ Begins(tokens, tokens', i)
    BY <1>2, <1>5 DEF Begins
  <2>2. /\ UnclosedIn(tokens', "(", ")", i) = UnclosedIn(tokens, "(", ")", i)
        /\ UnclosedIn(tokens', "[", "]", i) = UnclosedIn(tokens, "[", "]", i)
    BY <2>1, UnclosedKept
  <2>3. /\ Unclosed("(", ")", i) = UnclosedIn(tokens, "(", ")", i)
        /\ Unclosed("[", "]", i) = UnclosedIn(tokens, "[", "]", i)
    BY DEF Unclosed, UnclosedIn, Excess
  <2>4. /\ Unclosed("(", ")", i)' = UnclosedIn(tokens', "(", ")", i)
        /\ Unclosed("[", "]", i)' = UnclosedIn(tokens', "[", "]", i)
    BY DEF Unclosed, UnclosedIn, Excess
  <2> QED
    BY <2>2, <2>3, <2>4 DEF InsideBrackets
<1> QED
  BY <1>1, <1>2, <1>4, <1>5, <1>6, <1>7 DEF Kept

LEMMA CursorKept ==
    ASSUME CursorInv, NEW kind, NEW from, NEW to, Emits(kind, from, to)
    PROVE  CursorInv'
<1>1. PICK n : n = Len(tokens)
  OBVIOUS
<1>2. /\ buffer' = buffer /\ n \in Nat /\ Len(tokens') = n + 1
      /\ \A i \in 1..n : tokens'[i] = tokens[i]
      /\ tokens'[n + 1] = Token(kind, from, to) /\ tokens' \in Seq(Tokens)
  BY <1>1, CallKeeps DEF Kept
<1>3. Begins(tokens, tokens', n) /\ tokens'[n + 1].kind = kind
  BY <1>2 DEF Begins, Token
<1>4. /\ parenDepth \in Nat /\ IsDepth(parenDepth, tokens, "(", ")", n)
      /\ bracketDepth \in Nat /\ IsDepth(bracketDepth, tokens, "[", "]", n)
  BY <1>1 DEF CursorInv
<1>5. parenDepth' \in Nat /\ IsDepth(parenDepth', tokens', "(", ")", n + 1)
  <2>1. parenDepth' = DepthAfter(parenDepth, kind, "(", ")")
    BY DEF Emits
  <2>2. "(" # ")"
    OBVIOUS
  <2> QED
    BY <1>2, <1>3, <1>4, <2>1, <2>2, DepthGrows
<1>6. bracketDepth' \in Nat /\ IsDepth(bracketDepth', tokens', "[", "]", n + 1)
  <2>1. bracketDepth' = DepthAfter(bracketDepth, kind, "[", "]")
    BY DEF Emits
  <2>2. "[" # "]"
    OBVIOUS
  <2> QED
    BY <1>2, <1>3, <1>4, <2>1, <2>2, DepthGrows
<1>7. offset' = to /\ to \in Positions
  BY DEF Emits, Emit, TokenSound
<1>8. IsText' /\ (offset \in Positions)'
  BY <1>2, <1>7 DEF CursorInv, IsText, Positions
<1>9. (offset = TokenEnd(Len(tokens)))'
  <2>1. tokens'[n + 1].to = to /\ n + 1 # 0
    BY <1>2 DEF Token
  <2> QED
    BY <1>2, <1>7, <2>1 DEF TokenEnd
<1> QED
  BY <1>2, <1>5, <1>6, <1>8, <1>9 DEF CursorInv, IsDepth

LEMMA CursorInit == Init => CursorInv
<1> SUFFICES ASSUME Init PROVE CursorInv
  OBVIOUS
<1>1. IsText
  BY LexerAssumption DEF Init, IsText
<1>2. offset \in Positions
  BY <1>1, TextFacts DEF Init, Positions
<1>3. tokens = <<>> /\ Len(tokens) = 0 /\ tokens \in Seq(Tokens)
  BY DEF Init
<1>4. offset = TokenEnd(Len(tokens))
  BY <1>3 DEF Init, TokenEnd
<1> QED
  BY <1>1, <1>2, <1>3, <1>4, DepthOfNothing DEF CursorInv, Init

\* The cursor is where the last token ends, and the counters hold what the
\* tokens leave open, after any number of calls.
THEOREM CursorInvariant == Spec => []CursorInv
<1>1. CursorInv /\ [nextToken]_vars => CursorInv'
  <2> SUFFICES ASSUME CursorInv, [nextToken]_vars PROVE CursorInv'
    OBVIOUS
  <2>1. CASE nextToken
    <3>1. PICK kind, from, to : Emits(kind, from, to)
      BY <2>1, CallEmits DEF CursorInv
    <3> QED
      BY <3>1, CursorKept
  <2>2. CASE UNCHANGED vars
    BY <2>2 DEF vars, CursorInv, IsText, Positions, TokenEnd, IsDepth, Excess
  <2> QED
    BY <2>1, <2>2
<1> QED
  BY <1>1, CursorInit, PTL DEF Spec

LEMMA StutterKeeps ==
    ASSUME tokens' = tokens
    PROVE  \A i : InsideBrackets(i)' = InsideBrackets(i) /\ TokenEnd(i)' = TokenEnd(i)
<1> SUFFICES ASSUME NEW i PROVE InsideBrackets(i)' = InsideBrackets(i) /\ TokenEnd(i)' = TokenEnd(i)
  OBVIOUS
<1>1. /\ Unclosed("(", ")", i) = UnclosedIn(tokens, "(", ")", i)
      /\ Unclosed("[", "]", i) = UnclosedIn(tokens, "[", "]", i)
  BY DEF Unclosed, UnclosedIn, Excess
<1>2. /\ Unclosed("(", ")", i)' = UnclosedIn(tokens', "(", ")", i)
      /\ Unclosed("[", "]", i)' = UnclosedIn(tokens', "[", "]", i)
  BY DEF Unclosed, UnclosedIn, Excess
<1>3. InsideBrackets(i)' = InsideBrackets(i)
  BY <1>1, <1>2 DEF InsideBrackets
<1>4. TokenEnd(i)' = TokenEnd(i)
  BY DEF TokenEnd
<1> QED
  BY <1>3, <1>4

----------------------------------------------------------------------------
(* The tokens tile the text *)

LEMMA TilesInit == Init => TokensTileTheText
  BY DEF Init, TokensTileTheText

\* The text between two tokens, their ends given.
Between(e, from, inside) == \A p \in e..(from - 1) :
    \/ buffer[p] \in Blank \cup {CR}
    \/ buffer[p] = LF /\ inside
    \/ InLineComment(p, e)

LEMMA TilesKept ==
    ASSUME CursorInv, TokensTileTheText, NEW kind, NEW from, NEW to, Emits(kind, from, to)
    PROVE  TokensTileTheText'
<1>1. PICK n : n = Len(tokens)
  OBVIOUS
<1>2. Kept(n) /\ tokens'[n + 1] = Token(kind, from, to)
  BY <1>1, CallKeeps
<1>3. n \in Nat /\ DOMAIN tokens = 1..n /\ DOMAIN tokens' = 1..(n + 1) /\ buffer' = buffer
  BY <1>2 DEF Kept
<1>4. ASSUME NEW m \in 1..(n + 1)
      PROVE  (/\ TokenEnd(m - 1) <= tokens[m].from
              /\ tokens[m].kind = "EndOfFile" \/ tokens[m].from < tokens[m].to
              /\ Between(TokenEnd(m - 1), tokens[m].from, InsideBrackets(m - 1)))'
  <2>1. m - 1 \in 0..n /\ (m \in 1..n \/ m = n + 1)
    BY <1>3
  <2>2. PICK e, inside : e = TokenEnd(m - 1) /\ inside = InsideBrackets(m - 1)
    OBVIOUS
  <2>3. TokenEnd(m - 1)' = e /\ InsideBrackets(m - 1)' = inside
    BY <1>2, <2>1, <2>2 DEF Kept
  <2>4. PICK t : t = tokens'[m]
    OBVIOUS
  <2>5. /\ e <= t.from
        /\ t.kind = "EndOfFile" \/ t.from < t.to
        /\ Between(e, t.from, inside)
    <3>1. CASE m \in 1..n
      <4>1. t = tokens[m]
        BY <1>2, <2>4, <3>1 DEF Kept
      <4> QED
        BY <1>3, <2>2, <3>1, <4>1 DEF TokensTileTheText, Between
    <3>2. CASE m = n + 1
      <4>1. t.kind = kind /\ t.from = from /\ t.to = to /\ (m - 1) = n
        BY <1>2, <1>3, <2>4, <3>2 DEF Token
      <4>2. e = offset /\ inside = InsideBrackets(Len(tokens))
        BY <1>1, <2>2, <4>1 DEF CursorInv
      <4>3. inside <=> ~Significant
        BY <4>2, InsideIsOpen
      <4>4. TokenSound(kind, from, to)
        BY DEF Emits
      <4>5. offset <= from /\ \A p \in offset..(from - 1) : Skipped(p, offset)
        BY <4>4 DEF TokenSound
      <4>6. Between(e, t.from, inside)
        BY <4>1, <4>2, <4>3, <4>5 DEF Between, Skipped
      <4>7. kind = "EndOfFile" \/ from < to
        <5>1. LineBreakAt(from, to) => from < to
          BY TextFacts DEF LineBreakAt, CursorInv
        <5> QED
          BY <4>4, <5>1 DEF TokenSound
      <4> QED
        BY <4>1, <4>2, <4>5, <4>6, <4>7
    <3> QED
      BY <2>1, <3>1, <3>2
  <2>6. Between(e, t.from, inside)'
    BY <1>3, <2>5 DEF Between, InLineComment, peekNext, CharAt, isAtEnd
  <2>7. (Between(TokenEnd(m - 1), tokens[m].from, InsideBrackets(m - 1)))'
    BY <2>3, <2>4, <2>6 DEF Between, InLineComment
  <2> QED
    BY <2>3, <2>4, <2>5, <2>7
<1> QED
  BY <1>3, <1>4 DEF TokensTileTheText, Between

\* TokensTileTheText (nextToken, Lexer.cpp): for every text no character is
\* lost between two tokens and none is read twice; every call but the one that
\* returns EndOfFile takes at least one character.
THEOREM TokensTile == Spec => []TokensTileTheText
<1>1. CursorInv /\ TokensTileTheText /\ [nextToken]_vars => TokensTileTheText'
  <2> SUFFICES ASSUME CursorInv, TokensTileTheText, [nextToken]_vars PROVE TokensTileTheText'
    OBVIOUS
  <2>1. CASE nextToken
    <3>1. PICK kind, from, to : Emits(kind, from, to)
      BY <2>1, CallEmits DEF CursorInv
    <3> QED
      BY <3>1, TilesKept
  <2>2. CASE UNCHANGED vars
    <3>1. tokens' = tokens /\ buffer' = buffer
      BY <2>2 DEF vars
    <3>2. \A i : InsideBrackets(i)' = InsideBrackets(i) /\ TokenEnd(i)' = TokenEnd(i)
      BY <3>1, StutterKeeps
    <3>3. Blank' = Blank /\ CR' = CR /\ LF' = LF
      BY DEF Blank, CR, LF
    <3> QED
      BY <3>1, <3>2, <3>3 DEF TokensTileTheText, InLineComment, peekNext, CharAt, isAtEnd
  <2> QED
    BY <2>1, <2>2
<1> QED
  BY <1>1, TilesInit, CursorInvariant, PTL DEF Spec

----------------------------------------------------------------------------
(* Line breaks *)

\* A token that ends in a CR is Invalid, and a backslash stands before the CR.
LoneCR ==
    offset > 1 /\ offset \in DOMAIN buffer /\ buffer[offset - 1] = CR
    => /\ tokens # <<>> /\ tokens[Len(tokens)].kind = "Invalid"
       /\ offset > 2 /\ buffer[offset - 2] = "\\"

\* The three ways to read a line break at p.
BreakAt(p, n) ==
    /\ n \in Read /\ tokens[n].kind = "Newline" /\ tokens[n].to = p + 1 /\ ~InsideBrackets(n - 1)
    /\ Before(p) = CR => \/ tokens[n].from = p - 1
                         \/ /\ n > 1
                            /\ tokens[n - 1].kind = "Invalid"
                            /\ tokens[n - 1].to = p
                            /\ Before(p - 1) = "\\"

BreakInBrackets(p, n) ==
    n \in DOMAIN tokens /\ TokenEnd(n - 1) <= p /\ p < tokens[n].from /\ InsideBrackets(n - 1)

BreakInLiteral(p, n) ==
    /\ n \in Read /\ tokens[n].kind = "Invalid" /\ tokens[n].from < p /\ p < tokens[n].to
    /\ Before(p) = "\\"

LEMMA BreaksInit == Init => LineBreaksEndStatements /\ LoneCR
<1> SUFFICES ASSUME Init PROVE LineBreaksEndStatements /\ LoneCR
  OBVIOUS
<1>1. offset = 1 /\ 1..(offset - 1) = {}
  BY DEF Init
<1> QED
  BY <1>1 DEF LineBreaksEndStatements, LoneCR

LEMMA LoneCRKept ==
    ASSUME CursorInv, NEW kind, NEW from, NEW to, Emits(kind, from, to)
    PROVE  LoneCR'
<1>1. PICK n : n = Len(tokens)
  OBVIOUS
<1>2. Kept(n) /\ tokens'[n + 1] = Token(kind, from, to)
  BY <1>1, CallKeeps
<1>3. /\ n \in Nat /\ Len(tokens') = n + 1 /\ buffer' = buffer /\ offset' = to
      /\ tokens'[Len(tokens')].kind = kind /\ tokens' # <<>>
  BY <1>2 DEF Kept, Emits, Emit, Token
<1>4. TokenSound(kind, from, to)
  BY DEF Emits
<1>5. /\ Len(buffer) \in Nat /\ DOMAIN buffer = 1..Len(buffer) /\ from \in Nat /\ from >= 1
      /\ to \in Nat /\ from <= to
  BY <1>4, TextFacts DEF CursorInv, TokenSound
<1> SUFFICES ASSUME to > 1, to \in DOMAIN buffer, buffer[to - 1] = CR
             PROVE  kind = "Invalid" /\ to > 2 /\ buffer[to - 2] = "\\"
  BY <1>3 DEF LoneCR
<1>6. CASE kind = "EndOfFile" /\ from = Len(buffer) + 1
  BY <1>5, <1>6
<1>7. CASE LineBreakAt(from, to)
  <2>1. buffer[to - 1] = LF
    BY <1>5, <1>7 DEF LineBreakAt
  <2> QED
    BY <2>1, Distinct
<1>8. CASE from < to /\ LineFree(kind, from, to)
  <2>1. to - 1 \in from..(to - 1) /\ (to - 1) - 1 = to - 2
    BY <1>5, <1>8
  <2>2. kind = "Invalid" /\ to - 1 > from /\ buffer[(to - 1) - 1] = "\\"
    BY <1>8, <2>1 DEF LineFree
  <2> QED
    BY <1>5, <2>1, <2>2
<1> QED
  BY <1>4, <1>6, <1>7, <1>8 DEF TokenSound

\* A line break that was read stays accounted for by the token that it was read with.
LEMMA BreakStays ==
    ASSUME CursorInv, NEW kind, NEW from, NEW to, Emits(kind, from, to), NEW p \in Nat, NEW n
    PROVE  /\ BreakAt(p, n) => BreakAt(p, n)'
           /\ BreakInBrackets(p, n) => BreakInBrackets(p, n)'
           /\ BreakInLiteral(p, n) => BreakInLiteral(p, n)'
<1>1. PICK N : N = Len(tokens)
  OBVIOUS
<1>2. Kept(N)
  BY <1>1, CallKeeps
<1>3. /\ N \in Nat /\ DOMAIN tokens = 1..N /\ DOMAIN tokens' = 1..(N + 1)
      /\ \A i \in 1..N : tokens'[i] = tokens[i]
  BY <1>2 DEF Kept
<1>4. Before(p)' = Before(p) /\ Before(p - 1)' = Before(p - 1)
  BY <1>2 DEF Kept, Before
<1>5. ASSUME n \in 1..N
      PROVE  /\ TokenEnd(n - 1)' = TokenEnd(n - 1) /\ InsideBrackets(n - 1)' = InsideBrackets(n - 1)
             /\ tokens'[n] = tokens[n] /\ n \in 1..(N + 1)
  BY <1>2, <1>3, <1>5 DEF Kept
<1>6. n \in Read => n \in 1..N /\ n \in DOMAIN tokens
  BY <1>3 DEF Read
<1>7. n \in Read => n \in Read'
  BY <1>3, <1>5 DEF Read
<1>8. BreakAt(p, n) => BreakAt(p, n)'
  <2> SUFFICES ASSUME BreakAt(p, n) PROVE BreakAt(p, n)'
    OBVIOUS
  <2>1. n \in 1..N /\ n \in Read'
    BY <1>6, <1>7 DEF BreakAt
  <2>2. n > 1 => tokens'[n - 1] = tokens[n - 1]
    BY <1>3, <2>1
  <2>3. CR' = CR
    BY DEF CR
  <2> QED
    BY <1>4, <1>5, <2>1, <2>2, <2>3 DEF BreakAt
<1>9. BreakInBrackets(p, n) => BreakInBrackets(p, n)'
  BY <1>3, <1>5 DEF BreakInBrackets
<1>10. BreakInLiteral(p, n) => BreakInLiteral(p, n)'
  BY <1>4, <1>5, <1>6, <1>7 DEF BreakInLiteral
<1> QED
  BY <1>8, <1>9, <1>10

LEMMA NewBreak ==
    ASSUME CursorInv, LoneCR, NEW kind, NEW from, NEW to, Emits(kind, from, to),
           NEW p \in offset..(to - 1), buffer[p] = LF
    PROVE  \E n : BreakAt(p, n)' \/ BreakInBrackets(p, n)' \/ BreakInLiteral(p, n)'
<1>1. PICK N : N = Len(tokens)
  OBVIOUS
<1>2. Kept(N) /\ tokens'[N + 1] = Token(kind, from, to)
  BY <1>1, CallKeeps
<1>3. /\ N \in Nat /\ DOMAIN tokens = 1..N /\ DOMAIN tokens' = 1..(N + 1) /\ buffer' = buffer
      /\ N + 1 \in DOMAIN tokens' /\ (N + 1) - 1 = N
      /\ tokens'[N + 1].kind = kind /\ tokens'[N + 1].from = from /\ tokens'[N + 1].to = to
      /\ TokenEnd(N)' = TokenEnd(N) /\ InsideBrackets(N)' = InsideBrackets(N)
  BY <1>2 DEF Kept, Token
<1>4. TokenEnd(N) = offset /\ (InsideBrackets(N) <=> ~Significant)
  BY <1>1, InsideIsOpen DEF CursorInv
<1>5. TokenSound(kind, from, to)
  BY DEF Emits
<1>6. /\ Len(buffer) \in Nat /\ DOMAIN buffer = 1..Len(buffer) /\ from \in Nat /\ from >= 1
      /\ to \in Nat /\ from <= to /\ to <= Len(buffer) + 1 /\ offset \in Nat /\ offset >= 1
      /\ p \in Nat /\ offset <= p /\ p < to /\ offset <= from
  BY <1>5, TextFacts DEF CursorInv, TokenSound, Positions
<1>7. \A q : TokenEnd(N)' <= q /\ q < from /\ InsideBrackets(N) => BreakInBrackets(q, N + 1)'
  BY <1>3 DEF BreakInBrackets
<1>8. /\ Before(p)' = Before(p) /\ Before(p - 1)' = Before(p - 1)
      /\ Before(p) = IF p > 1 THEN buffer[p - 1] ELSE "NUL"
      /\ Before(p - 1) = IF p - 1 > 1 THEN buffer[(p - 1) - 1] ELSE "NUL"
  BY <1>3 DEF Before
<1>9. CASE p < from
  <2>1. Skipped(p, offset)
    BY <1>5, <1>6, <1>9 DEF TokenSound
  <2>2. ~InLineComment(p, offset)
    BY <1>6 DEF InLineComment
  <2>3. ~Significant
    BY <2>1, <2>2, Distinct DEF Skipped
  <2>4. BreakInBrackets(p, N + 1)'
    BY <1>3, <1>4, <1>6, <1>7, <1>9, <2>3
  <2> QED
    BY <2>4
<1>10. CASE p >= from
  <2>1. CASE kind = "EndOfFile" /\ from = Len(buffer) + 1
    BY <1>6, <1>10, <2>1
  <2>2. CASE /\ kind = "Newline" /\ Significant /\ LineBreakAt(from, to)
             /\ from > offset /\ buffer[from] = LF => buffer[from - 1] # CR
    <3>1. to = p + 1 /\ (from = p \/ from = p - 1)
      BY <1>6, <1>10, <2>2, Distinct DEF LineBreakAt
    <3>2. N + 1 \in Read'
      BY <1>3, <2>2 DEF Read
    <3>3. ~InsideBrackets((N + 1) - 1)'
      BY <1>3, <1>4, <2>2
    <3>4. ASSUME Before(p) = CR, from = p
          PROVE  /\ N + 1 > 1
                 /\ tokens[N].kind = "Invalid" /\ tokens[N].to = p
                 /\ Before(p - 1) = "\\"
      <4>1. p > 1 /\ buffer[p - 1] = CR
        BY <1>6, <1>8, <3>4 DEF CR
      <4>2. offset = p
        BY <1>6, <2>2, <3>4, <4>1
      <4>3. offset \in DOMAIN buffer
        BY <1>6, <4>2
      <4>4. tokens[N].kind = "Invalid" /\ offset > 2 /\ buffer[offset - 2] = "\\" /\ tokens # <<>>
        BY <1>1, <4>1, <4>2, <4>3 DEF LoneCR
      <4>5. N # 0
        BY <1>4, <4>1, <4>2 DEF TokenEnd
      <4>6. tokens[N].to = p
        BY <1>4, <4>2, <4>5 DEF TokenEnd
      <4>7. p - 1 > 1 /\ (p - 1) - 1 = offset - 2
        BY <1>6, <4>2, <4>4
      <4> QED
        BY <1>3, <1>8, <4>4, <4>5, <4>6, <4>7
    <3>5. tokens'[N] = tokens[N] \/ N = 0
      BY <1>2, <1>3 DEF Kept
    <3>6. CR' = CR
      BY DEF CR
    <3>7. Before(p)' = CR => \/ from = p - 1
                             \/ /\ N + 1 > 1
                                /\ tokens'[N].kind = "Invalid" /\ tokens'[N].to = p
                                /\ Before(p - 1)' = "\\"
      BY <1>3, <1>8, <3>1, <3>4, <3>5
    <3>8. BreakAt(p, N + 1)'
      BY <1>3, <2>2, <3>1, <3>2, <3>3, <3>6, <3>7 DEF BreakAt
    <3> QED
      BY <3>8
  <2>3. CASE kind \notin {"EndOfFile", "Newline"} /\ from < to /\ LineFree(kind, from, to)
    <3>1. kind = "Invalid" /\ p > from /\ buffer[p - 1] = "\\"
      BY <1>6, <1>10, <2>3 DEF LineFree
    <3>2. N + 1 \in Read'
      BY <1>3, <3>1 DEF Read
    <3>3. Before(p)' = "\\"
      BY <1>6, <1>8, <3>1
    <3>4. BreakInLiteral(p, N + 1)'
      BY <1>3, <1>6, <3>1, <3>2, <3>3 DEF BreakInLiteral
    <3> QED
      BY <3>4
  <2> QED
    BY <1>5, <2>1, <2>2, <2>3 DEF TokenSound
<1> QED
  BY <1>6, <1>9, <1>10

LEMMA BreaksKept ==
    ASSUME CursorInv, LineBreaksEndStatements, LoneCR,
           NEW kind, NEW from, NEW to, Emits(kind, from, to)
    PROVE  LineBreaksEndStatements'
<1>1. buffer' = buffer /\ offset' = to /\ offset \in Nat /\ to \in Nat /\ LF' = LF
  BY TextFacts DEF Emits, Emit, TokenSound, CursorInv, LF
<1>2. ASSUME NEW p \in 1..(to - 1), buffer[p] = LF
      PROVE  \E n : BreakAt(p, n)' \/ BreakInBrackets(p, n)' \/ BreakInLiteral(p, n)'
  <2>1. CASE p < offset
    <3>1. p \in 1..(offset - 1) /\ p \in Nat
      BY <1>1, <2>1
    <3>2. PICK n : BreakAt(p, n) \/ BreakInBrackets(p, n) \/ BreakInLiteral(p, n)
      BY <1>2, <3>1 DEF LineBreaksEndStatements, BreakAt, BreakInBrackets, BreakInLiteral
    <3>3. BreakAt(p, n)' \/ BreakInBrackets(p, n)' \/ BreakInLiteral(p, n)'
      BY <3>1, <3>2, BreakStays
    <3> QED
      BY <3>3
  <2>2. CASE p >= offset
    <3>1. p \in offset..(to - 1)
      BY <1>1, <2>2
    <3> QED
      BY <1>2, <3>1, NewBreak
  <2> QED
    BY <1>1, <2>1, <2>2
<1>3. ASSUME NEW p \in 1..(to - 1), buffer[p] = LF
      PROVE  (\/ \E n \in Read :
                   /\ tokens[n].kind = "Newline"
                   /\ tokens[n].to = p + 1
                   /\ ~InsideBrackets(n - 1)
                   /\ Before(p) = CR => \/ tokens[n].from = p - 1
                                        \/ /\ n > 1
                                           /\ tokens[n - 1].kind = "Invalid"
                                           /\ tokens[n - 1].to = p
                                           /\ Before(p - 1) = "\\"
              \/ \E n \in DOMAIN tokens :
                   /\ TokenEnd(n - 1) <= p /\ p < tokens[n].from
                   /\ InsideBrackets(n - 1)
              \/ \E n \in Read :
                   /\ tokens[n].kind = "Invalid"
                   /\ tokens[n].from < p /\ p < tokens[n].to
                   /\ Before(p) = "\\")'
  <2>1. PICK n : BreakAt(p, n)' \/ BreakInBrackets(p, n)' \/ BreakInLiteral(p, n)'
    BY <1>2, <1>3
  <2> QED
    BY <2>1 DEF BreakAt, BreakInBrackets, BreakInLiteral
<1> QED
  BY <1>1, <1>3 DEF LineBreaksEndStatements

\* LineBreaksEndStatements (nextToken and skipTriviaAndMaybeNewline, Lexer.cpp):
\* for every text, a line break that was read ends a statement exactly when no
\* parenthesis or bracket is open, and one is lost only behind a backslash in a
\* literal that is Invalid.
THEOREM LineBreaks == Spec => []LineBreaksEndStatements
<1>1. CursorInv /\ LineBreaksEndStatements /\ LoneCR /\ [nextToken]_vars
      => LineBreaksEndStatements' /\ LoneCR'
  <2> SUFFICES ASSUME CursorInv, LineBreaksEndStatements, LoneCR, [nextToken]_vars
               PROVE  LineBreaksEndStatements' /\ LoneCR'
    OBVIOUS
  <2>1. CASE nextToken
    <3>1. PICK kind, from, to : Emits(kind, from, to)
      BY <2>1, CallEmits DEF CursorInv
    <3> QED
      BY <3>1, BreaksKept, LoneCRKept
  <2>2. CASE UNCHANGED vars
    <3>1. tokens' = tokens /\ buffer' = buffer /\ offset' = offset
      BY <2>2 DEF vars
    <3>2. \A i : InsideBrackets(i)' = InsideBrackets(i) /\ TokenEnd(i)' = TokenEnd(i)
      BY <3>1, StutterKeeps
    <3>3. LF' = LF /\ CR' = CR /\ Read' = Read /\ \A p : Before(p)' = Before(p)
      BY <3>1 DEF LF, CR, Read, Before
    <3> QED
      BY <3>1, <3>2, <3>3 DEF LineBreaksEndStatements, LoneCR
  <2> QED
    BY <2>1, <2>2
<1> QED
  BY <1>1, BreaksInit, CursorInvariant, PTL DEF Spec

----------------------------------------------------------------------------
(* Lexemes *)

LEMMA LexemeFacts ==
    ASSUME IsText, NEW from \in DOMAIN buffer, NEW to \in (from + 1)..(Len(buffer) + 1)
    PROVE  /\ Lexeme(from, to) \in Seq(STRING) /\ Len(Lexeme(from, to)) = to - from
           /\ DOMAIN Lexeme(from, to) = 1..(to - from)
           /\ to - from \in Nat /\ to - from >= 1
           /\ \A k \in 1..(to - from) : Lexeme(from, to)[k] = buffer[from + k - 1]
           /\ Lexeme(from, to)[1] = buffer[from] /\ Lexeme(from, to) # <<>>
<1>1. /\ Len(buffer) \in Nat /\ from \in Nat /\ from >= 1 /\ from <= Len(buffer) /\ to \in Nat
      /\ to <= Len(buffer) + 1 /\ from + 1 <= to
  BY TextFacts
<1>2. from \in 1..(Len(buffer) + 1) /\ to - 1 \in (from - 1)..Len(buffer)
  BY <1>1
<1>3. /\ SubSeq(buffer, from, to - 1) \in Seq(STRING)
      /\ Len(SubSeq(buffer, from, to - 1)) = to - from
      /\ \A k \in 1..(to - from) : SubSeq(buffer, from, to - 1)[k] = buffer[from + k - 1]
  BY <1>1 DEF IsText
<1>4. Lexeme(from, to) = SubSeq(buffer, from, to - 1)
  BY DEF Lexeme
<1>5. 1 \in 1..(to - from) /\ from + 1 - 1 = from
  BY <1>1
<1>6. DOMAIN Lexeme(from, to) = 1..(to - from)
  BY <1>3, <1>4
<1>7. Lexeme(from, to)[1] = buffer[from]
  BY <1>3, <1>4, <1>5
<1>8. Lexeme(from, to) # <<>>
  BY <1>1, <1>3, <1>4
<1>9. /\ Lexeme(from, to) \in Seq(STRING) /\ Len(Lexeme(from, to)) = to - from
      /\ \A k \in 1..(to - from) : Lexeme(from, to)[k] = buffer[from + k - 1]
  BY <1>3, <1>4
<1>10. to - from \in Nat /\ to - from >= 1
  BY <1>1
<1> QED
  BY <1>6, <1>7, <1>8, <1>9, <1>10, Zenon

\* The characters of a lexeme are the characters of the text.
LEMMA LexemeAllIn ==
    ASSUME IsText, NEW from \in DOMAIN buffer, NEW to \in (from + 1)..(Len(buffer) + 1), NEW chars
    PROVE  AllIn(Lexeme(from, to), chars) <=> \A p \in from..(to - 1) : buffer[p] \in chars
<1>1. /\ DOMAIN Lexeme(from, to) = 1..(to - from) /\ from \in Nat /\ to \in Nat
      /\ \A k \in 1..(to - from) : Lexeme(from, to)[k] = buffer[from + k - 1]
  BY LexemeFacts, TextFacts
<1>2. ASSUME AllIn(Lexeme(from, to), chars), NEW p \in from..(to - 1)
      PROVE  buffer[p] \in chars
  <2>1. p - from + 1 \in 1..(to - from) /\ from + (p - from + 1) - 1 = p
    BY <1>1
  <2> QED
    BY <1>1, <1>2, <2>1 DEF AllIn
<1>3. ASSUME \A p \in from..(to - 1) : buffer[p] \in chars, NEW k \in 1..(to - from)
      PROVE  Lexeme(from, to)[k] \in chars
  <2>1. from + k - 1 \in from..(to - 1)
    BY <1>1
  <2> QED
    BY <1>1, <1>3, <2>1
<1> QED
  BY <1>1, <1>2, <1>3 DEF AllIn

LEMMA LargestIsMax ==
    ASSUME NEW T \in SUBSET Int, NEW m \in T, \A y \in T : y <= m
    PROVE  Max(T) = m
<1>1. \A x \in T : (\A y \in T : x >= y) => x = m
  OBVIOUS
<1>2. \A y \in T : m >= y
  OBVIOUS
<1> QED
  BY <1>1, <1>2 DEF Max

Operators == DOMAIN SingleKind \cup {"|"}

\* What the first character of a lexeme says about the rest of it.
Form(s) ==
    /\ s[1] \in Letters => AllIn(s, Letters \cup Digits)
    /\ s[1] \in Digits => IsInteger(s) \/ IsFloat(s)
    /\ s[1] = "\"" => IsString(s)
    /\ s[1] = "'" => IsChar(s)
    /\ s[1] \notin Letters \cup Digits \cup {"\"", "'"}
       => s \in DOMAIN DoubleKind \/ (Len(s) = 1 /\ s[1] \in DOMAIN SingleKind)

LEMMA FirstCharacters ==
    /\ Letters \cap Digits = {}
    /\ \A c \in Letters \cup Digits : c \notin Operators \cup {"\"", "'"}
    /\ \A c \in Operators : c \notin {"\"", "'"}
<1>1. Operators \subseteq DOMAIN SingleKind \cup Blank \cup {CR, LF, "\"", "'", "\\", "|", "NUL"}
  BY DEF Operators
<1> QED
  BY <1>1, LexerAssumption, SingleKinds DEF Operators

LEMMA GrammaticalForms ==
    ASSUME NEW s \in Seq(STRING), s # <<>>, NEW kind, Grammatical(s, kind)
    PROVE  Form(s)
<1>1. 1 \in DOMAIN s /\ Len(s) \in Nat /\ DOMAIN s = 1..Len(s)
  OBVIOUS
<1>2. CASE s \in DOMAIN Keywords
  <2>1. s \in Seq(Letters)
    BY <1>2, LexerAssumption
  <2>2. \A i \in DOMAIN s : s[i] \in Letters
    BY <2>1
  <2>3. s[1] \in Letters /\ AllIn(s, Letters \cup Digits)
    BY <1>1, <2>2 DEF AllIn
  <2> QED
    BY <2>3, FirstCharacters DEF Form
<1>3. CASE IsIdentifier(s)
  <2>1. s[1] \in Letters /\ AllIn(s, Letters \cup Digits)
    BY <1>3 DEF IsIdentifier
  <2> QED
    BY <2>1, FirstCharacters DEF Form
<1>4. CASE IsInteger(s)
  <2>1. s[1] \in Digits
    BY <1>1, <1>4 DEF IsInteger, AllIn
  <2> QED
    BY <1>4, <2>1, FirstCharacters DEF Form
<1>5. CASE IsFloat(s)
  <2>1. s[1] \in Digits
    BY <1>1, <1>5 DEF IsFloat, Interior
  <2> QED
    BY <1>5, <2>1, FirstCharacters DEF Form
<1>6. CASE IsString(s)
  <2>1. s[1] = "\""
    BY <1>6 DEF IsString, Quoted
  <2> QED
    BY <1>6, <2>1, FirstCharacters DEF Form
<1>7. CASE IsChar(s)
  <2>1. s[1] = "'"
    BY <1>7 DEF IsChar, Quoted
  <2> QED
    BY <1>7, <2>1, FirstCharacters DEF Form
<1>8. CASE s \in DOMAIN DoubleKind
  <2>1. s[1] \in {"-", "=", "!", "<", ">", "&", "|", "."}
    BY <1>8, DoubleKinds
  <2>2. s[1] \in Operators
    BY <2>1, SingleKinds DEF Operators
  <2> QED
    BY <1>8, <2>2, FirstCharacters DEF Form
<1>9. CASE Len(s) = 1 /\ s[1] \in DOMAIN SingleKind
  <2>1. s[1] \in Operators
    BY <1>9 DEF Operators
  <2> QED
    BY <1>9, <2>1, FirstCharacters DEF Form
<1> QED
  BY <1>2, <1>3, <1>4, <1>5, <1>6, <1>7, <1>8, <1>9 DEF Grammatical

LEMMA EndsFacts ==
    ASSUME IsText, NEW from \in DOMAIN buffer
    PROVE  /\ LexemeEnds(from) \in SUBSET Int
           /\ \A to \in LexemeEnds(from) :
                 /\ to \in (from + 1)..(Len(buffer) + 1)
                 /\ Form(Lexeme(from, to)) /\ Lexeme(from, to)[1] = buffer[from]
           /\ \A to \in (from + 1)..(Len(buffer) + 1), kind \in Kinds :
                 Grammatical(Lexeme(from, to), kind) => to \in LexemeEnds(from)
<1>1. ASSUME NEW to \in LexemeEnds(from)
      PROVE  /\ to \in (from + 1)..(Len(buffer) + 1)
             /\ Form(Lexeme(from, to)) /\ Lexeme(from, to)[1] = buffer[from]
  <2>1. to \in (from + 1)..(Len(buffer) + 1)
    BY <1>1 DEF LexemeEnds
  <2>2. PICK kind \in Kinds : Grammatical(Lexeme(from, to), kind)
    BY <1>1 DEF LexemeEnds
  <2>3. /\ Lexeme(from, to) \in Seq(STRING) /\ Lexeme(from, to) # <<>>
        /\ Lexeme(from, to)[1] = buffer[from]
    BY <2>1, LexemeFacts
  <2> QED
    BY <2>1, <2>2, <2>3, GrammaticalForms
<1>2. Len(buffer) \in Nat /\ from \in Nat
  BY TextFacts
<1>3. \A to \in (from + 1)..(Len(buffer) + 1), kind \in Kinds :
         Grammatical(Lexeme(from, to), kind) => to \in LexemeEnds(from)
  BY DEF LexemeEnds
<1>4. LexemeEnds(from) \in SUBSET Int
  BY <1>1, <1>2
<1> QED
  BY <1>1, <1>3, <1>4

\* What the property says of one token.
LexemeSound(kind, from, to) ==
    /\ kind = "Newline" => Lexeme(from, to) \in {<<LF>>, <<CR, LF>>}
    /\ kind = "Invalid" =>
          \/ LexemeEnds(from) = {}
          \/ CharAt(from) \in Digits /\ CharAt(Max(LexemeEnds(from))) \in Letters
    /\ kind \notin {"Newline", "Invalid", "EndOfFile"} =>
          to = Max(LexemeEnds(from)) /\ Grammatical(Lexeme(from, to), kind)

LEMMA NewlineLexeme ==
    ASSUME IsText, NEW from, NEW to, LineBreakAt(from, to)
    PROVE  LexemeSound("Newline", from, to)
<1>1. /\ Len(buffer) \in Nat /\ from \in DOMAIN buffer /\ from \in Nat /\ DOMAIN buffer = 1..Len(buffer)
  BY TextFacts DEF LineBreakAt
<1>2. CASE to = from + 1 /\ buffer[from] = LF
  <2>1. to \in (from + 1)..(Len(buffer) + 1) /\ to - from = 1 /\ from + 1 - 1 = from
    BY <1>1, <1>2
  <2>2. Lexeme(from, to) \in Seq(STRING) /\ Len(Lexeme(from, to)) = 1 /\ Lexeme(from, to)[1] = LF
    BY <1>1, <1>2, <2>1, LexemeFacts
  <2>3. Lexeme(from, to) = <<LF>>
    BY <2>2
  <2> QED
    BY <2>3 DEF LexemeSound
<1>3. CASE to = from + 2 /\ buffer[from] = CR /\ from + 1 \in DOMAIN buffer /\ buffer[from + 1] = LF
  <2>1. to \in (from + 1)..(Len(buffer) + 1) /\ to - from = 2 /\ from + 2 - 1 = from + 1 /\ 2 \in 1..2
    BY <1>1, <1>3
  <2>2. /\ Lexeme(from, to) \in Seq(STRING) /\ Len(Lexeme(from, to)) = 2
        /\ Lexeme(from, to)[1] = CR /\ Lexeme(from, to)[2] = LF
    <3>1. /\ Lexeme(from, to) \in Seq(STRING) /\ Len(Lexeme(from, to)) = to - from
          /\ \A k \in 1..(to - from) : Lexeme(from, to)[k] = buffer[from + k - 1]
          /\ Lexeme(from, to)[1] = buffer[from]
      BY <1>1, <2>1, LexemeFacts
    <3>2. Lexeme(from, to)[2] = buffer[from + 2 - 1]
      BY <2>1, <3>1
    <3> QED
      BY <1>3, <2>1, <3>1, <3>2
  <2>3. Lexeme(from, to) = <<CR, LF>>
    BY <2>2
  <2> QED
    BY <2>3 DEF LexemeSound
<1> QED
  BY <1>2, <1>3 DEF LineBreakAt

LEMMA IdentifierLexeme ==
    ASSUME IsText, NEW from \in DOMAIN buffer, buffer[from] \in Letters, NEW to, NEW kind,
           to = EndOf(from, isIdentifierContinue),
           kind = IF Lexeme(from, to) \in DOMAIN Keywords THEN Keywords[Lexeme(from, to)] ELSE "Identifier"
    PROVE  LexemeSound(kind, from, to)
<1>1. /\ from \in Positions /\ from \in Nat /\ Len(buffer) \in Nat
      /\ isIdentifierContinue \in SUBSET DOMAIN buffer /\ from \in isIdentifierContinue
  BY TextFacts DEF isIdentifierContinue
<1>2. /\ to \in Positions /\ to >= from /\ to \notin isIdentifierContinue
      /\ \A p \in from..(to - 1) : p \in isIdentifierContinue
  BY <1>1, RunEnds
<1>3. to \in (from + 1)..(Len(buffer) + 1)
  BY <1>1, <1>2 DEF Positions
<1>4. \A p \in from..(to - 1) : buffer[p] \in Letters \cup Digits
  BY <1>2 DEF isIdentifierContinue
<1>5. AllIn(Lexeme(from, to), Letters \cup Digits)
  BY <1>3, <1>4, LexemeAllIn
<1>6. IsIdentifier(Lexeme(from, to))
  BY <1>3, <1>5, LexemeFacts DEF IsIdentifier
<1>7. kind \in Kinds /\ Grammatical(Lexeme(from, to), kind)
  BY <1>6, KeywordKinds DEF Grammatical, Kinds
<1>8. to \in LexemeEnds(from) /\ LexemeEnds(from) \in SUBSET Int
  BY <1>3, <1>7, EndsFacts
<1>9. ASSUME NEW y \in LexemeEnds(from) PROVE y <= to
  <2>1. /\ y \in (from + 1)..(Len(buffer) + 1)
        /\ Form(Lexeme(from, y)) /\ Lexeme(from, y)[1] = buffer[from]
    BY EndsFacts
  <2>2. AllIn(Lexeme(from, y), Letters \cup Digits)
    BY <2>1 DEF Form
  <2>3. \A p \in from..(y - 1) : buffer[p] \in Letters \cup Digits
    BY <2>1, <2>2, LexemeAllIn
  <2>4. ASSUME y > to PROVE FALSE
    <3>1. to \in from..(y - 1) /\ to \in DOMAIN buffer
      BY <1>1, <1>3, <2>1, <2>4, TextFacts
    <3> QED
      BY <1>2, <2>3, <3>1 DEF isIdentifierContinue
  <2> QED
    BY <1>1, <1>3, <2>1, <2>4
<1>10. to = Max(LexemeEnds(from))
  BY <1>8, <1>9, LargestIsMax
<1>11. kind \notin {"Newline", "Invalid", "EndOfFile"}
  BY KeywordKinds
<1> QED
  BY <1>7, <1>10, <1>11 DEF LexemeSound

LEMMA NumberLexeme ==
    ASSUME IsText, NEW from \in DOMAIN buffer, buffer[from] \in Digits, NEW whole, NEW stop,
           NEW isFloat \in BOOLEAN,
           whole = EndOf(from, isDigit),
           isFloat = (CharAt(whole) = "." /\ peekNext(whole) \in Digits),
           stop = IF isFloat THEN EndOf(whole + 1, isDigit) ELSE whole
    PROVE  /\ stop \in (from + 1)..(Len(buffer) + 1)
           /\ stop = Max(LexemeEnds(from))
           /\ Grammatical(Lexeme(from, stop), IF isFloat THEN "FloatLiteral" ELSE "IntegerLiteral")
<1>1. /\ from \in Positions /\ from \in Nat /\ Len(buffer) \in Nat
      /\ isDigit \in SUBSET DOMAIN buffer /\ from \in isDigit
      /\ \A p \in DOMAIN buffer : p \in isDigit <=> buffer[p] \in Digits
  BY TextFacts DEF isDigit
<1>2. /\ whole \in Positions /\ whole >= from /\ whole \notin isDigit
      /\ \A p \in from..(whole - 1) : p \in isDigit
  BY <1>1, RunEnds
<1>3. whole \in (from + 1)..(Len(buffer) + 1) /\ whole \in Nat
  BY <1>1, <1>2 DEF Positions
<1>4. \A p \in from..(whole - 1) : buffer[p] \in Digits
  BY <1>2 DEF isDigit
<1>5. isFloat => /\ whole \in DOMAIN buffer /\ buffer[whole] = "." /\ whole + 1 \in isDigit
                 /\ whole + 1 \in Positions
  <2> SUFFICES ASSUME isFloat
               PROVE  /\ whole \in DOMAIN buffer /\ buffer[whole] = "." /\ whole + 1 \in isDigit
                      /\ whole + 1 \in Positions
    OBVIOUS
  <2>1. CharAt(whole) = "." /\ peekNext(whole) \in Digits
    OBVIOUS
  <2>2. whole \in DOMAIN buffer /\ buffer[whole] = "." /\ whole + 1 \in Positions
    BY <1>2, <2>1, TextFacts
  <2>3. peekNext(whole) # "NUL"
    BY <2>1, Alphanumeric
  <2>4. whole + 1 \in DOMAIN buffer /\ buffer[whole + 1] \in Digits
    BY <2>1, <2>2, <2>3, TextFacts DEF peekNext
  <2> QED
    BY <1>1, <2>2, <2>4
<1>6. isFloat => /\ stop \in Positions /\ stop > whole + 1 /\ stop \notin isDigit
                 /\ \A p \in (whole + 1)..(stop - 1) : p \in isDigit
  <2> SUFFICES ASSUME isFloat
               PROVE  /\ stop \in Positions /\ stop > whole + 1 /\ stop \notin isDigit
                      /\ \A p \in (whole + 1)..(stop - 1) : p \in isDigit
    OBVIOUS
  <2>1. /\ stop = EndOf(whole + 1, isDigit) /\ whole + 1 \in Positions /\ whole + 1 \in isDigit
    BY <1>5
  <2>2. /\ stop \in Positions /\ stop >= whole + 1 /\ stop \notin isDigit
        /\ \A p \in (whole + 1)..(stop - 1) : p \in isDigit
    BY <1>1, <2>1, RunEnds
  <2>3. stop # whole + 1
    BY <2>1, <2>2
  <2> QED
    BY <1>3, <2>2, <2>3 DEF Positions
<1>7. ~isFloat => stop = whole
  OBVIOUS
<1>8. stop \in (from + 1)..(Len(buffer) + 1) /\ whole <= stop
  BY <1>1, <1>3, <1>6, <1>7 DEF Positions
<1>9. Grammatical(Lexeme(from, stop), IF isFloat THEN "FloatLiteral" ELSE "IntegerLiteral")
  <2>1. /\ Lexeme(from, stop) # <<>> /\ Len(Lexeme(from, stop)) = stop - from
        /\ DOMAIN Lexeme(from, stop) = 1..(stop - from)
        /\ \A k \in 1..(stop - from) : Lexeme(from, stop)[k] = buffer[from + k - 1]
    BY <1>8, LexemeFacts
  <2>2. CASE ~isFloat
    <3>1. IsInteger(Lexeme(from, stop))
      BY <1>4, <1>7, <1>8, <2>1, <2>2, LexemeAllIn DEF IsInteger
    <3> QED
      BY <2>2, <3>1 DEF Grammatical
  <2>3. CASE isFloat
    <3>1. PICK dot : dot = whole - from + 1
      OBVIOUS
    <3>2. dot \in 2..((stop - from) - 1) /\ dot \in 1..(stop - from) /\ from + dot - 1 = whole
      BY <1>1, <1>3, <1>6, <1>8, <2>3, <3>1, SMTT(20)
    <3>3. Lexeme(from, stop)[dot] = "."
      BY <1>5, <2>1, <2>3, <3>2
    <3>4. ASSUME NEW k \in 1..(stop - from), k # dot
          PROVE  Lexeme(from, stop)[k] \in Digits
      <4>1. from + k - 1 \in from..(whole - 1) \/ from + k - 1 \in (whole + 1)..(stop - 1)
        <5>1. k \in Nat /\ k >= 1 /\ k <= stop - from /\ stop \in Nat
          BY <1>1, <1>8
        <5>2. from + k - 1 # whole
          BY <1>1, <1>3, <3>1, <3>4, <5>1
        <5>3. from + k - 1 >= from /\ from + k - 1 <= stop - 1 /\ from + k - 1 \in Nat
          BY <1>1, <5>1
        <5> QED
          BY <1>1, <1>3, <5>1, <5>2, <5>3
      <4>2. from + k - 1 \in isDigit
        BY <1>2, <1>6, <2>3, <4>1
      <4> QED
        BY <1>1, <2>1, <4>2
    <3>5. IsFloat(Lexeme(from, stop))
      BY <2>1, <3>2, <3>3, <3>4 DEF IsFloat, Interior
    <3> QED
      BY <2>3, <3>5 DEF Grammatical
  <2> QED
    BY <2>2, <2>3
<1>10. stop \in LexemeEnds(from) /\ LexemeEnds(from) \in SUBSET Int
  <2>1. (IF isFloat THEN "FloatLiteral" ELSE "IntegerLiteral") \in Kinds
    BY DEF Kinds
  <2> QED
    BY <1>8, <1>9, <2>1, EndsFacts
<1>11. ASSUME NEW y \in LexemeEnds(from) PROVE y <= stop
  <2>1. /\ y \in (from + 1)..(Len(buffer) + 1) /\ y \in Nat
        /\ Form(Lexeme(from, y)) /\ Lexeme(from, y)[1] = buffer[from]
    BY <1>1, EndsFacts
  <2>2. \A p \in from..(y - 1) : p \in DOMAIN buffer
    BY <1>1, <2>1, TextFacts
  <2>3. CASE IsInteger(Lexeme(from, y))
    <3>1. AllIn(Lexeme(from, y), Digits)
      BY <2>3 DEF IsInteger
    <3>2. \A p \in from..(y - 1) : p \in isDigit
      BY <1>1, <2>1, <2>2, <3>1, LexemeAllIn
    <3>3. ASSUME y > whole PROVE FALSE
      <4>1. whole \in from..(y - 1)
        BY <1>1, <1>3, <2>1, <3>3
      <4> QED
        BY <1>2, <3>2, <4>1
    <3> QED
      BY <1>1, <1>3, <1>8, <2>1, <3>3
  <2>4. CASE IsFloat(Lexeme(from, y))
    <3>1. /\ Len(Lexeme(from, y)) = y - from /\ DOMAIN Lexeme(from, y) = 1..(y - from)
          /\ \A k \in 1..(y - from) : Lexeme(from, y)[k] = buffer[from + k - 1]
      BY <2>1, LexemeFacts
    <3>2. PICK dot \in 2..((y - from) - 1) :
             /\ Lexeme(from, y)[dot] = "."
             /\ \A k \in 1..(y - from) : k # dot => Lexeme(from, y)[k] \in Digits
      BY <2>4, <3>1 DEF IsFloat, Interior
    <3>3. PICK q : q = from + dot - 1
      OBVIOUS
    <3>4. q \in (from + 1)..(y - 2) /\ q \in Nat /\ dot \in 1..(y - from)
      BY <1>1, <2>1, <3>2, <3>3
    <3>5. buffer[q] = "." /\ q \in DOMAIN buffer
      <4>1. q \in DOMAIN buffer
        BY <1>1, <2>1, <2>2, <3>4
      <4>2. Lexeme(from, y)[dot] = buffer[q]
        BY <3>1, <3>3, <3>4
      <4> QED
        BY <3>2, <4>1, <4>2
    <3>6. ASSUME NEW p \in from..(y - 1), p # q PROVE p \in isDigit
      <4>1. p - from + 1 \in 1..(y - from) /\ p - from + 1 # dot /\ from + (p - from + 1) - 1 = p
        BY <1>1, <2>1, <3>2, <3>3, <3>6, SMTT(20)
      <4>2. buffer[p] \in Digits
        BY <3>1, <3>2, <4>1
      <4> QED
        BY <1>1, <2>2, <4>2
    <3>7. "." \notin Digits
      BY Alphanumeric
    <3>8. q \notin isDigit
      BY <1>1, <3>5, <3>7
    <3>9. q = whole
      <4>1. ASSUME q < whole PROVE FALSE
        <5>1. q \in from..(whole - 1)
          BY <1>1, <1>3, <3>4, <4>1
        <5> QED
          BY <1>2, <3>8, <5>1
      <4>2. ASSUME q > whole PROVE FALSE
        <5>1. whole \in from..(y - 1) /\ whole # q
          BY <1>1, <1>3, <2>1, <3>4, <4>2
        <5> QED
          BY <1>2, <3>6, <5>1
      <4> QED
        BY <1>3, <3>4, <4>1, <4>2
    <3>10. whole + 1 \in from..(y - 1) /\ whole + 1 # q
      <4>1. from \in Nat /\ y \in Nat
        BY <1>1, <2>1
      <4> QED
        BY <3>4, <3>9, <4>1
    <3>11. whole + 1 \in DOMAIN buffer /\ buffer[whole + 1] \in Digits
      BY <1>1, <2>2, <3>6, <3>10
    <3>12. CharAt(whole) = "." /\ peekNext(whole) \in Digits
      BY <3>5, <3>9, <3>11, TextFacts DEF peekNext
    <3>13. isFloat
      BY <3>12
    <3>14. ASSUME y > stop PROVE FALSE
      <4>1. stop \in from..(y - 1) /\ stop # q
        BY <1>1, <1>3, <1>6, <1>8, <2>1, <3>9, <3>13, <3>14
      <4> QED
        BY <1>6, <3>6, <3>13, <4>1
    <3> QED
      BY <1>8, <2>1, <3>14
  <2> QED
    BY <2>1, <2>3, <2>4 DEF Form
<1>12. stop = Max(LexemeEnds(from))
  BY <1>10, <1>11, LargestIsMax
<1> QED
  BY <1>8, <1>9, <1>12

Quotes == {"\"", "'"}

\* What scanOperatorOrPunctuation hands out at a position.
Pair(from) == <<CharAt(from), peekNext(from)>>

OperatorAt(kind, from, to) ==
    IF Pair(from) \in DOMAIN DoubleKind
    THEN kind = DoubleKind[Pair(from)] /\ to = from + 2
    ELSE /\ kind = IF CharAt(from) \in DOMAIN SingleKind THEN SingleKind[CharAt(from)] ELSE "Invalid"
         /\ to = from + 1

LEMMA OperatorLexeme ==
    ASSUME IsText, NEW from \in DOMAIN buffer, NEW kind, NEW to,
           buffer[from] \notin Letters \cup Digits \cup Quotes,
           OperatorAt(kind, from, to)
    PROVE  LexemeSound(kind, from, to)
<1>1. /\ Len(buffer) \in Nat /\ from \in Nat /\ from <= Len(buffer) /\ from >= 1
      /\ from + 1 \in Positions /\ CharAt(from) = buffer[from]
      /\ DOMAIN buffer = 1..Len(buffer)
  BY TextFacts
<1>2. \A s \in DOMAIN DoubleKind : Len(s) = 2 /\ s[2] # "NUL"
  BY DoubleKinds
<1>3. from + 1 \in DOMAIN buffer => peekNext(from) = buffer[from + 1]
  BY TextFacts DEF peekNext
<1>4. from + 1 \notin DOMAIN buffer => peekNext(from) = "NUL"
  BY <1>1, TextFacts DEF peekNext
<1>5. ASSUME from + 1 \in DOMAIN buffer
      PROVE  Lexeme(from, from + 2) = Pair(from) /\ from + 2 \in (from + 1)..(Len(buffer) + 1)
  <2>1. from + 2 \in (from + 1)..(Len(buffer) + 1) /\ (from + 2) - from = 2 /\ from + 2 - 1 = from + 1
    BY <1>1, <1>5
  <2>2. PICK s : s = Lexeme(from, from + 2)
    OBVIOUS
  <2>3. /\ s \in Seq(STRING) /\ Len(s) = (from + 2) - from /\ s[1] = buffer[from]
        /\ \A k \in 1..((from + 2) - from) : s[k] = buffer[from + k - 1]
    BY <2>1, <2>2, LexemeFacts
  <2>4. s[2] = buffer[from + 2 - 1]
    BY <2>1, <2>3
  <2>5. s = <<buffer[from], buffer[from + 1]>>
    BY <2>1, <2>3, <2>4
  <2> QED
    BY <1>1, <1>3, <1>5, <2>1, <2>2, <2>5 DEF Pair
<1>6. ASSUME NEW y \in LexemeEnds(from)
      PROVE  \/ y = from + 2 /\ Pair(from) \in DOMAIN DoubleKind
             \/ y = from + 1 /\ buffer[from] \in DOMAIN SingleKind
  <2>1. /\ y \in (from + 1)..(Len(buffer) + 1)
        /\ Form(Lexeme(from, y)) /\ Lexeme(from, y)[1] = buffer[from]
    BY EndsFacts
  <2>2. Len(Lexeme(from, y)) = y - from
    BY <2>1, LexemeFacts
  <2>3. CASE Lexeme(from, y) \in DOMAIN DoubleKind
    <3>1. y - from = 2
      BY <1>2, <2>2, <2>3
    <3>2. y = from + 2 /\ from + 1 \in DOMAIN buffer
      BY <1>1, <2>1, <3>1
    <3> QED
      BY <1>5, <2>3, <3>2
  <2>4. CASE Len(Lexeme(from, y)) = 1 /\ Lexeme(from, y)[1] \in DOMAIN SingleKind
    <3>1. Len(Lexeme(from, y)) = 1
      BY <2>4
    <3>2. y \in Int /\ from \in Int /\ y - from = 1
      <4>1. y \in Int /\ from \in Int
        BY <1>1, <2>1
      <4> QED
        BY <2>2, <3>1, <4>1
    <3>3. y = from + 1
      BY <3>2
    <3> QED
      BY <2>1, <2>4, <3>3
  <2>5. \/ Lexeme(from, y) \in DOMAIN DoubleKind
        \/ Len(Lexeme(from, y)) = 1 /\ Lexeme(from, y)[1] \in DOMAIN SingleKind
    BY <2>1 DEF Form, Quotes
  <2> QED
    BY <2>3, <2>4, <2>5
<1>7. CASE Pair(from) \in DOMAIN DoubleKind
  <2>1. kind = DoubleKind[Pair(from)] /\ to = from + 2
    BY <1>7 DEF OperatorAt
  <2>2. peekNext(from) # "NUL"
    <3>1. Pair(from)[2] = peekNext(from)
      BY DEF Pair
    <3> QED
      BY <1>2, <1>7, <3>1
  <2>3. Lexeme(from, to) = Pair(from) /\ to \in (from + 1)..(Len(buffer) + 1)
    BY <1>4, <1>5, <2>1, <2>2
  <2>4. kind \in Kinds /\ Grammatical(Lexeme(from, to), kind)
    BY <1>7, <2>1, <2>3 DEF Kinds, Grammatical
  <2>5. to \in LexemeEnds(from) /\ LexemeEnds(from) \in SUBSET Int
    BY <2>3, <2>4, EndsFacts
  <2>6. \A y \in LexemeEnds(from) : y <= to
    BY <1>1, <1>6, <2>1
  <2>7. to = Max(LexemeEnds(from))
    BY <2>5, <2>6, LargestIsMax
  <2>8. kind \notin {"Newline", "Invalid", "EndOfFile"}
    BY <1>7, <2>1, DoubleKinds
  <2> QED
    BY <2>4, <2>7, <2>8 DEF LexemeSound
<1>8. CASE Pair(from) \notin DOMAIN DoubleKind /\ buffer[from] \in DOMAIN SingleKind
  <2>1. kind = buffer[from] /\ kind = SingleKind[buffer[from]] /\ to = from + 1
    BY <1>1, <1>8, SingleKinds DEF OperatorAt
  <2>2. to \in (from + 1)..(Len(buffer) + 1) /\ to - from = 1
    BY <1>1, <2>1
  <2>3. Len(Lexeme(from, to)) = 1 /\ Lexeme(from, to)[1] = buffer[from]
    BY <2>2, LexemeFacts
  <2>4. kind \in Kinds /\ Grammatical(Lexeme(from, to), kind)
    BY <1>8, <2>1, <2>3 DEF Kinds, Grammatical
  <2>5. to \in LexemeEnds(from) /\ LexemeEnds(from) \in SUBSET Int
    BY <2>2, <2>4, EndsFacts
  <2>6. \A y \in LexemeEnds(from) : y <= to
    BY <1>1, <1>6, <1>8, <2>1
  <2>7. to = Max(LexemeEnds(from))
    BY <2>5, <2>6, LargestIsMax
  <2>8. kind \notin {"Newline", "Invalid", "EndOfFile"}
    BY <1>8, <2>1, SingleKinds
  <2> QED
    BY <2>4, <2>7, <2>8 DEF LexemeSound
<1>9. CASE Pair(from) \notin DOMAIN DoubleKind /\ buffer[from] \notin DOMAIN SingleKind
  <2>1. kind = "Invalid"
    BY <1>1, <1>9 DEF OperatorAt
  <2>2. LexemeEnds(from) = {}
    BY <1>6, <1>9
  <2>3. kind = "Newline" => Lexeme(from, to) \in {<<LF>>, <<CR, LF>>}
    BY <2>1
  <2>4. ~(kind \notin {"Newline", "Invalid", "EndOfFile"})
    BY <2>1
  <2> QED
    BY <2>2, <2>3, <2>4, Zenon DEF LexemeSound
<1> QED
  BY <1>7, <1>8, <1>9

----------------------------------------------------------------------------
(* The inside of a literal *)

\* From i up to the quote at j, starts being where the escapes begin.
Parses(i, j, starts, quote, escapes) ==
    /\ j \in DOMAIN buffer /\ j >= i /\ buffer[j] = quote
    /\ starts \subseteq i..(j - 1)
    /\ \A p \in starts : buffer[p] = "\\" /\ p + 1 \in (i..(j - 1)) \ starts /\ buffer[p + 1] \in escapes
    /\ \A p \in i..(j - 1) : p \notin starts /\ p - 1 \notin starts => buffer[p] \notin {quote, "\\", CR, LF}

Agrees(r, i, j, starts) == r.valid /\ r.to = j + 1 /\ r.units = (j - i) - Cardinality(starts)

\* The scan finds the one way to read the literal, or there is none.
LiteralMeans(i, r, quote, escapes) ==
    /\ r.valid => \E j, starts : Parses(i, j, starts, quote, escapes) /\ Agrees(r, i, j, starts)
    /\ \A j, starts : Parses(i, j, starts, quote, escapes) => Agrees(r, i, j, starts)

LEMMA ParsesBounds ==
    ASSUME IsText, NEW i \in Positions, NEW j, NEW starts, NEW quote, NEW escapes,
           Parses(i, j, starts, quote, escapes)
    PROVE  /\ i \in Nat /\ j \in Nat /\ j >= i /\ i \in DOMAIN buffer
           /\ IsFiniteSet(starts) /\ Cardinality(starts) \in Nat /\ starts \subseteq i..(j - 1)
<1>1. /\ j \in DOMAIN buffer /\ j >= i /\ starts \subseteq i..(j - 1)
      /\ Len(buffer) \in Nat /\ DOMAIN buffer = 1..Len(buffer) /\ i \in Nat /\ i >= 1
  BY TextFacts DEF Parses
<1>2. IsFiniteSet(starts) /\ Cardinality(starts) \in Nat
  <2>1. i \in Int /\ j - 1 \in Int
    BY <1>1
  <2>2. IsFiniteSet(i..(j - 1))
    BY <2>1, FS_Interval
  <2> QED
    BY <1>1, <2>2, FS_Subset, FS_CardinalityType
<1> QED
  BY <1>1, <1>2

LEMMA ParsesQuote ==
    ASSUME IsText, NEW i \in DOMAIN buffer, NEW quote, NEW escapes, IsQuote(quote), buffer[i] = quote
    PROVE  /\ Parses(i, i, {}, quote, escapes)
           /\ \A j, starts : Parses(i, j, starts, quote, escapes) => j = i /\ starts = {}
<1>1. i \in Nat /\ i \in Positions /\ i..(i - 1) = {}
  BY TextFacts
<1>2. Parses(i, i, {}, quote, escapes)
  BY <1>1 DEF Parses
<1>3. ASSUME NEW j, NEW starts, Parses(i, j, starts, quote, escapes)
      PROVE  j = i /\ starts = {}
  <2>1. j \in Nat /\ j >= i /\ starts \subseteq i..(j - 1)
    BY <1>1, <1>3, ParsesBounds
  <2>2. i - 1 \notin starts
    BY <1>1, <2>1
  <2>3. i \notin starts
    BY <1>3 DEF Parses, IsQuote
  <2>4. i \notin i..(j - 1)
    BY <1>3, <2>2, <2>3 DEF Parses
  <2>5. j = i
    BY <1>1, <2>1, <2>4
  <2> QED
    BY <1>1, <2>1, <2>5
<1> QED
  BY <1>2, <1>3

LEMMA ParsesPlain ==
    ASSUME IsText, NEW i \in DOMAIN buffer, NEW quote, NEW escapes, IsQuote(quote),
           buffer[i] \notin {quote, "\\", CR, LF}, NEW j, NEW starts
    PROVE  Parses(i, j, starts, quote, escapes) <=> Parses(i + 1, j, starts, quote, escapes)
<1>1. i \in Nat /\ i \in Positions /\ i + 1 \in Positions
  BY TextFacts
<1>2. ASSUME Parses(i, j, starts, quote, escapes)
      PROVE  Parses(i + 1, j, starts, quote, escapes)
  <2>1. j \in Nat /\ j >= i /\ starts \subseteq i..(j - 1)
    BY <1>1, <1>2, ParsesBounds
  <2>2. i \notin starts /\ j # i
    BY <1>2 DEF Parses
  <2>3. starts \subseteq (i + 1)..(j - 1) /\ j >= i + 1
    BY <1>1, <2>1, <2>2
  <2>4. \A p \in starts : p + 1 \in (i..(j - 1)) \ starts => p + 1 \in ((i + 1)..(j - 1)) \ starts
    BY <1>1, <2>1, <2>3
  <2>5. \A p \in (i + 1)..(j - 1) : p \in i..(j - 1)
    BY <1>1, <2>1
  <2> QED
    BY <1>2, <2>3, <2>4, <2>5 DEF Parses
<1>3. ASSUME Parses(i + 1, j, starts, quote, escapes)
      PROVE  Parses(i, j, starts, quote, escapes)
  <2>1. j \in Nat /\ j >= i + 1 /\ starts \subseteq (i + 1)..(j - 1)
    BY <1>1, <1>3, ParsesBounds
  <2>2. starts \subseteq i..(j - 1) /\ j >= i /\ \A p \in (i + 1)..(j - 1) : p \in i..(j - 1)
    BY <1>1, <2>1
  <2>3. \A p \in i..(j - 1) : p = i \/ p \in (i + 1)..(j - 1)
    BY <1>1, <2>1
  <2>4. j \in DOMAIN buffer /\ buffer[j] = quote
    BY <1>3 DEF Parses
  <2>5. \A p \in starts : buffer[p] = "\\" /\ p + 1 \in (i..(j - 1)) \ starts /\ buffer[p + 1] \in escapes
    BY <1>3, <2>2 DEF Parses
  <2>6. \A p \in i..(j - 1) : p \notin starts /\ p - 1 \notin starts => buffer[p] \notin {quote, "\\", CR, LF}
    BY <1>3, <2>3 DEF Parses
  <2> QED
    BY <2>2, <2>4, <2>5, <2>6 DEF Parses
<1> QED
  BY <1>2, <1>3

LEMMA ParsesEscape ==
    ASSUME IsText, NEW i \in DOMAIN buffer, NEW quote, NEW escapes, IsQuote(quote),
           buffer[i] = "\\", NEW j, NEW starts
    PROVE  /\ Parses(i, j, starts, quote, escapes)
              => /\ i + 1 \in DOMAIN buffer /\ buffer[i + 1] \in escapes /\ i \in starts
                 /\ Parses(i + 2, j, starts \ {i}, quote, escapes)
           /\ /\ i + 1 \in DOMAIN buffer /\ buffer[i + 1] \in escapes
              /\ Parses(i + 2, j, starts, quote, escapes)
              => Parses(i, j, starts \cup {i}, quote, escapes) /\ i \notin starts
<1>1. i \in Nat /\ i \in Positions /\ i >= 1 /\ DOMAIN buffer = 1..Len(buffer) /\ Len(buffer) \in Nat
  BY TextFacts
<1>2. ASSUME Parses(i, j, starts, quote, escapes)
      PROVE  /\ i + 1 \in DOMAIN buffer /\ buffer[i + 1] \in escapes /\ i \in starts
             /\ Parses(i + 2, j, starts \ {i}, quote, escapes)
  <2>1. j \in Nat /\ j >= i /\ starts \subseteq i..(j - 1) /\ j \in DOMAIN buffer /\ buffer[j] = quote
    BY <1>1, <1>2, ParsesBounds DEF Parses
  <2>2. j # i
    BY <2>1 DEF IsQuote
  <2>3. i - 1 \notin starts /\ i \in i..(j - 1)
    BY <1>1, <2>1, <2>2
  <2>4. i \in starts
    BY <1>2, <2>3 DEF Parses
  <2>5. i + 1 \in i..(j - 1) /\ i + 1 \notin starts /\ buffer[i + 1] \in escapes
    BY <1>2, <2>4 DEF Parses
  <2>6. i + 1 \in DOMAIN buffer /\ j >= i + 2
    BY <1>1, <2>1, <2>5
  <2>7. starts \ {i} \subseteq (i + 2)..(j - 1)
    <3> SUFFICES ASSUME NEW p \in starts, p # i PROVE p \in (i + 2)..(j - 1)
      OBVIOUS
    <3>1. p \in i..(j - 1) /\ p # i + 1 /\ p # i
      BY <2>1, <2>5
    <3> QED
      BY <1>1, <2>1, <3>1
  <2>8. ASSUME NEW p \in starts \ {i}
        PROVE  /\ buffer[p] = "\\" /\ buffer[p + 1] \in escapes
               /\ p + 1 \in ((i + 2)..(j - 1)) \ (starts \ {i})
    <3>1. p \in starts /\ p \in (i + 2)..(j - 1)
      BY <2>7
    <3>2. buffer[p] = "\\" /\ p + 1 \in (i..(j - 1)) \ starts /\ buffer[p + 1] \in escapes
      BY <1>2, <3>1 DEF Parses
    <3> QED
      BY <1>1, <2>1, <3>1, <3>2
  <2>9. ASSUME NEW p \in (i + 2)..(j - 1), p \notin starts \ {i}, p - 1 \notin starts \ {i}
        PROVE  buffer[p] \notin {quote, "\\", CR, LF}
    <3>1. p \in i..(j - 1) /\ p # i /\ p - 1 # i
      BY <1>1, <2>1
    <3> QED
      BY <1>2, <2>9, <3>1 DEF Parses
  <2>10. Parses(i + 2, j, starts \ {i}, quote, escapes)
    BY <2>1, <2>6, <2>7, <2>8, <2>9 DEF Parses
  <2> QED
    BY <2>4, <2>5, <2>6, <2>10
<1>3. ASSUME i + 1 \in DOMAIN buffer, buffer[i + 1] \in escapes,
             Parses(i + 2, j, starts, quote, escapes)
      PROVE  Parses(i, j, starts \cup {i}, quote, escapes) /\ i \notin starts
  <2>1. /\ j \in DOMAIN buffer /\ buffer[j] = quote /\ starts \subseteq (i + 2)..(j - 1)
        /\ j \in Nat /\ j >= i + 2
    BY <1>1, <1>3 DEF Parses
  <2>2. /\ starts \cup {i} \subseteq i..(j - 1) /\ j >= i /\ i \notin starts /\ i + 1 \notin starts
        /\ i + 1 \in (i..(j - 1)) \ (starts \cup {i})
    <3>1. \A p \in (i + 2)..(j - 1) : p \in i..(j - 1) /\ p # i /\ p # i + 1
      BY <1>1, <2>1
    <3>2. i \in i..(j - 1) /\ i + 1 \in i..(j - 1) /\ i + 1 # i /\ j >= i
      BY <1>1, <2>1
    <3> QED
      BY <2>1, <3>1, <3>2
  <2>3. ASSUME NEW p \in starts
        PROVE  /\ buffer[p] = "\\" /\ buffer[p + 1] \in escapes
               /\ p + 1 \in (i..(j - 1)) \ (starts \cup {i})
    <3>1. p \in (i + 2)..(j - 1)
      BY <2>1
    <3>2. buffer[p] = "\\" /\ p + 1 \in ((i + 2)..(j - 1)) \ starts /\ buffer[p + 1] \in escapes
      BY <1>3, <2>3 DEF Parses
    <3> QED
      BY <1>1, <2>1, <3>1, <3>2
  <2>4. ASSUME NEW p \in i..(j - 1), p \notin starts \cup {i}, p - 1 \notin starts \cup {i}
        PROVE  buffer[p] \notin {quote, "\\", CR, LF}
    <3>1. p \in (i + 2)..(j - 1)
      BY <1>1, <2>1, <2>4
    <3> QED
      BY <1>3, <2>4, <3>1 DEF Parses
  <2>5. \A p \in starts \cup {i} :
           buffer[p] = "\\" /\ p + 1 \in (i..(j - 1)) \ (starts \cup {i}) /\ buffer[p + 1] \in escapes
    BY <1>3, <2>2, <2>3
  <2> QED
    BY <2>1, <2>2, <2>4, <2>5 DEF Parses
<1> QED
  BY <1>2, <1>3

LEMMA LiteralMeaning ==
    ASSUME IsText, NEW quote, NEW escapes, IsQuote(quote), LF \notin escapes, CR \notin escapes
    PROVE  \A i \in Positions : LiteralMeans(i, LiteralFrom(quote, escapes)[i], quote, escapes)
<1> DEFINE from == LiteralFrom(quote, escapes)
           G == {i \in Positions : LiteralMeans(i, from[i], quote, escapes)}
<1>1. Len(buffer) + 1 \in Nat /\ Positions = 1..(Len(buffer) + 1) /\ Len(buffer) \in Nat
  BY TextFacts DEF Positions
<1>2. ASSUME NEW i \in 1..(Len(buffer) + 1), \A j \in (i + 1)..(Len(buffer) + 1) : j \in G
      PROVE  i \in G
  <2>1. \A j \in (i + 1)..(Len(buffer) + 1) : LiteralMeans(j, from[j], quote, escapes)
    BY <1>2
  <2>2. from[i] = LiteralAt(from, i, quote, escapes)
    BY <1>1, LiteralUnfolded
  <2>3. i \in Positions /\ i \in Nat /\ i >= 1
    BY <1>1
  <2>4. LiteralCase(from, i, quote, escapes)
    BY LiteralCases
  <2>5. ~isAtEnd(i) => /\ i \in DOMAIN buffer /\ CharAt(i) = buffer[i] /\ i + 1 \in Positions
                       /\ i + 1 \in (i + 1)..(Len(buffer) + 1)
    BY <1>1, <2>3, TextFacts
  <2>6. isAtEnd(i) => CharAt(i) = "NUL" /\ i \notin DOMAIN buffer
    BY <2>3, TextFacts DEF CharAt
  <2>7. \A p \in Positions : LiteralSound(p, from[p])
    BY LiteralFacts
  <2> SUFFICES LiteralMeans(i, from[i], quote, escapes)
    BY <2>3
  <2> HIDE DEF from, G
  <2>8. CASE isAtEnd(i) \/ CharAt(i) \in {LF, CR}
    <3>1. from[i] = [to |-> i, valid |-> FALSE, units |-> 0]
      BY <2>2, <2>4, <2>8 DEF LiteralCase
    <3>2. ASSUME NEW j, NEW starts, Parses(i, j, starts, quote, escapes) PROVE FALSE
      <4>1. j \in Nat /\ j >= i /\ i \in DOMAIN buffer /\ starts \subseteq i..(j - 1)
        BY <2>3, <3>2, ParsesBounds
      <4>2. buffer[i] \in {LF, CR}
        BY <2>5, <2>6, <2>8, <4>1
      <4>3. buffer[i] # quote /\ buffer[i] # "\\"
        BY <4>2 DEF IsQuote, LF, CR
      <4>4. j # i /\ i \notin starts /\ i - 1 \notin starts
        BY <2>3, <3>2, <4>1, <4>3 DEF Parses
      <4>5. i \in i..(j - 1)
        BY <2>3, <4>1, <4>4
      <4> QED
        BY <3>2, <4>2, <4>4, <4>5 DEF Parses
    <3>3. ~from[i].valid
      BY <3>1
    <3> QED
      BY <3>2, <3>3 DEF LiteralMeans
  <2>9. CASE CharAt(i) = quote
    <3>1. from[i] = [to |-> i + 1, valid |-> TRUE, units |-> 0]
      BY <2>2, <2>4, <2>9 DEF LiteralCase
    <3>2. i \in DOMAIN buffer /\ buffer[i] = quote
      BY <2>5, <2>6, <2>9 DEF IsQuote
    <3>3. /\ Parses(i, i, {}, quote, escapes)
          /\ \A j, starts : Parses(i, j, starts, quote, escapes) => j = i /\ starts = {}
      BY <3>2, ParsesQuote
    <3>4. Cardinality({}) = 0
      BY FS_EmptySet
    <3>5. from[i].valid /\ from[i].to = i + 1 /\ from[i].units = 0
      BY <3>1
    <3>6. Agrees(from[i], i, i, {})
      BY <2>3, <3>4, <3>5 DEF Agrees
    <3> QED
      BY <3>3, <3>6 DEF LiteralMeans
  <2>10. CASE CharAt(i) = "\\" /\ isAtEnd(i + 1)
    <3>1. from[i] = [to |-> i + 1, valid |-> FALSE, units |-> 0]
      BY <2>2, <2>4, <2>10 DEF LiteralCase
    <3>2. i \in DOMAIN buffer /\ buffer[i] = "\\"
      BY <2>5, <2>6, <2>10
    <3>3. i + 1 \notin DOMAIN buffer
      BY <2>5, <2>6, <2>10, TextFacts
    <3>4. ASSUME NEW j, NEW starts, Parses(i, j, starts, quote, escapes) PROVE FALSE
      BY <3>2, <3>3, <3>4, ParsesEscape
    <3>5. ~from[i].valid
      BY <3>1
    <3> QED
      BY <3>4, <3>5 DEF LiteralMeans
  <2>11. CASE CharAt(i) = "\\" /\ ~isAtEnd(i + 1)
    <3>1. from[i] = WithUnit(from[i + 2], peekNext(i) \in escapes)
      BY <2>2, <2>4, <2>11 DEF LiteralCase
    <3>2. i \in DOMAIN buffer /\ buffer[i] = "\\"
      BY <2>5, <2>6, <2>11
    <3>3. /\ i + 1 \in DOMAIN buffer /\ i + 2 \in (i + 1)..(Len(buffer) + 1) /\ i + 2 \in Positions
      BY <1>1, <2>3, <2>5, <2>6, <2>11, <3>2, TextFacts DEF isAtEnd
    <3>4. LiteralMeans(i + 2, from[i + 2], quote, escapes)
      BY <2>1, <3>3
    <3>5. peekNext(i) = buffer[i + 1]
      BY <3>3, TextFacts DEF peekNext
    <3>6. PICK r : r = from[i + 2]
      OBVIOUS
    <3>7. from[i].to = r.to /\ from[i].units = r.units + 1
      BY <3>1, <3>6 DEF WithUnit
    <3>8. from[i].valid = (r.valid /\ buffer[i + 1] \in escapes)
      <4>1. WithUnit(from[i + 2], peekNext(i) \in escapes).valid
            = (from[i + 2].valid /\ peekNext(i) \in escapes)
        BY UnitIsValid, Zenon
      <4> QED
        BY <3>1, <3>5, <3>6, <4>1, Zenon
    <3>9. ASSUME NEW j, NEW starts, Parses(i, j, starts, quote, escapes)
          PROVE  Agrees(from[i], i, j, starts)
      <4>1. /\ buffer[i + 1] \in escapes /\ i \in starts
            /\ Parses(i + 2, j, starts \ {i}, quote, escapes)
        BY <3>2, <3>9, ParsesEscape
      <4>2. Agrees(r, i + 2, j, starts \ {i})
        BY <3>4, <3>6, <4>1 DEF LiteralMeans
      <4>3. j \in Nat /\ IsFiniteSet(starts) /\ Cardinality(starts) \in Nat
        BY <2>3, <3>9, ParsesBounds
      <4>4. Cardinality(starts \ {i}) = Cardinality(starts) - 1
        BY <4>1, <4>3, FS_RemoveElement
      <4>5. r.valid /\ r.to = j + 1 /\ r.units = (j - (i + 2)) - Cardinality(starts \ {i})
        BY <4>2 DEF Agrees
      <4>6. from[i].valid
        BY <3>8, <4>1, <4>5
      <4>7. from[i].units = (j - i) - Cardinality(starts)
        BY <2>3, <3>7, <4>3, <4>4, <4>5
      <4> QED
        BY <3>7, <4>5, <4>6, <4>7 DEF Agrees
    <3>10. ASSUME from[i].valid
           PROVE  \E j, starts : Parses(i, j, starts, quote, escapes) /\ Agrees(from[i], i, j, starts)
      <4>1. r.valid /\ buffer[i + 1] \in escapes
        BY <3>8, <3>10
      <4>2. PICK j, starts : Parses(i + 2, j, starts, quote, escapes)
        BY <3>4, <3>6, <4>1 DEF LiteralMeans
      <4>3. Parses(i, j, starts \cup {i}, quote, escapes)
        BY <3>2, <3>3, <4>1, <4>2, ParsesEscape
      <4> QED
        BY <3>9, <4>3
    <3> QED
      BY <3>9, <3>10 DEF LiteralMeans
  <2>12. CASE ~isAtEnd(i) /\ CharAt(i) \notin {LF, CR, quote, "\\"}
    <3>1. from[i] = WithUnit(from[i + 1], TRUE)
      BY <2>2, <2>4, <2>12 DEF LiteralCase
    <3>2. i \in DOMAIN buffer /\ buffer[i] \notin {quote, "\\", CR, LF}
      BY <2>5, <2>12
    <3>3. LiteralMeans(i + 1, from[i + 1], quote, escapes) /\ i + 1 \in Positions
      BY <2>1, <2>5, <2>12
    <3>4. PICK r : r = from[i + 1]
      OBVIOUS
    <3>5. from[i].to = r.to /\ from[i].units = r.units + 1
      BY <3>1, <3>4 DEF WithUnit
    <3>6. from[i].valid = (r.valid /\ TRUE)
      <4>1. WithUnit(from[i + 1], TRUE).valid = (from[i + 1].valid /\ TRUE)
        BY UnitIsValid, Zenon
      <4> QED
        BY <3>1, <3>4, <4>1, Zenon
    <3>7. ASSUME NEW j, NEW starts, Parses(i, j, starts, quote, escapes)
          PROVE  Agrees(from[i], i, j, starts)
      <4>1. Parses(i + 1, j, starts, quote, escapes)
        BY <3>2, <3>7, ParsesPlain
      <4>2. Agrees(r, i + 1, j, starts)
        BY <3>3, <3>4, <4>1 DEF LiteralMeans
      <4>3. j \in Nat /\ Cardinality(starts) \in Nat
        BY <2>3, <3>7, ParsesBounds
      <4>4. r.valid /\ r.to = j + 1 /\ r.units = (j - (i + 1)) - Cardinality(starts)
        BY <4>2 DEF Agrees
      <4>5. from[i].units = (j - i) - Cardinality(starts)
        BY <2>3, <3>5, <4>3, <4>4
      <4>6. from[i].valid
        BY <3>6, <4>4
      <4> QED
        BY <3>5, <4>4, <4>5, <4>6 DEF Agrees
    <3>8. ASSUME from[i].valid
          PROVE  \E j, starts : Parses(i, j, starts, quote, escapes) /\ Agrees(from[i], i, j, starts)
      <4>1. r.valid
        BY <3>6, <3>8
      <4>2. PICK j, starts : Parses(i + 1, j, starts, quote, escapes)
        BY <3>3, <3>4, <4>1 DEF LiteralMeans
      <4>3. Parses(i, j, starts, quote, escapes)
        BY <3>2, <4>2, ParsesPlain
      <4> QED
        BY <3>7, <4>3
    <3> QED
      BY <3>7, <3>8 DEF LiteralMeans
  <2> QED
    BY <2>8, <2>9, <2>10, <2>11, <2>12
<1>3. \A i \in 1..(Len(buffer) + 1) : i \in G
  <2> HIDE DEF G
  <2> QED
    BY <1>1, <1>2, CountingDown
<1> QED
  BY <1>1, <1>3

\* A set of positions moved along the text.
Moved(S, d) == {p + d : p \in S}

LEMMA MovedFacts ==
    ASSUME NEW S \in SUBSET Int, NEW d \in Int, IsFiniteSet(S)
    PROVE  /\ \A q \in Int : q \in Moved(S, d) <=> q - d \in S
           /\ Cardinality(Moved(S, d)) = Cardinality(S)
<1>1. \A q \in Int : q \in Moved(S, d) <=> q - d \in S
  <2>1. ASSUME NEW q \in Int, q \in Moved(S, d) PROVE q - d \in S
    <3>1. PICK p \in S : q = p + d
      BY <2>1 DEF Moved
    <3>2. p \in Int /\ q - d = p
      BY <3>1
    <3> QED
      BY <3>2
  <2>2. ASSUME NEW q \in Int, q - d \in S PROVE q \in Moved(S, d)
    <3>1. q = (q - d) + d
      OBVIOUS
    <3> QED
      BY <2>2, <3>1 DEF Moved
  <2> QED
    BY <2>1, <2>2
<1>2. PICK f : f = [p \in S |-> p + d]
  OBVIOUS
<1>3. f \in Bijection(S, Moved(S, d))
  <2>1. f \in [S -> Moved(S, d)]
    BY <1>2 DEF Moved
  <2>2. \A a, b \in S : f[a] = f[b] => a = b
    BY <1>2
  <2>3. \A t \in Moved(S, d) : \E s \in S : f[s] = t
    BY <1>2 DEF Moved
  <2> QED
    BY <2>1, <2>2, <2>3 DEF Bijection, Injection, Surjection, IsInjective
<1>4. ExistsBijection(S, Moved(S, d))
  BY <1>3 DEF ExistsBijection
<1> QED
  BY <1>1, <1>4, FS_Bijection

\* A quoted lexeme read by the grammar and by the scan: position k of the lexeme
\* is position from + k - 1 of the text.
LEMMA LexemeParses ==
    ASSUME IsText, NEW from \in DOMAIN buffer, NEW to \in (from + 1)..(Len(buffer) + 1),
           NEW quote, NEW escapes, IsQuote(quote),
           Quoted(Lexeme(from, to), quote), NEW starts \in Escaped(Lexeme(from, to), quote, escapes)
    PROVE  /\ Parses(from + 1, to - 1, Moved(starts, from - 1), quote, escapes)
           /\ Cardinality(Moved(starts, from - 1)) = Cardinality(starts)
           /\ Len(Lexeme(from, to)) = to - from
<1>1. PICK s : s = Lexeme(from, to)
  OBVIOUS
<1>2. PICK S : S = Moved(starts, from - 1)
  OBVIOUS
<1>3. /\ Len(buffer) \in Nat /\ from \in Nat /\ from >= 1 /\ to \in Nat /\ DOMAIN buffer = 1..Len(buffer)
      /\ to <= Len(buffer) + 1 /\ from + 1 <= to
  BY TextFacts
<1>4. /\ Len(s) = to - from /\ \A k \in 1..(to - from) : s[k] = buffer[from + k - 1]
  BY <1>1, LexemeFacts
<1>5. to >= from + 2 /\ s[to - from] = quote
  BY <1>1, <1>3, <1>4 DEF Quoted
<1>6. starts \subseteq 2..((to - from) - 1)
  BY <1>1, <1>4 DEF Escaped, Interior
<1>7. /\ \A k \in starts : s[k] = "\\" /\ k + 1 \in (2..((to - from) - 1)) \ starts /\ s[k + 1] \in escapes
      /\ \A k \in 2..((to - from) - 1) : k \notin starts /\ k - 1 \notin starts
            => s[k] \notin {quote, "\\", CR, LF}
  BY <1>1, <1>4 DEF Escaped, Interior
<1>8. starts \in SUBSET Int /\ from - 1 \in Int /\ IsFiniteSet(starts)
  <2>1. (to - from) - 1 \in Int /\ from - 1 \in Int
    BY <1>3
  <2>2. IsFiniteSet(2..((to - from) - 1))
    BY <2>1, FS_Interval
  <2>3. IsFiniteSet(starts)
    BY <1>6, <2>2, FS_Subset
  <2>4. starts \in SUBSET Int
    BY <1>6, <2>1
  <2> QED
    BY <2>1, <2>3, <2>4
<1>9. /\ \A q \in Int : q \in S <=> q - (from - 1) \in starts
      /\ Cardinality(S) = Cardinality(starts)
  BY <1>2, <1>8, MovedFacts
<1>10. \A p \in Int : /\ p \in (from + 1)..(to - 2) <=> p - (from - 1) \in 2..((to - from) - 1)
                      /\ p \in from..(to - 1) => s[p - (from - 1)] = buffer[p]
  <2> SUFFICES ASSUME NEW p \in Int
               PROVE  /\ p \in (from + 1)..(to - 2) <=> p - (from - 1) \in 2..((to - from) - 1)
                      /\ p \in from..(to - 1) => s[p - (from - 1)] = buffer[p]
    OBVIOUS
  <2>1. p \in from..(to - 1) => p - (from - 1) \in 1..(to - from) /\ from + (p - (from - 1)) - 1 = p
    BY <1>3
  <2>2. p \in from..(to - 1) => s[p - (from - 1)] = buffer[p]
    BY <1>4, <2>1
  <2>3. p \in (from + 1)..(to - 2) <=> p - (from - 1) \in 2..((to - from) - 1)
    BY <1>3
  <2> QED
    BY <2>2, <2>3
<1>11. to - 1 \in DOMAIN buffer /\ to - 1 >= from + 1 /\ buffer[to - 1] = quote
  <2>1. to - 1 \in DOMAIN buffer /\ to - 1 >= from + 1
    BY <1>3, <1>5
  <2>2. (to - 1) - (from - 1) = to - from /\ to - 1 \in from..(to - 1) /\ to - 1 \in Int
    BY <1>3
  <2>3. s[(to - 1) - (from - 1)] = buffer[to - 1]
    BY <1>10, <2>2
  <2> QED
    BY <1>5, <2>1, <2>2, <2>3
<1>12. (to - 1) - 1 = to - 2 /\ \A p \in (from + 1)..(to - 2) : p \in Int /\ p \in from..(to - 1)
  BY <1>3
<1>13. S \subseteq (from + 1)..(to - 2)
  <2>1. S \in SUBSET Int
    BY <1>2, <1>8 DEF Moved
  <2>2. ASSUME NEW p \in S PROVE p \in (from + 1)..(to - 2)
    <3>1. p \in Int /\ p - (from - 1) \in 2..((to - from) - 1)
      BY <1>6, <1>9, <2>1, <2>2
    <3> QED
      BY <1>10, <3>1
  <2> QED
    BY <2>2
<1>14. ASSUME NEW p \in S
       PROVE  buffer[p] = "\\" /\ p + 1 \in ((from + 1)..(to - 2)) \ S /\ buffer[p + 1] \in escapes
  <2>1. PICK k : k = p - (from - 1)
    OBVIOUS
  <2>2. p \in Int /\ p \in from..(to - 1) /\ k \in starts
    BY <1>9, <1>12, <1>13, <2>1
  <2>3. (p + 1) - (from - 1) = k + 1 /\ p + 1 \in Int
    BY <1>3, <2>1, <2>2
  <2>4. s[k] = "\\" /\ k + 1 \in (2..((to - from) - 1)) \ starts /\ s[k + 1] \in escapes
    BY <1>7, <2>2
  <2>5. p + 1 \in (from + 1)..(to - 2) /\ p + 1 \notin S
    BY <1>9, <1>10, <2>3, <2>4
  <2>6. buffer[p] = s[k]
    BY <1>10, <2>1, <2>2
  <2>7. buffer[p + 1] = s[k + 1]
    BY <1>10, <1>12, <2>3, <2>5
  <2> QED
    BY <2>4, <2>5, <2>6, <2>7
<1>15. ASSUME NEW p \in (from + 1)..(to - 2), p \notin S, p - 1 \notin S
       PROVE  buffer[p] \notin {quote, "\\", CR, LF}
  <2>1. PICK k : k = p - (from - 1)
    OBVIOUS
  <2>2. p \in Int /\ p \in from..(to - 1) /\ k \in 2..((to - from) - 1)
    BY <1>10, <1>12, <2>1
  <2>3. (p - 1) - (from - 1) = k - 1 /\ p - 1 \in Int
    BY <1>3, <2>1, <2>2
  <2>4. k \notin starts /\ k - 1 \notin starts
    BY <1>9, <1>15, <2>1, <2>2, <2>3
  <2>5. s[k] \notin {quote, "\\", CR, LF}
    BY <1>7, <2>2, <2>4
  <2>6. buffer[p] = s[k]
    BY <1>10, <2>1, <2>2
  <2> QED
    BY <2>5, <2>6
<1>16. Parses(from + 1, to - 1, S, quote, escapes)
  BY <1>11, <1>12, <1>13, <1>14, <1>15 DEF Parses
<1> QED
  BY <1>1, <1>2, <1>4, <1>9, <1>16

LEMMA ParsesLexeme ==
    ASSUME IsText, NEW from \in DOMAIN buffer, NEW j, NEW starts, NEW quote, NEW escapes,
           IsQuote(quote), buffer[from] = quote, Parses(from + 1, j, starts, quote, escapes)
    PROVE  /\ j + 1 \in (from + 1)..(Len(buffer) + 1)
           /\ Quoted(Lexeme(from, j + 1), quote)
           /\ Moved(starts, 1 - from) \in Escaped(Lexeme(from, j + 1), quote, escapes)
           /\ Cardinality(Moved(starts, 1 - from)) = Cardinality(starts)
           /\ Len(Lexeme(from, j + 1)) = (j + 1) - from
<1>1. PICK s, to : s = Lexeme(from, j + 1) /\ to = j + 1
  OBVIOUS
<1>2. PICK S : S = Moved(starts, 1 - from)
  OBVIOUS
<1>3. /\ Len(buffer) \in Nat /\ from \in Nat /\ from >= 1 /\ DOMAIN buffer = 1..Len(buffer)
      /\ from + 1 \in Positions
  BY TextFacts
<1>4. /\ j \in Nat /\ j >= from + 1 /\ IsFiniteSet(starts) /\ starts \subseteq (from + 1)..(j - 1)
      /\ j \in DOMAIN buffer /\ buffer[j] = quote
  BY <1>3, ParsesBounds, ZenonT(30) DEF Parses
<1>5. /\ to \in (from + 1)..(Len(buffer) + 1) /\ to \in Nat /\ to - from >= 2 /\ to - from \in Nat
      /\ j - 1 = to - 2 /\ from + (to - from) - 1 = j
  BY <1>1, <1>3, <1>4
<1>6. /\ Len(s) = to - from /\ \A k \in 1..(to - from) : s[k] = buffer[from + k - 1]
      /\ s[1] = buffer[from]
  BY <1>1, <1>5, LexemeFacts
<1>7. Quoted(s, quote)
  <2>1. to - from \in 1..(to - from)
    BY <1>5
  <2>2. s[to - from] = buffer[from + (to - from) - 1]
    BY <1>6, <2>1
  <2> QED
    BY <1>4, <1>5, <1>6, <2>2 DEF Quoted
<1>8. starts \in SUBSET Int /\ 1 - from \in Int
  BY <1>3, <1>4
<1>9. /\ \A q \in Int : q \in S <=> q - (1 - from) \in starts
      /\ Cardinality(S) = Cardinality(starts) /\ S \in SUBSET Int
  <2>1. IsFiniteSet(starts)
    BY <1>4
  <2>2. /\ \A q \in Int : q \in S <=> q - (1 - from) \in starts
        /\ Cardinality(S) = Cardinality(starts)
    BY <1>2, <1>8, <2>1, MovedFacts
  <2>3. S \in SUBSET Int
    BY <1>2, <1>8 DEF Moved
  <2> QED
    BY <2>2, <2>3
<1>10. ASSUME NEW k \in Int
       PROVE  /\ k - (1 - from) = from + k - 1
              /\ k \in 2..(Len(s) - 1) <=> from + k - 1 \in (from + 1)..(j - 1)
              /\ k \in 2..(Len(s) - 1) => s[k] = buffer[from + k - 1]
              /\ from + k - 1 \in Int /\ from + (k + 1) - 1 = (from + k - 1) + 1
              /\ from + (k - 1) - 1 = (from + k - 1) - 1
  <2>1. k \in 2..(Len(s) - 1) => k \in 1..(to - from)
    BY <1>5, <1>6
  <2>2. k \in 2..(Len(s) - 1) => s[k] = buffer[from + k - 1]
    BY <1>6, <2>1
  <2>3. /\ k - (1 - from) = from + k - 1
        /\ from + k - 1 \in Int /\ from + (k + 1) - 1 = (from + k - 1) + 1
        /\ from + (k - 1) - 1 = (from + k - 1) - 1
    BY <1>3
  <2>4. k \in 2..(Len(s) - 1) <=> from + k - 1 \in (from + 1)..(j - 1)
    BY <1>3, <1>5, <1>6
  <2> QED
    BY <2>2, <2>3, <2>4
<1>11. \A k \in Int : k \in S <=> from + k - 1 \in starts
  BY <1>9, <1>10
<1>12. S \subseteq 2..(Len(s) - 1)
  <2>1. ASSUME NEW k \in S PROVE k \in 2..(Len(s) - 1)
    BY <1>4, <1>9, <1>10, <1>11
  <2> QED
    BY <2>1
<1>13. ASSUME NEW k \in S
       PROVE  s[k] = "\\" /\ k + 1 \in (2..(Len(s) - 1)) \ S /\ s[k + 1] \in escapes
  <2>1. k \in Int /\ k + 1 \in Int /\ from + k - 1 \in starts
    BY <1>9, <1>11
  <2>2. PICK p : p = from + k - 1
    OBVIOUS
  <2>3. /\ buffer[p] = "\\" /\ p + 1 \in ((from + 1)..(j - 1)) \ starts /\ buffer[p + 1] \in escapes
    BY <2>1, <2>2 DEF Parses
  <2>4. from + (k + 1) - 1 = p + 1
    BY <1>10, <2>1, <2>2
  <2>5. k + 1 \in 2..(Len(s) - 1) /\ s[k + 1] = buffer[p + 1]
    <3>1. PICK l \in Int : l = k + 1
      BY <2>1
    <3>2. /\ l \in 2..(Len(s) - 1) <=> from + l - 1 \in (from + 1)..(j - 1)
          /\ l \in 2..(Len(s) - 1) => s[l] = buffer[from + l - 1]
      BY <1>10, <3>1
    <3>3. from + l - 1 = p + 1
      BY <2>4, <3>1
    <3> QED
      BY <2>3, <3>1, <3>2, <3>3
  <2>6. k + 1 \notin S
    BY <1>11, <2>1, <2>3, <2>4
  <2>7. s[k] = buffer[p]
    BY <1>10, <1>12, <2>1, <2>2
  <2> QED
    BY <2>3, <2>5, <2>6, <2>7
<1>14. ASSUME NEW k \in 2..(Len(s) - 1), k \notin S, k - 1 \notin S
       PROVE  s[k] \notin {quote, "\\", CR, LF}
  <2>1. k \in Int /\ k - 1 \in Int
    BY <1>5, <1>6
  <2>2. PICK p : p = from + k - 1
    OBVIOUS
  <2>3. p \in (from + 1)..(j - 1) /\ s[k] = buffer[p] /\ from + (k - 1) - 1 = p - 1
    BY <1>10, <1>14, <2>1, <2>2
  <2>4. p \notin starts /\ p - 1 \notin starts
    BY <1>11, <1>14, <2>1, <2>2, <2>3
  <2> QED
    BY <2>3, <2>4 DEF Parses
<1>15. S \in Escaped(s, quote, escapes)
  BY <1>12, <1>13, <1>14 DEF Escaped, Interior
<1> QED
  BY <1>1, <1>2, <1>5, <1>6, <1>7, <1>9, <1>15

\* What the scan of a literal that begins at from says of the lexemes there.
Reads(from, r, quote, escapes) ==
    /\ \A to \in (from + 1)..(Len(buffer) + 1) : \A starts \in Escaped(Lexeme(from, to), quote, escapes) :
          Quoted(Lexeme(from, to), quote)
          => r.valid /\ to = r.to /\ r.units = Len(Lexeme(from, to)) - 2 - Cardinality(starts)
    /\ r.valid => /\ r.to \in (from + 1)..(Len(buffer) + 1)
                  /\ Quoted(Lexeme(from, r.to), quote)
                  /\ \E starts \in Escaped(Lexeme(from, r.to), quote, escapes) :
                        r.units = Len(Lexeme(from, r.to)) - 2 - Cardinality(starts)

LEMMA LiteralReads ==
    ASSUME IsText, NEW from \in DOMAIN buffer, NEW quote, NEW escapes, IsQuote(quote),
           LF \notin escapes, CR \notin escapes, buffer[from] = quote
    PROVE  Reads(from, LiteralFrom(quote, escapes)[from + 1], quote, escapes)
<1>1. PICK r : r = LiteralFrom(quote, escapes)[from + 1]
  OBVIOUS
<1>2. from + 1 \in Positions /\ from \in Nat /\ Len(buffer) \in Nat
  BY TextFacts
<1>3. LiteralMeans(from + 1, r, quote, escapes)
  BY <1>1, <1>2, LiteralMeaning
<1>4. ASSUME NEW to \in (from + 1)..(Len(buffer) + 1), NEW starts \in Escaped(Lexeme(from, to), quote, escapes),
             Quoted(Lexeme(from, to), quote)
      PROVE  r.valid /\ to = r.to /\ r.units = Len(Lexeme(from, to)) - 2 - Cardinality(starts)
  <2>1. PICK S : S = Moved(starts, from - 1)
    OBVIOUS
  <2>2. /\ Parses(from + 1, to - 1, S, quote, escapes)
        /\ Cardinality(S) = Cardinality(starts)
        /\ Len(Lexeme(from, to)) = to - from
    BY <1>4, <2>1, LexemeParses
  <2>3. r.valid /\ r.to = (to - 1) + 1 /\ r.units = ((to - 1) - (from + 1)) - Cardinality(S)
    BY <1>3, <2>2 DEF LiteralMeans, Agrees
  <2>4. Cardinality(S) \in Nat
    BY <1>2, <2>2, ParsesBounds
  <2> QED
    BY <1>2, <2>2, <2>3, <2>4
<1>5. ASSUME r.valid
      PROVE  /\ r.to \in (from + 1)..(Len(buffer) + 1)
             /\ Quoted(Lexeme(from, r.to), quote)
             /\ \E starts \in Escaped(Lexeme(from, r.to), quote, escapes) :
                   r.units = Len(Lexeme(from, r.to)) - 2 - Cardinality(starts)
  <2>1. PICK j, S : Parses(from + 1, j, S, quote, escapes) /\ Agrees(r, from + 1, j, S)
    BY <1>3, <1>5 DEF LiteralMeans
  <2>2. PICK starts : starts = Moved(S, 1 - from)
    OBVIOUS
  <2>3. /\ j + 1 \in (from + 1)..(Len(buffer) + 1)
        /\ Quoted(Lexeme(from, j + 1), quote)
        /\ starts \in Escaped(Lexeme(from, j + 1), quote, escapes)
        /\ Cardinality(starts) = Cardinality(S)
        /\ Len(Lexeme(from, j + 1)) = (j + 1) - from
    BY <2>1, <2>2, ParsesLexeme
  <2>4. r.to = j + 1 /\ r.units = (j - (from + 1)) - Cardinality(S)
    BY <2>1 DEF Agrees
  <2>5. j \in Nat /\ Cardinality(S) \in Nat
    BY <1>2, <2>1, ParsesBounds
  <2>6. r.units = Len(Lexeme(from, r.to)) - 2 - Cardinality(starts)
    BY <1>2, <2>3, <2>4, <2>5
  <2> QED
    BY <2>3, <2>4, <2>6
<1> QED
  BY <1>1, <1>4, <1>5 DEF Reads

\* A token that is one lexeme of its kind, and the only one that begins there.
LEMMA OnlyLexeme ==
    ASSUME IsText, NEW from \in DOMAIN buffer, NEW to \in (from + 1)..(Len(buffer) + 1), NEW kind \in Kinds,
           Grammatical(Lexeme(from, to), kind), \A y \in LexemeEnds(from) : y = to,
           kind \notin {"Newline", "Invalid", "EndOfFile"}
    PROVE  LexemeSound(kind, from, to)
<1>1. to \in LexemeEnds(from) /\ LexemeEnds(from) \in SUBSET Int
  BY EndsFacts
<1>2. \A y \in LexemeEnds(from) : y <= to
  BY <1>1
<1>3. to = Max(LexemeEnds(from))
  BY <1>1, <1>2, LargestIsMax
<1> QED
  BY <1>3 DEF LexemeSound

LEMMA NoLexeme ==
    ASSUME NEW from, NEW to, LexemeEnds(from) = {}
    PROVE  LexemeSound("Invalid", from, to)
  BY DEF LexemeSound

LEMMA StringLexeme ==
    ASSUME IsText, NEW from \in DOMAIN buffer, buffer[from] = "\"", NEW r,
           Reads(from, r, "\"", StringEscapes)
    PROVE  LexemeSound(IF r.valid THEN "StringLiteral" ELSE "Invalid", from, r.to)
<1>1. ASSUME NEW y \in LexemeEnds(from) PROVE r.valid /\ y = r.to
  <2>1. /\ y \in (from + 1)..(Len(buffer) + 1)
        /\ Form(Lexeme(from, y)) /\ Lexeme(from, y)[1] = buffer[from]
    BY EndsFacts
  <2>2. IsString(Lexeme(from, y))
    BY <2>1, Zenon DEF Form
  <2>3. Quoted(Lexeme(from, y), "\"") /\ Escaped(Lexeme(from, y), "\"", StringEscapes) # {}
    BY <2>2, Zenon DEF IsString
  <2>4. PICK starts : starts \in Escaped(Lexeme(from, y), "\"", StringEscapes)
    BY <2>3, Zenon
  <2> QED
    BY <2>1, <2>3, <2>4, Zenon DEF Reads
<1>2. CASE r.valid
  <2>1. /\ r.to \in (from + 1)..(Len(buffer) + 1)
        /\ Quoted(Lexeme(from, r.to), "\"")
        /\ Escaped(Lexeme(from, r.to), "\"", StringEscapes) # {}
    BY <1>2, Zenon DEF Reads
  <2>2. Grammatical(Lexeme(from, r.to), "StringLiteral")
    BY <2>1, Zenon DEF Grammatical, IsString
  <2>3. "StringLiteral" \in Kinds /\ "StringLiteral" \notin {"Newline", "Invalid", "EndOfFile"}
    BY DEF Kinds
  <2>4. LexemeSound("StringLiteral", from, r.to)
    BY <1>1, <2>1, <2>2, <2>3, OnlyLexeme, Zenon
  <2> QED
    BY <1>2, <2>4, Zenon
<1>3. CASE ~r.valid
  <2>1. LexemeEnds(from) = {}
    BY <1>1, <1>3, Zenon
  <2>2. LexemeSound("Invalid", from, r.to)
    BY <2>1, NoLexeme, Zenon
  <2> QED
    BY <1>3, <2>2, Zenon
<1> QED
  BY <1>2, <1>3

LEMMA CharLexeme ==
    ASSUME IsText, NEW from \in DOMAIN buffer, buffer[from] = "'", NEW r,
           Reads(from, r, "'", CharEscapes)
    PROVE  LexemeSound(IF r.valid /\ r.units = 1 THEN "CharLiteral" ELSE "Invalid", from, r.to)
<1>1. ASSUME NEW y \in LexemeEnds(from) PROVE r.valid /\ y = r.to /\ r.units = 1
  <2>1. /\ y \in (from + 1)..(Len(buffer) + 1)
        /\ Form(Lexeme(from, y)) /\ Lexeme(from, y)[1] = buffer[from]
    BY EndsFacts
  <2>2. IsChar(Lexeme(from, y))
    BY <2>1, Zenon DEF Form
  <2>3. Quoted(Lexeme(from, y), "'")
    BY <2>2, Zenon DEF IsChar
  <2>4. PICK starts \in Escaped(Lexeme(from, y), "'", CharEscapes) :
           Len(Lexeme(from, y)) - 2 - Cardinality(starts) = 1
    BY <2>2, Zenon DEF IsChar
  <2>5. r.valid /\ y = r.to /\ r.units = Len(Lexeme(from, y)) - 2 - Cardinality(starts)
    BY <2>1, <2>3, <2>4, Zenon DEF Reads
  <2> QED
    BY <2>4, <2>5, Zenon
<1>2. CASE r.valid /\ r.units = 1
  <2>1. /\ r.to \in (from + 1)..(Len(buffer) + 1)
        /\ Quoted(Lexeme(from, r.to), "'")
    BY <1>2, Zenon DEF Reads
  <2>2. PICK starts \in Escaped(Lexeme(from, r.to), "'", CharEscapes) :
           r.units = Len(Lexeme(from, r.to)) - 2 - Cardinality(starts)
    BY <1>2, Zenon DEF Reads
  <2>3. IsChar(Lexeme(from, r.to))
    BY <1>2, <2>1, <2>2, Zenon DEF IsChar
  <2>4. Grammatical(Lexeme(from, r.to), "CharLiteral")
    BY <2>3, Zenon DEF Grammatical
  <2>5. "CharLiteral" \in Kinds /\ "CharLiteral" \notin {"Newline", "Invalid", "EndOfFile"}
    BY DEF Kinds
  <2>6. LexemeSound("CharLiteral", from, r.to)
    BY <1>1, <2>1, <2>4, <2>5, OnlyLexeme, Zenon
  <2> QED
    BY <1>2, <2>6, Zenon
<1>3. CASE ~(r.valid /\ r.units = 1)
  <2>1. LexemeEnds(from) = {}
    BY <1>1, <1>3, Zenon
  <2>2. LexemeSound("Invalid", from, r.to)
    BY <2>1, NoLexeme, Zenon
  <2> QED
    BY <1>3, <2>2, Zenon
<1> QED
  BY <1>2, <1>3

----------------------------------------------------------------------------
(* Every call *)

EmitsLexeme == \E kind, from, to : Emit(kind, from, to) /\ LexemeSound(kind, from, to)

LEMMA CallEmitsLexeme ==
    ASSUME IsText, offset \in Positions, nextToken
    PROVE  EmitsLexeme
<1>1. CASE eofToken
  <2>1. LexemeSound("EndOfFile", Len(buffer) + 1, Len(buffer) + 1)
    BY DEF LexemeSound
  <2> QED
    BY <1>1, <2>1 DEF eofToken, EmitsLexeme
<1>2. CASE Newline
  <2>1. TokenSound("Newline", Trivia.from, Trivia.to)
    BY <1>2, NewlineEmits DEF Emits
  <2>2. LineBreakAt(Trivia.from, Trivia.to)
    BY <2>1 DEF TokenSound
  <2> QED
    BY <1>2, <2>2, NewlineLexeme DEF Newline, EmitsLexeme
<1>3. CASE scanIdentifierOrKeyword
  <2>1. PICK to : to = EndOf(Start, isIdentifierContinue)
    OBVIOUS
  <2>2. PICK kind : kind = IF Lexeme(Start, to) \in DOMAIN Keywords THEN Keywords[Lexeme(Start, to)] ELSE "Identifier"
    OBVIOUS
  <2>3. Scanning /\ CharAt(Start) \in Letters /\ Emit(kind, Start, to)
    BY <1>3, <2>1, <2>2 DEF scanIdentifierOrKeyword
  <2>4. Start \in DOMAIN buffer /\ buffer[Start] \in Letters
    BY <2>3, StartFacts
  <2>5. LexemeSound(kind, Start, to)
    BY <2>1, <2>2, <2>4, IdentifierLexeme
  <2> QED
    BY <2>3, <2>5 DEF EmitsLexeme
<1>4. CASE scanNumber
  <2>1. PICK whole : whole = EndOf(Start, isDigit)
    OBVIOUS
  <2>2. PICK isFloat \in BOOLEAN : isFloat = (CharAt(whole) = "." /\ peekNext(whole) \in Digits)
    OBVIOUS
  <2>3. PICK stop : stop = IF isFloat THEN EndOf(whole + 1, isDigit) ELSE whole
    OBVIOUS
  <2>4. /\ Scanning /\ CharAt(Start) \in Digits
        /\ IF CharAt(stop) \in Letters
           THEN Emit("Invalid", Start, EndOf(stop, Malformed))
           ELSE Emit(IF isFloat THEN "FloatLiteral" ELSE "IntegerLiteral", Start, stop)
    BY <1>4, <2>1, <2>2, <2>3, Zenon DEF scanNumber
  <2>5. Start \in DOMAIN buffer /\ buffer[Start] \in Digits
    BY <2>4, StartFacts
  <2>6. /\ stop = Max(LexemeEnds(Start))
        /\ Grammatical(Lexeme(Start, stop), IF isFloat THEN "FloatLiteral" ELSE "IntegerLiteral")
    BY <2>1, <2>2, <2>3, <2>5, NumberLexeme
  <2>7. CASE CharAt(stop) \in Letters
    <3>1. LexemeSound("Invalid", Start, EndOf(stop, Malformed))
      BY <2>4, <2>6, <2>7 DEF LexemeSound
    <3> QED
      BY <2>4, <2>7, <3>1 DEF EmitsLexeme
  <2>8. CASE CharAt(stop) \notin Letters
    <3>1. PICK kind : kind = IF isFloat THEN "FloatLiteral" ELSE "IntegerLiteral"
      OBVIOUS
    <3>2. kind \notin {"Newline", "Invalid", "EndOfFile"} /\ kind # "Newline" /\ kind # "Invalid"
      BY <3>1
    <3>3. Grammatical(Lexeme(Start, stop), kind) /\ Emit(kind, Start, stop)
      BY <2>4, <2>6, <2>8, <3>1
    <3>4. LexemeSound(kind, Start, stop)
      BY <2>6, <3>2, <3>3, Zenon DEF LexemeSound
    <3> QED
      BY <3>3, <3>4 DEF EmitsLexeme
  <2> QED
    BY <2>7, <2>8
<1>5. CASE scanString
  <2>1. PICK r : r = LiteralFrom("\"", StringEscapes)[Start + 1]
    OBVIOUS
  <2>2. Scanning /\ CharAt(Start) = "\"" /\ Emit(IF r.valid THEN "StringLiteral" ELSE "Invalid", Start, r.to)
    BY <1>5, <2>1, Zenon DEF scanString
  <2>3. Start \in DOMAIN buffer /\ buffer[Start] = "\""
    BY <2>2, StartFacts, Zenon
  <2>4. IsQuote("\"") /\ LF \notin StringEscapes /\ CR \notin StringEscapes
    BY DEF IsQuote, StringEscapes, LF, CR
  <2>5. Reads(Start, r, "\"", StringEscapes)
    BY <2>1, <2>3, <2>4, LiteralReads, Zenon
  <2>6. LexemeSound(IF r.valid THEN "StringLiteral" ELSE "Invalid", Start, r.to)
    BY <2>3, <2>5, StringLexeme, Zenon
  <2> QED
    BY <2>2, <2>6, Zenon DEF EmitsLexeme
<1>6. CASE scanChar
  <2>1. PICK r : r = LiteralFrom("'", CharEscapes)[Start + 1]
    OBVIOUS
  <2>2. Scanning /\ CharAt(Start) = "'"
        /\ Emit(IF r.valid /\ r.units = 1 THEN "CharLiteral" ELSE "Invalid", Start, r.to)
    BY <1>6, <2>1, Zenon DEF scanChar
  <2>3. Start \in DOMAIN buffer /\ buffer[Start] = "'"
    BY <2>2, StartFacts, Zenon
  <2>4. IsQuote("'") /\ LF \notin CharEscapes /\ CR \notin CharEscapes
    BY DEF IsQuote, CharEscapes, LF, CR
  <2>5. Reads(Start, r, "'", CharEscapes)
    BY <2>1, <2>3, <2>4, LiteralReads, Zenon
  <2>6. LexemeSound(IF r.valid /\ r.units = 1 THEN "CharLiteral" ELSE "Invalid", Start, r.to)
    BY <2>3, <2>5, CharLexeme, Zenon
  <2> QED
    BY <2>2, <2>6, Zenon DEF EmitsLexeme
<1>7. CASE scanOperatorOrPunctuation
  <2>1. /\ Scanning /\ CharAt(Start) \notin Letters \cup Digits \cup Quotes
        /\ IF Pair(Start) \in DOMAIN DoubleKind
           THEN Emit(DoubleKind[Pair(Start)], Start, Start + 2)
           ELSE Emit(IF CharAt(Start) \in DOMAIN SingleKind THEN SingleKind[CharAt(Start)] ELSE "Invalid",
                     Start, Start + 1)
    BY <1>7, Zenon DEF scanOperatorOrPunctuation, Quotes, Pair
  <2>2. Start \in DOMAIN buffer /\ buffer[Start] \notin Letters \cup Digits \cup Quotes
    BY <2>1, StartFacts, Zenon
  <2>3. PICK kind, to : OperatorAt(kind, Start, to) /\ Emit(kind, Start, to)
    BY <2>1, Zenon DEF OperatorAt
  <2>4. LexemeSound(kind, Start, to)
    BY <2>2, <2>3, OperatorLexeme
  <2> QED
    BY <2>3, <2>4, Zenon DEF EmitsLexeme
<1> QED
  BY <1>1, <1>2, <1>3, <1>4, <1>5, <1>6, <1>7 DEF nextToken

\* What a lexeme is depends on the text alone.
LEMMA SoundnessKept ==
    ASSUME buffer' = buffer, NEW kind, NEW from, NEW to
    PROVE  LexemeSound(kind, from, to)' = LexemeSound(kind, from, to)
<1>1. CharAt(from)' = CharAt(from)
  BY DEF CharAt, isAtEnd
<1>2. \A i, j : Lexeme(i, j)' = Lexeme(i, j)
  BY DEF Lexeme
<1>3. LexemeEnds(from)' = LexemeEnds(from)
  BY <1>2 DEF LexemeEnds
<1>4. \A p : CharAt(p)' = CharAt(p)
  BY DEF CharAt, isAtEnd
<1> QED
  BY <1>1, <1>2, <1>3, <1>4 DEF LexemeSound

AllSound == \A n \in DOMAIN tokens : LexemeSound(tokens[n].kind, tokens[n].from, tokens[n].to)

LEMMA LexemesAsSound == LexemesOfTheGrammar <=> AllSound
<1> SUFFICES ASSUME NEW n \in DOMAIN tokens
             PROVE  LexemeSound(tokens[n].kind, tokens[n].from, tokens[n].to)
                    <=> (n \in Read =>
                            LET token == tokens[n]
                                ends  == LexemeEnds(token.from)
                            IN  CASE token.kind = "Newline" -> Lexeme(token.from, token.to) \in {<<LF>>, <<CR, LF>>}
                                  [] token.kind = "Invalid" ->
                                        ends = {} \/ (CharAt(token.from) \in Digits /\ CharAt(Max(ends)) \in Letters)
                                  [] OTHER -> /\ token.to = Max(ends)
                                              /\ Grammatical(Lexeme(token.from, token.to), token.kind))
  BY DEF LexemesOfTheGrammar, AllSound, Read
<1> QED
  BY DEF LexemeSound, Read

LEMMA LexemesKept ==
    ASSUME CursorInv, LexemesOfTheGrammar, nextToken
    PROVE  LexemesOfTheGrammar'
<1>1. PICK kind, from, to : Emits(kind, from, to)
  BY CallEmits DEF CursorInv
<1>2. PICK n : n = Len(tokens)
  OBVIOUS
<1>3. Kept(n) /\ tokens'[n + 1] = Token(kind, from, to)
  BY <1>1, <1>2, CallKeeps
<1>4. PICK k, f, t : Emit(k, f, t) /\ LexemeSound(k, f, t)
  BY CallEmitsLexeme DEF CursorInv, EmitsLexeme
<1>5. tokens'[n + 1] = Token(k, f, t)
  <2>1. tokens' = Append(tokens, Token(k, f, t))
    BY <1>4 DEF Emit
  <2>2. tokens \in Seq(Tokens)
    BY DEF CursorInv
  <2> QED
    BY <1>2, <2>1, <2>2
<1>6. ASSUME NEW m \in DOMAIN tokens'
      PROVE  (LexemeSound(tokens[m].kind, tokens[m].from, tokens[m].to))'
  <2>1. PICK token : token = tokens'[m]
    OBVIOUS
  <2>2. LexemeSound(token.kind, token.from, token.to)
    <3>1. CASE m \in 1..n
      <4>1. token = tokens[m] /\ m \in DOMAIN tokens
        BY <1>3, <2>1, <3>1 DEF Kept
      <4> QED
        BY <4>1, LexemesAsSound DEF AllSound
    <3>2. CASE m = n + 1
      <4>1. token.kind = k /\ token.from = f /\ token.to = t
        BY <1>5, <2>1, <3>2 DEF Token
      <4> QED
        BY <1>4, <4>1
    <3> QED
      BY <1>3, <3>1, <3>2 DEF Kept
  <2>3. buffer' = buffer
    BY <1>3 DEF Kept
  <2>4. LexemeSound(token.kind, token.from, token.to)'
    BY <2>2, <2>3, SoundnessKept
  <2> QED
    BY <2>1, <2>4
<1>7. LexemesOfTheGrammar' <=> AllSound'
  BY LexemesAsSound, PTL
<1> QED
  BY <1>6, <1>7 DEF AllSound

\* LexemesOfTheGrammar (nextToken, Lexer.cpp): for every text each valid token
\* is the longest lexeme of GRAMMAR.md at its place, with that lexeme's kind,
\* and a text is Invalid only where no lexeme begins or a number runs into a
\* letter.
THEOREM Lexemes == Spec => []LexemesOfTheGrammar
<1>1. Init => LexemesOfTheGrammar
  BY DEF Init, LexemesOfTheGrammar, Read
<1>2. CursorInv /\ LexemesOfTheGrammar /\ [nextToken]_vars => LexemesOfTheGrammar'
  <2> SUFFICES ASSUME CursorInv, LexemesOfTheGrammar, [nextToken]_vars PROVE LexemesOfTheGrammar'
    OBVIOUS
  <2>1. CASE nextToken
    BY <2>1, LexemesKept
  <2>2. CASE UNCHANGED vars
    <3>1. tokens' = tokens /\ buffer' = buffer
      BY <2>2 DEF vars
    <3>2. ASSUME NEW m \in DOMAIN tokens'
          PROVE  (LexemeSound(tokens[m].kind, tokens[m].from, tokens[m].to))'
      <4>1. PICK token : token = tokens'[m]
        OBVIOUS
      <4>2. LexemeSound(token.kind, token.from, token.to)
        BY <3>1, <4>1, LexemesAsSound DEF AllSound
      <4>3. LexemeSound(token.kind, token.from, token.to)'
        BY <3>1, <4>2, SoundnessKept
      <4> QED
        BY <4>1, <4>3
    <3>3. LexemesOfTheGrammar' <=> AllSound'
      BY LexemesAsSound, PTL
    <3> QED
      BY <3>2, <3>3 DEF AllSound
  <2> QED
    BY <2>1, <2>2
<1> QED
  BY <1>1, <1>2, CursorInvariant, PTL DEF Spec

----------------------------------------------------------------------------
(* How many calls there can be *)

CallsLeft == 2 * (Len(buffer) + 1 - offset) + (IF AtEndOfFile THEN 0 ELSE 1)

\* A call moves the cursor on or hands out the end of the file for the first time.
LEMMA CallAdvances ==
    ASSUME CursorInv, nextToken
    PROVE  /\ buffer' = buffer /\ offset' \in Positions
           /\ offset < offset' \/ (offset <= offset' /\ ~AtEndOfFile /\ AtEndOfFile')
<1>0. IsText /\ offset \in Positions /\ tokens \in Seq(Tokens)
  BY DEF CursorInv
<1>1. Len(buffer) \in Nat /\ \A i \in Positions : i \in Nat
  BY <1>0, TextFacts
<1>2. CASE eofToken
  <2>1. Emits("EndOfFile", Len(buffer) + 1, Len(buffer) + 1)
    BY <1>0, <1>2, EndOfFileEmits
  <2>2. /\ buffer' = buffer /\ offset' \in Positions /\ offset <= offset'
        /\ tokens' = Append(tokens, Token("EndOfFile", Len(buffer) + 1, Len(buffer) + 1))
    BY <2>1 DEF Emits, Emit, TokenSound
  <2>3. Len(tokens) \in Nat /\ Len(tokens') = Len(tokens) + 1 /\ tokens' # <<>>
        /\ tokens'[Len(tokens')].kind = "EndOfFile"
    BY <1>0, <2>2 DEF Token
  <2> QED
    BY <1>2, <2>2, <2>3 DEF eofToken, AtEndOfFile
<1>3. CASE Newline
  <2>1. Emits("Newline", Trivia.from, Trivia.to)
    BY <1>0, <1>3, NewlineEmits
  <2>2. /\ buffer' = buffer /\ offset' = Trivia.to /\ Trivia.to \in Positions
        /\ Trivia.from \in Positions /\ offset <= Trivia.from /\ LineBreakAt(Trivia.from, Trivia.to)
    BY <2>1 DEF Emits, Emit, TokenSound
  <2>3. Trivia.from < Trivia.to
    BY <1>0, <1>1, <2>2, TextFacts DEF LineBreakAt
  <2> QED
    BY <1>0, <1>1, <2>2, <2>3
<1>4. CASE Scanning
  <2>1. PICK kind, from, to : Emits(kind, from, to)
    BY <1>0, CallEmits
  <2>2. /\ buffer' = buffer /\ offset' = to /\ to \in Positions /\ from \in Positions
        /\ offset <= from /\ from <= to
    BY <2>1 DEF Emits, Emit, TokenSound
  <2>3. offset <= Start /\ Start \in DOMAIN buffer /\ Start < Len(buffer) + 1
    BY <1>0, <1>1, <1>4, StartFacts, TextFacts
  <2>4. CASE kind = "EndOfFile"
    <3>1. from = Len(buffer) + 1
      BY <2>1, <2>4 DEF Emits, TokenSound
    <3> QED
      BY <1>0, <1>1, <2>2, <2>3, <3>1
  <2>5. CASE kind = "Newline"
    <3>1. LineBreakAt(from, to)
      BY <2>1, <2>5 DEF Emits, TokenSound
    <3>2. from < to
      BY <1>0, <1>1, <2>2, <3>1, TextFacts DEF LineBreakAt
    <3> QED
      BY <1>0, <1>1, <2>2, <3>2
  <2>6. CASE kind \notin {"EndOfFile", "Newline"}
    <3>1. from < to
      BY <2>1, <2>6 DEF Emits, TokenSound
    <3> QED
      BY <1>0, <1>1, <2>2, <3>1
  <2> QED
    BY <2>4, <2>5, <2>6
<1> QED
  BY <1>2, <1>3, <1>4 DEF nextToken, scanIdentifierOrKeyword, scanNumber, scanString, scanChar,
                          scanOperatorOrPunctuation

LEMMA CallsLeftCounts == CursorInv => CallsLeft \in Nat
<1> SUFFICES ASSUME CursorInv PROVE CallsLeft \in Nat
  OBVIOUS
<1>1. offset \in Nat /\ Len(buffer) \in Nat /\ offset <= Len(buffer) + 1
  BY TextFacts DEF CursorInv, Positions
<1> QED
  BY <1>1 DEF CallsLeft

LEMMA CallsRunDown == CursorInv /\ nextToken => CallsLeft' < CallsLeft
<1> SUFFICES ASSUME CursorInv, nextToken PROVE CallsLeft' < CallsLeft
  OBVIOUS
<1>1. /\ buffer' = buffer /\ offset \in Positions /\ offset' \in Positions
      /\ offset < offset' \/ (offset <= offset' /\ ~AtEndOfFile /\ AtEndOfFile')
  BY CallAdvances DEF CursorInv
<1>2. Len(buffer) \in Nat /\ offset \in Nat /\ offset' \in Nat
  BY <1>1, TextFacts DEF CursorInv
<1> DEFINE flag == IF AtEndOfFile THEN 0 ELSE 1
<1>3. flag \in {0, 1} /\ flag' \in {0, 1}
  OBVIOUS
<1>4. offset < offset' \/ (offset <= offset' /\ flag = 1 /\ flag' = 0)
  BY <1>1
<1>5. CallsLeft = 2 * (Len(buffer) + 1 - offset) + flag
  BY DEF CallsLeft
<1>6. CallsLeft' = 2 * (Len(buffer) + 1 - offset') + flag'
  BY <1>1 DEF CallsLeft
<1> HIDE DEF flag
<1> QED
  BY <1>2, <1>3, <1>4, <1>5, <1>6

\* nextToken (Lexer.hpp:19): whatever the text, it can be called a number of
\* times that is fixed when the file is opened, the end of the file included:
\* no character makes it stand still.
THEOREM CallsRunOut ==
    Spec => /\ [](CallsLeft \in Nat)
            /\ [][CallsLeft' < CallsLeft]_vars
<1>1. CursorInv /\ [nextToken]_vars => [CallsLeft' < CallsLeft]_vars
  BY CallsRunDown
<1> QED
  BY <1>1, CallsLeftCounts, CursorInvariant, PTL DEF Spec
=============================================================================
