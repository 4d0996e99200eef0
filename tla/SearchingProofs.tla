--------------------------- MODULE SearchingProofs ---------------------------
(***************************************************************************)
(* Proofs about Searching: what a pattern of any length matches, and what  *)
(* a search finds while another process changes the tags.                  *)
(***************************************************************************)
EXTENDS Searching, DataInduction

\* What patterns and names consist of.
Characters == STRING \cup {"%", "_", "\\"}

\* A sequence over a set is one over every larger set.
LEMMA SequencesOfMore ==
    ASSUME NEW S, NEW T, S \subseteq T
    PROVE  Seq(S) \subseteq Seq(T)
OBVIOUS

\* Texts of letters are texts of letters, wildcards and escapes.
LEMMA StringsAreCharacters == Seq(STRING) \subseteq Seq(Characters)
<1>1. STRING \subseteq Characters
  BY Zenon DEF Characters
<1> QED
  BY <1>1, SequencesOfMore, Zenon

----------------------------------------------------------------------------
(***************************************************************************)
(* LIKE.  Its matches are the value of a recursive function, one row for   *)
(* each position of the pattern.                                           *)
(***************************************************************************)

\* Row i, by the rows after it.
Row(pattern, name, matches, i) ==
    IF i > Len(pattern) THEN {Len(name) + 1}
    ELSE IF pattern[i] = "%"
         THEN {j \in 1 .. Len(name) + 1 : \E k \in matches[i + 1] : j <= k}
    ELSE {j \in 1 .. Len(name) :
            CASE pattern[i] = "_"  -> j + 1 \in matches[i + 1]
              [] pattern[i] = "\\" -> /\ i < Len(pattern) /\ pattern[i + 1] = name[j]
                                      /\ j + 1 \in matches[i + 2]
              [] OTHER             -> pattern[i] = name[j] /\ j + 1 \in matches[i + 1]}

Matches(pattern, name) ==
    LET matches[i \in 1 .. Len(pattern) + 1] == Row(pattern, name, matches, i) IN matches

\* LIKE asks whether the whole pattern matches the whole name.
LEMMA LikeMatches ==
    ASSUME NEW pattern, NEW name
    PROVE  Like(pattern, name) <=> 1 \in Matches(pattern, name)[1]
BY DEF Like, Matches, Row

\* A row of the table holds positions of the name, or the one behind it.
LEMMA RowType ==
    ASSUME NEW pattern \in Seq(Characters), NEW name \in Seq(Characters), NEW matches, NEW i
    PROVE  Row(pattern, name, matches, i) \in SUBSET (1 .. Len(name) + 1)
<1>1. Len(name) + 1 \in 1 .. Len(name) + 1 /\ 1 .. Len(name) \subseteq 1 .. Len(name) + 1
  OBVIOUS
<1>2. CASE i > Len(pattern)
  BY <1>1, <1>2, Zenon DEF Row
<1>3. CASE ~(i > Len(pattern)) /\ pattern[i] = "%"
  BY <1>1, <1>3, Zenon DEF Row
<1>4. CASE ~(i > Len(pattern)) /\ pattern[i] # "%"
  BY <1>1, <1>4, Zenon DEF Row
<1> QED
  BY <1>2, <1>3, <1>4

\* A row depends on the next two only.
LEMMA RowLooksAhead ==
    ASSUME NEW pattern \in Seq(Characters), NEW name \in Seq(Characters),
           NEW f, NEW g, NEW i \in 1 .. Len(pattern) + 1,
           \A k \in i + 1 .. Len(pattern) + 1 : f[k] = g[k]
    PROVE  Row(pattern, name, f, i) = Row(pattern, name, g, i)
<1>1. CASE i > Len(pattern)
  BY <1>1 DEF Row
<1>2. CASE i = Len(pattern)
  <2>1. f[i + 1] = g[i + 1] /\ ~(i > Len(pattern)) /\ ~(i < Len(pattern))
    BY <1>2
  <2> QED
    BY <2>1 DEF Row
<1>3. CASE i < Len(pattern)
  <2>1. f[i + 1] = g[i + 1] /\ f[i + 2] = g[i + 2] /\ ~(i > Len(pattern))
    BY <1>3
  <2> QED
    BY <2>1 DEF Row
<1> QED
  BY <1>1, <1>2, <1>3

\* There is such a function, built from the last row down; so Matches is one.
LEMMA MatchesRows ==
    ASSUME NEW pattern \in Seq(Characters), NEW name \in Seq(Characters)
    PROVE  \A i \in 1 .. Len(pattern) + 1 :
              Matches(pattern, name)[i] = Row(pattern, name, Matches(pattern, name), i)
<1> DEFINE L == Len(pattern)
           Rows == [1 .. L + 1 -> SUBSET (1 .. Len(name) + 1)]
           From(f, n) == \A i \in n + 1 .. L + 1 : f[i] = Row(pattern, name, f, i)
           S == {n \in 0 .. L + 1 : \E f \in Rows : From(f, n)}
<1>1. L + 1 \in S
  <2> DEFINE none == [i \in 1 .. L + 1 |-> {}]
  <2>1. none \in Rows
    OBVIOUS
  <2>2. From(none, L + 1) /\ L + 1 \in 0 .. L + 1
    OBVIOUS
  <2> HIDE DEF Rows, From, none
  <2> QED
    BY <2>1, <2>2
<1>2. ASSUME NEW n \in 1 .. L + 1, n \in S
      PROVE  n - 1 \in S
  <2>1. PICK f \in Rows : From(f, n)
    BY <1>2
  <2> DEFINE h == [i \in 1 .. L + 1 |-> IF i = n THEN Row(pattern, name, f, n) ELSE f[i]]
  <2>2. h \in Rows
    <3>1. Row(pattern, name, f, n) \in SUBSET (1 .. Len(name) + 1)
      BY RowType
    <3>2. \A i \in 1 .. L + 1 : f[i] \in SUBSET (1 .. Len(name) + 1)
      BY <2>1
    <3>3. \A i \in 1 .. L + 1 : (IF i = n THEN Row(pattern, name, f, n) ELSE f[i])
                                   \in SUBSET (1 .. Len(name) + 1)
      BY <3>1, <3>2, Zenon
    <3> QED
      BY <3>3, Zenon
  <2>3. h[n] = Row(pattern, name, f, n) /\ \A i \in 1 .. L + 1 : i # n => h[i] = f[i]
    OBVIOUS
  <2> HIDE DEF h, Rows
  <2>4. ASSUME NEW i \in n .. L + 1
        PROVE  h[i] = Row(pattern, name, h, i)
    <3>1. i \in 1 .. L + 1 /\ \A k \in i + 1 .. Len(pattern) + 1 : f[k] = h[k]
      BY <2>3
    <3>2. Row(pattern, name, f, i) = Row(pattern, name, h, i)
      BY <3>1, RowLooksAhead
    <3>3. h[i] = Row(pattern, name, f, i)
      BY <2>1, <2>3
    <3> QED
      BY <3>2, <3>3
  <2>5. From(h, n - 1)
    BY <2>4
  <2> QED
    BY <2>2, <2>5
<1>3. 0 \in S
  <2> HIDE DEF S
  <2>1. L + 1 \in Nat
    OBVIOUS
  <2>2. 0 .. L + 1 \subseteq S
    BY <1>1, <1>2, <2>1, DownFrom
  <2> QED
    BY <2>1, <2>2
<1>4. PICK f \in Rows : From(f, 0)
  BY <1>3
<1>5. f = [i \in 1 .. L + 1 |-> Row(pattern, name, f, i)]
  BY <1>4
<1>6. Matches(pattern, name)
        = [i \in 1 .. L + 1 |-> Row(pattern, name, Matches(pattern, name), i)]
  BY <1>5 DEF Matches
<1> QED
  BY <1>6

----------------------------------------------------------------------------
(***************************************************************************)
(* The pattern that MatchTags builds: one text after the other, for each   *)
(* character of what was asked for.                                        *)
(***************************************************************************)

Plainly(pattern) == \A i \in 1 .. Len(pattern) : pattern[i] # "\\"

Texts(pattern) ==
    LET iter[s \in SUBSET DOMAIN pattern] ==
            IF s = {} THEN <<>>
            ELSE LET x == Max(s) IN iter[s \ {x}] \o ToSQL(pattern[x])
    IN  iter

\* What is built from the first k characters.
TextOf(pattern, k) == Texts(pattern)[1 .. k]

\* The loop of MatchTags (booru.cc:379) computes the text of all positions
\* of the pattern.
LEMMA TextIsFolded ==
    ASSUME NEW pattern \in Seq(Characters), Plainly(pattern)
    PROVE  SQLPattern(pattern) = TextOf(pattern, Len(pattern))
<1> DEFINE I == {i \in 1 .. Len(pattern) : pattern[i] = "\\"}
<1>1. I = {}
  BY DEF Plainly
<1>2. SelectInSeq(pattern, LAMBDA c : c = "\\") = 0
  BY <1>1 DEF SelectInSeq
<1>3. SQLPattern(pattern) = FoldLeft(LAMBDA text, c : text \o ToSQL(c), <<>>, pattern)
  BY <1>2 DEF SQLPattern
<1>4. FoldLeft(LAMBDA text, c : text \o ToSQL(c), <<>>, pattern) = Texts(pattern)[DOMAIN pattern]
  BY DEF FoldLeft, MapThenFoldSet, Texts
<1>5. DOMAIN pattern = 1 .. Len(pattern)
  OBVIOUS
<1> QED
  BY <1>3, <1>4, <1>5 DEF TextOf

\* A character of the query language becomes one or two characters of LIKE.
LEMMA ToSQLType ==
    ASSUME NEW c \in Characters
    PROVE  ToSQL(c) \in Seq(Characters)
<1>1. "%" \in Characters /\ "_" \in Characters /\ "\\" \in Characters
  BY Zenon DEF Characters
<1>2. \A a, b \in Characters : <<a>> \in Seq(Characters) /\ <<a, b>> \in Seq(Characters)
  OBVIOUS
<1>3. ToSQL(c) \in {<<"\\", c>>, <<"%">>, <<"_">>, <<c>>}
  BY Zenon DEF ToSQL
<1> QED
  BY <1>1, <1>2, <1>3

\* The text up to some positions is the text without the last one and then
\* what the last one becomes.
LEMMA TextsRecur ==
    ASSUME NEW pattern \in Seq(Characters), NEW T \in SUBSET (1 .. Len(pattern))
    PROVE  Texts(pattern)[T] = IF T = {} THEN <<>>
                               ELSE Texts(pattern)[T \ {Max(T)}] \o ToSQL(pattern[Max(T)])
<1> DEFINE L == Len(pattern)
           Step == [vi \in Seq(Characters) \X (1 .. L) |-> vi[1] \o ToSQL(pattern[vi[2]])]
<1>1. Step \in [Seq(Characters) \X (1 .. L) -> Seq(Characters)]
  <2> SUFFICES ASSUME NEW vi \in Seq(Characters) \X (1 .. L)
               PROVE  vi[1] \o ToSQL(pattern[vi[2]]) \in Seq(Characters)
    OBVIOUS
  <2>1. vi[1] \in Seq(Characters) /\ pattern[vi[2]] \in Characters
    OBVIOUS
  <2>2. ToSQL(pattern[vi[2]]) \in Seq(Characters)
    BY <2>1, ToSQLType
  <2> QED
    BY <2>1, <2>2
<1>2. L \in Nat /\ <<>> \in Seq(Characters) /\ DOMAIN pattern = 1 .. L
  OBVIOUS
<1>3. \A v \in Seq(Characters), i \in 1 .. L : Step[<<v, i>>] = v \o ToSQL(pattern[i])
  OBVIOUS
<1> HIDE DEF Step
<1>4. PICK f \in [SUBSET (1 .. L) -> Seq(Characters)] :
         \A U \in SUBSET (1 .. L) :
            f[U] = IF U = {} THEN <<>> ELSE Step[<<f[U \ {Max(U)}], Max(U)>>]
  <2>1. \E f \in [SUBSET (1 .. L) -> Seq(Characters)] : Folded(f, L, <<>>, Step)
    <3> HIDE DEF L
    <3> QED
      BY <1>1, <1>2, FoldExists
  <2> QED
    BY <2>1 DEF Folded
<1>5. \A U \in SUBSET (1 .. L) : U # {} => Max(U) \in 1 .. L /\ U \ {Max(U)} \in SUBSET (1 .. L)
  BY <1>2, MaxInside
<1>6. \A U \in SUBSET (1 .. L) :
         f[U] = IF U = {} THEN <<>> ELSE f[U \ {Max(U)}] \o ToSQL(pattern[Max(U)])
  BY <1>3, <1>4, <1>5
<1>7. f = [U \in SUBSET DOMAIN pattern |->
             IF U = {} THEN <<>> ELSE f[U \ {Max(U)}] \o ToSQL(pattern[Max(U)])]
  BY <1>2, <1>4, <1>6
<1>8. Texts(pattern) = [U \in SUBSET DOMAIN pattern |->
         IF U = {} THEN <<>> ELSE Texts(pattern)[U \ {Max(U)}] \o ToSQL(pattern[Max(U)])]
  BY <1>7 DEF Texts
<1> QED
  BY <1>2, <1>8

\* Each character adds its text to that of those before it.
LEMMA TextGrows ==
    ASSUME NEW pattern \in Seq(Characters)
    PROVE  /\ TextOf(pattern, 0) = <<>>
           /\ \A k \in 1 .. Len(pattern) :
                 TextOf(pattern, k) = TextOf(pattern, k - 1) \o ToSQL(pattern[k])
<1>1. TextOf(pattern, 0) = <<>>
  <2>1. 1 .. 0 = {} /\ 1 .. 0 \in SUBSET (1 .. Len(pattern))
    OBVIOUS
  <2> QED
    BY <2>1, TextsRecur DEF TextOf
<1>2. ASSUME NEW k \in 1 .. Len(pattern)
      PROVE  TextOf(pattern, k) = TextOf(pattern, k - 1) \o ToSQL(pattern[k])
  <2> DEFINE T == 1 .. k
  <2>1. T \in SUBSET (1 .. Len(pattern)) /\ T # {} /\ T \ {k} = 1 .. k - 1
    <3>1. k \in T /\ \A i \in T : i \in 1 .. Len(pattern)
      OBVIOUS
    <3>2. \A i : i \in T \ {k} <=> i \in 1 .. k - 1
      OBVIOUS
    <3> HIDE DEF T
    <3> QED
      BY <3>1, <3>2
  <2>2. Max(T) = k
    <3>1. Largest(k, T) /\ T \in SUBSET Int
      BY DEF Largest
    <3> QED
      BY <3>1, MaxIsLargest
  <2> HIDE DEF T
  <2>3. Texts(pattern)[T] = Texts(pattern)[T \ {k}] \o ToSQL(pattern[k])
    BY <2>1, <2>2, TextsRecur
  <2> QED
    BY <2>1, <2>3 DEF TextOf, T
<1> QED
  BY <1>1, <1>2

\* Every text so far is a sequence of characters.
LEMMA TextType ==
    ASSUME NEW pattern \in Seq(Characters)
    PROVE  \A k \in 0 .. Len(pattern) : TextOf(pattern, k) \in Seq(Characters)
<1> DEFINE S == {k \in 0 .. Len(pattern) : TextOf(pattern, k) \in Seq(Characters)}
<1>1. Len(pattern) \in Nat
  OBVIOUS
<1>2. 0 \in S
  <2>1. 0 \in 0 .. Len(pattern) /\ <<>> \in Seq(Characters)
    BY <1>1
  <2> QED
    BY <2>1, TextGrows
<1>3. ASSUME NEW k \in 0 .. Len(pattern) - 1, k \in S
      PROVE  k + 1 \in S
  <2>1. k + 1 \in 1 .. Len(pattern) /\ (k + 1) - 1 = k /\ pattern[k + 1] \in Characters
    OBVIOUS
  <2>2. TextOf(pattern, k + 1) = TextOf(pattern, k) \o ToSQL(pattern[k + 1])
    BY <2>1, TextGrows
  <2>3. ToSQL(pattern[k + 1]) \in Seq(Characters) /\ TextOf(pattern, k) \in Seq(Characters)
    BY <1>3, <2>1, ToSQLType
  <2>4. TextOf(pattern, k + 1) \in Seq(Characters)
    <3>1. \A s, t \in Seq(Characters) : s \o t \in Seq(Characters)
      OBVIOUS
    <3> QED
      BY <2>2, <2>3, <3>1, Zenon
  <2> QED
    BY <2>1, <2>4
<1>4. 0 .. Len(pattern) \subseteq S
  <2> HIDE DEF S
  <2> QED
    BY <1>1, <1>2, <1>3, UpTo
<1> QED
  BY <1>4

\* The text of what comes first is where the whole text begins.
LEMMA TextIsPrefix ==
    ASSUME NEW pattern \in Seq(Characters)
    PROVE  \A k \in 0 .. Len(pattern) :
              /\ Len(TextOf(pattern, k)) <= Len(TextOf(pattern, Len(pattern)))
              /\ \A i \in 1 .. Len(TextOf(pattern, k)) :
                    TextOf(pattern, Len(pattern))[i] = TextOf(pattern, k)[i]
<1> DEFINE Whole == TextOf(pattern, Len(pattern))
           Prefix(text) == /\ Len(text) <= Len(Whole)
                           /\ \A i \in 1 .. Len(text) : Whole[i] = text[i]
           S == {k \in 0 .. Len(pattern) : Prefix(TextOf(pattern, k))}
<1>1. Len(pattern) \in Nat
  OBVIOUS
<1>2. Whole \in Seq(Characters)
  BY <1>1, TextType
<1>3. Len(pattern) \in S
  <2> HIDE DEF Whole
  <2>1. Prefix(Whole)
    BY <1>2
  <2>2. Len(pattern) \in 0 .. Len(pattern)
    BY <1>1
  <2> HIDE DEF Prefix
  <2> QED
    BY <2>1, <2>2 DEF Whole
<1>4. ASSUME NEW k \in 1 .. Len(pattern), k \in S
      PROVE  k - 1 \in S
  <2>1. k - 1 \in 0 .. Len(pattern) /\ k \in 0 .. Len(pattern) /\ pattern[k] \in Characters
    OBVIOUS
  <2>2. TextOf(pattern, k) = TextOf(pattern, k - 1) \o ToSQL(pattern[k])
    BY TextGrows
  <2>3. ToSQL(pattern[k]) \in Seq(Characters) /\ TextOf(pattern, k - 1) \in Seq(Characters)
    BY <2>1, ToSQLType, TextType
  <2> HIDE DEF Whole
  <2>4. Prefix(TextOf(pattern, k))
    BY <1>4
  <2>5. ASSUME NEW s \in Seq(Characters), NEW t \in Seq(Characters), Prefix(s \o t)
        PROVE  Prefix(s)
    <3>1. /\ Len(s) \in Nat /\ Len(s) <= Len(s \o t) /\ Len(s \o t) \in Nat
          /\ \A i \in 1 .. Len(s) : (s \o t)[i] = s[i] /\ i \in 1 .. Len(s \o t)
      OBVIOUS
    <3>2. Len(Whole) \in Nat
      BY <1>2 DEF Whole
    <3> QED
      BY <2>5, <3>1, <3>2
  <2>6. Prefix(TextOf(pattern, k - 1))
    BY <2>2, <2>3, <2>4, <2>5
  <2> QED
    BY <2>1, <2>6
<1>5. 0 .. Len(pattern) \subseteq S
  <2> HIDE DEF S
  <2> QED
    BY <1>1, <1>3, <1>4, DownFrom
<1> QED
  BY <1>5

\* What stands for a character in the whole text.
LEMMA TextAt ==
    ASSUME NEW pattern \in Seq(Characters), NEW k \in 1 .. Len(pattern)
    PROVE  LET whole == TextOf(pattern, Len(pattern))
               from  == Len(TextOf(pattern, k - 1))
               piece == ToSQL(pattern[k])
           IN  /\ whole \in Seq(Characters) /\ from \in Nat
               /\ piece \in Seq(Characters)
               /\ Len(TextOf(pattern, k)) = from + Len(piece)
               /\ from + Len(piece) <= Len(whole)
               /\ \A i \in 1 .. Len(piece) : whole[from + i] = piece[i]
<1> DEFINE whole == TextOf(pattern, Len(pattern))
           before == TextOf(pattern, k - 1)
           piece == ToSQL(pattern[k])
<1>1. /\ k - 1 \in 0 .. Len(pattern) /\ k \in 0 .. Len(pattern)
      /\ Len(pattern) \in 0 .. Len(pattern) /\ pattern[k] \in Characters
  OBVIOUS
<1>2. whole \in Seq(Characters) /\ before \in Seq(Characters) /\ piece \in Seq(Characters)
  BY <1>1, TextType, ToSQLType
<1>3. TextOf(pattern, k) = before \o piece
  BY TextGrows
<1>4. /\ Len(before \o piece) <= Len(whole)
      /\ \A i \in 1 .. Len(before \o piece) : whole[i] = (before \o piece)[i]
  BY <1>1, <1>3, TextIsPrefix
<1> HIDE DEF whole, before, piece
<1>5. \A s, t, w \in Seq(Characters) :
         (Len(s \o t) <= Len(w) /\ \A i \in 1 .. Len(s \o t) : w[i] = (s \o t)[i])
         => /\ Len(s \o t) = Len(s) + Len(t) /\ Len(s) \in Nat
            /\ Len(s) + Len(t) <= Len(w)
            /\ \A i \in 1 .. Len(t) : w[Len(s) + i] = t[i]
  <2> SUFFICES ASSUME NEW s \in Seq(Characters), NEW t \in Seq(Characters),
                      NEW w \in Seq(Characters),
                      Len(s \o t) <= Len(w), \A i \in 1 .. Len(s \o t) : w[i] = (s \o t)[i]
               PROVE  /\ Len(s \o t) = Len(s) + Len(t) /\ Len(s) \in Nat
                      /\ Len(s) + Len(t) <= Len(w)
                      /\ \A i \in 1 .. Len(t) : w[Len(s) + i] = t[i]
    BY Zenon
  <2>1. Len(s \o t) = Len(s) + Len(t) /\ Len(s) \in Nat /\ Len(t) \in Nat
    OBVIOUS
  <2>2. Len(s) + Len(t) <= Len(w)
    BY <2>1
  <2>3. ASSUME NEW i \in 1 .. Len(t)
        PROVE  w[Len(s) + i] = t[i]
    <3>1. Len(s) + i \in 1 .. Len(s \o t) /\ (s \o t)[Len(s) + i] = t[i]
      BY <2>1
    <3> QED
      BY <3>1
  <2> QED
    BY <2>1, <2>2, <2>3
<1>6. /\ Len(before \o piece) = Len(before) + Len(piece) /\ Len(before) \in Nat
      /\ Len(before) + Len(piece) <= Len(whole)
      /\ \A i \in 1 .. Len(piece) : whole[Len(before) + i] = piece[i]
  BY <1>2, <1>4, <1>5
<1> QED
  BY <1>2, <1>3, <1>6 DEF whole, before, piece

----------------------------------------------------------------------------
(***************************************************************************)
(* Globs, from the back: the rest of the pattern after character k matches *)
(* the rest of the name after character j.                                 *)
(***************************************************************************)

Piece(pattern, name, i, a, b) ==
    LET piece == SubSeq(name, a + 1, b)
    IN  /\ a <= b
        /\ pattern[i] = "*" \/ piece = <<pattern[i]>>
                            \/ (pattern[i] = "?" /\ Len(piece) = 1)

Cuts(pattern, name, cut, k) ==
    /\ cut[Len(pattern)] = Len(name)
    /\ \A i \in k + 1 .. Len(pattern) : Piece(pattern, name, i, cut[i - 1], cut[i])

GlobsFrom(pattern, name, k, j) ==
    \E cut \in [k .. Len(pattern) -> 0 .. Len(name)] :
        cut[k] = j /\ Cuts(pattern, name, cut, k)

\* What a pattern means is what all of it means for all of the name.
LEMMA GlobsFromStart ==
    ASSUME NEW pattern, NEW name, Len(pattern) \in Nat
    PROVE  Globs(pattern, name) <=> GlobsFrom(pattern, name, 0, 0)
<1>1. 0 + 1 = 1
  OBVIOUS
<1> QED
  BY <1>1, Zenon DEF Globs, GlobsFrom, Cuts, Piece

\* The empty rest of a pattern means the empty rest of the name.
LEMMA GlobsFromEnd ==
    ASSUME NEW pattern \in Seq(Characters), NEW name \in Seq(Characters), NEW j \in 0 .. Len(name)
    PROVE  GlobsFrom(pattern, name, Len(pattern), j) <=> j = Len(name)
<1> DEFINE L == Len(pattern)
           cut == [i \in L .. L |-> Len(name)]
<1>1. GlobsFrom(pattern, name, L, j) => j = Len(name)
  BY DEF GlobsFrom, Cuts
<1>2. cut \in [L .. L -> 0 .. Len(name)] /\ cut[L] = Len(name)
  OBVIOUS
<1>3. \A i \in L + 1 .. L : FALSE
  OBVIOUS
<1> HIDE DEF cut
<1>4. Cuts(pattern, name, cut, L)
  BY <1>2, <1>3 DEF Cuts
<1>5. j = Len(name) => GlobsFrom(pattern, name, L, j)
  BY <1>2, <1>4 DEF GlobsFrom
<1> QED
  BY <1>1, <1>5

\* The next character takes a piece of the name, and the rest goes on from there.
LEMMA GlobsFromStep ==
    ASSUME NEW pattern \in Seq(Characters), NEW name \in Seq(Characters),
           NEW k \in 1 .. Len(pattern), NEW j \in 0 .. Len(name)
    PROVE  GlobsFrom(pattern, name, k - 1, j)
             <=> \E b \in 0 .. Len(name) :
                    Piece(pattern, name, k, j, b) /\ GlobsFrom(pattern, name, k, b)
<1> DEFINE L == Len(pattern)  N == Len(name)
<1>0. L \in Nat /\ N \in Nat /\ (k - 1) + 1 = k /\ k - 1 \in Nat /\ k \in k - 1 .. L /\ k - 1 \in k - 1 .. L
  OBVIOUS
<1>1. ASSUME GlobsFrom(pattern, name, k - 1, j)
      PROVE  \E b \in 0 .. N : Piece(pattern, name, k, j, b) /\ GlobsFrom(pattern, name, k, b)
  <2>1. PICK cut \in [k - 1 .. L -> 0 .. N] : cut[k - 1] = j /\ Cuts(pattern, name, cut, k - 1)
    BY <1>1 DEF GlobsFrom
  <2> DEFINE rest == [i \in k .. L |-> cut[i]]
  <2>2. rest \in [k .. L -> 0 .. N] /\ \A i \in k .. L : rest[i] = cut[i]
    OBVIOUS
  <2> HIDE DEF rest
  <2>3. Piece(pattern, name, k, j, cut[k]) /\ cut[k] \in 0 .. N
    BY <1>0, <2>1 DEF Cuts
  <2>4. Cuts(pattern, name, rest, k)
    <3>1. rest[L] = N
      BY <2>1, <2>2 DEF Cuts
    <3>2. ASSUME NEW i \in k + 1 .. L
          PROVE  Piece(pattern, name, i, rest[i - 1], rest[i])
      <4>1. i \in (k - 1) + 1 .. L /\ i \in k .. L /\ i - 1 \in k .. L
        OBVIOUS
      <4> QED
        BY <4>1, <2>1, <2>2 DEF Cuts
    <3> QED
      BY <3>1, <3>2 DEF Cuts
  <2>5. GlobsFrom(pattern, name, k, cut[k])
    <3>1. rest[k] = cut[k]
      BY <2>2
    <3> QED
      BY <2>2, <2>4, <3>1 DEF GlobsFrom
  <2> QED
    BY <2>3, <2>5
<1>2. ASSUME NEW b \in 0 .. N, Piece(pattern, name, k, j, b), GlobsFrom(pattern, name, k, b)
      PROVE  GlobsFrom(pattern, name, k - 1, j)
  <2>1. PICK rest \in [k .. L -> 0 .. N] : rest[k] = b /\ Cuts(pattern, name, rest, k)
    BY <1>2 DEF GlobsFrom
  <2> DEFINE cut == [i \in k - 1 .. L |-> IF i = k - 1 THEN j ELSE rest[i]]
  <2>2. cut \in [k - 1 .. L -> 0 .. N] /\ cut[k - 1] = j /\ \A i \in k .. L : cut[i] = rest[i]
    OBVIOUS
  <2> HIDE DEF cut
  <2>3. Cuts(pattern, name, cut, k - 1)
    <3>1. cut[L] = N
      BY <2>1, <2>2 DEF Cuts
    <3>2. ASSUME NEW i \in (k - 1) + 1 .. L
          PROVE  Piece(pattern, name, i, cut[i - 1], cut[i])
      <4>1. CASE i = k
        <5>1. cut[i - 1] = j /\ cut[i] = b
          BY <2>1, <2>2, <4>1
        <5> QED
          BY <1>2, <4>1, <5>1
      <4>2. CASE i # k
        <5>1. i \in k + 1 .. L /\ i \in k .. L /\ i - 1 \in k .. L
          BY <4>2
        <5> QED
          BY <5>1, <2>1, <2>2 DEF Cuts
      <4> QED
        BY <4>1, <4>2
    <3> QED
      BY <3>1, <3>2 DEF Cuts
  <2> QED
    BY <2>2, <2>3 DEF GlobsFrom
<1> QED
  BY <1>1, <1>2

\* The piece of the name that a star, a question mark or a letter stands
\* for.
LEMMA PieceIs ==
    ASSUME NEW pattern \in Seq(Characters), NEW name \in Seq(Characters),
           NEW i \in 1 .. Len(pattern), NEW a \in 0 .. Len(name), NEW b \in 0 .. Len(name)
    PROVE  /\ pattern[i] = "*" => (Piece(pattern, name, i, a, b) <=> a <= b)
           /\ pattern[i] = "?" => (Piece(pattern, name, i, a, b) <=> b = a + 1)
           /\ pattern[i] \notin {"*", "?"} =>
                 (Piece(pattern, name, i, a, b) <=> b = a + 1 /\ name[a + 1] = pattern[i])
<1> DEFINE piece == SubSeq(name, a + 1, b)
           c == pattern[i]
<1>1. ASSUME a <= b
      PROVE  /\ Len(piece) = b - a
             /\ b = a + 1 => piece[1] = name[a + 1]
             /\ piece \in Seq(Characters)
  BY <1>1
<1>2. ASSUME a <= b
      PROVE  piece = <<c>> <=> b = a + 1 /\ name[a + 1] = c
  <2>1. ASSUME piece = <<c>> PROVE b = a + 1 /\ name[a + 1] = c
    <3>1. Len(piece) = 1 /\ piece[1] = c
      <4> HIDE DEF piece, c
      <4> QED
        BY <2>1
    <3>2. b = a + 1
      BY <1>1, <1>2, <3>1
    <3> QED
      BY <1>1, <1>2, <3>1, <3>2
  <2>2. ASSUME b = a + 1, name[a + 1] = c PROVE piece = <<c>>
    <3>1. piece \in Seq(Characters) /\ Len(piece) = 1 /\ piece[1] = c
      BY <1>1, <1>2, <2>2
    <3> HIDE DEF piece, c
    <3> QED
      BY <3>1
  <2> QED
    BY <2>1, <2>2
<1>3. Piece(pattern, name, i, a, b)
        <=> a <= b /\ (c = "*" \/ piece = <<c>> \/ (c = "?" /\ Len(piece) = 1))
  BY DEF Piece
<1>4. b = a + 1 => a <= b
  OBVIOUS
<1>5. a <= b => (Len(piece) = 1 <=> b = a + 1)
  BY <1>1
<1> HIDE DEF piece, c
<1>6. c # "?" \/ c # "*"
  OBVIOUS
<1> QED
  BY <1>2, <1>3, <1>4, <1>5, <1>6, Zenon DEF c

\* The rows of the characters that a name is compared with.
LEMMA RowOfAny ==
    ASSUME NEW pattern, NEW name, NEW matches, NEW i, ~(i > Len(pattern)), pattern[i] = "_", NEW j
    PROVE  j \in Row(pattern, name, matches, i)
             <=> j \in 1 .. Len(name) /\ j + 1 \in matches[i + 1]
BY DEF Row

\* An escaped character matches itself only.
LEMMA RowOfEscaped ==
    ASSUME NEW pattern, NEW name, NEW matches, NEW i, ~(i > Len(pattern)), i < Len(pattern),
           pattern[i] = "\\", NEW j
    PROVE  j \in Row(pattern, name, matches, i)
             <=> /\ j \in 1 .. Len(name) /\ j + 1 \in matches[i + 2]
                 /\ pattern[i + 1] = name[j]
BY DEF Row

\* The text of a character matches where the character does, if that is so of
\* what follows.
LEMMA MatchesStep ==
    ASSUME NEW pattern \in Seq(Characters), Plainly(pattern), NEW name \in Seq(Characters),
           NEW k \in 1 .. Len(pattern), NEW j \in 0 .. Len(name)
    PROVE  LET matches == Matches(TextOf(pattern, Len(pattern)), name)
           IN  j + 1 \in matches[Len(TextOf(pattern, k - 1)) + 1]
                 <=> \E b \in 0 .. Len(name) :
                        /\ Piece(pattern, name, k, j, b)
                        /\ b + 1 \in matches[Len(TextOf(pattern, k)) + 1]
<1> DEFINE whole == TextOf(pattern, Len(pattern))
           from == Len(TextOf(pattern, k - 1))
           next == Len(TextOf(pattern, k)) + 1
           piece == ToSQL(pattern[k])
           N == Len(name)
           matches == Matches(whole, name)
           c == pattern[k]
           Ahead(b) == b + 1 \in matches[next]
<1>1. /\ whole \in Seq(Characters) /\ from \in Nat /\ piece \in Seq(Characters)
      /\ next = from + Len(piece) + 1
      /\ from + Len(piece) <= Len(whole)
      /\ \A i \in 1 .. Len(piece) : whole[from + i] = piece[i]
  BY TextAt
<1>2. \A i \in 1 .. Len(whole) + 1 : matches[i] = Row(whole, name, matches, i)
  BY <1>1, MatchesRows
<1>3. c # "\\" /\ N \in Nat
  BY DEF Plainly
<1>4. /\ c = "*" => \A b \in 0 .. N : Piece(pattern, name, k, j, b) <=> j <= b
      /\ c = "?" => \A b \in 0 .. N : Piece(pattern, name, k, j, b) <=> b = j + 1
      /\ c \notin {"*", "?"} => \A b \in 0 .. N :
            Piece(pattern, name, k, j, b) <=> b = j + 1 /\ name[j + 1] = c
  BY PieceIs
<1> SUFFICES j + 1 \in matches[from + 1] <=> \E b \in 0 .. N : Piece(pattern, name, k, j, b) /\ Ahead(b)
  OBVIOUS
<1> HIDE DEF whole, from, next, matches, N
<1>5. CASE c = "*"
  <2>1. Len(piece) = 1 /\ piece[1] = "%"
    BY <1>5 DEF ToSQL
  <2>2. next = from + 2 /\ from + 1 <= Len(whole) /\ whole[from + 1] = "%"
    BY <1>1, <2>1
  <2>3. matches[from + 1] = {q \in 1 .. N + 1 : \E m \in matches[next] : q <= m}
    <3>1. from + 1 \in 1 .. Len(whole) + 1 /\ ~(from + 1 > Len(whole)) /\ (from + 1) + 1 = next
      BY <1>1, <2>2
    <3> QED
      BY <1>2, <2>2, <3>1 DEF Row, N
  <2>4. matches[next] \in SUBSET (1 .. N + 1)
    <3>1. matches[next] = Row(whole, name, matches, next)
      <4>1. next \in 1 .. Len(whole) + 1
        BY <1>1, <2>2
      <4> QED
        BY <1>2, <4>1
    <3>2. Row(whole, name, matches, next) \in SUBSET (1 .. N + 1)
      BY <1>1, RowType DEF N
    <3> QED
      BY <3>1, <3>2
  <2>5. j + 1 \in matches[from + 1] <=> \E m \in matches[next] : j + 1 <= m
    BY <2>3, <1>3 DEF N
  <2>6. (\E m \in matches[next] : j + 1 <= m) <=> \E b \in 0 .. N : j <= b /\ Ahead(b)
    <3>1. ASSUME NEW m \in matches[next], j + 1 <= m
          PROVE  \E b \in 0 .. N : j <= b /\ Ahead(b)
      <4>1. m - 1 \in 0 .. N /\ j <= m - 1 /\ (m - 1) + 1 = m
        BY <2>4, <3>1, <1>3
      <4> QED
        BY <4>1
    <3>2. ASSUME NEW b \in 0 .. N, j <= b, Ahead(b)
          PROVE  \E m \in matches[next] : j + 1 <= m
      <4>1. j + 1 <= b + 1
        BY <3>2, <1>3
      <4> QED
        BY <4>1, <3>2
    <3> QED
      BY <3>1, <3>2
  <2> QED
    BY <1>4, <1>5, <2>5, <2>6
<1>6. ASSUME c # "*"
      PROVE  j + 1 \in matches[from + 1]
               <=> j + 1 <= N /\ (c = "?" \/ name[j + 1] = c) /\ Ahead(j + 1)
  <2>1. CASE c \in {"%", "_"}
    <3>1. Len(piece) = 2 /\ piece[1] = "\\" /\ piece[2] = c
      BY <2>1 DEF ToSQL
    <3>2. /\ next = from + 3 /\ from + 2 <= Len(whole)
          /\ whole[from + 1] = "\\" /\ whole[from + 2] = c
      BY <1>1, <3>1
    <3>3. /\ from + 1 \in 1 .. Len(whole) + 1 /\ ~(from + 1 > Len(whole)) /\ from + 1 < Len(whole)
          /\ (from + 1) + 1 = from + 2 /\ (from + 1) + 2 = next
      BY <1>1, <3>2
    <3>4. j + 1 \in Row(whole, name, matches, from + 1)
            <=> j + 1 \in 1 .. N /\ (j + 1) + 1 \in matches[next] /\ c = name[j + 1]
      <4> DEFINE i == from + 1
      <4>1. ~(i > Len(whole)) /\ whole[i] = "\\" /\ i < Len(whole)
        BY <3>2, <3>3
      <4>2. whole[i + 1] = c /\ i + 2 = next
        BY <3>2, <3>3
      <4> DEFINE q == j + 1
      <4> HIDE DEF i, c, q
      <4>3. q \in Row(whole, name, matches, i)
              <=> /\ q \in 1 .. Len(name) /\ q + 1 \in matches[i + 2]
                  /\ whole[i + 1] = name[q]
        BY <4>1, RowOfEscaped
      <4> QED
        BY <4>2, <4>3, Zenon DEF i, N, q
    <3>5. c # "?"
      BY <2>1
    <3> QED
      BY <1>2, <1>3, <3>3, <3>4, <3>5
  <2>2. CASE c \notin {"%", "_"}
    <3> DEFINE d == IF c = "?" THEN "_" ELSE c
    <3>1. piece = <<d>>
      BY <1>6, <2>2, Zenon DEF ToSQL
    <3> HIDE DEF piece, d
    <3>2. next = from + 2 /\ from + 1 <= Len(whole) /\ whole[from + 1] = d
      BY <1>1, <3>1
    <3>3. /\ from + 1 \in 1 .. Len(whole) + 1 /\ ~(from + 1 > Len(whole))
          /\ (from + 1) + 1 = next
      BY <1>1, <3>2
    <3>4. CASE c = "?"
      <4>1. d = "_"
        BY <3>4 DEF d
      <4>2. j + 1 \in Row(whole, name, matches, from + 1)
              <=> j + 1 \in 1 .. N /\ (j + 1) + 1 \in matches[next]
        <5> DEFINE i == from + 1
        <5>1. ~(i > Len(whole)) /\ whole[i] = "_" /\ i + 1 = next
          BY <3>2, <3>3, <4>1
        <5> HIDE DEF i, c
        <5>2. j + 1 \in Row(whole, name, matches, i)
                <=> j + 1 \in 1 .. Len(name) /\ (j + 1) + 1 \in matches[i + 1]
          BY <5>1, RowOfAny
        <5> QED
          BY <5>1, <5>2, Zenon DEF i, N
      <4> QED
        BY <1>2, <1>3, <3>3, <3>4, <4>2
    <3>5. CASE c # "?"
      <4>1. d = c /\ c \notin {"%", "_", "\\"}
        BY <1>3, <2>2, <3>5 DEF d
      <4>2. j + 1 \in Row(whole, name, matches, from + 1)
              <=> j + 1 \in 1 .. N /\ (j + 1) + 1 \in matches[next] /\ c = name[j + 1]
        <5> DEFINE i == from + 1  q == j + 1
        <5>1. ~(i > Len(whole)) /\ whole[i] # "%" /\ whole[i] # "_" /\ whole[i] # "\\"
          BY <3>2, <3>3, <4>1
        <5>2. whole[i] = c /\ i + 1 = next
          BY <3>2, <3>3, <4>1
        <5> HIDE DEF i, c, q
        <5>3. q \in Row(whole, name, matches, i)
                <=> /\ q \in 1 .. Len(name) /\ q + 1 \in matches[i + 1]
                    /\ whole[i] = name[q]
          BY <5>1 DEF Row
        <5> QED
          BY <5>2, <5>3, Zenon DEF i, q, N
      <4> QED
        BY <1>2, <1>3, <3>3, <3>5, <4>2
    <3> QED
      BY <3>4, <3>5
  <2> QED
    BY <2>1, <2>2
<1>7. CASE c # "*"
  <2>1. j + 1 \in 0 .. N <=> j + 1 <= N
    BY <1>3
  <2>2. \A b \in 0 .. N :
           Piece(pattern, name, k, j, b) <=> b = j + 1 /\ (c = "?" \/ name[j + 1] = c)
    BY <1>4, <1>7
  <2> HIDE DEF Ahead
  <2> QED
    BY <1>6, <1>7, <2>1, <2>2
<1> QED
  BY <1>5, <1>7

\* What a pattern means, whatever its length: '*' is any text, '?' any
\* character, and everything else is itself, the two characters that mean
\* something to LIKE included (booru.cc:399-424).
THEOREM PatternsMean ==
    ASSUME NEW pattern \in Seq(STRING), Plainly(pattern), NEW name \in Seq(STRING)
    PROVE  Like(SQLPattern(pattern), name) <=> Globs(pattern, name)
<1> DEFINE L == Len(pattern)
           whole == TextOf(pattern, L)
           matches == Matches(whole, name)
           at(k) == Len(TextOf(pattern, k)) + 1
           S == {k \in 0 .. L : \A j \in 0 .. Len(name) :
                    j + 1 \in matches[at(k)] <=> GlobsFrom(pattern, name, k, j)}
<1>1. pattern \in Seq(Characters) /\ name \in Seq(Characters) /\ L \in Nat
  BY StringsAreCharacters
<1>2. whole \in Seq(Characters)
  <2>1. L \in 0 .. L
    BY <1>1
  <2> QED
    BY <1>1, <2>1, TextType
<1>3. \A j \in 0 .. Len(name) : j + 1 \in matches[at(L)] <=> GlobsFrom(pattern, name, L, j)
  <2>1. matches[Len(whole) + 1] = {Len(name) + 1}
    <3>1. Len(whole) + 1 \in 1 .. Len(whole) + 1 /\ Len(whole) + 1 > Len(whole)
      BY <1>2
    <3>2. matches[Len(whole) + 1] = Row(whole, name, matches, Len(whole) + 1)
      BY <1>1, <1>2, <3>1, MatchesRows
    <3> QED
      BY <3>1, <3>2 DEF Row
  <2>2. \A j \in 0 .. Len(name) : j + 1 = Len(name) + 1 <=> j = Len(name)
    OBVIOUS
  <2> HIDE DEF matches
  <2> QED
    BY <1>1, <2>1, <2>2, GlobsFromEnd
<1>4. ASSUME NEW k \in 1 .. L, k \in S
      PROVE  k - 1 \in S
  <2>1. k - 1 \in 0 .. L
    BY <1>1
  <2>2. ASSUME NEW j \in 0 .. Len(name)
        PROVE  j + 1 \in matches[at(k - 1)] <=> GlobsFrom(pattern, name, k - 1, j)
    <3>1. j + 1 \in matches[at(k - 1)]
            <=> \E b \in 0 .. Len(name) : Piece(pattern, name, k, j, b) /\ b + 1 \in matches[at(k)]
      BY <1>1, MatchesStep
    <3>2. GlobsFrom(pattern, name, k - 1, j)
            <=> \E b \in 0 .. Len(name) : Piece(pattern, name, k, j, b) /\ GlobsFrom(pattern, name, k, b)
      BY <1>1, GlobsFromStep
    <3>3. \A b \in 0 .. Len(name) : b + 1 \in matches[at(k)] <=> GlobsFrom(pattern, name, k, b)
      BY <1>4
    <3> HIDE DEF matches, at
    <3> QED
      BY <3>1, <3>2, <3>3
  <2> HIDE DEF matches, at
  <2> QED
    BY <2>1, <2>2
<1>5. 0 \in S
  <2>1. L \in S
    <3>1. L \in 0 .. L
      BY <1>1
    <3> HIDE DEF matches, at
    <3> QED
      BY <1>3, <3>1
  <2> HIDE DEF S
  <2>2. 0 .. L \subseteq S
    BY <1>1, <1>4, <2>1, DownFrom
  <2> QED
    BY <1>1, <2>2
<1>6. 0 + 1 \in matches[at(0)] <=> GlobsFrom(pattern, name, 0, 0)
  <2>1. 0 \in 0 .. Len(name)
    BY <1>1
  <2> HIDE DEF matches, at
  <2> QED
    BY <1>5, <2>1
<1>7. at(0) = 1 /\ 0 + 1 = 1
  BY <1>1, TextGrows
<1>8. Like(SQLPattern(pattern), name) <=> 1 \in matches[1]
  BY <1>1, TextIsFolded, LikeMatches
<1>9. Globs(pattern, name) <=> GlobsFrom(pattern, name, 0, 0)
  BY <1>1, GlobsFromStart
<1> HIDE DEF matches, at
<1> QED
  BY <1>6, <1>7, <1>8, <1>9

----------------------------------------------------------------------------
(***************************************************************************)
(* The inductive invariant.  Each condition stands for its token: of the   *)
(* ids in it, each had a name that the pattern matches at some moment of   *)
(* the search, and all that had one all along are among them.  Nothing is  *)
(* said of the tags as they are: the condition may be stale by now.        *)
(***************************************************************************)

IdleInv == pc = "idle" => query = <<>> /\ conditions = <<>>

\* The history brackets what there is.
WindowInv == pc = "tokens" => kept \subseteq tags /\ tags \subseteq seen

Called(pattern, row) == Like(SQLPattern(pattern), row[2])

StandsFor(condition, token) ==
    IF token.rating # "none" THEN condition = RatingCondition(token)
    ELSE \/ condition = ErrorCondition
         \/ /\ condition.text = "balanced"
            /\ condition.negations = token.negations
            /\ condition.ratings = {}
            /\ \A id \in condition.ids : \E t \in seen : t[1] = id /\ Called(token.pattern, t)
            /\ \A t \in kept : Called(token.pattern, t) => t[1] \in condition.ids

ConditionsInv == \A i \in 1 .. Len(conditions) : StandsFor(conditions[i], query[i])

Inv == TypeOK /\ IdleInv /\ WindowInv /\ ConditionsInv

----------------------------------------------------------------------------
\* What the steps of the call need of the queries.

\* Queries are sequences of tokens.
LEMMA QueryType ==
    ASSUME TypeOK
    PROVE  query \in Seq(Token)
<1>1. <<>> \in Seq(Token)
  OBVIOUS
<1> QED
  BY <1>1, QueriesAssumption DEF TypeOK

\* While tokens are left the next one is a token, and its condition fits.
LEMMA NextTokenType ==
    ASSUME TypeOK, Len(conditions) < Len(query)
    PROVE  /\ NextToken \in Token
           /\ Len(conditions) \in Nat /\ Len(conditions) + 1 <= Len(query)
<1>1. query \in Seq(Token)
  BY QueryType
<1>2. Len(conditions) \in Nat
  BY DEF TypeOK
<1>3. Len(conditions) + 1 \in 1 .. Len(query)
  BY <1>1, <1>2
<1> QED
  BY <1>1, <1>2, <1>3 DEF NextToken

\* The condition of a rating is a condition.
LEMMA RatingConditionType ==
    ASSUME NEW token \in Token, token.rating # "none"
    PROVE  RatingCondition(token) \in Condition
<1>1. token.rating \in {"g", "s", "q", "e", "u"} /\ token.negations \in Nat
  BY DEF Token
<1>2. RatingsOf(token.rating) \in SUBSET (0 .. 4)
  BY <1>1 DEF RatingsOf
<1>3. (IF token.rating = "q" THEN "unbalanced" ELSE "balanced") \in {"balanced", "unbalanced", "empty"}
  OBVIOUS
<1>4. {} \in SUBSET TagIds
  OBVIOUS
<1> QED
  BY <1>1, <1>2, <1>3, <1>4 DEF RatingCondition, Condition

\* The condition of a tag is a condition, whose ids are rows there are.
LEMMA TagConditionType ==
    ASSUME TypeOK, NEW token \in Token
    PROVE  TagCondition(token) \in Condition
<1>1. MatchTags(token.pattern) \in SUBSET TagIds
  BY DEF MatchTags, TypeOK, Consistent
<1>2. token.negations \in Nat
  BY DEF Token
<1> QED
  BY <1>1, <1>2 DEF TagCondition, Condition

\* What is left of an error is a condition, too.
LEMMA ErrorConditionType == ErrorCondition \in Condition
BY DEF ErrorCondition, Condition

----------------------------------------------------------------------------
\* Another process keeps the tables consistent, and the history brackets them.

\* UNIQUE and FOREIGN KEY hold after each change by another process, and the
\* history takes it down.
LEMMA ChangesKeepConsistency ==
    ASSUME Consistent(tags, postTags), OtherProcess
    PROVE  Consistent(tags', postTags') /\ Change
<1> USE DEF Consistent
<1>1. PICK id \in TagIds :
         \/ \E name \in Names : OtherNames(id, name)
         \/ OtherDeletes(id)
         \/ \E post \in Posts : OtherTags(post, id) \/ OtherUntags(post, id)
  BY DEF OtherProcess
<1>2. CASE \E name \in Names : OtherNames(id, name)
  <2>1. PICK name \in Names : OtherNames(id, name)
    BY <1>2
  <2>2. /\ tags' = {t \in tags : t[1] # id} \cup {<<id, name>>}
        /\ postTags' = postTags /\ Change
        /\ \A t \in tags : t[2] # name
    BY <2>1 DEF OtherNames
  <2>3. tags' \subseteq TagIds \X Names
    BY <2>2
  <2>4. \A s \in tags', t \in tags' : s[1] = t[1] \/ s[2] = t[2] => s = t
    BY <2>2
  <2>5. Ids(tags) \subseteq Ids(tags')
    <3> SUFFICES ASSUME NEW t \in tags PROVE t[1] \in Ids(tags')
      BY DEF Ids
    <3>1. CASE t[1] = id
      <4>1. <<id, name>> \in tags'
        BY <2>2
      <4> QED
        BY <3>1, <4>1 DEF Ids
    <3>2. CASE t[1] # id
      <4>1. t \in tags'
        BY <2>2, <3>2
      <4> QED
        BY <4>1 DEF Ids
    <3> QED
      BY <3>1, <3>2
  <2> QED
    BY <2>2, <2>3, <2>4, <2>5
<1>3. CASE OtherDeletes(id)
  <2>1. /\ tags' = {t \in tags : t[1] # id} /\ Change
        /\ postTags' = {pt \in postTags : pt[2] # id}
    BY <1>3 DEF OtherDeletes
  <2>2. ASSUME NEW pt \in postTags'
        PROVE  pt \in Posts \X Ids(tags')
    <3>1. pt \in Posts \X Ids(tags) /\ pt[2] # id
      BY <2>1
    <3>2. PICK t \in tags : pt[2] = t[1]
      BY <3>1 DEF Ids
    <3>3. t \in tags'
      BY <2>1, <3>1, <3>2
    <3>4. pt[2] \in Ids(tags')
      BY <3>2, <3>3 DEF Ids
    <3> QED
      BY <3>1, <3>4
  <2> QED
    BY <2>1, <2>2
<1>4. CASE \E post \in Posts : OtherTags(post, id) \/ OtherUntags(post, id)
  <2>1. PICK post \in Posts : OtherTags(post, id) \/ OtherUntags(post, id)
    BY <1>4
  <2>2. tags' = tags /\ Change
    BY <2>1 DEF OtherTags, OtherUntags
  <2>3. postTags' \subseteq Posts \X Ids(tags)
    BY <2>1 DEF OtherTags, OtherUntags
  <2> QED
    BY <2>2, <2>3
<1> QED
  BY <1>1, <1>2, <1>3, <1>4

\* The invariant holds at first, in every catalog.
LEMMA Initially == Init => Inv
<1> SUFFICES ASSUME Init PROVE Inv
  OBVIOUS
<1>1. PICK c \in Catalogs : tags = c.tags /\ postTags = c.postTags /\ ratings = c.ratings
  BY DEF Init
<1>2. Consistent(tags, postTags) /\ ratings \in [Posts -> 0 .. 4]
  BY <1>1, CatalogsAssumption
<1>3. result \in Result
  BY DEF Init, Returned, Result
<1>4. /\ pc = "idle" /\ query = <<>> /\ conditions = <<>> /\ seen = {} /\ kept = {} /\ changes = 0
      /\ <<>> \in Seq(Condition) /\ Len(<<>>) = 0 /\ 0 \in 0 .. MaxChanges
  BY ChangesAssumption DEF Init
<1>5. TypeOK
  BY <1>2, <1>3, <1>4 DEF TypeOK
<1> QED
  BY <1>4, <1>5 DEF Inv, IdleInv, WindowInv, ConditionsInv

\* FindPosts starts, with an empty condition and a new history.
LEMMA FindPostsStep ==
    ASSUME Inv, NEW q \in Queries, FindPosts(q)
    PROVE  Inv'
<1> USE DEF Inv
<1>1. /\ pc = "idle" /\ query = <<>> /\ conditions = <<>>
      /\ tags' = tags /\ postTags' = postTags /\ ratings' = ratings
      /\ query' = q /\ conditions' = conditions /\ changes' = changes
  BY DEF FindPosts, IdleInv, database
<1>2. q \in Seq(Token) /\ Len(q) \in Nat /\ (q # <<>> => Len(q) # 0)
  BY QueriesAssumption
<1>3. CASE q = <<>>
  <2>1. result' = Returned("InvalidRequest", {}) /\ pc' = pc /\ seen' = seen /\ kept' = kept
    BY <1>3 DEF FindPosts
  <2>2. result' \in Result
    BY <2>1 DEF Returned, Result
  <2>3. TypeOK'
    BY <1>1, <1>2, <2>1, <2>2 DEF TypeOK
  <2> QED
    BY <1>1, <1>3, <2>1, <2>3 DEF IdleInv, WindowInv, ConditionsInv
<1>4. CASE q # <<>>
  <2>1. result' = Returned("none", {}) /\ pc' = "tokens" /\ seen' = tags /\ kept' = tags
    BY <1>4 DEF FindPosts
  <2>2. result' \in Result
    BY <2>1 DEF Returned, Result
  <2>3. TypeOK'
    BY <1>1, <1>2, <2>1, <2>2 DEF TypeOK, Consistent
  <2> QED
    BY <1>1, <2>1, <2>3 DEF IdleInv, WindowInv, ConditionsInv
<1> QED
  BY <1>3, <1>4

\* Adding a condition that stands for the next token.
LEMMA AddConditionStep ==
    ASSUME Inv, pc = "tokens", Len(conditions) < Len(query),
           NEW condition \in Condition, AddCondition(condition),
           StandsFor(condition, NextToken)
    PROVE  Inv'
<1> USE DEF Inv
<1>1. /\ conditions' = Append(conditions, condition)
      /\ tags' = tags /\ postTags' = postTags /\ ratings' = ratings
      /\ pc' = pc /\ query' = query /\ result' = result
      /\ seen' = seen /\ kept' = kept /\ changes' = changes
  BY DEF AddCondition, database
<1>2. Len(conditions) \in Nat /\ Len(conditions) + 1 <= Len(query)
  BY NextTokenType
<1>3. /\ conditions' \in Seq(Condition) /\ Len(conditions') = Len(conditions) + 1
      /\ \A i \in 1 .. Len(conditions) : conditions'[i] = conditions[i]
      /\ conditions'[Len(conditions) + 1] = condition
  BY <1>1 DEF TypeOK
<1>4. TypeOK'
  BY <1>1, <1>2, <1>3 DEF TypeOK
<1>5. ConditionsInv'
  <2> SUFFICES ASSUME NEW i \in 1 .. Len(conditions) + 1
               PROVE  StandsFor(conditions'[i], query[i])
    BY <1>1, <1>3 DEF ConditionsInv, StandsFor, Called, RatingCondition, ErrorCondition
  <2>1. CASE i = Len(conditions) + 1
    BY <1>3, <2>1 DEF NextToken
  <2>2. CASE i # Len(conditions) + 1
    <3>1. i \in 1 .. Len(conditions)
      BY <1>2, <2>2
    <3> QED
      BY <1>3, <3>1 DEF ConditionsInv
  <2> QED
    BY <2>1, <2>2
<1> QED
  BY <1>1, <1>4, <1>5 DEF IdleInv, WindowInv

\* A lookup that succeeds has every tag that was there all along and that
\* the pattern means, and none but those that were there at some moment.
LEMMA TagConditionStandsFor ==
    ASSUME Inv, pc = "tokens", NEW token \in Token, token.rating = "none"
    PROVE  StandsFor(TagCondition(token), token)
<1> DEFINE c == TagCondition(token)
<1>1. c.text = "balanced" /\ c.negations = token.negations /\ c.ratings = {}
      /\ c.ids = MatchTags(token.pattern)
  BY DEF TagCondition
<1>2. \A id \in MatchTags(token.pattern) : \E t \in tags : t[1] = id /\ Called(token.pattern, t)
  BY DEF MatchTags, Called
<1>3. \A t \in tags : Called(token.pattern, t) => t[1] \in MatchTags(token.pattern)
  BY DEF MatchTags, Called
<1>4. kept \subseteq tags /\ tags \subseteq seen
  BY DEF Inv, WindowInv
<1> HIDE DEF c
<1> QED
  BY <1>1, <1>2, <1>3, <1>4 DEF StandsFor, c

\* FindPosts returns, and forgets its tokens and conditions.
LEMMA ReturnStep ==
    ASSUME Inv, NEW code \in {"OK", "DatabaseError", "DatabaseLocked"}, NEW posts \in SUBSET Posts,
           Return(code, posts)
    PROVE  Inv'
<1> USE DEF Inv
<1>1. /\ pc' = "idle" /\ result' = Returned(code, posts)
      /\ query' = <<>> /\ conditions' = <<>> /\ seen' = {} /\ kept' = {}
      /\ tags' = tags /\ postTags' = postTags /\ ratings' = ratings /\ changes' = changes
  BY DEF Return, database
<1>2. result' \in Result
  BY <1>1 DEF Returned, Result
<1>3. <<>> \in Seq(Condition) /\ Len(<<>>) = 0
  OBVIOUS
<1>4. TypeOK'
  BY <1>1, <1>2, <1>3 DEF TypeOK
<1> QED
  BY <1>1, <1>3, <1>4 DEF IdleInv, WindowInv, ConditionsInv

\* A change by another process widens the bracket between kept and seen, so
\* conditions go on standing for their tokens.
LEMMA OtherStep ==
    ASSUME Inv, OtherProcess
    PROVE  Inv'
<1> USE DEF Inv
<1>1. Consistent(tags', postTags') /\ Change
  BY ChangesKeepConsistency DEF TypeOK
<1>2. /\ changes < MaxChanges /\ changes' = changes + 1
      /\ ratings' = ratings /\ pc' = pc /\ query' = query
      /\ conditions' = conditions /\ result' = result
  BY <1>1 DEF Change, call
<1>3. tags' \subseteq TagIds \X Names
  BY <1>1 DEF Consistent
<1>4. CASE pc = "idle"
  <2>1. seen' = seen /\ kept' = kept
    BY <1>1, <1>4 DEF Change
  <2>2. TypeOK'
    BY <1>1, <1>2, <2>1, ChangesAssumption DEF TypeOK
  <2>3. conditions = <<>> /\ Len(<<>>) = 0
    BY <1>4 DEF IdleInv
  <2> QED
    BY <1>2, <1>4, <2>1, <2>2, <2>3 DEF IdleInv, WindowInv, ConditionsInv
<1>5. CASE pc # "idle"
  <2>1. seen' = seen \cup tags' /\ kept' = kept \cap tags'
    BY <1>1, <1>5 DEF Change
  <2>2. TypeOK'
    BY <1>1, <1>2, <1>3, <2>1, ChangesAssumption DEF TypeOK
  <2>3. ConditionsInv'
    <3> SUFFICES ASSUME NEW i \in 1 .. Len(conditions)
                 PROVE  StandsFor(conditions[i], query[i])'
      BY <1>2 DEF ConditionsInv
    <3>1. StandsFor(conditions[i], query[i])
      BY DEF ConditionsInv
    <3> QED
      BY <1>2, <2>1, <3>1 DEF StandsFor, Called, RatingCondition, ErrorCondition
  <2> QED
    BY <1>2, <1>5, <2>1, <2>2, <2>3 DEF IdleInv, WindowInv
<1> QED
  BY <1>4, <1>5

\* The inductive invariant holds in all reachable states.
THEOREM Invariance == Spec => []Inv
<1>1. Init => Inv
  BY Initially
<1>2. ASSUME Inv, [Next]_vars
      PROVE  Inv'
  <2>1. CASE \E q \in Queries : FindPosts(q)
    BY <1>2, <2>1, FindPostsStep
  <2>2. CASE GetRatingCondition
    <3>1. /\ NextToken \in Token /\ NextToken.rating # "none"
          /\ pc = "tokens" /\ Len(conditions) < Len(query)
          /\ AddCondition(RatingCondition(NextToken))
      BY <1>2, <2>2, NextTokenType DEF GetRatingCondition, Inv
    <3>2. StandsFor(RatingCondition(NextToken), NextToken)
      BY <3>1 DEF StandsFor
    <3> QED
      BY <1>2, <3>1, <3>2, AddConditionStep, RatingConditionType
  <2>3. CASE GetTagCondition
    <3>1. /\ NextToken \in Token /\ NextToken.rating = "none"
          /\ pc = "tokens" /\ Len(conditions) < Len(query)
          /\ AddCondition(TagCondition(NextToken))
      BY <1>2, <2>3, NextTokenType DEF GetTagCondition, Inv
    <3>2. StandsFor(TagCondition(NextToken), NextToken)
      BY <1>2, <3>1, TagConditionStandsFor
    <3>3. TagCondition(NextToken) \in Condition
      BY <1>2, <3>1, TagConditionType DEF Inv
    <3> QED
      BY <1>2, <3>1, <3>2, <3>3, AddConditionStep
  <2>4. CASE GetTagConditionFails
    <3>1. /\ NextToken.rating = "none" /\ pc = "tokens" /\ Len(conditions) < Len(query)
          /\ AddCondition(ErrorCondition)
      BY <2>4 DEF GetTagConditionFails
    <3>2. StandsFor(ErrorCondition, NextToken)
      BY <3>1 DEF StandsFor
    <3> QED
      BY <1>2, <3>1, <3>2, AddConditionStep, ErrorConditionType
  <2>5. CASE SelectPosts
    <3>1. Return("OK", {p \in Posts : \A c \in ToSet(conditions) : Holds(c, p)})
      BY <2>5 DEF SelectPosts
    <3> QED
      BY <1>2, <3>1, ReturnStep
  <2>6. CASE PrepareFails
    BY <1>2, <2>6, ReturnStep DEF PrepareFails
  <2>7. CASE SelectPostsFails
    BY <1>2, <2>7, ReturnStep DEF SelectPostsFails
  <2>8. CASE OtherProcess
    BY <1>2, <2>8, OtherStep
  <2>9. CASE UNCHANGED vars
    <3>1. UNCHANGED <<tags, postTags, ratings, pc, query, conditions, result, seen, kept, changes>>
      BY <2>9 DEF vars, database, call
    <3>2. TypeOK'
      BY <1>2, <3>1 DEF Inv, TypeOK, Consistent, Ids
    <3>3. IdleInv' /\ WindowInv'
      BY <1>2, <3>1 DEF Inv, IdleInv, WindowInv
    <3>4. ConditionsInv'
      BY <1>2, <3>1 DEF Inv, ConditionsInv, StandsFor, Called, RatingCondition, ErrorCondition
    <3> QED
      BY <3>2, <3>3, <3>4 DEF Inv
  <2> QED
    BY <1>2, <2>1, <2>2, <2>3, <2>4, <2>5, <2>6, <2>7, <2>8, <2>9 DEF Next
<1> QED
  BY <1>1, <1>2, PTL DEF Spec

\* The tables stay consistent and the call in its states, whatever the other
\* process does (booru.cc:239-252).
THEOREM TypeCorrect == Spec => []TypeOK
<1>1. Inv => TypeOK
  BY DEF Inv
<1> QED
  BY <1>1, Invariance, PTL

----------------------------------------------------------------------------
(***************************************************************************)
(* What a search finds.                                                    *)
(***************************************************************************)

\* Only the last step of the call returns OK: then each token has a condition
\* that parses, and the posts are those for which all of them hold.
LEMMA FindsAll ==
    ASSUME Inv, [Next]_vars, pc = "tokens", pc' = "idle", result'.code = "OK"
    PROVE  /\ Len(conditions) = Len(query) /\ Len(query) \in Nat
           /\ \A i \in 1 .. Len(query) :
                 conditions[i] # ErrorCondition /\ conditions[i].text = "balanced"
           /\ result'.posts = {p \in Posts : \A i \in 1 .. Len(query) : Holds(conditions[i], p)}
<1>1. SelectPosts
  <2>1. CASE \E q \in Queries : FindPosts(q)
    BY <2>1 DEF FindPosts
  <2>2. CASE GetRatingCondition \/ GetTagCondition \/ GetTagConditionFails
    BY <2>2 DEF GetRatingCondition, GetTagCondition, GetTagConditionFails, AddCondition
  <2>3. CASE PrepareFails \/ SelectPostsFails
    <3>1. result'.code \in {"DatabaseError", "DatabaseLocked"}
      BY <2>3 DEF PrepareFails, SelectPostsFails, Return, Returned
    <3> QED
      BY <3>1
  <2>4. CASE OtherProcess
    <3>1. Change
      BY <2>4, ChangesKeepConsistency DEF Inv, TypeOK
    <3> QED
      BY <3>1 DEF Change, call
  <2>5. CASE UNCHANGED vars
    BY <2>5 DEF vars, call
  <2> QED
    BY <2>1, <2>2, <2>3, <2>4, <2>5 DEF Next
<1>2. /\ Len(conditions) = Len(query) /\ WellFormed
      /\ Return("OK", {p \in Posts : \A c \in ToSet(conditions) : Holds(c, p)})
  BY <1>1 DEF SelectPosts
<1>3. conditions \in Seq(Condition) /\ Len(query) \in Nat
  BY <1>2 DEF Inv, TypeOK
<1>4. ToSet(conditions) = {conditions[i] : i \in 1 .. Len(query)}
  BY <1>2, <1>3 DEF ToSet
<1>5. \A i \in 1 .. Len(query) :
         conditions[i].text = "balanced" /\ conditions[i] # ErrorCondition
  <2>1. \A i \in 1 .. Len(query) : conditions[i].text = "balanced"
    BY <1>2, <1>4 DEF WellFormed
  <2>2. ErrorCondition.text # "balanced"
    BY DEF ErrorCondition
  <2> QED
    BY <2>1, <2>2
<1>6. result'.posts = {p \in Posts : \A c \in ToSet(conditions) : Holds(c, p)}
  BY <1>2 DEF Return, Returned
<1>7. \A p : (\A c \in ToSet(conditions) : Holds(c, p))
               <=> \A i \in 1 .. Len(query) : Holds(conditions[i], p)
  BY <1>4
<1> QED
  BY <1>2, <1>3, <1>5, <1>6, <1>7

\* The condition of a token holds for no post that the token does not want by
\* what tags were ever called, and for every post that it wants by what they
\* were called all along; of a negated token, the other way round.
LEMMA HoldsAsWanted ==
    ASSUME Inv, NEW token \in Token, ~Contains(token.pattern, "\\"), NEW c \in Condition,
           c # ErrorCondition, c.text = "balanced", StandsFor(c, token), NEW p \in Posts
    PROVE  /\ Holds(c, p) => Wanted(p, token, seen, kept)
           /\ Wanted(p, token, kept, seen) => Holds(c, p)
<1> USE DEF Inv
<1>1. token.pattern \in Seq(STRING) /\ token.negations \in Nat
  BY DEF Token
<1>2. Plainly(token.pattern)
  BY <1>1 DEF Plainly, Contains
<1>3. CASE token.rating # "none"
  <2>1. c.ratings = RatingsOf(token.rating) /\ c.ids = {} /\ c.negations = token.negations
    BY <1>3 DEF StandsFor, RatingCondition
  <2>2. Holds(c, p) <=> Negated(token.negations, ratings[p] \in RatingsOf(token.rating))
    BY <2>1 DEF Holds, Negated
  <2> QED
    BY <1>3, <2>2 DEF Wanted
<1>4. CASE token.rating = "none"
  <2>1. /\ c.negations = token.negations /\ c.ratings = {}
        /\ \A id \in c.ids : \E t \in seen : t[1] = id /\ Called(token.pattern, t)
        /\ \A t \in kept : Called(token.pattern, t) => t[1] \in c.ids
    BY <1>4 DEF StandsFor
  <2>2. \A t \in seen : Called(token.pattern, t) <=> Globs(token.pattern, t[2])
    <3> SUFFICES ASSUME NEW t \in seen
                 PROVE  Called(token.pattern, t) <=> Globs(token.pattern, t[2])
      OBVIOUS
    <3>1. t[2] \in Seq(STRING)
      BY NamesAssumption DEF TypeOK
    <3> QED
      BY <1>1, <1>2, <3>1, PatternsMean DEF Called
  <2>3. kept \subseteq seen
    BY DEF TypeOK
  <2> DEFINE has == \E id \in c.ids : <<p, id>> \in postTags
  <2>4. has => Tagged(p, token.pattern, seen)
    BY <2>1, <2>2 DEF Tagged
  <2>5. Tagged(p, token.pattern, kept) => has
    BY <2>1, <2>2, <2>3 DEF Tagged
  <2>6. Holds(c, p) <=> Negated(token.negations, has)
    BY <2>1 DEF Holds, Negated
  <2> HIDE DEF has
  <2>7. CASE token.negations % 2 = 1
    <3>1. /\ Holds(c, p) <=> ~has
          /\ Wanted(p, token, seen, kept) <=> ~Tagged(p, token.pattern, kept)
          /\ Wanted(p, token, kept, seen) <=> ~Tagged(p, token.pattern, seen)
      BY <1>4, <2>6, <2>7 DEF Negated, Wanted
    <3> QED
      BY <2>4, <2>5, <3>1, Zenon
  <2>8. CASE token.negations % 2 # 1
    <3>1. /\ Holds(c, p) <=> has
          /\ Wanted(p, token, seen, kept) <=> Tagged(p, token.pattern, seen)
          /\ Wanted(p, token, kept, seen) <=> Tagged(p, token.pattern, kept)
      BY <1>4, <2>6, <2>8 DEF Negated, Wanted
    <3> QED
      BY <2>4, <2>5, <3>1, Zenon
  <2> QED
    BY <2>7, <2>8
<1> QED
  BY <1>3, <1>4

\* The step that returns posts finds those that satisfy every token, up to
\* what changed during the search.
LEMMA FindsWanted ==
    ASSUME Inv, [Next]_vars, Finds, NEW p \in Posts
    PROVE  /\ p \in result'.posts => \A token \in ToSet(query) : Wanted(p, token, seen, kept)
           /\ (\A token \in ToSet(query) : Wanted(p, token, kept, seen)) => p \in result'.posts
<1>1. pc = "tokens" /\ pc' = "idle" /\ result'.code = "OK" /\ Plain(query)
  BY DEF Finds
<1>2. /\ Len(conditions) = Len(query) /\ Len(query) \in Nat
      /\ \A i \in 1 .. Len(query) :
            conditions[i] # ErrorCondition /\ conditions[i].text = "balanced"
      /\ p \in result'.posts <=> \A i \in 1 .. Len(query) : Holds(conditions[i], p)
  BY <1>1, FindsAll
<1>3. query \in Seq(Token) /\ conditions \in Seq(Condition)
  BY QueryType DEF Inv, TypeOK
<1>4. ToSet(query) = {query[i] : i \in 1 .. Len(query)}
  BY <1>3 DEF ToSet
<1>5. ASSUME NEW i \in 1 .. Len(query)
      PROVE  /\ Holds(conditions[i], p) => Wanted(p, query[i], seen, kept)
             /\ Wanted(p, query[i], kept, seen) => Holds(conditions[i], p)
  <2>1. query[i] \in Token /\ conditions[i] \in Condition
    BY <1>2, <1>3
  <2>2. ~Contains(query[i].pattern, "\\")
    BY <1>1, <1>4 DEF Plain
  <2>3. StandsFor(conditions[i], query[i])
    BY <1>2 DEF Inv, ConditionsInv
  <2> QED
    BY <1>2, <2>1, <2>2, <2>3, HoldsAsWanted
<1> QED
  BY <1>2, <1>4, <1>5

\* A post that is found has at the end, for every token, a tag whose id bore a
\* fitting name at some moment of the search, and none whose id bore one that a
\* negated token names all along, for every database, query and sequence of
\* changes by the other process (booru.cc:247-248, 537-556).
THEOREM NothingElseIsFoundAlways == Spec => NothingElseIsFound
<1>1. ASSUME Inv, [Next]_vars
      PROVE  [Finds => \A p \in result'.posts, token \in ToSet(query) :
                          Wanted(p, token, seen, kept)]_vars
  <2> SUFFICES ASSUME Finds, NEW p \in result'.posts
               PROVE  \A token \in ToSet(query) : Wanted(p, token, seen, kept)
    OBVIOUS
  <2>1. p \in Posts
    BY <1>1, FindsAll DEF Finds
  <2> QED
    BY <1>1, <2>1, FindsWanted
<1> QED
  BY <1>1, Invariance, PTL DEF Spec, NothingElseIsFound

\* A post is found if it has a tag that was called as each token says all
\* along, and none that was ever called as a negated one says.
THEOREM NothingIsMissedAlways == Spec => NothingIsMissed
<1>1. ASSUME Inv, [Next]_vars
      PROVE  [Finds => \A p \in Posts :
                (\A token \in ToSet(query) : Wanted(p, token, kept, seen)) => p \in result'.posts]_vars
  BY <1>1, FindsWanted
<1> QED
  BY <1>1, Invariance, PTL DEF Spec, NothingIsMissed

\* A search that could not look a tag up reports an error, though nobody looks
\* at the one of GetSQLConditionForTag (booru.cc:247-248).
THEOREM FailedLookupsAreReportedAlways == Spec => FailedLookupsAreReported
<1>1. ASSUME Inv, [Next]_vars
      PROVE  [pc = "tokens" /\ pc' = "idle" /\ ErrorCondition \in ToSet(conditions)
                => result'.code \notin {"none", "OK"}]_vars
  <2> SUFFICES ASSUME pc = "tokens", pc' = "idle", ErrorCondition \in ToSet(conditions)
               PROVE  result'.code \notin {"none", "OK"}
    OBVIOUS
  <2>1. ~(result'.code = "OK")
    <3> SUFFICES ASSUME result'.code = "OK" PROVE FALSE
      OBVIOUS
    <3>1. Len(conditions) = Len(query)
          /\ \A i \in 1 .. Len(query) : conditions[i] # ErrorCondition
      BY <1>1, FindsAll
    <3>2. \E i \in 1 .. Len(conditions) : conditions[i] = ErrorCondition
      BY <1>1 DEF ToSet, Inv, TypeOK
    <3> QED
      BY <3>1, <3>2
  <2>2. result'.code # "none"
    <3>1. CASE \E q \in Queries : FindPosts(q)
      BY <3>1 DEF FindPosts
    <3>2. CASE GetRatingCondition \/ GetTagCondition \/ GetTagConditionFails
      BY <3>2 DEF GetRatingCondition, GetTagCondition, GetTagConditionFails, AddCondition
    <3>3. CASE SelectPosts \/ PrepareFails \/ SelectPostsFails
      <4>1. result'.code \in {"OK", "DatabaseError", "DatabaseLocked"}
        BY <3>3 DEF SelectPosts, PrepareFails, SelectPostsFails, Return, Returned
      <4> QED
        BY <4>1
    <3>4. CASE OtherProcess
      <4>1. Change
        BY <1>1, <3>4, ChangesKeepConsistency DEF Inv, TypeOK
      <4> QED
        BY <4>1 DEF Change, call
    <3>5. CASE UNCHANGED vars
      BY <3>5 DEF vars, call
    <3> QED
      BY <1>1, <3>1, <3>2, <3>3, <3>4, <3>5 DEF Next
  <2> QED
    BY <2>1, <2>2
<1> QED
  BY <1>1, Invariance, PTL DEF Spec, FailedLookupsAreReported
==============================================================================
