---------------------------- MODULE MCSearching ----------------------------
EXTENDS Searching

NameA  == <<"a">>
NameAB == <<"a", "b">>
NamePC == <<"%">>

MCNames == {NameA, NameAB, NamePC}

TagToken(negations, pattern) ==
    [negations |-> negations, rating |-> "none", pattern |-> pattern]

RatingToken(negations, letter) ==
    [negations |-> negations, rating |-> letter, pattern |-> <<>>]

\* Every pattern of up to three characters, alone; some tokens in pairs.
Patterns == SeqOf({"a", "b", "*", "?", "%", "\\"}, 3)

Singles == {<<TagToken(0, p)>> : p \in Patterns} \cup {<<TagToken(1, p)>> : p \in SeqOf({"a", "*", "%"}, 1)}
           \cup {<<RatingToken(n, r)>> : n \in {0, 1}, r \in {"g", "s", "q", "e", "u"}}

PairTokens == {TagToken(0, <<"a">>), TagToken(0, <<"a", "*">>), TagToken(1, <<"a">>),
               TagToken(2, <<"%">>), TagToken(0, <<>>), RatingToken(0, "g"), RatingToken(1, "q")}

MCQueries == {<<>>} \cup Singles \cup {<<s, t>> : s \in PairTokens, t \in PairTokens}

\* Posts with both tags, one and none.
MCCatalogs ==
    {[tags |-> {<<1, NameA>>, <<2, n>>}, postTags |-> {<<1, 1>>, <<1, 2>>, <<2, 2>>},
      ratings |-> <<1, 3>>] : n \in {NameAB, NamePC}}
=============================================================================
