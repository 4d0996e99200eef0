------------------------------ MODULE Searching ------------------------------
(***************************************************************************)
(* Booru::FindPosts, MatchTags and GetSQLConditionForTag                   *)
(* (library/booru.cc:239-252, 379-443, 504-557).  A search looks the tags  *)
(* of each token up in a SELECT of its own, puts their ids into the text   *)
(* of a condition, and selects the posts at the end; another process may   *)
(* change tags and posts in between.                                       *)
(*                                                                         *)
(* Names and patterns are sequences of characters, without upper case:     *)
(* LIKE and the ratings ignore it.                                         *)
(***************************************************************************)
EXTENDS Integers, SequencesExt

CONSTANTS
    Posts, TagIds,   \* row ids
    Names,           \* names that tags may have
    Queries,         \* sequences of tokens to search for
    Catalogs,        \* what the database may hold: [tags, postTags, ratings]
    MaxChanges       \* bound on changes by the other process

ASSUME ChangesAssumption == MaxChanges \in Nat

ASSUME NamesAssumption == Names \subseteq Seq(STRING)

VARIABLES
    tags,         \* rows of Tags: pairs <<id, name>>
    postTags,     \* rows of PostTags: pairs <<post, id>>
    ratings,      \* Rating of each post, which stays
    pc,           \* where FindPosts stands
    query,        \* its tokens
    conditions,   \* the conditions added to the SELECT so far
    result,       \* what it returned
    \* History: the tags there were at some moment of the search, and those
    \* there were all along; changes by the other process.
    seen, kept, changes

database == <<tags, postTags, ratings>>
call     == <<pc, query, conditions, result>>
vars     == <<database, call, seen, kept, changes>>

\* A token of a query: its '-' signs, and what follows them.  The rating is
\* the letter after "rating:", which only counts if there is one.
Token == [negations : Nat, rating : {"g", "s", "q", "e", "u", "none"},
          pattern : Seq(STRING)]

\* The text of a condition.  "empty" is what is left of an error.
Condition == [text : {"balanced", "unbalanced", "empty"}, negations : Nat,
              ratings : SUBSET (0 .. 4), ids : SUBSET TagIds]

Result == [code : {"none", "OK", "InvalidRequest", "DatabaseError", "DatabaseLocked"},
           posts : SUBSET Posts]

Returned(code, posts) == [code |-> code, posts |-> posts]

Ids(rows) == {row[1] : row \in rows}

\* Names are unique, and posts have tags that exist.
Consistent(named, tagged) ==
    /\ named \subseteq TagIds \X Names
    /\ \A s \in named, t \in named : s[1] = t[1] \/ s[2] = t[2] => s = t
    /\ tagged \subseteq Posts \X Ids(named)

ASSUME QueriesAssumption == Queries \subseteq Seq(Token)

ASSUME CatalogsAssumption ==
    \A c \in Catalogs : Consistent(c.tags, c.postTags) /\ c.ratings \in [Posts -> 0 .. 4]

TypeOK ==
    /\ Consistent(tags, postTags)
    /\ ratings \in [Posts -> 0 .. 4]
    /\ pc \in {"idle", "tokens"}
    /\ query \in Queries \cup {<<>>}
    /\ conditions \in Seq(Condition) /\ Len(conditions) <= Len(query)
    /\ result \in Result
    /\ kept \subseteq seen /\ seen \subseteq TagIds \X Names
    /\ changes \in 0 .. MaxChanges

Init ==
    /\ \E c \in Catalogs :
          tags = c.tags /\ postTags = c.postTags /\ ratings = c.ratings
    /\ pc = "idle"
    /\ query = <<>>
    /\ conditions = <<>>
    /\ result = Returned("none", {})
    /\ seen = {} /\ kept = {}
    /\ changes = 0

----------------------------------------------------------------------------
\* Patterns

\* SQLite's  name LIKE pattern ESCAPE '\': the rest of the pattern from i on
\* matches the rest of the name from any character of matches[i] on.
Like(pattern, name) ==
    LET matches[i \in 1 .. Len(pattern) + 1] ==
            IF i > Len(pattern) THEN {Len(name) + 1}
            ELSE IF pattern[i] = "%"
                 THEN {j \in 1 .. Len(name) + 1 : \E k \in matches[i + 1] : j <= k}
            ELSE {j \in 1 .. Len(name) :
                    CASE pattern[i] = "_"  -> j + 1 \in matches[i + 1]
                      [] pattern[i] = "\\" -> /\ i < Len(pattern) /\ pattern[i + 1] = name[j]
                                              /\ j + 1 \in matches[i + 2]
                      [] OTHER             -> pattern[i] = name[j] /\ j + 1 \in matches[i + 1]}
    IN  1 \in matches[1]

\* One round of MatchTags' loop.
ToSQL(character) ==
    CASE character \in {"%", "_"} -> <<"\\", character>>
      [] character = "*"          -> <<"%">>
      [] character = "?"          -> <<"_">>
      [] OTHER                    -> <<character>>

\* Mutant: what LIKE gives a meaning is not escaped.
UnescapedSQLPattern(pattern) ==
    FoldLeft(LAMBDA text, c : text \o (IF c \in {"%", "_"} THEN <<c>> ELSE ToSQL(c)), <<>>, pattern)

\* A backslash is erased with all that follows it: erase(pos) has no count.
SQLPattern(pattern) ==
    LET backslash == SelectInSeq(pattern, LAMBDA c : c = "\\")
        looped    == IF backslash = 0 THEN pattern ELSE SubSeq(pattern, 1, backslash - 1)
    IN  FoldLeft(LAMBDA text, c : text \o ToSQL(c), <<>>, looped)

MatchTags(pattern) == {row[1] : row \in {t \in tags : Like(SQLPattern(pattern), t[2])}}

----------------------------------------------------------------------------
\* Conditions

\* Mutant: counted from one.
RatingsFromOne(letter) ==
    CASE letter = "g" -> {2} [] letter = "s" -> {3} [] letter = "q" -> {1, 4}
      [] letter = "e" -> {5} [] letter = "u" -> {1}

\* The ratings that a letter stands for.
RatingsOf(letter) ==
    CASE letter = "g" -> {1} [] letter = "s" -> {2} [] letter = "q" -> {0, 3}
      [] letter = "e" -> {4} [] letter = "u" -> {0}

\* The condition of rating:q lacks its last parenthesis.
RatingCondition(token) ==
    [text |-> IF token.rating = "q" THEN "unbalanced" ELSE "balanced",
     negations |-> token.negations, ratings |-> RatingsOf(token.rating), ids |-> {}]

\* Mutant: the first '-' is dropped.
TagConditionNotNegated(token) ==
    [text |-> "balanced", negations |-> 0, ratings |-> {}, ids |-> MatchTags(token.pattern)]

TagCondition(token) ==
    [text |-> "balanced", negations |-> token.negations, ratings |-> {},
     ids |-> MatchTags(token.pattern)]

\* An Expected that holds an error turns into an empty string.
ErrorCondition == [text |-> "empty", negations |-> 0, ratings |-> {}, ids |-> {}]

Negated(negations, holds) == IF negations % 2 = 1 THEN ~holds ELSE holds

Holds(condition, post) ==
    Negated(condition.negations,
        \/ ratings[post] \in condition.ratings
        \/ \E id \in condition.ids : <<post, id>> \in postTags)

----------------------------------------------------------------------------
\* The call

\* Query "" has no tokens; "a  b" has an empty one.
FindPosts(q) ==
    /\ pc = "idle"
    /\ IF q = <<>>
       THEN result' = Returned("InvalidRequest", {}) /\ UNCHANGED <<pc, seen, kept>>
       ELSE result' = Returned("none", {}) /\ pc' = "tokens" /\ seen' = tags /\ kept' = tags
    /\ query' = q
    /\ UNCHANGED <<database, conditions, changes>>

NextToken == query[Len(conditions) + 1]

AddCondition(condition) ==
    /\ conditions' = Append(conditions, condition)
    /\ UNCHANGED <<database, pc, query, result, seen, kept, changes>>

GetRatingCondition ==
    /\ pc = "tokens" /\ Len(conditions) < Len(query)
    /\ NextToken.rating # "none"
    /\ AddCondition(RatingCondition(NextToken))

GetTagCondition ==
    /\ pc = "tokens" /\ Len(conditions) < Len(query)
    /\ NextToken.rating = "none"
    /\ AddCondition(TagCondition(NextToken))

\* MatchTags finds the file locked.
GetTagConditionFails ==
    /\ pc = "tokens" /\ Len(conditions) < Len(query)
    /\ NextToken.rating = "none"
    /\ AddCondition(ErrorCondition)

Return(code, posts) ==
    /\ pc' = "idle"
    /\ result' = Returned(code, posts)
    /\ query' = <<>> /\ conditions' = <<>> /\ seen' = {} /\ kept' = {}
    /\ UNCHANGED <<database, changes>>

\* Mutant: conditions that are empty are left out of the WHERE.
WellFormedWithoutEmpty == \A c \in ToSet(conditions) : c.text # "unbalanced"

\* The text parses: "( .. )  AND  AND ( .. )" and a bare WHERE do not.
WellFormed == \A c \in ToSet(conditions) : c.text = "balanced"

SelectPosts ==
    /\ pc = "tokens" /\ Len(conditions) = Len(query)
    /\ WellFormed
    /\ Return("OK", {p \in Posts : \A c \in ToSet(conditions) : Holds(c, p)})

PrepareFails ==
    /\ pc = "tokens" /\ Len(conditions) = Len(query)
    /\ ~WellFormed
    /\ Return("DatabaseError", {})

SelectPostsFails ==
    /\ pc = "tokens" /\ Len(conditions) = Len(query)
    /\ WellFormed
    /\ Return("DatabaseLocked", {})

----------------------------------------------------------------------------
\* Another process, between any two statements.

Change ==
    /\ changes < MaxChanges
    /\ changes' = changes + 1
    /\ IF pc = "idle" THEN UNCHANGED <<seen, kept>>
       ELSE seen' = seen \cup tags' /\ kept' = kept \cap tags'
    /\ UNCHANGED <<ratings, call>>

\* A new tag, or another name for one.
OtherNames(id, name) ==
    /\ \A t \in tags : t[2] # name
    /\ tags' = {t \in tags : t[1] # id} \cup {<<id, name>>}
    /\ UNCHANGED postTags
    /\ Change

OtherDeletes(id) ==
    /\ id \in Ids(tags)
    /\ tags' = {t \in tags : t[1] # id}
    /\ postTags' = {pt \in postTags : pt[2] # id}
    /\ Change

OtherTags(post, id) ==
    /\ id \in Ids(tags)
    /\ postTags' = postTags \cup {<<post, id>>}
    /\ UNCHANGED tags
    /\ Change

OtherUntags(post, id) ==
    /\ postTags' = postTags \ {<<post, id>>}
    /\ UNCHANGED tags
    /\ Change

OtherProcess ==
    \E id \in TagIds :
        \/ \E name \in Names : OtherNames(id, name)
        \/ OtherDeletes(id)
        \/ \E post \in Posts : OtherTags(post, id) \/ OtherUntags(post, id)

Next ==
    \/ \E q \in Queries : FindPosts(q)
    \/ GetRatingCondition
    \/ GetTagCondition
    \/ GetTagConditionFails
    \/ SelectPosts
    \/ PrepareFails
    \/ SelectPostsFails
    \/ OtherProcess

Spec == Init /\ [][Next]_vars

----------------------------------------------------------------------------
\* What a search means: '*' is any text, '?' any character, and everything
\* else is itself.

Globs(pattern, name) ==
    \E cut \in [0 .. Len(pattern) -> 0 .. Len(name)] :
        /\ cut[0] = 0 /\ cut[Len(pattern)] = Len(name)
        /\ \A i \in 1 .. Len(pattern) :
              LET piece == SubSeq(name, cut[i - 1] + 1, cut[i])
              IN  /\ cut[i - 1] <= cut[i]
                  /\ pattern[i] = "*" \/ piece = <<pattern[i]>>
                                      \/ (pattern[i] = "?" /\ Len(piece) = 1)

\* The post has a tag that the pattern matches, under one of these names.
Tagged(post, pattern, names) ==
    \E t \in names : <<post, t[1]>> \in postTags /\ Globs(pattern, t[2])

Wanted(post, token, loose, strict) ==
    IF token.rating # "none" THEN Negated(token.negations, ratings[post] \in RatingsOf(token.rating))
    ELSE IF token.negations % 2 = 1 THEN ~Tagged(post, token.pattern, strict)
    ELSE Tagged(post, token.pattern, loose)

\* A backslash is cut off with all that follows (booru.cc:401), where the comment
\* says "remove escape character and skip over the next".
Plain(q) == \A token \in ToSet(q) : ~Contains(token.pattern, "\\")

Finds == pc = "tokens" /\ pc' = "idle" /\ result'.code = "OK" /\ Plain(query)

\* A post that is found has at the end, for every token, a tag whose id bore a
\* fitting name at some moment of the search, and none whose id bore one that a
\* negated token names all along, whatever the other process renames, deletes or
\* creates in between (booru.cc:247-248, 537-556).  The name and the tag on the
\* post need not go together: a tag that was renamed and then put on the post is
\* found by the name it had before.
NothingElseIsFound ==
    [][Finds => \A p \in result'.posts, token \in ToSet(query) : Wanted(p, token, seen, kept)]_vars

\* A post is found if it has a tag that was called as each token says all
\* along, and none that was ever called as a negated one says.
NothingIsMissed ==
    [][Finds => \A p \in Posts : (\A token \in ToSet(query) : Wanted(p, token, kept, seen))
                                     => p \in result'.posts]_vars

\* A search that could not look a tag up reports an error, though nobody looks
\* at the one of GetSQLConditionForTag (booru.cc:247-248).
FailedLookupsAreReported ==
    [][pc = "tokens" /\ pc' = "idle" /\ ErrorCondition \in ToSet(conditions)
          => result'.code \notin {"none", "OK"}]_vars
============================================================================
