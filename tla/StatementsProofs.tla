--------------------------- MODULE StatementsProofs ---------------------------
(***************************************************************************)
(* Proofs about Statements: no parameter goes unbound, and the statements, *)
(* stepped row by row while others write, do what EntityTable promises.    *)
(***************************************************************************)
EXTENDS Statements, DataInduction, SequenceTheorems

----------------------------------------------------------------------------
(***************************************************************************)
(* EntityTable reads the same schema and the same codes.                   *)
(***************************************************************************)

\* The abstract specification and this one mean the same by the schema: the
\* mapping substitutes variables only.
LEMMA SameSchema ==
    /\ Abstract!Texts = Texts /\ Abstract!Blobs = Blobs /\ Abstract!NUL = NUL
    /\ Abstract!Errors = Errors
    /\ \A t : Abstract!PropertiesOf(t) = PropertiesOf(t)
    /\ \A t : Abstract!Unvisited(t) = Unvisited(t)
    /\ \A t : Abstract!Columns(t) = Columns(t)
    /\ \A rows : Abstract!NewId(rows) = NewId(rows)
<1>1. Abstract!Texts = Texts /\ Abstract!Blobs = Blobs /\ Abstract!NUL = NUL
      /\ Abstract!Errors = Errors
  <2>1. Abstract!Texts = Texts
    BY Zenon DEF Abstract!Texts, Texts
  <2>2. Abstract!Blobs = Blobs
    BY Zenon DEF Abstract!Blobs, Blobs
  <2>3. Abstract!NUL = NUL
    BY Zenon DEF Abstract!NUL, NUL
  <2>4. Abstract!Errors = Errors
    BY Zenon DEF Abstract!Errors, Errors
  <2> QED
    BY <2>1, <2>2, <2>3, <2>4
<1>2. \A t : Abstract!PropertiesOf(t) = PropertiesOf(t)
  BY Zenon DEF Abstract!PropertiesOf, PropertiesOf, Abstract!ToSet, ToSet, Abstract!Properties, Properties,
     Abstract!PostProperties, PostProperties, Abstract!PostFileProperties, PostFileProperties,
     Abstract!PostTagProperties, PostTagProperties, Abstract!PostTypeProperties, PostTypeProperties,
     Abstract!SiteProperties, SiteProperties, Abstract!TagProperties, TagProperties,
     Abstract!TagImplicationProperties, TagImplicationProperties,
     Abstract!TagTypeProperties, TagTypeProperties
<1>3. \A t : Abstract!Unvisited(t) = Unvisited(t)
  BY Zenon DEF Abstract!Unvisited, Unvisited
<1>4. \A t : Abstract!Columns(t) = Columns(t)
  BY <1>2, <1>3, Zenon DEF Abstract!Columns, Columns
<1>5. \A rows : Abstract!NewId(rows) = NewId(rows)
  BY Zenon DEF Abstract!NewId, NewId, Abstract!Max, Max
<1> QED
  BY <1>1, <1>2, <1>3, <1>4, <1>5

\* They also mean the same by a violation and by a cascade.
LEMMA SameConstraints ==
    /\ \A d : Abstract!Violation(d) = Violation(d)
    /\ \A d : Abstract!Cascaded(d) = Cascaded(d)
<1>1. \A d, t : Abstract!Incomplete(d, t) = Incomplete(d, t)
  BY Zenon DEF Abstract!Incomplete, Incomplete, Abstract!Nullable, Nullable
<1>2. \A t : Abstract!Unique(t) = Unique(t)
  BY Zenon DEF Abstract!Unique, Unique
<1>3. \A d, t : Abstract!Duplicates(d, t) = Duplicates(d, t)
  BY <1>2, Zenon DEF Abstract!Duplicates, Duplicates, Abstract!Agree, Agree
<1>4. \A t : Abstract!ForeignKeys(t) = ForeignKeys(t)
  BY Zenon DEF Abstract!ForeignKeys, ForeignKeys
<1>5. \A d, t : Abstract!Dangling(d, t) = Dangling(d, t)
  BY <1>4, Zenon DEF Abstract!Dangling, Dangling
<1> QED
  BY <1>1, <1>3, <1>5, Zenon DEF Abstract!Violation, Violation, Abstract!Cascaded, Cascaded

----------------------------------------------------------------------------
(***************************************************************************)
(* Values: what binding and loading make of them is what is promised.      *)
(***************************************************************************)

\* A text that was cut off at its first NUL, and nowhere else.
CutOff(value, t) ==
    /\ \A i \in 1 .. Len(t) : t[i] # NUL
    /\ t = value \/ value[Len(t) + 1] = NUL

\* The text that is stored is the one up to the first NUL.
LEMMA CutAt ==
    ASSUME NEW value \in Seq(STRING), NEW n \in 0 .. Len(value),
           \A i \in 1 .. n : value[i] # NUL, n = Len(value) \/ value[n + 1] = NUL
    PROVE  Abstract!Text(value) = SubSeq(value, 1, n)
<1> DEFINE Beginnings == {SubSeq(value, 1, m) : m \in 0 .. Len(value)}
           cut == SubSeq(value, 1, n)
<1>1. \A m \in 0 .. Len(value) :
         /\ Len(SubSeq(value, 1, m)) = m
         /\ \A i \in 1 .. m : SubSeq(value, 1, m)[i] = value[i]
         /\ SubSeq(value, 1, m) = value => m = Len(value)
         /\ m = Len(value) => SubSeq(value, 1, m) = value
  OBVIOUS
<1>2. cut \in Beginnings /\ CutOff(value, cut)
  BY <1>1 DEF CutOff
<1>3. ASSUME NEW t \in Beginnings, CutOff(value, t)
      PROVE  t = cut
  <2>1. PICK m \in 0 .. Len(value) : t = SubSeq(value, 1, m)
    OBVIOUS
  <2>2. Len(t) = m /\ \A i \in 1 .. m : t[i] = value[i]
    BY <1>1, <2>1
  <2>3. \A i \in 1 .. m : value[i] # NUL
    BY <1>3, <2>2 DEF CutOff
  <2>4. m = Len(value) \/ value[m + 1] = NUL
    BY <1>1, <1>3, <2>1, <2>2 DEF CutOff
  <2>5. ~(m < n)
    <3> SUFFICES ASSUME m < n PROVE FALSE
      OBVIOUS
    <3>1. m + 1 \in 1 .. n /\ m # Len(value)
      OBVIOUS
    <3> QED
      BY <2>4, <3>1
  <2>6. ~(n < m)
    <3> SUFFICES ASSUME n < m PROVE FALSE
      OBVIOUS
    <3>1. n + 1 \in 1 .. m /\ n # Len(value)
      OBVIOUS
    <3> QED
      BY <2>3, <3>1
  <2> QED
    BY <2>1, <2>5, <2>6
<1>4. Abstract!Text(value) = CHOOSE t \in Beginnings : CutOff(value, t)
  BY SameSchema, Zenon DEF Abstract!Text, CutOff
<1> HIDE DEF Beginnings, cut
<1>5. (CHOOSE t \in Beginnings : CutOff(value, t)) = cut
  BY <1>2, <1>3
<1> QED
  BY <1>4, <1>5 DEF cut

\* sqlite3_bind_text with length -1 (stmt.cc:97) stores that text.
LEMMA BoundText ==
    ASSUME NEW column \in Texts, NEW value \in Seq(STRING)
    PROVE  /\ BindValue(column, value) \in Seq(STRING)
           /\ BindValue(column, value) = Abstract!Text(value)
<1> DEFINE I == {i \in 1 .. Len(value) : value[i] = NUL}
<1>1. ToSet(value) = {value[i] : i \in 1 .. Len(value)}
  BY DEF ToSet
<1>2. CASE I = {}
  <2>1. NUL \notin ToSet(value)
    BY <1>1, <1>2
  <2>2. BindValue(column, value) = value
    BY <2>1 DEF BindValue
  <2>3. Abstract!Text(value) = SubSeq(value, 1, Len(value))
    <3>1. \A i \in 1 .. Len(value) : value[i] # NUL
      BY <1>2
    <3> QED
      BY <3>1, CutAt
  <2>4. SubSeq(value, 1, Len(value)) = value
    OBVIOUS
  <2> QED
    BY <2>2, <2>3, <2>4
<1>3. CASE I # {}
  <2>1. PICK n \in I : \A m \in I : n <= m
    <3>1. I \in SUBSET Nat
      OBVIOUS
    <3> HIDE DEF I
    <3> QED
      BY <1>3, <3>1, LeastElement
  <2>2. Min(I) = n
    <3>1. Min(I) \in I /\ \A m \in I : Min(I) <= m
      <4> HIDE DEF I
      <4> QED
        BY <2>1, Zenon DEF Min
    <3> QED
      BY <2>1, <3>1
  <2>3. SelectInSeq(value, LAMBDA ch : ch = NUL) = n
    BY <1>3, <2>2 DEF SelectInSeq
  <2>4. NUL \in ToSet(value)
    BY <1>1, <1>3
  <2>5. BindValue(column, value) = SubSeq(value, 1, n - 1)
    BY <2>3, <2>4 DEF BindValue
  <2>6. n - 1 \in 0 .. Len(value) /\ (n - 1) + 1 = n /\ value[n] = NUL
        /\ \A i \in 1 .. n - 1 : value[i] # NUL
    BY <2>1
  <2>7. Abstract!Text(value) = SubSeq(value, 1, n - 1)
    BY <2>6, CutAt
  <2>8. SubSeq(value, 1, n - 1) \in Seq(STRING)
    BY <2>6
  <2> QED
    BY <2>5, <2>7, <2>8
<1> QED
  BY <1>2, <1>3

\* What is bound for a value that a request may hold: not NULL unless it was,
\* and never Unbound.
LEMMA BoundValue ==
    ASSUME NEW column, NEW value, Typed(value, column), value # Unbound,
           value = Null => column \notin Texts
    PROVE  /\ BindValue(column, value) = Abstract!Stored(column, value)
           /\ Typed(BindValue(column, value), column)
           /\ BindValue(column, value) # Unbound
           /\ BindValue(column, value) = Null => value = Null
<1>1. CASE column \in Texts
  <2>1. value \in Seq(STRING) /\ value # Null
    BY <1>1 DEF Typed
  <2>2. BindValue(column, value) \in Seq(STRING) /\ BindValue(column, value) = Abstract!Text(value)
    BY <1>1, <2>1, BoundText
  <2>3. column \notin Blobs
    BY <1>1 DEF Texts, Blobs
  <2> QED
    BY <1>1, <2>1, <2>2, <2>3, ValuesAssumption, SameSchema DEF Abstract!Stored, Typed
<1>2. CASE column \notin Texts
  BY <1>2, SameSchema DEF BindValue, Abstract!Stored
<1> QED
  BY <1>1, <1>2

\* GetColumnValue of a blob (stmt.hh:119) returns one of the size that was
\* asked for, cut or padded.
LEMMA FittedIsSized ==
    ASSUME NEW blob \in Seq(Nat)
    PROVE  FittedBlob(blob) = Abstract!Sized(blob) /\ Len(FittedBlob(blob)) = BlobSize
<1>1. BlobSize \in Nat
  BY SizesAssumption
<1> DEFINE sized == [i \in 1 .. BlobSize |-> IF i > Len(blob) THEN 0 ELSE blob[i]]
<1>2. sized \in Seq(Nat) /\ Len(sized) = BlobSize
  BY <1>1
<1>3. \A i \in 1 .. BlobSize : sized[i] = IF i > Len(blob) THEN 0 ELSE blob[i]
  OBVIOUS
<1> HIDE DEF sized
<1>4. FittedBlob(blob) \in Seq(Nat) /\ Len(FittedBlob(blob)) = BlobSize
      /\ \A i \in 1 .. BlobSize : FittedBlob(blob)[i] = IF i > Len(blob) THEN 0 ELSE blob[i]
  <2>1. CASE Len(blob) >= BlobSize
    <3>1. FittedBlob(blob) = SubSeq(blob, 1, BlobSize)
      BY <2>1 DEF FittedBlob
    <3>2. SubSeq(blob, 1, BlobSize) \in Seq(Nat) /\ Len(SubSeq(blob, 1, BlobSize)) = BlobSize
          /\ \A i \in 1 .. BlobSize : SubSeq(blob, 1, BlobSize)[i] = blob[i]
      BY <1>1, <2>1
    <3>3. \A i \in 1 .. BlobSize : ~(i > Len(blob))
      BY <1>1, <2>1
    <3> QED
      BY <3>1, <3>2, <3>3
  <2>2. CASE ~(Len(blob) >= BlobSize)
    <3> DEFINE zeroes == [i \in 1 .. BlobSize - Len(blob) |-> 0]
    <3>1. FittedBlob(blob) = blob \o zeroes
      BY <2>2 DEF FittedBlob
    <3>2. zeroes \in Seq(Nat) /\ Len(zeroes) = BlobSize - Len(blob)
          /\ \A i \in 1 .. BlobSize - Len(blob) : zeroes[i] = 0
      BY <1>1, <2>2
    <3> HIDE DEF zeroes
    <3>3. blob \o zeroes \in Seq(Nat) /\ Len(blob \o zeroes) = BlobSize
      BY <1>1, <3>2
    <3>4. ASSUME NEW i \in 1 .. BlobSize
          PROVE  (blob \o zeroes)[i] = IF i > Len(blob) THEN 0 ELSE blob[i]
      <4>1. CASE i > Len(blob)
        <5>1. i - Len(blob) \in 1 .. BlobSize - Len(blob)
          BY <1>1, <4>1
        <5>2. (blob \o zeroes)[i] = zeroes[i - Len(blob)]
          BY <1>1, <3>2, <4>1
        <5> QED
          BY <3>2, <4>1, <5>1, <5>2
      <4>2. CASE ~(i > Len(blob))
        <5>1. (blob \o zeroes)[i] = blob[i]
          BY <1>1, <3>2, <4>2
        <5> QED
          BY <4>2, <5>1
      <4> QED
        BY <4>1, <4>2
    <3> QED
      BY <3>1, <3>3, <3>4
  <2> QED
    BY <2>1, <2>2
<1>5. FittedBlob(blob) = sized
  BY <1>2, <1>3, <1>4, SeqEqual
<1>6. sized = Abstract!Sized(blob)
  BY DEF sized, Abstract!Sized
<1> QED
  BY <1>4, <1>5, <1>6

----------------------------------------------------------------------------
(***************************************************************************)
(* The schema.                                                             *)
(***************************************************************************)

\* Every entity has an id, and none has the one text that may be NULL.
LEMMA EntityProperties ==
    \A t \in Entities : /\ t \in Tables /\ t # "Config"
                         /\ "Id" \in PropertiesOf(t) /\ "Value" \notin PropertiesOf(t)
<1> DEFINE All == {"Posts", "PostFiles", "PostTags", "PostTypes", "Sites", "Tags",
                   "TagImplications", "TagTypes"}
<1>1. Tables = All \cup {"Config"} /\ Entities = All
  BY DEF Tables, Properties, Entities
<1>2. \A t \in All : 1 \in DOMAIN Properties[t] /\ Properties[t][1] = "Id"
  BY DEF Properties, PostProperties, PostFileProperties, PostTagProperties, PostTypeProperties,
         SiteProperties, TagProperties, TagImplicationProperties, TagTypeProperties
<1>3. \A t \in All : \A i \in DOMAIN Properties[t] : Properties[t][i] # "Value"
  BY DEF Properties, PostProperties, PostFileProperties, PostTagProperties, PostTypeProperties,
         SiteProperties, TagProperties, TagImplicationProperties, TagTypeProperties
<1>4. \A t : PropertiesOf(t) = {Properties[t][i] : i \in DOMAIN Properties[t]}
  BY Zenon DEF PropertiesOf, ToSet
<1>5. \A t \in All : "Id" \in PropertiesOf(t)
  <2> HIDE DEF All
  <2> QED
    BY <1>2, <1>4
<1>6. \A t \in All : "Value" \notin PropertiesOf(t)
  <2> HIDE DEF All
  <2> QED
    BY <1>3, <1>4
<1> QED
  BY <1>1, <1>5, <1>6

\* Config is a name and a value.
LEMMA ConfigColumns ==
    /\ "Config" \in Tables /\ PropertiesOf("Config") = {"Name", "Value"}
    /\ Columns("Config") = {"Name", "Value"}
<1>1. Properties["Config"] = <<"Name", "Value">> /\ "Config" \in Tables
  BY DEF Properties, Tables
<1>2. PropertiesOf("Config") = {"Name", "Value"}
  <2>1. PropertiesOf("Config") = {Properties["Config"][i] : i \in DOMAIN Properties["Config"]}
    BY Zenon DEF PropertiesOf, ToSet
  <2> QED
    BY <1>1, <2>1
<1>3. DOMAIN Unvisited("Config") = {}
  BY DEF Unvisited
<1> QED
  BY <1>1, <1>2, <1>3 DEF Columns

\* The tables that the lists of booru.cc read are tables of entities.
LEMMA SomeEntities ==
    {"Tags", "Posts", "PostTags"} \subseteq Entities
BY DEF Entities, Tables, Properties

\* What an INSERT leaves out fits its column.
LEMMA UnvisitedTyped ==
    \A t : \A c \in DOMAIN Unvisited(t) : Unvisited(t)[c] = Null \/ Typed(Unvisited(t)[c], c)
<1> SUFFICES ASSUME NEW t, NEW c \in DOMAIN Unvisited(t)
             PROVE  Unvisited(t)[c] = Null \/ Typed(Unvisited(t)[c], c)
  OBVIOUS
<1>1. CASE t = "Posts"
  <2>1. Unvisited(t) = [UpdatedTime |-> 0, OriginalFilename |-> <<>>]
    BY <1>1 DEF Unvisited
  <2>2. c \in {"UpdatedTime", "OriginalFilename"}
    BY <2>1
  <2>3. c = "OriginalFilename" => Unvisited(t)[c] = <<>>
    BY <2>1
  <2>4. <<>> \in Seq(STRING)
    OBVIOUS
  <2> QED
    BY <2>2, <2>3, <2>4 DEF Typed, Texts, Blobs
<1>2. CASE t = "PostFiles"
  <2>1. Unvisited(t) = [Path |-> Null]
    BY <1>2 DEF Unvisited
  <2> QED
    BY <2>1
<1>3. CASE t # "Posts" /\ t # "PostFiles"
  <2>1. Unvisited(t) = [x \in {} |-> Null]
    BY <1>3 DEF Unvisited
  <2> QED
    BY <2>1
<1> QED
  BY <1>1, <1>2, <1>3

\* The constraints are those that Violation tells.
LEMMA NoViolation ==
    ASSUME NEW d, Violation(d) = "OK", NEW t \in DOMAIN d
    PROVE  Incomplete(d, t) = {} /\ Duplicates(d, t) = {}
BY DEF Violation

\* SQLite's new id is above all ids in use, so it names no row.
LEMMA NewIdIsNew ==
    ASSUME NEW rows, NEW n \in Nat, \A row \in rows : row.Id \in Nat \ {0} /\ row.Id <= n
    PROVE  NewId(rows) \in Nat \ {0} /\ \A row \in rows : row.Id < NewId(rows)
<1>1. CASE rows = {}
  BY <1>1 DEF NewId
<1>2. CASE rows # {}
  <2> DEFINE ids == {r.Id : r \in rows}
  <2>1. ids \in SUBSET (1 .. n) /\ ids # {}
    BY <1>2
  <2>2. \A row \in rows : row.Id \in ids
    OBVIOUS
  <2>3. NewId(rows) = 1 + Max(ids)
    BY <1>2, Zenon DEF NewId
  <2> HIDE DEF ids
  <2>4. Max(ids) \in ids /\ \A m \in ids : m <= Max(ids)
    BY <2>1, MaxInside DEF Largest
  <2>5. Max(ids) \in 1 .. n
    BY <2>1, <2>4
  <2>6. \A row \in rows : row.Id <= Max(ids)
    BY <2>2, <2>4
  <2> HIDE DEF Max
  <2> QED
    BY <2>3, <2>5, <2>6
<1> QED
  BY <1>1, <1>2

----------------------------------------------------------------------------
(***************************************************************************)
(* Queries and their parameters.                                           *)
(***************************************************************************)

\* The fields of a query.
IsQuery(q, kind, table, columns, keys, within) ==
    q.kind = kind /\ q.table = table /\ q.columns = columns /\ q.keys = keys /\ q.within = within

\* Query makes the query it says.
LEMMA QueryFields ==
    ASSUME NEW kind, NEW table, NEW columns, NEW keys
    PROVE  IsQuery(Query(kind, table, columns, keys), kind, table, columns, keys, {})
BY DEF IsQuery, Query

WithTag(key) == {[table |-> "PostTags", column |-> "TagId", key |-> key]}

\* The queries that the calls of entity.hh and booru.cc build.
LEMMA Queries ==
    ASSUME NEW r
    PROVE  LET q == QueryOf(r) IN
           /\ r.call = "Create" => IsQuery(q, "INSERT", r.table, PropertiesOf(r.table) \ {"Id"}, {}, {})
           /\ r.call = "Update" =>
                IsQuery(q, "UPDATE", r.table, PropertiesOf(r.table) \ {"Id"}, {"Id"}, {})
           /\ r.call = "Delete" => IsQuery(q, "DELETE", r.table, {}, {"Id"}, {})
           /\ r.call = "SetConfig" => IsQuery(q, "REPLACE", "Config", {"Value", "Name"}, {}, {})
           /\ r.call = "GetTagsForPost" => IsQuery(q, "SELECT", "Tags", {}, {}, WithTag("PostId"))
           /\ r.call = "GetPostsForTag" => IsQuery(q, "SELECT", "Posts", {}, {}, WithTag("TagId"))
           /\ r.call \in {"Get", "GetAll", "GetConfig"}
                => IsQuery(q, "SELECT", r.table, {}, DOMAIN r.given, {})
<1>1. CASE r.call = "Create"
  BY <1>1, QueryFields DEF QueryOf, InsertEntity, NonPrimaryKeyColumns
<1>2. CASE r.call = "Update"
  BY <1>2, QueryFields DEF QueryOf, UpdateEntity, NonPrimaryKeyColumns
<1>3. CASE r.call = "Delete"
  BY <1>3, QueryFields DEF QueryOf
<1>4. CASE r.call = "SetConfig"
  BY <1>4, QueryFields DEF QueryOf, UpsertConfig
<1>5. CASE r.call = "GetTagsForPost"
  BY <1>5 DEF QueryOf, TagQuery, Query, Within, WithTag, IsQuery
<1>6. CASE r.call = "GetPostsForTag"
  BY <1>6 DEF QueryOf, PostQuery, Query, Within, WithTag, IsQuery
<1>7. CASE r.call \in {"Get", "GetAll", "GetConfig"}
  BY <1>7, QueryFields DEF QueryOf, SelectWithKeys
<1> QED
  BY <1>1, <1>2, <1>3, <1>4, <1>5, <1>6, <1>7

\* A query has a parameter for each column it sets and each key.
LEMMA ItsParameters ==
    ASSUME NEW q, NEW kind, NEW table, NEW columns, NEW keys,
           IsQuery(q, kind, table, columns, keys, {})
    PROVE  Parameters(q) = columns \cup keys
BY DEF IsQuery, Parameters

\* The query of a list has the parameter of its subquery.
LEMMA ItsParametersWithin ==
    ASSUME NEW q, NEW kind, NEW table, NEW key,
           IsQuery(q, kind, table, {}, {}, WithTag(key))
    PROVE  Parameters(q) = {key}
<1>1. q.columns = {} /\ q.keys = {} /\ q.within = WithTag(key)
  BY DEF IsQuery
<1>2. \A sub \in WithTag(key) : sub.key = key
  BY DEF WithTag
<1>3. WithTag(key) # {}
  BY DEF WithTag
<1>4. {sub.key : sub \in WithTag(key)} = {key}
  BY <1>2, <1>3
<1> QED
  BY <1>1, <1>4 DEF Parameters

Calls == {"Create", "Update", "Delete", "Get", "GetAll", "SetConfig", "GetConfig",
          "GetTagsForPost", "GetPostsForTag"}

\* Every parameter of a query is a column that its call was given.
LEMMA ParametersAreGiven ==
    ASSUME NEW r \in Requests
    PROVE  \A p \in Parameters(QueryOf(r)) :
              p \in DOMAIN r.given /\ p \in DOMAIN Bindings(r) /\ Bindings(r)[p] = r.given[p]
<1> DEFINE ps == Parameters(QueryOf(r))
<1>1. r.call # "Delete" => Bindings(r) = r.given
  BY DEF Bindings
<1>2. CASE r.call \in {"Create", "Update", "Delete"}
  <2>1. r.table \in Entities /\ DOMAIN r.given = PropertiesOf(r.table)
    BY <1>2, RequestsAssumption
  <2>2. "Id" \in DOMAIN r.given
    BY <2>1, EntityProperties
  <2>3. CASE r.call = "Create"
    <3>1. ps = PropertiesOf(r.table) \ {"Id"}
      <4>1. IsQuery(QueryOf(r), "INSERT", r.table, PropertiesOf(r.table) \ {"Id"}, {}, {})
        BY <2>3, Queries
      <4> QED
        BY <4>1, ItsParameters
    <3> QED
      BY <1>1, <2>1, <2>3, <3>1
  <2>4. CASE r.call = "Update"
    <3>1. ps = (PropertiesOf(r.table) \ {"Id"}) \cup {"Id"}
      <4>1. IsQuery(QueryOf(r), "UPDATE", r.table, PropertiesOf(r.table) \ {"Id"}, {"Id"}, {})
        BY <2>4, Queries
      <4> QED
        BY <4>1, ItsParameters
    <3> QED
      BY <1>1, <2>1, <2>2, <2>4, <3>1
  <2>5. CASE r.call = "Delete"
    <3>1. ps = {"Id"}
      <4>1. IsQuery(QueryOf(r), "DELETE", r.table, {}, {"Id"}, {})
        BY <2>5, Queries
      <4> QED
        BY <4>1, ItsParameters
    <3>2. Bindings(r) = [Id |-> r.given.Id]
      BY <2>5 DEF Bindings
    <3> QED
      BY <2>2, <3>1, <3>2
  <2> QED
    BY <1>2, <2>3, <2>4, <2>5
<1>3. CASE r.call \in {"Get", "GetAll", "GetConfig"}
  <2>1. ps = DOMAIN r.given
    <3>1. IsQuery(QueryOf(r), "SELECT", r.table, {}, DOMAIN r.given, {})
      BY <1>3, Queries
    <3> QED
      BY <3>1, ItsParameters
  <2> QED
    BY <1>1, <1>3, <2>1
<1>4. CASE r.call = "SetConfig"
  <2>1. ps = {"Value", "Name"}
    <3>1. IsQuery(QueryOf(r), "REPLACE", "Config", {"Value", "Name"}, {}, {})
      BY <1>4, Queries
    <3> QED
      BY <3>1, ItsParameters
  <2>2. DOMAIN r.given = {"Name", "Value"}
    BY <1>4, RequestsAssumption
  <2> QED
    BY <1>1, <1>4, <2>1, <2>2
<1>5. CASE r.call = "GetTagsForPost"
  <2>1. ps = {"PostId"}
    BY <1>5, Queries, ItsParametersWithin
  <2>2. DOMAIN r.given = {"PostId"}
    BY <1>5, RequestsAssumption
  <2> QED
    BY <1>1, <1>5, <2>1, <2>2
<1>6. CASE r.call = "GetPostsForTag"
  <2>1. ps = {"TagId"}
    BY <1>6, Queries, ItsParametersWithin
  <2>2. DOMAIN r.given = {"TagId"}
    BY <1>6, RequestsAssumption
  <2> QED
    BY <1>1, <1>6, <2>1, <2>2
<1>7. r.call \in Calls
  BY RequestsAssumption DEF Calls
<1> QED
  BY <1>2, <1>3, <1>4, <1>5, <1>6, <1>7 DEF Calls

\* What is bound is what is promised to be stored and looked for.
BoundTo(r) == Bound(QueryOf(r), Bindings(r))

\* Every parameter of a query is bound to what the call was given under that
\* name, as SQLite stores it, and only optionals are NULL.
LEMMA WhatIsBound ==
    ASSUME NEW r \in Requests
    PROVE  /\ DOMAIN BoundTo(r) = Parameters(QueryOf(r))
           /\ \A p \in Parameters(QueryOf(r)) :
                 /\ p \in DOMAIN r.given
                 /\ BoundTo(r)[p] = Abstract!Stored(p, r.given[p])
                 /\ BoundTo(r)[p] # Unbound /\ Sql(BoundTo(r)[p]) = BoundTo(r)[p]
                 /\ Typed(BoundTo(r)[p], p)
                 /\ BoundTo(r)[p] = Null => r.given[p] = Null
<1>1. DOMAIN BoundTo(r) = Parameters(QueryOf(r))
  BY DEF BoundTo, Bound
<1>2. ASSUME NEW p \in Parameters(QueryOf(r))
      PROVE  /\ p \in DOMAIN r.given
             /\ BoundTo(r)[p] = Abstract!Stored(p, r.given[p])
             /\ BoundTo(r)[p] # Unbound /\ Sql(BoundTo(r)[p]) = BoundTo(r)[p]
             /\ Typed(BoundTo(r)[p], p)
             /\ BoundTo(r)[p] = Null => r.given[p] = Null
  <2>1. p \in DOMAIN r.given /\ p \in DOMAIN Bindings(r) /\ Bindings(r)[p] = r.given[p]
    BY <1>2, ParametersAreGiven
  <2>2. BoundTo(r)[p] = BindValue(p, r.given[p])
    BY <1>2, <2>1 DEF BoundTo, Bound
  <2>3. r.given[p] # Unbound /\ Typed(r.given[p], p) /\ (r.given[p] = Null => p \notin Texts)
    BY <2>1, RequestsAssumption
  <2>4. /\ BindValue(p, r.given[p]) = Abstract!Stored(p, r.given[p])
        /\ Typed(BindValue(p, r.given[p]), p)
        /\ BindValue(p, r.given[p]) # Unbound
        /\ BindValue(p, r.given[p]) = Null => r.given[p] = Null
    BY <2>3, BoundValue
  <2> QED
    BY <2>1, <2>2, <2>4 DEF Sql
<1> QED
  BY <1>1, <1>2

----------------------------------------------------------------------------
(***************************************************************************)
(* The inductive invariant: the tables are in order, and a statement is    *)
(* what its request makes it; one that is being stepped through has loaded *)
(* or left all of its rows.                                                *)
(***************************************************************************)

Bounded(rows) == \E n \in Nat : \A row \in rows : row.Id <= n

WellKept(d) ==
    /\ DOMAIN d = Tables
    /\ \A t \in Tables : WellFormedRows(d[t], t)
    /\ \A t \in Entities : Bounded(d[t])
    /\ Violation(d) = "OK"

Lists == {"GetAll", "GetTagsForPost", "GetPostsForTag"}

AllLoaded(table, rows) == {LoadEntity(table, row) : row \in rows}

\* A statement of a request, where these are the rows that it selects.
StatementOf(s, r, rows) ==
    /\ DOMAIN s = {"state", "bound", "left", "values"}
    /\ s.state \in {"none", "bound", "rows"}
    /\ s.state = "none" => s = NoStatement
    /\ s.state # "none" => r \in Requests /\ ~InvalidArgument(r) /\ s.bound = BoundTo(r)
    /\ s.state = "bound" => s.values = {}
    /\ s.state = "rows" =>
          /\ r.call \in Lists /\ s.left \subseteq rows
          /\ AllLoaded(r.table, s.left) \cup s.values = AllLoaded(r.table, rows)

AnswerTyped(a) == a.code \in ResultCode \cup {"none"} /\ (a.code \in Errors => a.entities = {})

RequestsInv == request \in [Callers -> Requests \cup {NoRequest}]

AnswersInv == DOMAIN answer = Callers /\ \A c \in Callers : AnswerTyped(answer[c])

RowsOf(c) == Selected(QueryOf(request[c]), statement[c].bound)

StatementsInv ==
    /\ DOMAIN statement = Callers
    /\ \A c \in Callers : StatementOf(statement[c], request[c], RowsOf(c))

Inv == WellKept(db) /\ RequestsInv /\ AnswersInv /\ StatementsInv

----------------------------------------------------------------------------
\* Every row of an entity's table loads, as what is promised.
LEMMA LoadingARow ==
    ASSUME NEW d, WellKept(d), NEW t \in Entities, NEW row \in d[t]
    PROVE  /\ Loads(t, row) /\ LoadEntity(t, row) = Abstract!EntityOf(t, row)
           /\ DOMAIN LoadEntity(t, row) = PropertiesOf(t)
           /\ "MD5Sum" \in PropertiesOf(t) => Len(LoadEntity(t, row)["MD5Sum"]) = BlobSize
<1>1. t \in Tables /\ "Value" \notin PropertiesOf(t) /\ DOMAIN d = Tables
  BY EntityProperties DEF WellKept
<1>2. DOMAIN row = Columns(t) /\ \A c \in Columns(t) : row[c] = Null \/ Typed(row[c], c)
  BY <1>1 DEF WellKept, WellFormedRows
<1>3. PropertiesOf(t) \subseteq Columns(t)
  BY DEF Columns
<1>4. \A c \in Columns(t) \ Nullable : row[c] # Null
  <2>1. Incomplete(d, t) = {}
    BY <1>1, NoViolation DEF WellKept
  <2> QED
    BY <1>2, <2>1 DEF Incomplete
<1>5. Loads(t, row)
  BY <1>2, <1>3, <1>4 DEF Loads
<1>6. ASSUME NEW c \in PropertiesOf(t)
      PROVE  /\ GetColumnValue(c, row[c]) = Abstract!Loaded(c, row[c])
             /\ c \in Blobs => Len(GetColumnValue(c, row[c])) = BlobSize
  <2>1. CASE c \in Blobs
    <3>1. c \notin Nullable
      BY <2>1 DEF Blobs, Nullable
    <3>2. row[c] \in Seq(Nat)
      BY <1>2, <1>3, <1>4, <2>1, <3>1 DEF Typed
    <3>3. FittedBlob(row[c]) = Abstract!Sized(row[c]) /\ Len(FittedBlob(row[c])) = BlobSize
      BY <3>2, FittedIsSized
    <3> QED
      BY <2>1, <3>3, SameSchema DEF GetColumnValue, Abstract!Loaded
  <2>2. CASE c \in Texts
    <3>1. c \notin Blobs /\ (c \in Nullable => c = "Value")
      BY <2>2 DEF Texts, Blobs, Nullable
    <3>2. row[c] # Null /\ row[c] \in Seq(STRING)
      BY <1>1, <1>2, <1>3, <1>4, <2>2, <3>1 DEF Typed
    <3>3. BindValue(c, row[c]) = Abstract!Text(row[c])
      BY <2>2, <3>2, BoundText
    <3> QED
      BY <2>2, <3>1, <3>2, <3>3, SameSchema DEF GetColumnValue, Abstract!Loaded, Abstract!Stored
  <2>3. CASE c \notin Blobs /\ c \notin Texts
    BY <2>3, SameSchema DEF GetColumnValue, BindValue, Abstract!Loaded, Abstract!Stored
  <2> QED
    BY <2>1, <2>2, <2>3
<1>7. LoadEntity(t, row) = [p \in PropertiesOf(t) |-> GetColumnValue(p, row[p])]
  BY DEF LoadEntity
<1>8. Abstract!EntityOf(t, row) = [p \in PropertiesOf(t) |-> Abstract!Loaded(p, row[p])]
  BY SameSchema DEF Abstract!EntityOf
<1>9. "MD5Sum" \in PropertiesOf(t) => Len(LoadEntity(t, row)["MD5Sum"]) = BlobSize
  BY <1>6, <1>7 DEF Blobs
<1> QED
  BY <1>5, <1>6, <1>7, <1>8, <1>9

\* A request is about a table that its query names, and only getters select.
LEMMA RequestTables ==
    ASSUME NEW r \in Requests
    PROVE  /\ r # NoRequest /\ r.call \in Calls /\ r.table \in Tables
           /\ r.call \notin {"SetConfig", "GetConfig"} => r.table \in Entities
           /\ QueryOf(r).table = r.table
           /\ QueryOf(r).kind = "SELECT" <=> r.call \in Lists \cup {"Get", "GetConfig"}
<1>1. r.call \in Calls /\ r.table \in Tables
  BY RequestsAssumption, EntityProperties, SomeEntities, ConfigColumns DEF Calls
<1>2. r.call \notin {"SetConfig", "GetConfig"} => r.table \in Entities
  BY RequestsAssumption, SomeEntities
<1>3. r # NoRequest
  BY <1>1 DEF NoRequest, Calls
<1>4. r.call \in {"SetConfig", "GetConfig"} => r.table = "Config"
  BY RequestsAssumption
<1>5. /\ r.call = "GetTagsForPost" => r.table = "Tags"
      /\ r.call = "GetPostsForTag" => r.table = "Posts"
  BY RequestsAssumption
<1>6. QueryOf(r).table = r.table
  BY <1>1, <1>4, <1>5, Queries DEF Calls, IsQuery
<1>7. QueryOf(r).kind = "SELECT" <=> r.call \in Lists \cup {"Get", "GetConfig"}
  BY <1>1, Queries DEF Calls, Lists, IsQuery
<1> QED
  BY <1>1, <1>2, <1>3, <1>6, <1>7

\* The invariant has the properties that the run checks.
LEMMA InvIsType ==
    ASSUME Inv
    PROVE  TypeOK /\ ParametersAreBound
<1>1. \A t \in Tables : \A row \in db[t] : DOMAIN row = Columns(t)
  BY DEF Inv, WellKept, WellFormedRows
<1>2. request \in [Callers -> Requests \cup {NoRequest}]
  BY DEF Inv, RequestsInv
<1>3. ASSUME NEW c \in Callers
      PROVE  /\ answer[c].code \in ResultCode \cup {"none"}
             /\ answer[c].code \in Errors => answer[c].entities = {}
             /\ statement[c].state \in {"none", "bound", "rows"}
             /\ statement[c].state # "none" => request[c] # NoRequest
             /\ \A e \in statement[c].values : "MD5Sum" \in DOMAIN e => Len(e.MD5Sum) = BlobSize
             /\ \A p \in DOMAIN statement[c].bound : statement[c].bound[p] # Unbound
  <2> DEFINE s == statement[c]
             r == request[c]
  <2>1. AnswerTyped(answer[c]) /\ StatementOf(s, r, RowsOf(c))
    BY DEF Inv, AnswersInv, StatementsInv
  <2>2. s.state # "none" => r \in Requests
    BY <2>1 DEF StatementOf
  <2>3. s.state # "none" => r # NoRequest
    BY <2>2, RequestTables
  <2>4. ASSUME NEW e \in s.values, "MD5Sum" \in DOMAIN e
        PROVE  Len(e["MD5Sum"]) = BlobSize
    <3>1. s.state = "rows"
      BY <2>1, <2>4 DEF StatementOf, NoStatement
    <3>2. r \in Requests /\ r.call \in Lists /\ e \in AllLoaded(r.table, RowsOf(c))
      BY <2>1, <2>4, <3>1 DEF StatementOf
    <3>3. PICK row \in RowsOf(c) : e = LoadEntity(r.table, row)
      BY <3>2 DEF AllLoaded
    <3>4. r.table \in Entities /\ QueryOf(r).table = r.table
      BY <3>2, RequestTables DEF Lists
    <3>5. row \in db[r.table]
      BY <3>3, <3>4 DEF RowsOf, Selected
    <3> QED
      BY <2>4, <3>3, <3>4, <3>5, LoadingARow DEF Inv
  <2>5. ASSUME NEW p \in DOMAIN s.bound
        PROVE  s.bound[p] # Unbound
    <3>1. CASE s.state = "none"
      BY <2>1, <2>5, <3>1 DEF StatementOf, NoStatement
    <3>2. CASE s.state # "none"
      <4>1. r \in Requests /\ s.bound = BoundTo(r)
        BY <2>1, <3>2 DEF StatementOf
      <4> QED
        BY <2>5, <4>1, WhatIsBound
    <3> QED
      BY <3>1, <3>2
  <2> QED
    BY <2>1, <2>3, <2>4, <2>5 DEF AnswerTyped, StatementOf
<1> QED
  BY <1>1, <1>2, <1>3 DEF TypeOK, ParametersAreBound

\* The invariant holds at first, in every database.
LEMMA InvInit ==
    ASSUME Init
    PROVE  Inv
<1>1. WellKept(db)
  <2>1. DOMAIN db = Tables /\ Violation(db) = "OK"
        /\ \A t \in Tables : IsFiniteSet(db[t]) /\ WellFormedRows(db[t], t)
    BY DatabasesAssumption DEF Init
  <2>2. ASSUME NEW t \in Entities
        PROVE  Bounded(db[t])
    <3> DEFINE ids == {row.Id : row \in db[t]}
    <3>1. t \in Tables /\ t # "Config"
      BY EntityProperties
    <3>2. IsFiniteSet(db[t]) /\ \A row \in db[t] : row.Id \in Nat
      BY <2>1, <3>1 DEF WellFormedRows
    <3>3. ids \in SUBSET Nat
      BY <3>2
    <3>4. IsFiniteSet(ids)
      <4> DEFINE f == [row \in db[t] |-> row.Id]
      <4>1. f \in Surjection(db[t], ids)
        BY DEF Surjection
      <4> HIDE DEF f, ids
      <4> QED
        BY <3>2, <4>1, FS_Surjection
    <3>5. PICK n \in Nat : \A m \in ids : m <= n
      <4> HIDE DEF ids
      <4> QED
        BY <3>3, <3>4, FiniteIsBounded
    <3> QED
      BY <3>5 DEF Bounded
  <2> QED
    BY <2>1, <2>2 DEF WellKept
<1>2. RequestsInv
  BY DEF Init, RequestsInv
<1>3. AnswersInv
  <2>1. "none" \notin Errors
    BY DEF Errors
  <2> QED
    BY <2>1 DEF Init, AnswersInv, AnswerTyped, Answered
<1>4. StatementsInv
  <2>1. \A r, rows : StatementOf(NoStatement, r, rows)
    BY DEF StatementOf, NoStatement
  <2> QED
    BY <2>1 DEF Init, StatementsInv
<1> QED
  BY <1>1, <1>2, <1>3, <1>4 DEF Inv

----------------------------------------------------------------------------
(***************************************************************************)
(* What the writes leave.                                                  *)
(***************************************************************************)

\* A table that lost rows, and one that has others of the same columns.
LEMMA FewerRows ==
    ASSUME NEW t \in Tables, NEW rows, NEW fewer \in SUBSET rows, WellFormedRows(rows, t)
    PROVE  WellFormedRows(fewer, t) /\ (Bounded(rows) => Bounded(fewer))
BY DEF WellFormedRows, Bounded

\* An INSERT: an id of its own.
LEMMA InsertedRow ==
    ASSUME NEW d, WellKept(d), NEW t \in Entities, NEW row,
           DOMAIN row = Columns(t), \A c \in Columns(t) : row[c] = Null \/ Typed(row[c], c),
           row.Id = NewId(d[t])
    PROVE  WellFormedRows(d[t] \cup {row}, t) /\ Bounded(d[t] \cup {row})
<1>1. t \in Tables /\ t # "Config"
  BY EntityProperties
<1>2. WellFormedRows(d[t], t)
  BY <1>1 DEF WellKept
<1>3. PICK n \in Nat : \A s \in d[t] : s.Id <= n
  BY DEF WellKept, Bounded
<1>4. \A s \in d[t] : s.Id \in Nat \ {0}
  BY <1>1, <1>2 DEF WellFormedRows
<1>5. row.Id \in Nat \ {0} /\ \A s \in d[t] : s.Id < row.Id
  BY <1>3, <1>4, NewIdIsNew
<1>6. WellFormedRows(d[t] \cup {row}, t)
  <2>1. \A s \in d[t] \cup {row} : s.Id \in Nat \ {0}
    BY <1>4, <1>5
  <2>2. ASSUME NEW s \in d[t] \cup {row}, NEW u \in d[t] \cup {row}, s.Id = u.Id
        PROVE  s = u
    <3>1. CASE s = row /\ u \in d[t]
      BY <1>4, <1>5, <2>2, <3>1
    <3>2. CASE u = row /\ s \in d[t]
      BY <1>4, <1>5, <2>2, <3>2
    <3>3. CASE s \in d[t] /\ u \in d[t]
      BY <1>1, <1>2, <2>2, <3>3 DEF WellFormedRows
    <3> QED
      BY <3>1, <3>2, <3>3
  <2>3. \A s \in d[t] \cup {row} :
           DOMAIN s = Columns(t) /\ \A c \in Columns(t) : s[c] = Null \/ Typed(s[c], c)
    BY <1>2 DEF WellFormedRows
  <2> QED
    BY <2>1, <2>2, <2>3 DEF WellFormedRows
<1>7. \A s \in d[t] \cup {row} : s.Id <= row.Id
  BY <1>4, <1>5
<1> QED
  BY <1>5, <1>6, <1>7 DEF Bounded

\* An UPDATE: the row keeps its id.
LEMMA UpdatedRow ==
    ASSUME NEW d, WellKept(d), NEW t \in Entities, NEW old \in d[t], NEW row,
           DOMAIN row = Columns(t), \A c \in Columns(t) : row[c] = Null \/ Typed(row[c], c),
           row.Id = old.Id
    PROVE  LET after == (d[t] \ {old}) \cup {row} IN WellFormedRows(after, t) /\ Bounded(after)
<1>1. t \in Tables /\ t # "Config"
  BY EntityProperties
<1>2. WellFormedRows(d[t], t)
  BY <1>1 DEF WellKept
<1>3. PICK n \in Nat : \A s \in d[t] : s.Id <= n
  BY DEF WellKept, Bounded
<1>4. \A s \in (d[t] \ {old}) \cup {row} :
         /\ DOMAIN s = Columns(t) /\ \A c \in Columns(t) : s[c] = Null \/ Typed(s[c], c)
         /\ s.Id \in Nat \ {0} /\ s.Id <= n
  BY <1>1, <1>2, <1>3 DEF WellFormedRows
<1>5. ASSUME NEW s \in (d[t] \ {old}) \cup {row}, NEW u \in (d[t] \ {old}) \cup {row}, s.Id = u.Id
      PROVE  s = u
  <2>1. \A v \in d[t], w \in d[t] : v.Id = w.Id => v = w
    BY <1>1, <1>2 DEF WellFormedRows
  <2>2. \A v \in d[t] \ {old} : v.Id # row.Id
    BY <2>1
  <2> QED
    BY <1>5, <2>1, <2>2
<1> QED
  BY <1>4, <1>5 DEF WellFormedRows, Bounded

\* ON DELETE CASCADE.
LEMMA CascadedRows ==
    ASSUME NEW d, DOMAIN d = Tables
    PROVE  DOMAIN Cascaded(d) = Tables /\ \A t \in Tables : Cascaded(d)[t] \subseteq d[t]
BY DEF Cascaded

----------------------------------------------------------------------------
(***************************************************************************)
(* What the queries select is what the calls ask for.                      *)
(***************************************************************************)

\* The calls that look for what they were given: not an INSERT or an upsert,
\* and not GetPostsForTag, which looks for something else.
Looking == {"Update", "Delete", "Get", "GetAll", "GetConfig", "GetTagsForPost"}

\* The WHERE of query.hh: each key equals its parameter, and NULL equals
\* nothing.
LEMMA SelectedByKeys ==
    ASSUME NEW q, NEW kind, NEW table, NEW columns, NEW keys,
           IsQuery(q, kind, table, columns, keys, {}), NEW bound
    PROVE  Selected(q, bound) =
             {row \in db[table] : \A k \in keys : Sql(bound[k]) # Null /\ row[k] = bound[k]}
BY DEF Selected, IsQuery

\* A key is found as it was stored, and none of them is NULL.
LEMMA KeysAreBound ==
    ASSUME NEW r \in Requests, NEW k \in Parameters(QueryOf(r)), k \notin Nullable
    PROVE  /\ Sql(BoundTo(r)[k]) # Null /\ k \in DOMAIN r.given
           /\ BoundTo(r)[k] = Abstract!Stored(k, r.given[k])
           /\ k \notin Texts => BoundTo(r)[k] = r.given[k]
<1>1. /\ k \in DOMAIN r.given /\ BoundTo(r)[k] = Abstract!Stored(k, r.given[k])
      /\ Sql(BoundTo(r)[k]) = BoundTo(r)[k] /\ (BoundTo(r)[k] = Null => r.given[k] = Null)
  BY WhatIsBound
<1>2. r.given[k] # Null
  BY <1>1, RequestsAssumption
<1>3. k \notin Texts => Abstract!Stored(k, r.given[k]) = r.given[k]
  BY SameSchema DEF Abstract!Stored
<1> QED
  BY <1>1, <1>2, <1>3

\* The rows that a statement selects are those that its call asks for;
\* GetPostsForTag is not among these.
LEMMA SelectedIsWanted ==
    ASSUME NEW r \in Requests, r.call \in Looking
    PROVE  Selected(QueryOf(r), BoundTo(r)) = Abstract!Wanted(r)
<1> DEFINE b == BoundTo(r)
           q == QueryOf(r)
<1>1. CASE r.call \in {"Update", "Delete"}
  <2>1. \E kind, columns : IsQuery(q, kind, r.table, columns, {"Id"}, {})
    BY <1>1, Queries
  <2>2. PICK kind, columns : IsQuery(q, kind, r.table, columns, {"Id"}, {})
    BY <2>1
  <2>3. Parameters(q) = columns \cup {"Id"}
    BY <2>2, ItsParameters
  <2>4. "Id" \notin Nullable /\ "Id" \notin Texts
    BY DEF Nullable, Texts
  <2>5. Sql(b["Id"]) # Null /\ b["Id"] = r.given["Id"]
    BY <2>3, <2>4, KeysAreBound
  <2>6. Selected(q, b) = {row \in db[r.table] : \A k \in {"Id"} : Sql(b[k]) # Null /\ row[k] = b[k]}
    BY <2>2, SelectedByKeys
  <2>7. Selected(q, b) = {row \in db[r.table] : row.Id = r.given.Id}
    <3> HIDE DEF b, q
    <3> QED
      BY <2>5, <2>6
  <2>8. Abstract!Wanted(r) = {row \in db[r.table] : row.Id = r.given.Id}
    BY <1>1 DEF Abstract!Wanted
  <2> QED
    BY <2>7, <2>8
<1>2. CASE r.call \in {"Get", "GetAll", "GetConfig"}
  <2> DEFINE keys == DOMAIN r.given
  <2>1. IsQuery(q, "SELECT", r.table, {}, keys, {})
    BY <1>2, Queries
  <2>2. Parameters(q) = keys
    <3>1. Parameters(q) = {} \cup keys
      BY <2>1, ItsParameters
    <3> QED
      BY <3>1
  <2>3. \A k \in keys : k \notin Nullable
    <3>1. CASE r.call = "GetConfig"
      <4>1. keys = {"Name"}
        BY <3>1, RequestsAssumption
      <4> QED
        BY <4>1 DEF Nullable
    <3>2. CASE r.call # "GetConfig"
      BY <1>2, <3>2, RequestsAssumption
    <3> QED
      BY <3>1, <3>2
  <2>4. \A k \in keys : Sql(b[k]) # Null /\ b[k] = Abstract!Stored(k, r.given[k])
    BY <2>2, <2>3, KeysAreBound
  <2>5. Selected(q, b) = {row \in db[r.table] : \A k \in keys : Sql(b[k]) # Null /\ row[k] = b[k]}
    BY <2>1, SelectedByKeys
  <2>6. Abstract!Wanted(r) =
          {row \in db[r.table] : \A k \in keys : row[k] = Abstract!Stored(k, r.given[k])}
    BY <1>2 DEF Abstract!Wanted
  <2>7. Selected(q, b) = Abstract!Wanted(r)
    <3> HIDE DEF b, q, keys
    <3> QED
      BY <2>4, <2>5, <2>6
  <2> QED
    BY <2>7
<1>3. CASE r.call = "GetTagsForPost"
  <2>1. IsQuery(q, "SELECT", "Tags", {}, {}, WithTag("PostId"))
    BY <1>3, Queries
  <2>2. Parameters(q) = {"PostId"}
    BY <2>1, ItsParametersWithin
  <2>3. "PostId" \notin Nullable /\ "PostId" \notin Texts
    BY DEF Nullable, Texts
  <2>4. Sql(b["PostId"]) # Null /\ b["PostId"] = r.given["PostId"]
    BY <2>2, <2>3, KeysAreBound
  <2>5. q.table = "Tags" /\ q.keys = {} /\ q.within = WithTag("PostId")
    BY <2>1 DEF IsQuery
  <2> DEFINE sub == [table |-> "PostTags", column |-> "TagId", key |-> "PostId"]
  <2>6. q.within = {sub} /\ sub.table = "PostTags" /\ sub.column = "TagId" /\ sub.key = "PostId"
    BY <2>5 DEF WithTag
  <2>7. Selected(q, b) =
          {row \in db["Tags"] : \E s \in db["PostTags"] :
              s["TagId"] = row.Id /\ Sql(b["PostId"]) # Null /\ s["PostId"] = b["PostId"]}
    <3> HIDE DEF b, q, sub
    <3> QED
      BY <2>5, <2>6 DEF Selected
  <2>8. Abstract!Wanted(r) =
          {t \in db.Tags : \E pt \in db.PostTags : pt.TagId = t.Id /\ pt.PostId = r.given.PostId}
    BY <1>3 DEF Abstract!Wanted
  <2>9. Selected(q, b) = Abstract!Wanted(r)
    <3> HIDE DEF b, q
    <3> QED
      BY <2>4, <2>7, <2>8
  <2> QED
    BY <2>9
<1> QED
  BY <1>1, <1>2, <1>3 DEF Looking

----------------------------------------------------------------------------
(***************************************************************************)
(* The writes, one by one: what they leave is in order, and is what the    *)
(* call promises.                                                          *)
(***************************************************************************)

InOrder(d) ==
    /\ DOMAIN d = Tables
    /\ \A t \in Tables : WellFormedRows(d[t], t)
    /\ \A t \in Entities : Bounded(d[t])

\* One table is changed.
LEMMA ChangedTable ==
    ASSUME WellKept(db), NEW t \in Tables, NEW rows, WellFormedRows(rows, t),
           t \in Entities => Bounded(rows)
    PROVE  InOrder([db EXCEPT ![t] = rows])
BY DEF WellKept, InOrder

\* INSERT adds the entity under a new id, and nothing else.
LEMMA CreateWrites ==
    ASSUME WellKept(db), NEW r \in Requests, r.call = "Create"
    PROVE  LET after == Executed(QueryOf(r), BoundTo(r))
               made  == [r.given EXCEPT !.Id = NewId(db[r.table])]
           IN  /\ InOrder(after)
               /\ after = Abstract!Replace(r.table, {},
                            {Abstract!RowOf(r.table, made, Abstract!Unvisited(r.table))})
<1> DEFINE q == QueryOf(r)
           b == BoundTo(r)
           t == r.table
           cs == PropertiesOf(t) \ {"Id"}
           made == [r.given EXCEPT !.Id = NewId(db[t])]
           new == NewRow(q, b)
           row == Abstract!RowOf(t, made, Abstract!Unvisited(t))
<1>1. t \in Entities /\ t \in Tables /\ DOMAIN r.given = PropertiesOf(t) /\ "Id" \in PropertiesOf(t)
  BY RequestsAssumption, EntityProperties
<1>2. IsQuery(q, "INSERT", t, cs, {}, {})
  BY Queries
<1>3. q.kind = "INSERT" /\ q.table = t /\ q.columns = cs
  BY <1>2 DEF IsQuery
<1>4. Parameters(q) = cs
  <2>1. Parameters(q) = cs \cup {}
    BY <1>2, ItsParameters
  <2> QED
    BY <2>1
<1>5. \A c \in cs : /\ b[c] = Abstract!Stored(c, r.given[c]) /\ Sql(b[c]) = b[c]
                     /\ Typed(b[c], c)
  BY <1>4, WhatIsBound
<1>6. DOMAIN made = PropertiesOf(t) /\ made["Id"] = NewId(db[t]) /\ \A c \in cs : made[c] = r.given[c]
  BY <1>1
<1>7. new = [c \in Columns(t) |-> IF c \in cs THEN Sql(b[c])
                                  ELSE IF c = "Id" THEN NewId(db[t]) ELSE Unvisited(t)[c]]
  BY <1>3 DEF NewRow
<1>8. row = [c \in Columns(t) |-> IF c \in DOMAIN made THEN Abstract!Stored(c, made[c])
                                  ELSE Unvisited(t)[c]]
  BY SameSchema DEF Abstract!RowOf
<1>9. Abstract!Stored("Id", NewId(db[t])) = NewId(db[t])
  BY SameSchema DEF Abstract!Stored, Texts
<1> HIDE DEF q, b, made, new, row
<1>10. \A c \in Columns(t) : new[c] = row[c]
  BY <1>1, <1>5, <1>6, <1>7, <1>8, <1>9
<1>11. new = row
  BY <1>7, <1>8, <1>10
<1>12. DOMAIN new = Columns(t) /\ new["Id"] = NewId(db[t])
       /\ \A c \in Columns(t) \ {"Id"} : new[c] = Null \/ Typed(new[c], c)
  <2>1. "Id" \in Columns(t)
    BY <1>1 DEF Columns
  <2>2. \A c \in Columns(t) : c \in cs \/ c = "Id" \/ c \in DOMAIN Unvisited(t)
    BY DEF Columns
  <2> QED
    BY <1>5, <1>7, <2>1, <2>2, UnvisitedTyped
<1>13. Typed(new["Id"], "Id")
  BY DEF Typed, Texts, Blobs
<1>14. WellFormedRows(db[t] \cup {new}, t) /\ Bounded(db[t] \cup {new})
  BY <1>1, <1>12, <1>13, InsertedRow
<1>15. Executed(q, b) = [db EXCEPT ![t] = db[t] \cup {new}]
  BY <1>3 DEF Executed, new
<1>16. InOrder([db EXCEPT ![t] = db[t] \cup {new}])
  BY <1>1, <1>14, ChangedTable
<1>17. Abstract!Replace(t, {}, {row}) = [db EXCEPT ![t] = db[t] \cup {new}]
  <2>1. db[t] \ {} = db[t]
    OBVIOUS
  <2> QED
    BY <1>11, <2>1 DEF Abstract!Replace
<1> QED
  BY <1>15, <1>16, <1>17 DEF q, b, made, row

\* UPDATE puts the columns of the entity in place of those of its row.
LEMMA UpdateWrites ==
    ASSUME WellKept(db), NEW r \in Requests, r.call = "Update",
           Selected(QueryOf(r), BoundTo(r)) # {}
    PROVE  LET after == Executed(QueryOf(r), BoundTo(r))
           IN  /\ InOrder(after)
               /\ \E row \in Abstract!Wanted(r) :
                     after = Abstract!Replace(r.table, {row},
                               {Abstract!RowOf(r.table, r.given, row)})
<1> DEFINE q == QueryOf(r)
           b == BoundTo(r)
           t == r.table
           cs == PropertiesOf(t) \ {"Id"}
<1>1. t \in Entities /\ t \in Tables /\ t # "Config" /\ DOMAIN r.given = PropertiesOf(t)
      /\ "Id" \in PropertiesOf(t)
  BY RequestsAssumption, EntityProperties
<1>2. q.kind = "UPDATE" /\ q.table = t /\ q.columns = cs
  BY Queries DEF IsQuery
<1>3. \A c \in cs : /\ b[c] = Abstract!Stored(c, r.given[c]) /\ Sql(b[c]) = b[c]
                     /\ Typed(b[c], c)
  <2>1. cs \subseteq Parameters(q)
    BY <1>2 DEF Parameters
  <2> QED
    BY <2>1, WhatIsBound
<1>4. Selected(q, b) = Abstract!Wanted(r)
  BY SelectedIsWanted DEF Looking
<1>5. Abstract!Wanted(r) = {row \in db[t] : row.Id = r.given.Id}
  BY DEF Abstract!Wanted
<1>6. PICK old \in db[t] : old.Id = r.given.Id
  BY <1>4, <1>5
<1>7. WellFormedRows(db[t], t)
  BY <1>1 DEF WellKept
<1>8. Selected(q, b) = {old} /\ old \in Abstract!Wanted(r)
  <2>1. \A s \in db[t], u \in db[t] : s.Id = u.Id => s = u
    BY <1>1, <1>7 DEF WellFormedRows
  <2>2. \A row \in db[t] : row.Id = r.given.Id <=> row = old
    BY <1>6, <2>1
  <2> QED
    BY <1>4, <1>5, <2>2
<1> DEFINE new == Assigned(old, q, b)
           row == Abstract!RowOf(t, r.given, old)
<1>9. DOMAIN old = Columns(t) /\ \A c \in Columns(t) : old[c] = Null \/ Typed(old[c], c)
  BY <1>7 DEF WellFormedRows
<1>10. new = [c \in Columns(t) |-> IF c \in cs THEN Sql(b[c]) ELSE old[c]]
  BY <1>2, <1>9 DEF Assigned
<1>11. row = [c \in Columns(t) |-> IF c \in DOMAIN r.given THEN Abstract!Stored(c, r.given[c])
                                   ELSE old[c]]
  BY SameSchema DEF Abstract!RowOf
<1>12. Abstract!Stored("Id", r.given["Id"]) = old["Id"]
  BY <1>6, SameSchema DEF Abstract!Stored, Texts
<1>13. Executed(q, b) = [db EXCEPT ![t] = (db[t] \ {old}) \cup {new}]
  <2>1. {Assigned(s, q, b) : s \in {old}} = {new}
    OBVIOUS
  <2> HIDE DEF new
  <2> QED
    BY <1>2, <1>8, <2>1 DEF Executed
<1> HIDE DEF q, b, new, row
<1>14. \A c \in Columns(t) : new[c] = row[c]
  BY <1>1, <1>3, <1>10, <1>11, <1>12
<1>15. new = row
  BY <1>10, <1>11, <1>14
<1>16. DOMAIN new = Columns(t) /\ new.Id = old.Id
       /\ \A c \in Columns(t) : new[c] = Null \/ Typed(new[c], c)
  <2>1. "Id" \in Columns(t)
    BY <1>1 DEF Columns
  <2> QED
    BY <1>3, <1>9, <1>10, <2>1
<1>17. LET rows == (db[t] \ {old}) \cup {new} IN WellFormedRows(rows, t) /\ Bounded(rows)
  BY <1>1, <1>16, UpdatedRow
<1>18. InOrder([db EXCEPT ![t] = (db[t] \ {old}) \cup {new}])
  BY <1>1, <1>17, ChangedTable
<1>19. Abstract!Replace(t, {old}, {row}) = [db EXCEPT ![t] = (db[t] \ {old}) \cup {new}]
  BY <1>15 DEF Abstract!Replace
<1> QED
  BY <1>8, <1>13, <1>18, <1>19 DEF q, b, row

\* A DELETE takes rows away, so that it cannot meet a UNIQUE constraint.
LEMMA DeleteWrites ==
    ASSUME WellKept(db), NEW r \in Requests, r.call = "Delete"
    PROVE  LET after == Executed(QueryOf(r), BoundTo(r))
           IN  /\ InOrder(after) /\ \A t \in Tables : Duplicates(after, t) = {}
               /\ Selected(QueryOf(r), BoundTo(r)) # {} =>
                    \E row \in Abstract!Wanted(r) :
                       after = Abstract!Cascaded(Abstract!Replace(r.table, {row}, {}))
<1> DEFINE q == QueryOf(r)
           b == BoundTo(r)
           t == r.table
           rows == Selected(q, b)
           left == [db EXCEPT ![t] = db[t] \ rows]
           after == Executed(q, b)
<1>1. t \in Entities /\ t \in Tables /\ t # "Config" /\ DOMAIN db = Tables
  BY RequestsAssumption, EntityProperties DEF WellKept
<1>2. q.kind = "DELETE" /\ q.table = t
  BY Queries DEF IsQuery
<1>3. after = Cascaded(left)
  <2> HIDE DEF q, b
  <2> QED
    BY <1>2 DEF Executed
<1>4. DOMAIN left = Tables /\ \A u \in Tables : left[u] \subseteq db[u]
  <2> HIDE DEF rows
  <2> QED
    BY <1>1
<1>5. DOMAIN after = Tables /\ \A u \in Tables : after[u] \subseteq db[u]
  <2> HIDE DEF left
  <2> QED
    BY <1>3, <1>4, CascadedRows
<1> HIDE DEF after
<1>6. InOrder(after)
  <2>1. \A u \in Tables : WellFormedRows(after[u], u)
    BY <1>5, FewerRows DEF WellKept
  <2>2. \A u \in Entities : Bounded(after[u])
    BY <1>5, EntityProperties, FewerRows DEF WellKept
  <2> QED
    BY <1>5, <2>1, <2>2 DEF InOrder
<1>7. \A u \in Tables : Duplicates(after, u) = {}
  <2>1. \A u \in Tables : Duplicates(db, u) = {}
    BY <1>1, NoViolation DEF WellKept
  <2> QED
    BY <1>5, <2>1 DEF Duplicates
<1>8. ASSUME rows # {}
      PROVE  \E row \in Abstract!Wanted(r) :
                after = Abstract!Cascaded(Abstract!Replace(t, {row}, {}))
  <2>1. rows = Abstract!Wanted(r)
    BY SelectedIsWanted DEF Looking
  <2>2. Abstract!Wanted(r) = {row \in db[t] : row.Id = r.given.Id}
    BY DEF Abstract!Wanted
  <2>3. PICK old : old \in rows
    BY <1>8
  <2>4. \A s \in db[t], u \in db[t] : s.Id = u.Id => s = u
    BY <1>1 DEF WellKept, WellFormedRows
  <2>5. rows = {old} /\ old \in Abstract!Wanted(r)
    <3> HIDE DEF rows
    <3> QED
      BY <2>1, <2>2, <2>3, <2>4
  <2>6. Abstract!Replace(t, {old}, {}) = left
    <3>1. (db[t] \ {old}) \cup {} = db[t] \ rows
      BY <2>5
    <3> HIDE DEF rows
    <3> QED
      BY <3>1 DEF Abstract!Replace
  <2>7. after = Abstract!Cascaded(left)
    <3> HIDE DEF left
    <3> QED
      BY <1>3, SameConstraints
  <2> HIDE DEF left
  <2> QED
    BY <2>5, <2>6, <2>7
<1> QED
  BY <1>6, <1>7, <1>8 DEF after

\* The upsert takes the place of the row of that name, so that it cannot meet
\* the UNIQUE constraint either.
LEMMA SetConfigWrites ==
    ASSUME WellKept(db), NEW r \in Requests, r.call = "SetConfig"
    PROVE  LET after == Executed(QueryOf(r), BoundTo(r))
               row   == Abstract!RowOf("Config", r.given, r.given)
           IN  /\ InOrder(after) /\ \A t \in Tables : Duplicates(after, t) = {}
               /\ after = Abstract!Replace("Config", {old \in db["Config"] : old.Name = row.Name}, {row})
<1> DEFINE q == QueryOf(r)
           b == BoundTo(r)
           new == NewRow(q, b)
           row == Abstract!RowOf("Config", r.given, r.given)
           rows == {old \in db["Config"] : ~Agree(old, new, Unique("Config"))} \cup {new}
           after == [db EXCEPT !["Config"] = rows]
<1>1. q.kind = "REPLACE" /\ q.table = "Config" /\ q.columns = {"Value", "Name"}
  BY Queries DEF IsQuery
<1>2. DOMAIN r.given = {"Name", "Value"} /\ DOMAIN db = Tables /\ WellFormedRows(db["Config"], "Config")
  BY RequestsAssumption, ConfigColumns DEF WellKept
<1>3. \A c \in {"Name", "Value"} : /\ b[c] = Abstract!Stored(c, r.given[c]) /\ Sql(b[c]) = b[c]
                                    /\ Typed(b[c], c)
  <2>1. {"Name", "Value"} \subseteq Parameters(q)
    BY <1>1 DEF Parameters
  <2> QED
    BY <2>1, WhatIsBound
<1>4. Executed(q, b) = after
  <2> HIDE DEF q, b
  <2> QED
    BY <1>1 DEF Executed
<1>5. new = [c \in {"Name", "Value"} |-> Sql(b[c])]
  <2> HIDE DEF q, b
  <2>1. \A c \in {"Name", "Value"} : c \in q.columns
    BY <1>1
  <2> QED
    BY <1>1, <2>1, ConfigColumns DEF NewRow
<1>6. row = [c \in {"Name", "Value"} |-> Abstract!Stored(c, r.given[c])]
  BY <1>2, ConfigColumns, SameSchema DEF Abstract!RowOf
<1> HIDE DEF q, b, new, row
<1>7. new = row
  BY <1>3, <1>5, <1>6
<1>8. Unique("Config") = {"Name"}
  BY DEF Unique
<1>9. rows = {old \in db["Config"] : old["Name"] # new["Name"]} \cup {new}
  BY <1>8 DEF Agree
<1>10. WellFormedRows(rows, "Config")
  <2>1. DOMAIN new = Columns("Config") /\ \A c \in Columns("Config") : Typed(new[c], c)
    BY <1>3, <1>5, ConfigColumns
  <2>2. \A old \in rows : old \in db["Config"] \/ old = new
    OBVIOUS
  <2> HIDE DEF rows
  <2> QED
    BY <1>2, <2>1, <2>2 DEF WellFormedRows
<1>11. InOrder(after)
  <2> HIDE DEF rows
  <2>1. "Config" \notin Entities
    BY DEF Entities
  <2> QED
    BY <1>10, <2>1, ConfigColumns, ChangedTable
<1>12. ASSUME NEW t \in Tables
       PROVE  Duplicates(after, t) = {}
  <2>1. Duplicates(db, t) = {}
    BY <1>2, NoViolation DEF WellKept
  <2>2. CASE t # "Config"
    <3>1. after[t] = db[t]
      BY <1>2, <2>2
    <3> HIDE DEF after
    <3> QED
      BY <2>1, <3>1 DEF Duplicates
  <2>3. CASE t = "Config"
    <3>1. after[t] = rows
      <4> HIDE DEF rows
      <4> QED
        BY <1>2, <2>3
    <3>2. \A s \in rows, u \in rows : s["Name"] = u["Name"] => s = u
      <4>1. \A s \in db["Config"], u \in db["Config"] : s["Name"] = u["Name"] => s = u
        BY <1>8, <2>1, <2>3 DEF Duplicates, Agree
      <4> HIDE DEF rows
      <4> QED
        BY <1>9, <4>1
    <3> HIDE DEF after, rows
    <3> QED
      BY <1>8, <2>3, <3>1, <3>2 DEF Duplicates, Agree
  <2> QED
    BY <2>2, <2>3
<1>13. after = Abstract!Replace("Config", {old \in db["Config"] : old.Name = row.Name}, {row})
  <2> DEFINE same == {old \in db["Config"] : old.Name = row.Name}
  <2>1. (db["Config"] \ same) \cup {row} = rows
    <3> HIDE DEF rows
    <3> QED
      BY <1>7, <1>9
  <2> HIDE DEF rows, same
  <2>2. after = Abstract!Replace("Config", same, {row})
    BY <2>1 DEF Abstract!Replace
  <2> QED
    BY <2>2 DEF same
<1> HIDE DEF after
<1> QED
  BY <1>4, <1>11, <1>12, <1>13 DEF q, b, row

----------------------------------------------------------------------------
(***************************************************************************)
(* The invariant is preserved.                                             *)
(***************************************************************************)

\* A write that violates no constraint leaves rows that are typed, with
\* distinct ids, and within the constraints.
LEMMA WritesAreInOrder ==
    ASSUME WellKept(db), NEW r \in Requests, QueryOf(r).kind # "SELECT",
           ~(QueryOf(r).kind \in {"UPDATE", "DELETE"} /\ Selected(QueryOf(r), BoundTo(r)) = {}),
           Violation(Executed(QueryOf(r), BoundTo(r))) = "OK"
    PROVE  WellKept(Executed(QueryOf(r), BoundTo(r)))
<1> DEFINE after == Executed(QueryOf(r), BoundTo(r))
<1>1. r.call \in {"Create", "Update", "Delete", "SetConfig"}
  BY RequestTables DEF Calls, Lists
<1>2. InOrder(after)
  <2>1. CASE r.call = "Create"
    BY <2>1, CreateWrites
  <2>2. CASE r.call = "Update"
    <3>1. QueryOf(r).kind = "UPDATE"
      BY <2>2, Queries DEF IsQuery
    <3> QED
      BY <2>2, <3>1, UpdateWrites
  <2>3. CASE r.call = "Delete"
    BY <2>3, DeleteWrites
  <2>4. CASE r.call = "SetConfig"
    BY <2>4, SetConfigWrites
  <2> QED
    BY <1>1, <2>1, <2>2, <2>3, <2>4
<1> HIDE DEF after
<1>3. Violation(after) = "OK"
  BY DEF after
<1>4. WellKept(after)
  BY <1>2, <1>3 DEF WellKept, InOrder
<1> QED
  BY <1>4 DEF after

\* A statement that is not stepped through selects what the tables have when
\* it is.
LEMMA NotStepped ==
    ASSUME NEW s, NEW r, NEW rows, StatementOf(s, r, rows), s.state # "rows", NEW others
    PROVE  StatementOf(s, r, others)
BY DEF StatementOf

\* What the statements of the others are, when one caller's changes.
LEMMA OthersKeep ==
    ASSUME Inv, NEW c \in Callers, NEW d \in Callers, d # c,
           statement'[d] = statement[d], request'[d] = request[d], db' = db \/ NobodyReads(c)
    PROVE  StatementOf(statement[d], request[d], RowsOf(d))'
<1>1. StatementOf(statement[d], request[d], RowsOf(d))
  BY DEF Inv, StatementsInv
<1>2. CASE db' = db
  <2>1. RowsOf(d)' = RowsOf(d)
    BY <1>2 DEF RowsOf, Selected
  <2> QED
    BY <1>1, <2>1
<1>3. CASE NobodyReads(c)
  <2>1. statement[d].state # "rows"
    BY <1>3 DEF NobodyReads
  <2>2. StatementOf(statement[d], request[d], RowsOf(d)')
    BY <1>1, <2>1, NotStepped
  <2> QED
    BY <2>2
<1> QED
  BY <1>2, <1>3

\* The end of a call, with its answer, keeps the invariant if what it wrote
\* is in order.
LEMMA ReturnKeeps ==
    ASSUME Inv, NEW c \in Callers, NEW code \in ResultCode, NEW entities,
           code \in Errors => entities = {},
           Return(c, code, entities), WellKept(db'), db' = db \/ NobodyReads(c)
    PROVE  Inv'
<1>1. RequestsInv'
  BY DEF Inv, RequestsInv, Return
<1>2. AnswersInv'
  <2>1. AnswerTyped(Answered(code, entities))
    BY DEF AnswerTyped, Answered
  <2> QED
    BY <2>1 DEF Inv, AnswersInv, Return
<1>3. StatementsInv'
  <2>1. DOMAIN statement = Callers
    BY DEF Inv, StatementsInv
  <2>2. DOMAIN statement' = Callers /\ statement'[c] = NoStatement
        /\ \A d \in Callers \ {c} : statement'[d] = statement[d] /\ request'[d] = request[d]
    BY <2>1 DEF Return, Inv, RequestsInv
  <2>3. StatementOf(NoStatement, request'[c], RowsOf(c)')
    BY DEF StatementOf, NoStatement
  <2>4. \A d \in Callers \ {c} : StatementOf(statement[d], request[d], RowsOf(d))'
    BY <2>2, OthersKeep
  <2> QED
    BY <2>2, <2>3, <2>4 DEF StatementsInv
<1> QED
  BY <1>1, <1>2, <1>3 DEF Inv

\* Only the statement of c changes.
LEMMA StatementKeeps ==
    ASSUME Inv, NEW c \in Callers, UNCHANGED <<db, request, answer>>, NEW s,
           statement' = [statement EXCEPT ![c] = s],
           StatementOf(s, request[c], Selected(QueryOf(request[c]), s.bound))
    PROVE  Inv'
<1>1. WellKept(db)' /\ RequestsInv' /\ AnswersInv'
  BY DEF Inv, RequestsInv, AnswersInv
<1>2. StatementsInv'
  <2>1. DOMAIN statement' = Callers /\ statement'[c] = s
        /\ \A d \in Callers \ {c} : statement'[d] = statement[d] /\ request'[d] = request[d]
    BY DEF Inv, StatementsInv
  <2>2. StatementOf(statement[c], request[c], RowsOf(c))'
    <3>1. RowsOf(c)' = Selected(QueryOf(request[c]), s.bound)
      BY <2>1 DEF RowsOf, Selected
    <3> QED
      BY <2>1, <3>1
  <2>3. \A d \in Callers \ {c} : StatementOf(statement[d], request[d], RowsOf(d))'
    BY <2>1, OthersKeep
  <2> QED
    BY <2>1, <2>2, <2>3 DEF StatementsInv
<1> QED
  BY <1>1, <1>2 DEF Inv

\* What the invariant says of one caller.
LEMMA OfCaller ==
    ASSUME Inv, NEW c \in Callers
    PROVE  /\ DOMAIN statement[c] = {"state", "bound", "left", "values"}
           /\ statement[c].state = "none" => statement[c] = NoStatement
           /\ request[c] # NoRequest => request[c] \in Requests
           /\ statement[c].state # "none" =>
                 /\ request[c] \in Requests /\ request[c] # NoRequest
                 /\ ~InvalidArgument(request[c])
                 /\ statement[c].bound = BoundTo(request[c])
           /\ statement[c].state = "bound" => statement[c].values = {}
           /\ statement[c].state = "rows" =>
                 /\ request[c].call \in Lists /\ request[c].table \in Entities
                 /\ statement[c].left \subseteq RowsOf(c)
                 /\ RowsOf(c) \subseteq db[request[c].table]
                 /\ AllLoaded(request[c].table, statement[c].left) \cup statement[c].values
                      = AllLoaded(request[c].table, RowsOf(c))
<1>1. StatementOf(statement[c], request[c], RowsOf(c))
  BY DEF Inv, StatementsInv
<1>2. request[c] # NoRequest => request[c] \in Requests
  BY DEF Inv, RequestsInv
<1>3. statement[c].state # "none" => request[c] \in Requests
  BY <1>1 DEF StatementOf
<1>4. statement[c].state # "none" => request[c] # NoRequest
  BY <1>3, RequestTables
<1>5. statement[c].state = "rows" =>
         request[c].table \in Entities /\ RowsOf(c) \subseteq db[request[c].table]
  <2>1. statement[c].state = "rows" => request[c].call \in Lists
    BY <1>1 DEF StatementOf
  <2>2. statement[c].state = "rows" =>
           request[c].table \in Entities /\ QueryOf(request[c]).table = request[c].table
    BY <1>3, <2>1, RequestTables DEF Lists
  <2> QED
    BY <2>2 DEF RowsOf, Selected
<1> QED
  BY <1>1, <1>2, <1>3, <1>4, <1>5 DEF StatementOf

\* The application calls: nothing is prepared yet.
LEMMA InvCall ==
    ASSUME Inv, NEW c \in Callers, NEW r \in Requests, Call(c, r)
    PROVE  Inv'
<1>1. WellKept(db)' /\ RequestsInv'
  BY DEF Inv, RequestsInv, Call
<1>2. AnswersInv'
  <2>1. AnswerTyped(Answered("none", {}))
    BY DEF AnswerTyped, Answered
  <2> QED
    BY <2>1 DEF Inv, AnswersInv, Call
<1>3. StatementsInv'
  <2>1. statement[c].state = "none"
    BY OfCaller DEF Call
  <2>2. statement[c] = NoStatement
    BY <2>1, OfCaller
  <2>3. StatementOf(NoStatement, request'[c], RowsOf(c)')
    BY DEF StatementOf, NoStatement
  <2>4. \A d \in Callers \ {c} : StatementOf(statement[d], request[d], RowsOf(d))'
    BY OthersKeep DEF Call, Inv, RequestsInv
  <2>5. statement' = statement /\ DOMAIN statement = Callers
    BY DEF Call, Inv, StatementsInv
  <2> QED
    BY <2>2, <2>3, <2>4, <2>5 DEF StatementsInv
<1> QED
  BY <1>1, <1>2, <1>3 DEF Inv

\* The query is prepared and its parameters are bound.
LEMMA InvPrepare ==
    ASSUME Inv, NEW c \in Callers, Prepare(c)
    PROVE  Inv'
<1> DEFINE r == request[c]
           s == [NoStatement EXCEPT !.state = "bound", !.bound = Bound(QueryOf(r), Bindings(r))]
<1>1. r \in Requests /\ ~InvalidArgument(r)
  BY OfCaller DEF Prepare
<1>2. DOMAIN s = {"state", "bound", "left", "values"} /\ s.state = "bound"
      /\ s.bound = BoundTo(r) /\ s.values = {}
  BY DEF NoStatement, BoundTo
<1>3. StatementOf(s, r, Selected(QueryOf(r), s.bound))
  BY <1>1, <1>2 DEF StatementOf
<1>4. statement' = [statement EXCEPT ![c] = s] /\ UNCHANGED <<db, request, answer>>
  BY DEF Prepare
<1> HIDE DEF s
<1> QED
  BY <1>3, <1>4, StatementKeeps

\* A list takes its cursor, which from now on keeps others from writing.
LEMMA InvOpenList ==
    ASSUME Inv, NEW c \in Callers, OpenList(c)
    PROVE  Inv'
<1> DEFINE r == request[c]
           rows == Selected(QueryOf(r), statement[c].bound)
           s == [statement[c] EXCEPT !.state = "rows", !.left = rows]
<1>1. statement[c].state = "bound" /\ r \in Requests /\ ~InvalidArgument(r)
      /\ statement[c].bound = BoundTo(r) /\ statement[c].values = {}
      /\ DOMAIN statement[c] = {"state", "bound", "left", "values"}
  BY OfCaller DEF OpenList
<1>2. DOMAIN s = {"state", "bound", "left", "values"} /\ s.state = "rows"
      /\ s.bound = BoundTo(r) /\ s.left = rows /\ s.values = {}
  <2> HIDE DEF rows
  <2> QED
    BY <1>1
<1>3. r.call \in Lists
  BY <1>1, RequestTables DEF OpenList
<1>4. rows = Selected(QueryOf(r), s.bound)
  BY <1>1, <1>2
<1>5. statement' = [statement EXCEPT ![c] = s] /\ UNCHANGED <<db, request, answer>>
  <2>1. DOMAIN statement = Callers
    BY DEF Inv, StatementsInv
  <2> QED
    BY <2>1, Zenon DEF OpenList
<1> HIDE DEF s, rows
<1>6. StatementOf(s, r, rows)
  BY <1>1, <1>2, <1>3 DEF StatementOf
<1> QED
  BY <1>4, <1>5, <1>6, StatementKeeps

\* A row of a list is loaded; only the statement changes.
LEMMA InvNextRow ==
    ASSUME Inv, NEW c \in Callers, NextRow(c)
    PROVE  Inv' /\ UNCHANGED <<db, request, answer>>
<1> DEFINE r == request[c]
           t == r.table
<1>1. /\ statement[c].state = "rows" /\ r \in Requests /\ ~InvalidArgument(r)
      /\ statement[c].bound = BoundTo(r) /\ r.call \in Lists /\ t \in Entities
      /\ DOMAIN statement[c] = {"state", "bound", "left", "values"}
      /\ statement[c].left \subseteq RowsOf(c) /\ RowsOf(c) \subseteq db[t]
      /\ AllLoaded(t, statement[c].left) \cup statement[c].values = AllLoaded(t, RowsOf(c))
  BY OfCaller DEF NextRow
<1>2. QueryOf(r).table = t
  BY <1>1, RequestTables
<1>3. \A row \in statement[c].left : Loads(t, row)
  BY <1>1, LoadingARow DEF Inv
<1>4. PICK row \in statement[c].left :
         /\ statement' = [statement EXCEPT ![c].left = @ \ {row},
                                           ![c].values = @ \cup {LoadEntity(t, row)}]
         /\ UNCHANGED <<db, request, answer>>
  BY <1>2, <1>3 DEF NextRow
<1> DEFINE loaded == LoadEntity(t, row)
           s == [statement[c] EXCEPT !.left = @ \ {row}, !.values = @ \cup {loaded}]
<1>5. statement' = [statement EXCEPT ![c] = s]
  <2>1. DOMAIN statement = Callers
    BY DEF Inv, StatementsInv
  <2> QED
    BY <1>4, <2>1, Zenon
<1>6. DOMAIN s = {"state", "bound", "left", "values"} /\ s.state = "rows"
      /\ s.bound = BoundTo(r) /\ s.left = statement[c].left \ {row}
      /\ s.values = statement[c].values \cup {loaded}
  <2> HIDE DEF loaded
  <2> QED
    BY <1>1
<1>7. AllLoaded(t, statement[c].left \ {row}) \cup (statement[c].values \cup {loaded})
        = AllLoaded(t, RowsOf(c))
  <2>1. AllLoaded(t, statement[c].left)
          = AllLoaded(t, statement[c].left \ {row}) \cup {loaded}
    BY DEF AllLoaded
  <2> QED
    BY <1>1, <2>1
<1> HIDE DEF s, loaded
<1>8. StatementOf(s, r, RowsOf(c))
  BY <1>1, <1>6, <1>7 DEF StatementOf
<1>9. RowsOf(c) = Selected(QueryOf(r), s.bound)
  BY <1>1, <1>6 DEF RowsOf
<1> QED
  BY <1>4, <1>5, <1>8, <1>9, StatementKeeps

\* The codes that writes return: constraints are errors, the codes of
\* success are not.
LEMMA CodesOfWrites ==
    /\ {"OK", "NotFound", "ValueIsNull", "InvalidArgument", "DatabaseError", "DatabaseLocked",
        "CreatedOK", "DatabaseEnd"} \subseteq ResultCode
    /\ \A d : Violation(d) # "OK" => Violation(d) \in Errors
    /\ \A r : r.call \in {"Create", "Update", "Delete", "SetConfig"} =>
          Written(r).code \in {"OK", "CreatedOK", "DatabaseEnd"}
    /\ {"OK", "CreatedOK", "DatabaseEnd"} \cap Errors = {}
<1>1. {"OK", "NotFound", "ValueIsNull", "InvalidArgument", "DatabaseError", "DatabaseLocked",
        "CreatedOK", "DatabaseEnd"} \subseteq ResultCode
  BY DEF ResultCode, Successes, Errors
<1>2. \A d : Violation(d) # "OK" => Violation(d) \in Errors
  BY DEF Violation, Errors
<1>3. \A r : r.call \in {"Create", "Update", "Delete", "SetConfig"} =>
          Written(r).code \in {"OK", "CreatedOK", "DatabaseEnd"}
  BY DEF Written, Answered
<1>4. {"OK", "CreatedOK", "DatabaseEnd"} \cap Errors = {}
  BY DEF Errors
<1> QED
  BY <1>1, <1>2, <1>3, <1>4

\* A write fails and leaves the tables, or changes them as it should.
LEMMA StepUpdateCases ==
    ASSUME Inv, NEW c \in Callers, StepUpdate(c)
    PROVE  LET r     == request[c]
               query == QueryOf(r)
               after == Executed(query, BoundTo(r))
           IN  /\ r \in Requests /\ NobodyReads(c) /\ ~InvalidArgument(r)
               /\ r.call \in {"Create", "Update", "Delete", "SetConfig"}
               /\ \/ Violation(after) # "OK" /\ Return(c, Violation(after), {}) /\ db' = db
                  \/ Return(c, "DatabaseError", {}) /\ db' = db
                  \/ /\ Violation(after) = "OK" /\ WellKept(after) /\ db' = after
                     /\ query.kind \in {"UPDATE", "DELETE"} => Selected(query, BoundTo(r)) # {}
                     /\ Return(c, Written(r).code, Written(r).entities)
<1> DEFINE r == request[c]
           query == QueryOf(r)
           after == Executed(query, BoundTo(r))
           rows == Selected(query, BoundTo(r))
<1>1. r \in Requests /\ ~InvalidArgument(r) /\ statement[c].bound = BoundTo(r)
  BY OfCaller DEF StepUpdate
<1>2. query.kind # "SELECT" /\ NobodyReads(c)
  BY DEF StepUpdate
<1>3. r.call \in {"Create", "Update", "Delete", "SetConfig"}
  BY <1>1, <1>2, RequestTables DEF Calls, Lists
<1>4. IF Violation(after) # "OK"
      THEN Return(c, Violation(after), {}) /\ UNCHANGED db
      ELSE IF query.kind \in {"UPDATE", "DELETE"} /\ rows = {}
      THEN Return(c, "DatabaseError", {}) /\ UNCHANGED db
      ELSE Return(c, Written(r).code, Written(r).entities) /\ db' = after
  BY <1>1, Zenon DEF StepUpdate
<1>5. Violation(after) = "OK" /\ ~(query.kind \in {"UPDATE", "DELETE"} /\ rows = {}) => WellKept(after)
  BY <1>1, <1>2, WritesAreInOrder DEF Inv
<1> HIDE DEF after, rows, query
<1>6. \/ Violation(after) # "OK" /\ Return(c, Violation(after), {}) /\ db' = db
      \/ Return(c, "DatabaseError", {}) /\ db' = db
      \/ /\ Violation(after) = "OK" /\ WellKept(after) /\ db' = after
         /\ query.kind \in {"UPDATE", "DELETE"} => rows # {}
         /\ Return(c, Written(r).code, Written(r).entities)
  BY <1>4, <1>5
<1> QED
  BY <1>1, <1>2, <1>3, <1>6 DEF after, rows, query

\* An INSERT, UPDATE or DELETE is stepped: it finds no row, violates a
\* constraint, or writes.
LEMMA InvStepUpdate ==
    ASSUME Inv, NEW c \in Callers, StepUpdate(c)
    PROVE  Inv'
<1> DEFINE r == request[c]
           query == QueryOf(r)
           after == Executed(query, BoundTo(r))
<1>1. NobodyReads(c) /\ r.call \in {"Create", "Update", "Delete", "SetConfig"}
  BY StepUpdateCases
<1>2. \/ Violation(after) # "OK" /\ Return(c, Violation(after), {}) /\ db' = db
      \/ Return(c, "DatabaseError", {}) /\ db' = db
      \/ WellKept(after) /\ db' = after /\ Return(c, Written(r).code, Written(r).entities)
  BY StepUpdateCases
<1>3. WellKept(db)
  BY DEF Inv
<1> HIDE DEF after
<1>4. CASE Violation(after) # "OK" /\ Return(c, Violation(after), {}) /\ db' = db
  <2>1. Violation(after) \in ResultCode
    BY <1>4, CodesOfWrites DEF ResultCode
  <2> QED
    BY <1>3, <1>4, <2>1, ReturnKeeps
<1>5. CASE Return(c, "DatabaseError", {}) /\ db' = db
  <2>1. "DatabaseError" \in ResultCode
    BY CodesOfWrites
  <2> QED
    BY <1>3, <1>5, <2>1, ReturnKeeps
<1>6. CASE WellKept(after) /\ db' = after /\ Return(c, Written(r).code, Written(r).entities)
  <2> DEFINE code == Written(r).code
             entities == Written(r).entities
  <2>1. code \in ResultCode /\ code \notin Errors
    BY <1>1, CodesOfWrites
  <2>2. Return(c, code, entities) /\ WellKept(db')
    BY <1>6
  <2> HIDE DEF code, entities
  <2> QED
    BY <1>1, <2>1, <2>2, ReturnKeeps
<1> QED
  BY <1>2, <1>4, <1>5, <1>6

\* The steps that leave the tables alone and return.
LEMMA InvReturns ==
    ASSUME Inv, NEW c \in Callers,
           Reject(c) \/ ExecuteRow(c) \/ ExecuteScalar(c) \/ EndOfList(c) \/ Fail(c)
    PROVE  Inv'
<1>1. db' = db /\ WellKept(db')
  BY DEF Inv, Reject, ExecuteRow, ExecuteScalar, EndOfList, Fail
<1>2. \E code \in {"OK", "NotFound", "ValueIsNull", "InvalidArgument", "DatabaseError",
                   "DatabaseLocked"} : \E entities :
         (code \in Errors => entities = {}) /\ Return(c, code, entities)
  <2>1. "OK" \notin Errors
    BY DEF Errors
  <2>2. CASE Reject(c)
    BY <2>2 DEF Reject
  <2>3. CASE ExecuteRow(c)
    BY <2>1, <2>3 DEF ExecuteRow
  <2>4. CASE ExecuteScalar(c)
    BY <2>1, <2>4 DEF ExecuteScalar
  <2>5. CASE EndOfList(c)
    BY <2>1, <2>5 DEF EndOfList
  <2>6. CASE Fail(c)
    BY <2>6 DEF Fail
  <2> QED
    BY <2>2, <2>3, <2>4, <2>5, <2>6
<1>3. PICK code \in ResultCode :
         \E entities : (code \in Errors => entities = {}) /\ Return(c, code, entities)
  BY <1>2, CodesOfWrites
<1>4. PICK entities : (code \in Errors => entities = {}) /\ Return(c, code, entities)
  BY <1>3
<1> QED
  BY <1>1, <1>4, ReturnKeeps

\* The tables and the statements stay in order, whoever writes.
THEOREM Invariance == Spec => []Inv
<1>1. Inv /\ [Next]_vars => Inv'
  <2> SUFFICES ASSUME Inv, [Next]_vars PROVE Inv'
    OBVIOUS
  <2>1. CASE UNCHANGED vars
    <3>1. \A c \in Callers : RowsOf(c)' = RowsOf(c)
      BY <2>1 DEF vars, RowsOf, Selected
    <3> QED
      BY <2>1, <3>1 DEF vars, Inv, RequestsInv, AnswersInv, StatementsInv
  <2>2. CASE Next
    <3>1. PICK c \in Callers :
             \/ \E r \in Requests : Call(c, r)
             \/ Reject(c) \/ Prepare(c)
             \/ StepUpdate(c) \/ ExecuteRow(c) \/ ExecuteScalar(c)
             \/ OpenList(c) \/ NextRow(c) \/ EndOfList(c)
             \/ Fail(c)
      BY <2>2 DEF Next
    <3> QED
      BY <3>1, InvCall, InvPrepare, InvOpenList, InvNextRow, InvStepUpdate, InvReturns
  <2> QED
    BY <2>1, <2>2
<1> QED
  BY <1>1, InvInit, PTL DEF Spec

\* Entities and answers are well formed, whatever is asked and whoever fails.
THEOREM TypeCorrect == Spec => []TypeOK
<1>1. Inv => TypeOK
  BY InvIsType
<1> QED
  BY <1>1, Invariance, PTL

\* No query has a parameter that its bindings do not name.
THEOREM ParametersAreBoundAlways == Spec => []ParametersAreBound
<1>1. Inv => ParametersAreBound
  BY InvIsType
<1> QED
  BY <1>1, Invariance, PTL

----------------------------------------------------------------------------
(***************************************************************************)
(* Refinement: what the steps of a statement are to EntityTable.           *)
(***************************************************************************)

\* The end of a call is an answer of the abstract specification.
LEMMA ReturnAnswers ==
    ASSUME NEW c, NEW code, NEW entities, Return(c, code, entities)
    PROVE  Abstract!Answer(c, code, entities)
<1>1. Abstract!NoRequest = NoRequest /\ Abstract!Answered(code, entities) = Answered(code, entities)
  BY Zenon DEF Abstract!NoRequest, NoRequest, Abstract!Answered, Answered
<1> QED
  BY <1>1, Zenon DEF Return, Abstract!Answer

\* An error, and what it must say.
LEMMA Fails ==
    ASSUME NEW c \in Callers, request[c] # NoRequest, UNCHANGED db,
           NEW code \in Errors, Return(c, code, {}),
           code = "InvalidArgument" => ~Abstract!Proper(request[c]),
           code = "NotFound" => request[c].call = "Get" /\ Abstract!Wanted(request[c]) = {},
           code = "ValueIsNull" => /\ request[c].call = "GetConfig"
                                   /\ \A row \in Abstract!Wanted(request[c]) : row.Value = Null,
           code = "AlreadyExists" => request[c].call \in {"Create", "Update"}
    PROVE  Abstract!Fail(c)
<1>1. Abstract!NoRequest = NoRequest
  BY Zenon DEF Abstract!NoRequest, NoRequest
<1>2. Abstract!Answer(c, code, {})
  BY ReturnAnswers
<1>3. code \in Abstract!Errors
  BY SameSchema
<1> QED
  BY <1>1, <1>2, <1>3 DEF Abstract!Fail

\* CheckValidForCreate and CheckValidForUpdate refuse what the abstract
\* specification calls improper.
LEMMA Arguments ==
    \A r : Abstract!Proper(r) <=> ~InvalidArgument(r)
BY DEF Abstract!Proper, InvalidArgument

\* A call that is refused before any statement fails and changes nothing.
LEMMA RejectFails ==
    ASSUME Inv, NEW c \in Callers, Reject(c)
    PROVE  Abstract!Fail(c)
<1>1. "InvalidArgument" \in Errors
  BY DEF Errors
<1>2. request[c] # NoRequest /\ UNCHANGED db /\ Return(c, "InvalidArgument", {})
      /\ ~Abstract!Proper(request[c])
  BY Arguments DEF Reject
<1> QED
  BY <1>1, <1>2, Fails

\* A statement that fails ends its call with an error and without values.
LEMMA FailFails ==
    ASSUME Inv, NEW c \in Callers, Fail(c)
    PROVE  Abstract!Fail(c)
<1>1. PICK code \in {"DatabaseLocked", "DatabaseError"} : Return(c, code, {})
  BY DEF Fail
<1>2. code \in Errors /\ code # "InvalidArgument" /\ code # "NotFound" /\ code # "ValueIsNull"
      /\ code # "AlreadyExists"
  BY DEF Errors
<1>3. request[c] # NoRequest /\ UNCHANGED db
  BY OfCaller DEF Fail
<1> QED
  BY <1>1, <1>2, <1>3, Fails

\* A row that there is loads.
LEMMA ExecuteRowGets ==
    ASSUME Inv, NEW c \in Callers, ExecuteRow(c)
    PROVE  Abstract!Get(c) \/ Abstract!Fail(c)
<1> DEFINE r == request[c]
           rows == Selected(QueryOf(r), statement[c].bound)
<1>1. r \in Requests /\ r # NoRequest /\ statement[c].bound = BoundTo(r)
      /\ r.call = "Get" /\ UNCHANGED db
  BY OfCaller DEF ExecuteRow
<1>2. rows = Abstract!Wanted(r)
  BY <1>1, SelectedIsWanted DEF Looking
<1>3. r.table \in Entities /\ QueryOf(r).table = r.table
  BY <1>1, RequestTables
<1>4. rows \subseteq db[r.table]
  BY <1>3 DEF Selected
<1>5. \A row \in rows : Loads(r.table, row)
                        /\ LoadEntity(r.table, row) = Abstract!EntityOf(r.table, row)
  <2> HIDE DEF rows
  <2> QED
    BY <1>3, <1>4, LoadingARow DEF Inv
<1>6. \/ rows = {} /\ Return(c, "NotFound", {})
      \/ \E row \in rows : IF Loads(r.table, row) THEN Return(c, "OK", {LoadEntity(r.table, row)})
                                                  ELSE Return(c, "ValueIsNull", {})
  BY DEF ExecuteRow
<1> HIDE DEF rows
<1>7. CASE rows = {} /\ Return(c, "NotFound", {})
  <2>1. "NotFound" \in Errors
    BY DEF Errors
  <2>2. Abstract!Wanted(r) = {}
    BY <1>2, <1>7
  <2> QED
    BY <1>1, <1>7, <2>1, <2>2, Fails
<1>8. ASSUME NEW row \in rows, Return(c, "OK", {LoadEntity(r.table, row)})
      PROVE  Abstract!Get(c)
  <2>1. Abstract!Answer(c, "OK", {Abstract!EntityOf(r.table, row)})
    BY <1>5, <1>8, ReturnAnswers
  <2> QED
    BY <1>1, <1>2, <2>1 DEF Abstract!Get
<1> QED
  BY <1>5, <1>6, <1>7, <1>8

\* There is one row of a name.
LEMMA ExecuteScalarGetsConfig ==
    ASSUME Inv, NEW c \in Callers, ExecuteScalar(c)
    PROVE  Abstract!GetConfig(c) \/ Abstract!Fail(c)
<1> DEFINE r == request[c]
           rows == Selected(QueryOf(r), statement[c].bound)
<1>1. r \in Requests /\ r # NoRequest /\ statement[c].bound = BoundTo(r)
      /\ r.call = "GetConfig" /\ UNCHANGED db
  BY OfCaller DEF ExecuteScalar
<1>2. rows = Abstract!Wanted(r)
  BY <1>1, SelectedIsWanted DEF Looking
<1>3. r.table = "Config" /\ DOMAIN r.given = {"Name"}
  BY <1>1, RequestsAssumption
<1>4. Abstract!Wanted(r) = {row \in db["Config"] : row["Name"] = Abstract!Stored("Name", r.given["Name"])}
  BY <1>1, <1>3 DEF Abstract!Wanted
<1>5. \A s \in rows, u \in rows : s = u
  <2>1. Duplicates(db, "Config") = {}
    BY ConfigColumns, NoViolation DEF Inv, WellKept
  <2>2. \A s \in db["Config"], u \in db["Config"] : s["Name"] = u["Name"] => s = u
    BY <2>1 DEF Duplicates, Agree, Unique
  <2> HIDE DEF rows
  <2> QED
    BY <1>2, <1>4, <2>2
<1>6. IF \E row \in rows : row.Value # Null
      THEN \E row \in rows : Return(c, "OK", {[Value |-> BindValue("Value", row.Value)]})
      ELSE Return(c, "ValueIsNull", {})
  BY DEF ExecuteScalar
<1> HIDE DEF rows
<1>7. CASE \E row \in rows : row.Value # Null
  <2>1. PICK row \in rows : Return(c, "OK", {[Value |-> BindValue("Value", row.Value)]})
    BY <1>6, <1>7
  <2>2. row.Value # Null
    BY <1>5, <1>7
  <2>3. BindValue("Value", row.Value) = Abstract!Text(row.Value)
    <3>1. row \in db["Config"] /\ "Value" \in Texts /\ "Value" \in Columns("Config")
      BY <1>2, <1>4, ConfigColumns DEF Texts
    <3>2. row["Value"] \in Seq(STRING)
      BY <2>2, <3>1, ConfigColumns DEF Inv, WellKept, WellFormedRows, Typed
    <3> QED
      BY <3>1, <3>2, BoundText
  <2>4. Abstract!Answer(c, "OK", {[Value |-> Abstract!Text(row.Value)]})
    BY <2>1, <2>3, ReturnAnswers
  <2> QED
    BY <1>1, <1>2, <2>2, <2>4 DEF Abstract!GetConfig
<1>8. CASE ~ \E row \in rows : row.Value # Null
  <2>1. Return(c, "ValueIsNull", {}) /\ "ValueIsNull" \in Errors
    BY <1>6, <1>8 DEF Errors
  <2>2. \A row \in Abstract!Wanted(r) : row.Value = Null
    BY <1>2, <1>8
  <2> QED
    BY <1>1, <2>1, <2>2, Fails
<1> QED
  BY <1>7, <1>8

\* A list has all of its rows when it ends, as they were when it began.
LEMMA EndOfListLists ==
    ASSUME Inv, NEW c \in Callers, request[c].call # "GetPostsForTag", EndOfList(c)
    PROVE  Abstract!List(c)
<1> DEFINE r == request[c]
           rows == RowsOf(c)
<1>1. /\ statement[c].state = "rows" /\ statement[c].left = {} /\ UNCHANGED db
      /\ Return(c, "OK", statement[c].values)
  BY DEF EndOfList
<1>2. /\ r \in Requests /\ statement[c].bound = BoundTo(r) /\ r.call \in Lists
      /\ r.table \in Entities /\ rows \subseteq db[r.table]
      /\ AllLoaded(r.table, {}) \cup statement[c].values = AllLoaded(r.table, rows)
  BY <1>1, OfCaller
<1>3. rows = Abstract!Wanted(r)
  BY <1>2, SelectedIsWanted DEF Looking, Lists, RowsOf
<1> HIDE DEF rows
<1>4. statement[c].values = AllLoaded(r.table, rows)
  BY <1>2 DEF AllLoaded
<1>5. \A row \in rows : LoadEntity(r.table, row) = Abstract!EntityOf(r.table, row)
  BY <1>2, LoadingARow DEF Inv
<1>6. AllLoaded(r.table, rows) = {Abstract!EntityOf(r.table, row) : row \in rows}
  BY <1>5 DEF AllLoaded
<1>7. Abstract!Answer(c, "OK", {Abstract!EntityOf(r.table, row) : row \in Abstract!Wanted(r)})
  BY <1>1, <1>3, <1>4, <1>6, ReturnAnswers
<1> QED
  BY <1>1, <1>2, <1>7 DEF Abstract!List, Lists

\* A DELETE and an upsert cannot fail for a row that is there already.
LEMMA ViolationsTell ==
    ASSUME Inv, NEW r \in Requests, r.call \in {"Create", "Update", "Delete", "SetConfig"},
           NEW code, code = Violation(Executed(QueryOf(r), BoundTo(r))), code # "OK"
    PROVE  /\ code \in Errors /\ code \notin {"InvalidArgument", "NotFound", "ValueIsNull"}
           /\ code = "AlreadyExists" => r.call \in {"Create", "Update"}
<1> DEFINE after == Executed(QueryOf(r), BoundTo(r))
<1>1. code \in Errors /\ code \notin {"InvalidArgument", "NotFound", "ValueIsNull"}
  BY DEF Violation, Errors
<1>2. ASSUME r.call \in {"Delete", "SetConfig"}
      PROVE  code # "AlreadyExists"
  <2>1. DOMAIN after = Tables /\ \A t \in Tables : Duplicates(after, t) = {}
    BY <1>2, DeleteWrites, SetConfigWrites DEF Inv, InOrder
  <2> HIDE DEF after
  <2>2. Violation(after) # "AlreadyExists"
    BY <2>1 DEF Violation
  <2> QED
    BY <2>2 DEF after
<1> QED
  BY <1>1, <1>2

\* A write takes effect at once and as the comments of entity.hh say, or
\* fails and changes nothing.
LEMMA StepUpdateWrites ==
    ASSUME Inv, NEW c \in Callers, StepUpdate(c)
    PROVE  \/ Abstract!Create(c) \/ Abstract!Update(c) \/ Abstract!Delete(c)
           \/ Abstract!SetConfig(c) \/ Abstract!Fail(c)
<1> DEFINE r == request[c]
           query == QueryOf(r)
           after == Executed(query, BoundTo(r))
           rows == Selected(query, BoundTo(r))
<1>1. /\ r \in Requests /\ ~InvalidArgument(r) /\ Abstract!Proper(r)
      /\ r.call \in {"Create", "Update", "Delete", "SetConfig"}
  BY StepUpdateCases, Arguments
<1>2. \/ Violation(after) # "OK" /\ Return(c, Violation(after), {}) /\ db' = db
      \/ Return(c, "DatabaseError", {}) /\ db' = db
      \/ /\ Violation(after) = "OK" /\ db' = after
         /\ query.kind \in {"UPDATE", "DELETE"} => rows # {}
         /\ Return(c, Written(r).code, Written(r).entities)
  BY StepUpdateCases
<1>3. r # NoRequest
  BY <1>1, RequestTables
<1> HIDE DEF rows, query
<1>4. CASE Violation(after) # "OK" /\ Return(c, Violation(after), {}) /\ db' = db
  <2> DEFINE code == Violation(after)
  <2>1. /\ code \in Errors /\ code \notin {"InvalidArgument", "NotFound", "ValueIsNull"}
        /\ code = "AlreadyExists" => r.call \in {"Create", "Update"}
    BY <1>1, <1>4, ViolationsTell DEF query
  <2>2. Return(c, code, {})
    BY <1>4
  <2> HIDE DEF code
  <2> QED
    BY <1>3, <1>4, <2>1, <2>2, Fails
<1>5. CASE Return(c, "DatabaseError", {}) /\ db' = db
  <2>1. "DatabaseError" \in Errors
    BY DEF Errors
  <2> QED
    BY <1>3, <1>5, <2>1, Fails
<1>6. ASSUME Violation(after) = "OK", db' = after,
             query.kind \in {"UPDATE", "DELETE"} => rows # {},
             Return(c, Written(r).code, Written(r).entities)
      PROVE  \/ Abstract!Create(c) \/ Abstract!Update(c) \/ Abstract!Delete(c)
             \/ Abstract!SetConfig(c)
  <2>1. Abstract!Violation(db') = "OK" /\ WellKept(db)
    BY <1>6, SameConstraints DEF Inv
  <2>2. Abstract!Answer(c, Written(r).code, Written(r).entities)
    BY <1>6, ReturnAnswers
  <2>3. CASE r.call = "Create"
    <3> DEFINE made == [r.given EXCEPT !.Id = NewId(db[r.table])]
    <3>1. Written(r) = Answered("CreatedOK", {made})
      BY <2>3 DEF Written
    <3>2. Abstract!Answer(c, "CreatedOK", {made})
      BY <2>2, <3>1 DEF Answered
    <3>3. after = Abstract!Replace(r.table, {}, {Abstract!RowOf(r.table, made, Abstract!Unvisited(r.table))})
      BY <1>1, <2>1, <2>3, CreateWrites DEF query
    <3>4. made = [r.given EXCEPT !.Id = Abstract!NewId(db[r.table])]
      BY SameSchema
    <3> HIDE DEF made, after
    <3> QED
      BY <1>1, <1>6, <2>1, <2>3, <3>2, <3>3, <3>4 DEF Abstract!Create
  <2>4. CASE r.call = "Update"
    <3>1. Written(r) = Answered("DatabaseEnd", {r.given})
      BY <2>4 DEF Written
    <3>2. Abstract!Answer(c, "DatabaseEnd", {r.given})
      BY <2>2, <3>1 DEF Answered
    <3>3. query.kind = "UPDATE"
      BY <2>4, Queries DEF query, IsQuery
    <3>4. \E row \in Abstract!Wanted(r) :
             after = Abstract!Replace(r.table, {row}, {Abstract!RowOf(r.table, r.given, row)})
      BY <1>1, <1>6, <2>1, <2>4, <3>3, UpdateWrites DEF query, rows
    <3> HIDE DEF after
    <3> QED
      BY <1>1, <1>6, <2>1, <2>4, <3>2, <3>4 DEF Abstract!Update
  <2>5. CASE r.call = "Delete"
    <3>1. Written(r) = Answered("OK", {[r.given EXCEPT !.Id = -1]})
      BY <2>5 DEF Written
    <3>2. Abstract!Answer(c, "OK", {[r.given EXCEPT !.Id = -1]})
      BY <2>2, <3>1 DEF Answered
    <3>3. query.kind = "DELETE"
      BY <2>5, Queries DEF query, IsQuery
    <3>4. \E row \in Abstract!Wanted(r) :
             after = Abstract!Cascaded(Abstract!Replace(r.table, {row}, {}))
      BY <1>1, <1>6, <2>1, <2>5, <3>3, DeleteWrites DEF query, rows
    <3> HIDE DEF after
    <3> QED
      BY <1>6, <2>1, <2>5, <3>2, <3>4 DEF Abstract!Delete
  <2>6. CASE r.call = "SetConfig"
    <3> DEFINE row == Abstract!RowOf("Config", r.given, r.given)
    <3>1. Written(r) = Answered("DatabaseEnd", {})
      BY <2>6 DEF Written
    <3>2. Abstract!Answer(c, "DatabaseEnd", {})
      BY <2>2, <3>1 DEF Answered
    <3>3. after = Abstract!Replace("Config", {old \in db["Config"] : old.Name = row.Name}, {row})
      BY <1>1, <2>1, <2>6, SetConfigWrites DEF query
    <3> HIDE DEF after
    <3> QED
      BY <1>6, <2>6, <3>2, <3>3 DEF Abstract!SetConfig
  <2> QED
    BY <1>1, <2>3, <2>4, <2>5, <2>6
<1> HIDE DEF after
<1> QED
  BY <1>2, <1>4, <1>5, <1>6

\* Where no call asks for the posts of a tag (booru.cc:282, which lists the
\* posts that have any tag), every call of the store and the getters takes
\* effect at one moment, entirely or not at all, whatever values the entities
\* have, however many callers there are and in whatever order they step.
THEOREM ImplementsEntityTableAlways ==
    ASSUME \A r \in Requests : r.call # "GetPostsForTag"
    PROVE  Spec => ImplementsEntityTable
<1>1. Init => Abstract!Init
  <2>1. Abstract!NoRequest = NoRequest /\ Abstract!Answered("none", {}) = Answered("none", {})
    BY Zenon DEF Abstract!NoRequest, NoRequest, Abstract!Answered, Answered
  <2> QED
    BY <2>1 DEF Init, Abstract!Init
<1>2. Inv /\ [Next]_vars => [Abstract!Next]_(Abstract!vars)
  <2> SUFFICES ASSUME Inv, [Next]_vars
               PROVE  Abstract!Next \/ UNCHANGED <<db, request, answer>>
    BY DEF Abstract!vars
  <2>1. CASE UNCHANGED vars
    BY <2>1 DEF vars
  <2>2. CASE Next
    <3>1. PICK c \in Callers :
             \/ \E r \in Requests : Call(c, r)
             \/ Reject(c) \/ Prepare(c)
             \/ StepUpdate(c) \/ ExecuteRow(c) \/ ExecuteScalar(c)
             \/ OpenList(c) \/ NextRow(c) \/ EndOfList(c)
             \/ Fail(c)
      BY <2>2 DEF Next
    <3>2. ASSUME NEW r \in Requests, Call(c, r)
          PROVE  Abstract!Ask(c, r)
      <4>1. Abstract!NoRequest = NoRequest /\ Abstract!Answered("none", {}) = Answered("none", {})
        BY Zenon DEF Abstract!NoRequest, NoRequest, Abstract!Answered, Answered
      <4> QED
        BY <3>2, <4>1 DEF Call, Abstract!Ask
    <3>3. Reject(c) \/ Fail(c) => Abstract!Fail(c)
      BY RejectFails, FailFails
    <3>4. Prepare(c) \/ OpenList(c) \/ NextRow(c) => UNCHANGED <<db, request, answer>>
      BY InvNextRow DEF Prepare, OpenList
    <3>5. StepUpdate(c) => \/ Abstract!Create(c) \/ Abstract!Update(c) \/ Abstract!Delete(c)
                           \/ Abstract!SetConfig(c) \/ Abstract!Fail(c)
      BY StepUpdateWrites
    <3>6. ExecuteRow(c) => Abstract!Get(c) \/ Abstract!Fail(c)
      BY ExecuteRowGets
    <3>7. ExecuteScalar(c) => Abstract!GetConfig(c) \/ Abstract!Fail(c)
      BY ExecuteScalarGetsConfig
    <3>8. EndOfList(c) => Abstract!List(c)
      <4> SUFFICES ASSUME EndOfList(c) PROVE Abstract!List(c)
        OBVIOUS
      <4>1. request[c] \in Requests
        BY OfCaller DEF EndOfList
      <4> QED
        BY <4>1, EndOfListLists
    <3> QED
      BY <3>1, <3>2, <3>3, <3>4, <3>5, <3>6, <3>7, <3>8, Zenon DEF Abstract!Next
  <2> QED
    BY <2>1, <2>2
<1> QED
  BY <1>1, <1>2, Invariance, PTL DEF Spec, Abstract!Spec, ImplementsEntityTable
===============================================================================
