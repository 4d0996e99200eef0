----------------------------- MODULE EntityTable -----------------------------
(***************************************************************************)
(* What the calls of entity.hh and booru.hh promise to those who make      *)
(* them: each takes effect at one moment between the call and its return,  *)
(* on the table as it is then, or returns an error and changes nothing.    *)
(***************************************************************************)
EXTENDS Schema, Results

CONSTANTS
    Callers,     \* one connection each, in processes of their own
    Requests,    \* calls they may make: [call, table, given]
    Databases,   \* what the tables may hold at first
    BlobSize     \* size of an MD5Sum: 16 in the source

VARIABLES db,        \* the rows of each table
          request,   \* the calls in progress, by caller
          answer     \* what the last call of each returned

vars == <<db, request, answer>>

NoRequest == [call |-> "none", table |-> "none", given |-> [c \in {} |-> Null]]

Answered(code, entities) == [code |-> code, entities |-> entities]

Init ==
    /\ db \in Databases
    /\ request = [c \in Callers |-> NoRequest]
    /\ answer = [c \in Callers |-> Answered("none", {})]

\* A text ends before its first NUL, a blob has the size of its type.
Text(value) ==
    CHOOSE t \in {SubSeq(value, 1, n) : n \in 0 .. Len(value)} :
        /\ \A i \in 1 .. Len(t) : t[i] # NUL
        /\ t = value \/ value[Len(t) + 1] = NUL

Sized(value) == [i \in 1 .. BlobSize |-> IF i > Len(value) THEN 0 ELSE value[i]]

Stored(column, value) == IF column \in Texts /\ value # Null THEN Text(value) ELSE value

Loaded(column, value) == IF column \in Blobs THEN Sized(value) ELSE Stored(column, value)

EntityOf(table, row) == [c \in PropertiesOf(table) |-> Loaded(c, row[c])]

\* The row that an entity describes; what it does not say is as in rest.
RowOf(table, entity, rest) ==
    [c \in Columns(table) |-> IF c \in DOMAIN entity THEN Stored(c, entity[c]) ELSE rest[c]]

\* A new entity has no id yet, one to be changed has; no tag implies itself.
Proper(r) ==
    /\ r.call = "Create" => r.given.Id = -1
    /\ r.call \in {"Update", "Delete"} => r.given.Id # -1
    /\ r.call \in {"Create", "Update"} /\ r.table = "TagImplications"
          => r.given.TagId # r.given.ImpliedTagId

\* The rows that a call asks for.
Wanted(r) ==
    CASE r.call = "GetTagsForPost" ->
           {t \in db.Tags : \E pt \in db.PostTags : pt.TagId = t.Id /\ pt.PostId = r.given.PostId}
      [] r.call = "GetPostsForTag" ->
           {p \in db.Posts : \E pt \in db.PostTags : pt.PostId = p.Id /\ pt.TagId = r.given.TagId}
      [] r.call \in {"Update", "Delete"} -> {row \in db[r.table] : row.Id = r.given.Id}
      [] OTHER ->
           {row \in db[r.table] : \A c \in DOMAIN r.given : row[c] = Stored(c, r.given[c])}

----------------------------------------------------------------------------
Ask(c, r) ==
    /\ request[c] = NoRequest
    /\ request' = [request EXCEPT ![c] = r]
    /\ answer' = [answer EXCEPT ![c] = Answered("none", {})]
    /\ UNCHANGED db

Answer(c, code, entities) ==
    /\ request' = [request EXCEPT ![c] = NoRequest]
    /\ answer' = [answer EXCEPT ![c] = Answered(code, entities)]

Replace(table, old, new) == [db EXCEPT ![table] = (@ \ old) \cup new]

Create(c) ==
    LET r == request[c]  table == r.table
        made == [r.given EXCEPT !.Id = NewId(db[table])]
        row  == RowOf(table, made, Unvisited(table))
    IN  /\ r.call = "Create" /\ Proper(r)
        /\ db' = Replace(table, {}, {row})
        /\ Violation(db') = "OK"
        /\ Answer(c, "CreatedOK", {made})

\* Of two updates the later one holds, in all of its columns.
Update(c) ==
    LET r == request[c] IN
        /\ r.call = "Update" /\ Proper(r)
        /\ \E row \in Wanted(r) : db' = Replace(r.table, {row}, {RowOf(r.table, r.given, row)})
        /\ Violation(db') = "OK"
        /\ Answer(c, "DatabaseEnd", {r.given})

Delete(c) ==
    LET r == request[c] IN
        /\ r.call = "Delete"
        /\ \E row \in Wanted(r) : db' = Cascaded(Replace(r.table, {row}, {}))
        /\ Violation(db') = "OK"
        /\ Answer(c, "OK", {[r.given EXCEPT !.Id = -1]})

\* One row, whichever.
Get(c) ==
    LET r == request[c] IN
        /\ r.call = "Get"
        /\ \E row \in Wanted(r) : Answer(c, "OK", {EntityOf(r.table, row)})
        /\ UNCHANGED db

\* All rows of one moment.
List(c) ==
    LET r == request[c] IN
        /\ r.call \in {"GetAll", "GetTagsForPost", "GetPostsForTag"}
        /\ Answer(c, "OK", {EntityOf(r.table, row) : row \in Wanted(r)})
        /\ UNCHANGED db

GetConfig(c) ==
    LET r == request[c] IN
        /\ r.call = "GetConfig"
        /\ \E row \in Wanted(r) : row.Value # Null /\ Answer(c, "OK", {[Value |-> Text(row.Value)]})
        /\ UNCHANGED db

SetConfig(c) ==
    LET r == request[c]  row == RowOf("Config", r.given, r.given) IN
        /\ r.call = "SetConfig"
        /\ db' = Replace("Config", {old \in db.Config : old.Name = row.Name}, {row})
        /\ Answer(c, "DatabaseEnd", {})

\* An error changes nothing, and says what is true.
Fail(c) ==
    LET r == request[c] IN
        /\ r # NoRequest
        /\ \E code \in Errors :
              /\ code = "InvalidArgument" => ~Proper(r)
              /\ code = "NotFound"        => r.call = "Get" /\ Wanted(r) = {}
              /\ code = "ValueIsNull"     => r.call = "GetConfig" /\ \A row \in Wanted(r) : row.Value = Null
              /\ code = "AlreadyExists"   => r.call \in {"Create", "Update"}
              /\ Answer(c, code, {})
        /\ UNCHANGED db

Next ==
    \E c \in Callers :
        \/ \E r \in Requests : Ask(c, r)
        \/ Create(c) \/ Update(c) \/ Delete(c)
        \/ Get(c) \/ List(c) \/ GetConfig(c) \/ SetConfig(c)
        \/ Fail(c)

Spec == Init /\ [][Next]_vars
=============================================================================
