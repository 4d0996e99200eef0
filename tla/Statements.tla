------------------------------ MODULE Statements ------------------------------
(***************************************************************************)
(* How a call of the entity store or a getter of Booru becomes an SQL      *)
(* statement: the query is built from columns and keys (db/query.hh), its  *)
(* parameters are bound by name (db/sqlite3/stmt.cc), it is stepped and    *)
(* its rows are loaded by column (db/stmt.hh, db/visitors.hh).             *)
(*                                                                         *)
(* Each caller has a connection of its own; a statement that is in the     *)
(* middle of its rows holds a lock that keeps the others from writing.     *)
(***************************************************************************)
EXTENDS Schema, Results

CONSTANTS
    Callers,     \* one connection each, in processes of their own
    Requests,    \* calls they may make: [call, table, given]
    Databases,   \* what the tables may hold at first
    BlobSize,    \* size of an MD5Sum: 16 in the source
    Unbound,     \* value of a parameter that nobody bound
    MaxRows      \* bound on the rows of a table

ASSUME SizesAssumption == BlobSize \in Nat /\ MaxRows \in Nat

ASSUME ValuesAssumption ==
    Null \notin Seq(STRING) /\ Unbound \notin Seq(STRING) /\ Unbound # Null

Entities == Tables \ {"Config"}

\* Texts and blobs are sequences, where they are not NULL.
Typed(value, column) ==
    /\ column \in Texts => value \in Seq(STRING)
    /\ column \in Blobs => value \in Seq(Nat)

\* What a call is given: entities have all of their properties, the other calls
\* the columns they look for; only optionals are without a value.
ASSUME RequestsAssumption ==
    \A r \in Requests :
        /\ \/ /\ r.call \in {"Create", "Update", "Delete"} /\ r.table \in Entities
              /\ DOMAIN r.given = PropertiesOf(r.table)
           \/ /\ r.call \in {"Get", "GetAll"} /\ r.table \in Entities
              /\ DOMAIN r.given \subseteq PropertiesOf(r.table) \ Nullable
           \/ r.call = "SetConfig" /\ r.table = "Config" /\ DOMAIN r.given = {"Name", "Value"}
           \/ r.call = "GetConfig" /\ r.table = "Config" /\ DOMAIN r.given = {"Name"}
           \/ r.call = "GetTagsForPost" /\ r.table = "Tags" /\ DOMAIN r.given = {"PostId"}
           \/ r.call = "GetPostsForTag" /\ r.table = "Posts" /\ DOMAIN r.given = {"TagId"}
        /\ \A c \in DOMAIN r.given :
              /\ r.given[c] # Unbound /\ Typed(r.given[c], c)
              /\ r.given[c] = Null => c \in Nullable \ Texts

\* Rows have the columns of their tables and ids of their own, and agree with
\* the constraints.
WellFormedRows(rows, table) ==
    /\ \A row \in rows : /\ DOMAIN row = Columns(table)
                          /\ \A c \in Columns(table) : row[c] = Null \/ Typed(row[c], c)
    /\ table # "Config" =>
          /\ \A row \in rows : row.Id \in Nat \ {0}
          /\ \A s \in rows, t \in rows : s.Id = t.Id => s = t

ASSUME DatabasesAssumption ==
    \A d \in Databases :
        /\ DOMAIN d = Tables
        /\ \A t \in Tables : IsFiniteSet(d[t]) /\ WellFormedRows(d[t], t)
        /\ Violation(d) = "OK"

VARIABLES
    db,          \* the rows of each table
    request,     \* the calls in progress: what the application asked for
    answer,      \* what the last call of each caller returned
    statement    \* the prepared statements

vars == <<db, request, answer, statement>>

NoRequest == [call |-> "none", table |-> "none", given |-> [c \in {} |-> Null]]

\* bound: the values of its parameters; left, values: the rows that were not
\* stepped to yet, and the entities loaded from those that were.
NoStatement == [state |-> "none", bound |-> [c \in {} |-> Null], left |-> {}, values |-> {}]

Answered(code, entities) == [code |-> code, entities |-> entities]

TypeOK ==
    /\ \A t \in Tables : \A row \in db[t] : DOMAIN row = Columns(t)
    /\ request \in [Callers -> Requests \cup {NoRequest}]
    /\ \A c \in Callers :
          /\ answer[c].code \in ResultCode \cup {"none"}
          /\ answer[c].code \in Errors => answer[c].entities = {}
          /\ statement[c].state \in {"none", "bound", "rows"}
          /\ statement[c].state # "none" => request[c] # NoRequest
          /\ \A e \in statement[c].values : "MD5Sum" \in DOMAIN e => Len(e.MD5Sum) = BlobSize

Init ==
    /\ db \in Databases
    /\ request = [c \in Callers |-> NoRequest]
    /\ answer = [c \in Callers |-> Answered("none", {})]
    /\ statement = [c \in Callers |-> NoStatement]

----------------------------------------------------------------------------
\* Queries: the columns that are set, and the keys that a row must agree with,
\* both parameters by the same name.  within: a condition Id IN (SELECT ..).

Query(kind, table, columns, keys) ==
    [kind |-> kind, table |-> table, columns |-> columns, keys |-> keys, within |-> {}]

NonPrimaryKeyColumns(table) == PropertiesOf(table) \ {"Id"}

Within(query, table, column, key) ==
    [query EXCEPT !.within = {[table |-> table, column |-> column, key |-> key]}]

InsertEntity(table) == Query("INSERT", table, NonPrimaryKeyColumns(table), {})

UpdateEntity(table) == Query("UPDATE", table, NonPrimaryKeyColumns(table), {"Id"})

UpsertConfig == Query("REPLACE", "Config", {"Value", "Name"}, {})

TagQuery == Within(Query("SELECT", "Tags", {}, {}), "PostTags", "TagId", "PostId")

PostQuery == Within(Query("SELECT", "Posts", {}, {}), "PostTags", "TagId", "TagId")

\* Get, GetAll, GetConfig and FindPostTag, by the keys that are given.
SelectWithKeys(table, keys) == Query("SELECT", table, {}, keys)

QueryOf(r) ==
    CASE r.call = "Create"         -> InsertEntity(r.table)
      [] r.call = "Update"         -> UpdateEntity(r.table)
      [] r.call = "Delete"         -> Query("DELETE", r.table, {}, {"Id"})
      [] r.call = "SetConfig"      -> UpsertConfig
      [] r.call = "GetTagsForPost" -> TagQuery
      [] r.call = "GetPostsForTag" -> PostQuery
      [] OTHER                     -> SelectWithKeys(r.table, DOMAIN r.given)

Parameters(query) == query.columns \cup query.keys \cup {sub.key : sub \in query.within}

----------------------------------------------------------------------------
\* Binding

\* strdup of c_str(), bound with length -1; an optional without a value is
\* bound as NULL, a blob as it is.
BindValue(column, value) ==
    IF column \in Texts /\ NUL \in ToSet(value)
    THEN SubSeq(value, 1, SelectInSeq(value, LAMBDA ch : ch = NUL) - 1)
    ELSE value

\* Mutant: the parameter is named for the column of the subquery.
BindingsByColumn(r) ==
    IF r.call = "GetTagsForPost" THEN [TagId |-> r.given.PostId] ELSE r.given

\* What is bound: all properties of an entity by Store, its id for a DELETE,
\* the arguments of a getter by the names of their columns.
Bindings(r) == IF r.call = "Delete" THEN [Id |-> r.given.Id] ELSE r.given

\* A name that the query has no parameter for is passed over, and a parameter
\* that was not named stays NULL: "OK, not all queries use all members".
Bound(query, bindings) ==
    [p \in Parameters(query) |->
        IF p \in DOMAIN bindings THEN BindValue(p, bindings[p]) ELSE Unbound]

----------------------------------------------------------------------------
\* Loading

\* Mutant: only what is too long is fitted.
TruncatedBlob(blob) == IF Len(blob) >= BlobSize THEN SubSeq(blob, 1, BlobSize) ELSE blob

\* BLOB<N>: cut off, or padded with zeroes.
FittedBlob(blob) ==
    IF Len(blob) >= BlobSize THEN SubSeq(blob, 1, BlobSize)
    ELSE blob \o [i \in 1 .. BlobSize - Len(blob) |-> 0]

GetColumnValue(column, value) ==
    IF column \in Blobs THEN FittedBlob(value) ELSE BindValue(column, value)

\* The first property that is not a column of the row, or is NULL without
\* being an optional, ends the visit.
Loads(table, row) ==
    \A p \in PropertiesOf(table) : p \in DOMAIN row /\ (row[p] # Null \/ p \in Nullable)

LoadEntity(table, row) == [p \in PropertiesOf(table) |-> GetColumnValue(p, row[p])]

----------------------------------------------------------------------------
\* What SQLite makes of a statement

Sql(value) == IF value = Unbound THEN Null ELSE value

Selected(query, bound) ==
    {row \in db[query.table] :
        /\ \A k \in query.keys : Sql(bound[k]) # Null /\ row[k] = bound[k]
        /\ \A sub \in query.within : \E s \in db[sub.table] :
              s[sub.column] = row.Id /\ Sql(bound[sub.key]) # Null /\ s[sub.key] = bound[sub.key]}

Assigned(row, query, bound) ==
    [c \in DOMAIN row |-> IF c \in query.columns THEN Sql(bound[c]) ELSE row[c]]

NewRow(query, bound) ==
    [c \in Columns(query.table) |->
        IF c \in query.columns THEN Sql(bound[c])
        ELSE IF c = "Id" THEN NewId(db[query.table]) ELSE Unvisited(query.table)[c]]

Executed(query, bound) ==
    LET rows == Selected(query, bound)
        new  == NewRow(query, bound)
    IN  CASE query.kind = "INSERT" -> [db EXCEPT ![query.table] = @ \cup {new}]
          [] query.kind = "REPLACE" ->
                [db EXCEPT ![query.table] =
                    {row \in @ : ~Agree(row, new, Unique(query.table))} \cup {new}]
          [] query.kind = "UPDATE" ->
                [db EXCEPT ![query.table] =
                    (@ \ rows) \cup {Assigned(row, query, bound) : row \in rows}]
          [] query.kind = "DELETE" -> Cascaded([db EXCEPT ![query.table] = @ \ rows])

----------------------------------------------------------------------------
\* A call of the application

Call(c, r) ==
    /\ request[c] = NoRequest
    /\ request' = [request EXCEPT ![c] = r]
    /\ answer' = [answer EXCEPT ![c] = Answered("none", {})]
    /\ UNCHANGED <<db, statement>>

\* The statement is finalized with the last reference to it.
Return(c, code, entities) ==
    /\ request' = [request EXCEPT ![c] = NoRequest]
    /\ answer' = [answer EXCEPT ![c] = Answered(code, entities)]
    /\ statement' = [statement EXCEPT ![c] = NoStatement]

\* CheckValidForCreate, CheckValidForUpdate, CheckValidForDelete, CheckValues.
InvalidArgument(r) ==
    \/ r.call = "Create" /\ r.given.Id # -1
    \/ r.call \in {"Update", "Delete"} /\ r.given.Id = -1
    \/ /\ r.call \in {"Create", "Update"} /\ r.table = "TagImplications"
       /\ r.given.TagId = r.given.ImpliedTagId

Reject(c) ==
    /\ request[c] # NoRequest /\ statement[c].state = "none"
    /\ InvalidArgument(request[c])
    /\ Return(c, "InvalidArgument", {})
    /\ UNCHANGED db

Prepare(c) ==
    /\ request[c] # NoRequest /\ statement[c].state = "none"
    /\ ~InvalidArgument(request[c])
    /\ statement' = [statement EXCEPT ![c] = [NoStatement EXCEPT
            !.state = "bound", !.bound = Bound(QueryOf(request[c]), Bindings(request[c]))]]
    /\ UNCHANGED <<db, request, answer>>

\* What a call that wrote hands on: Update and SetConfig the code of the step.
Written(r) ==
    CASE r.call = "Create"    -> Answered("CreatedOK", {[r.given EXCEPT !.Id = NewId(db[r.table])]})
      [] r.call = "Update"    -> Answered("DatabaseEnd", {r.given})
      [] r.call = "Delete"    -> Answered("OK", {[r.given EXCEPT !.Id = -1]})
      [] r.call = "SetConfig" -> Answered("DatabaseEnd", {})

NobodyReads(c) == \A d \in Callers \ {c} : statement[d].state # "rows"

\* A write that needs a row changes at least one, or is an error.
StepUpdate(c) ==
    LET r == request[c]
        query == QueryOf(r)
        after == Executed(query, statement[c].bound)
    IN  /\ statement[c].state = "bound" /\ query.kind # "SELECT"
        /\ NobodyReads(c)
        /\ query.kind = "INSERT" => Cardinality(db[r.table]) < MaxRows
        /\ IF Violation(after) # "OK"
           THEN Return(c, Violation(after), {}) /\ UNCHANGED db
           ELSE IF query.kind \in {"UPDATE", "DELETE"} /\ Selected(query, statement[c].bound) = {}
           THEN Return(c, "DatabaseError", {}) /\ UNCHANGED db
           ELSE Return(c, Written(r).code, Written(r).entities) /\ db' = after

\* ExecuteRow with a row needed.
ExecuteRow(c) ==
    LET r == request[c]  rows == Selected(QueryOf(r), statement[c].bound) IN
        /\ statement[c].state = "bound" /\ r.call = "Get"
        /\ \/ rows = {} /\ Return(c, "NotFound", {})
           \/ \E row \in rows :
                IF Loads(r.table, row) THEN Return(c, "OK", {LoadEntity(r.table, row)})
                                       ELSE Return(c, "ValueIsNull", {})
        /\ UNCHANGED db

\* ExecuteScalar without one: the column of no row reads as NULL.
ExecuteScalar(c) ==
    LET rows == Selected(QueryOf(request[c]), statement[c].bound) IN
        /\ statement[c].state = "bound" /\ request[c].call = "GetConfig"
        /\ IF \E row \in rows : row.Value # Null
           THEN \E row \in rows : Return(c, "OK", {[Value |-> BindValue("Value", row.Value)]})
           ELSE Return(c, "ValueIsNull", {})
        /\ UNCHANGED db

\* ExecuteList: the first step finds the rows and keeps others from writing.
OpenList(c) ==
    LET query == QueryOf(request[c]) IN
        /\ statement[c].state = "bound"
        /\ query.kind = "SELECT" /\ request[c].call \notin {"Get", "GetConfig"}
        /\ statement' = [statement EXCEPT ![c].state = "rows",
                                          ![c].left = Selected(query, statement[c].bound)]
        /\ UNCHANGED <<db, request, answer>>

\* One round of its loop.
NextRow(c) ==
    LET table == QueryOf(request[c]).table IN
        /\ statement[c].state = "rows"
        /\ \E row \in statement[c].left :
              IF Loads(table, row)
              THEN /\ statement' = [statement EXCEPT ![c].left = @ \ {row},
                                                     ![c].values = @ \cup {LoadEntity(table, row)}]
                   /\ UNCHANGED <<request, answer>>
              ELSE Return(c, "ValueIsNull", {})
        /\ UNCHANGED db

EndOfList(c) ==
    /\ statement[c].state = "rows" /\ statement[c].left = {}
    /\ Return(c, "OK", statement[c].values)
    /\ UNCHANGED db

\* Mutant: what was read so far is returned.
FailWithValues(c) ==
    /\ statement[c].state # "none"
    /\ Return(c, "OK", statement[c].values)
    /\ UNCHANGED db

\* The statement cannot be prepared, or one of its steps fails: the file is
\* locked or cannot be read.  Entities loaded so far are dropped.
Fail(c) ==
    /\ statement[c].state # "none"
    /\ \E code \in {"DatabaseLocked", "DatabaseError"} : Return(c, code, {})
    /\ UNCHANGED db

Next ==
    \E c \in Callers :
        \/ \E r \in Requests : Call(c, r)
        \/ Reject(c) \/ Prepare(c)
        \/ StepUpdate(c) \/ ExecuteRow(c) \/ ExecuteScalar(c)
        \/ OpenList(c) \/ NextRow(c) \/ EndOfList(c)
        \/ Fail(c)

Spec == Init /\ [][Next]_vars

----------------------------------------------------------------------------
\* No statement is stepped with a parameter that nobody bound: names that
\* match nothing are passed over (stmt.cc:47), so that a query and its bindings
\* that disagree would silently compare with NULL, or store it.
ParametersAreBound ==
    \A c \in Callers : \A p \in DOMAIN statement[c].bound : statement[c].bound[p] # Unbound

Abstract == INSTANCE EntityTable

\* Whatever the calls of the others, each call does what entity.hh says at one
\* moment and entirely, or returns a true error and changes nothing: lists are
\* whole and of one moment (stmt.hh:188-204), an Update stores every property
\* of its entity and nothing else (entity.hh:134-145), what is loaded is what
\* was stored, up to NULs and the size of blobs (stmt.cc:83, stmt.hh:119).
ImplementsEntityTable == Abstract!Spec

----------------------------------------------------------------------------
\* What the code says and does not do.

\* "Get all posts for a tag by Id." (booru.cc:282)
PostsForTagHaveTheTag ==
    [][\A c \in Callers :
         request[c].call = "GetPostsForTag" /\ answer'[c] # answer[c] /\ answer'[c].code = "OK"
            => \A post \in answer'[c].entities :
                  \E pt \in db.PostTags : pt.PostId = post.Id /\ pt.TagId = request[c].given.TagId]_vars
==============================================================================
