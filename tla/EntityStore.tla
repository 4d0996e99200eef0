----------------------------- MODULE EntityStore -----------------------------
(***************************************************************************)
(* Booru::Create, Get, Update and Delete (include/booru/booru.hh,          *)
(* db/entity.hh) over the tables of the schema (db/sql.cc): row ids, unique *)
(* columns and foreign keys, for one application that holds entities and   *)
(* another process that writes to the same file.                           *)
(*                                                                         *)
(* Every statement is a transaction of its own here.                       *)
(***************************************************************************)
EXTENDS Integers

CONSTANTS
    Tables,      \* the tables in use
    Keys,        \* values of the column a table is unique in (Name, MD5Sum)
    Handles,     \* entities the application holds
    Catalogs,    \* what the database may start with: [rows, births]
    MaxBirths,   \* bound on rows ever made
    MaxId        \* bound on ids

ASSUME BoundsAssumption == MaxBirths \in Nat /\ MaxId \in Nat

NoId == -1       \* Id of an entity that is in no table, and the columns' DEFAULT
Null == 0        \* RedirectId is NULL; SQLite's ids start with 1
Ids  == 1 .. MaxId

\* The columns that refer to rows, with a FOREIGN KEY and without one.
ForeignKeys(table) ==
    CASE table = "Tags"            -> {"TagTypeId"}
      [] table = "Posts"           -> {"PostTypeId"}
      [] table = "TagImplications" -> {"TagId", "ImpliedTagId"}
      [] table = "PostTags"        -> {"PostId", "TagId"}
      [] table = "PostFiles"       -> {"PostId", "SiteId"}
      [] OTHER                     -> {}

Columns(table) ==
    ForeignKeys(table) \cup (IF table = "Tags" THEN {"RedirectId"} ELSE {})

\* The table that a column refers to.
Target(column) ==
    CASE column = "TagTypeId"  -> "TagTypes"
      [] column = "PostTypeId" -> "PostTypes"
      [] column = "PostId"     -> "Posts"
      [] column = "SiteId"     -> "Sites"
      [] column \in {"TagId", "ImpliedTagId", "RedirectId"} -> "Tags"

\* ON DELETE SET DEFAULT; the others have ON DELETE CASCADE.
SetDefault == {"TagTypeId", "PostTypeId"}

Associations == {"TagImplications", "PostTags"}

VARIABLES
    rows,          \* the rows of all tables
    lastRowId,     \* last_insert_rowid() of this connection
    creating,      \* Create between its INSERT and GetLastRowId: its handle
    held,          \* what the application holds
    \* History: which row is which, whatever its id.
    births,        \* rows made so far
    newestDeleted  \* tables that lost the row with their largest id

vars == <<rows, lastRowId, creating, held, births, newestDeleted>>

\* meant: the rows that the columns named when they were written.
Row == UNION {[table : {t}, id : Ids, birth : 1 .. MaxBirths, key : Keys,
               refs  : [Columns(t) -> {NoId, Null} \cup Ids],
               meant : [Columns(t) -> 0 .. MaxBirths]] : t \in Tables}

\* birth: the row that the entity was made as, or loaded from.
Entity == [table : Tables, id : {NoId} \cup Ids, birth : 1 .. MaxBirths]

NoEntity == [table |-> "none", id |-> NoId, birth |-> 0]

NoHandle == "none"

ASSUME NoHandleAssumption == NoHandle \notin Handles

TypeOK ==
    /\ rows \subseteq Row
    /\ lastRowId \in {0} \cup Ids
    /\ creating \in Handles \cup {NoHandle}
    /\ held \in [Handles -> Entity \cup {NoEntity}]
    /\ births \in 0 .. MaxBirths
    /\ newestDeleted \subseteq Tables

RowsWith(db, table, id) == {r \in db : r.table = table /\ r.id = id}

\* The row that is found under an id, if any.
BirthOf(db, table, id) ==
    IF RowsWith(db, table, id) = {} THEN 0
    ELSE (CHOOSE r \in RowsWith(db, table, id) : TRUE).birth

\* Two rows are never one another's: neither by their history nor by their id.
Distinct(db) ==
    \A r \in db, s \in db :
        r.birth = s.birth \/ (r.table = s.table /\ r.id = s.id) => r = s

Init ==
    /\ \E c \in Catalogs : rows = c.rows /\ births = c.births
    /\ lastRowId = 0
    /\ creating = NoHandle
    /\ held = [h \in Handles |-> NoEntity]
    /\ newestDeleted = {}

----------------------------------------------------------------------------
\* Statements

Meant(db, table, refs) == [c \in Columns(table) |-> BirthOf(db, Target(c), refs[c])]

TableRows(db, table) == {r \in db : r.table = table}

\* Mutant: gaps are filled.
IsNextIdInGap(db, table, id) ==
    RowsWith(db, table, id) = {} /\ \A n \in 1 .. id - 1 : RowsWith(db, table, n) # {}

\* INTEGER PRIMARY KEY without AUTOINCREMENT: one more than the largest id.
IsNextId(db, table, id) ==
    \/ TableRows(db, table) = {} /\ id = 1
    \/ \E r \in TableRows(db, table) :
          id = r.id + 1 /\ \A s \in TableRows(db, table) : s.id <= r.id

\* Mutant: without PRAGMA foreign_keys = ON.
ForeignKeysOff(db) == TRUE

ForeignKeysHold(db) ==
    \A r \in db : \A c \in ForeignKeys(r.table) : RowsWith(db, Target(c), r.refs[c]) # {}

\* UNIQUE (Name), (MD5Sum), (TagId, ImpliedTagId), (PostId, TagId).  Names of
\* post types need not be unique.
Duplicates(db, row) ==
    {r \in db : /\ r.table = row.table /\ r.birth # row.birth /\ row.table # "PostTypes"
                /\ IF row.table \in Associations THEN r.refs = row.refs
                                                 ELSE r.key = row.key}

\* PostFile::IterateProperties never visits Path, which is NOT NULL.
Complete(row) == row.table # "PostFiles"

\* Whether a row that is added to db, or changed in it, is let in.
Accepted(db, row) ==
    /\ Complete(row)
    /\ Duplicates(db, row) = {}
    /\ ForeignKeysHold(db)

\* TagImplication::CheckValues.
CheckValues(table, refs) ==
    table = "TagImplications" => refs["TagId"] # refs["ImpliedTagId"]

\* What earlier runs of the library left behind.
ASSUME CatalogsAssumption ==
    \A c \in Catalogs :
        /\ c.births \in 0 .. MaxBirths
        /\ c.rows \subseteq Row
        /\ Distinct(c.rows)
        /\ ForeignKeysHold(c.rows)
        /\ \A r \in c.rows : /\ r.birth <= c.births
                             /\ CheckValues(r.table, r.refs)
                             /\ r.meant = Meant(c.rows, r.table, r.refs)

\* CASCADE reaches no further than one table: nothing refers to what it takes.
Dependents(db, row) ==
    {r \in db : \E c \in ForeignKeys(r.table) \ SetDefault :
                   Target(c) = row.table /\ r.refs[c] = row.id}

Detached(r, row) ==
    [r EXCEPT !.refs = [c \in Columns(r.table) |->
        IF c \in SetDefault /\ Target(c) = row.table /\ r.refs[c] = row.id
        THEN NoId ELSE r.refs[c]]]

AfterDelete(db, row) ==
    {Detached(r, row) : r \in db \ (Dependents(db, row) \cup {row})}

\* An INSERT that succeeds, and the id it gives the row.
Insert(table, key, refs, id) ==
    LET row == [table |-> table, id |-> id, birth |-> births + 1, key |-> key,
                refs |-> refs, meant |-> Meant(rows, table, refs)]
    IN  /\ births < MaxBirths
        /\ IsNextId(rows, table, id)
        /\ Accepted(rows \cup {row}, row)
        /\ rows' = rows \cup {row}
        /\ births' = births + 1

\* A DELETE of one row that succeeds.
DeleteRow(row) ==
    LET left == AfterDelete(rows, row)
    IN  /\ ForeignKeysHold(left)
        /\ rows' = left
        /\ newestDeleted' = newestDeleted \cup
              {t \in Tables : \E r \in TableRows(rows, t) : \A s \in TableRows(left, t) : s.id < r.id}

UpdateRow(row, key, refs) ==
    LET changed == [row EXCEPT !.key = key, !.refs = refs,
                               !.meant = Meant(rows, row.table, refs)]
        after   == (rows \ {row}) \cup {changed}
    IN  /\ Accepted(after, changed)
        /\ rows' = after

\* The values an application may fill an entity with.
References(table) ==
    {refs \in [Columns(table) -> {NoId, Null} \cup Ids] :
        \A c \in Columns(table) : refs[c] # (IF c = "RedirectId" THEN NoId ELSE Null)}

----------------------------------------------------------------------------
\* The application.  A statement that fails, on a locked file or because a
\* constraint does not hold, changes neither the rows nor the entity.

\* Mutant: the result of StepUpdate is not looked at.
CreateIgnoresErrors(h, table, key, refs) ==
    /\ creating = NoHandle
    /\ CheckValues(table, refs)
    /\ \/ \E id \in Ids : Insert(table, key, refs, id) /\ lastRowId' = id
       \/ UNCHANGED <<rows, births, lastRowId>>
    /\ creating' = h
    /\ held' = [held EXCEPT ![h] = [table |-> table, id |-> NoId, birth |-> births']]
    /\ UNCHANGED newestDeleted

\* Create of a new entity: CheckValidForCreate wants no id.
Create(h, table, key, refs) ==
    /\ creating = NoHandle
    /\ CheckValues(table, refs)
    /\ \E id \in Ids : Insert(table, key, refs, id) /\ lastRowId' = id
    /\ creating' = h
    /\ held' = [held EXCEPT ![h] = [table |-> table, id |-> NoId, birth |-> births']]
    /\ UNCHANGED newestDeleted

\* Mutant: the largest id instead of this connection's last one.
GetLastRowIdOfTable ==
    /\ creating # NoHandle
    /\ creating' = NoHandle
    /\ \E id \in Ids : IsNextId(rows, held[creating].table, id + 1)
                     /\ held' = [held EXCEPT ![creating].id = id]
    /\ UNCHANGED <<rows, lastRowId, births, newestDeleted>>

\* The second statement of Create gives the entity its id.
GetLastRowId ==
    /\ creating # NoHandle
    /\ creating' = NoHandle
    /\ held' = [held EXCEPT ![creating].id = lastRowId]
    /\ UNCHANGED <<rows, lastRowId, births, newestDeleted>>

Get(h) ==
    /\ creating = NoHandle
    /\ \E r \in rows :
          held' = [held EXCEPT ![h] = [table |-> r.table, id |-> r.id, birth |-> r.birth]]
    /\ UNCHANGED <<rows, lastRowId, creating, births, newestDeleted>>

\* Mutant: the values are not looked at.
UpdateUnchecked(h, key, refs) ==
    /\ creating = NoHandle
    /\ held[h].id # NoId
    /\ \E r \in RowsWith(rows, held[h].table, held[h].id) : UpdateRow(r, key, refs)
    /\ UNCHANGED <<lastRowId, creating, held, births, newestDeleted>>

Update(h, key, refs) ==
    /\ creating = NoHandle
    /\ held[h].id # NoId                         \* CheckValidForUpdate
    /\ CheckValues(held[h].table, refs)
    /\ \E r \in RowsWith(rows, held[h].table, held[h].id) : UpdateRow(r, key, refs)
    /\ UNCHANGED <<lastRowId, creating, held, births, newestDeleted>>

\* Then passes a copy on, so it is the entity it returns that has lost its id;
\* the application may go on with either.
Delete(h) ==
    /\ creating = NoHandle
    /\ held[h].id # NoId                         \* CheckValidForDelete
    /\ \E r \in RowsWith(rows, held[h].table, held[h].id) : DeleteRow(r)
    /\ \E id \in {NoId, held[h].id} : held' = [held EXCEPT ![h].id = id]
    /\ UNCHANGED <<lastRowId, creating, births>>

\* Another process with this library, between any two statements.
OtherCreate(table, key, refs) ==
    /\ CheckValues(table, refs)
    /\ \E id \in Ids : Insert(table, key, refs, id)
    /\ UNCHANGED <<lastRowId, creating, held, newestDeleted>>

OtherDelete ==
    /\ \E r \in rows : DeleteRow(r)
    /\ UNCHANGED <<lastRowId, creating, held, births>>

Next ==
    \/ \E table \in Tables, key \in Keys : \E refs \in References(table) :
          OtherCreate(table, key, refs) \/ \E h \in Handles : Create(h, table, key, refs)
    \/ GetLastRowId
    \/ \E h \in Handles :
          \/ Get(h)
          \/ Delete(h)
          \/ \E key \in Keys, refs \in References(held[h].table) : Update(h, key, refs)
    \/ OtherDelete

Spec == Init /\ [][Next]_vars

----------------------------------------------------------------------------
\* A column with a foreign key refers to the very row it named when it was
\* written, never to another one that got its id later: CASCADE takes the
\* reference along, and a type in use cannot be deleted, since the DEFAULT
\* names no type (sql.cc:73,125,139-153).
ReferencesStayTrue ==
    \A r \in rows : \A c \in ForeignKeys(r.table) :
        BirthOf(rows, Target(c), r.refs[c]) = r.meant[c]

\* An entity the application holds finds its own row or none, until the row
\* with the largest id of its table is deleted; in Create too, where another
\* process may insert before the id is asked for (entity.hh:85-91).
EntitiesFindTheirRows ==
    \A h \in Handles : LET e == held[h] IN
        e.id # NoId /\ e.table \notin newestDeleted
            => BirthOf(rows, e.table, e.id) \in {0, e.birth}

\* So does a redirection, which has no foreign key (sql.cc:118).
RedirectionsStayTrue ==
    "Tags" \notin newestDeleted =>
        \A r \in rows : r.table = "Tags" /\ r.meant["RedirectId"] # 0 =>
            BirthOf(rows, "Tags", r.refs["RedirectId"]) \in {0, r.meant["RedirectId"]}

\* No tag implies itself, by whichever call (tag_implication.hh:31-35).
NoTagImpliesItself ==
    \A r \in rows : r.table = "TagImplications" => r.meant["TagId"] # r.meant["ImpliedTagId"]
==============================================================================
