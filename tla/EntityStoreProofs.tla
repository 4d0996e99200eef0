-------------------------- MODULE EntityStoreProofs --------------------------
(***************************************************************************)
(* Proofs about EntityStore, for any catalogs, entities, keys and bounds:  *)
(* what the statements do to the rows, and that references, held entities  *)
(* and redirections stay true.                                             *)
(***************************************************************************)
EXTENDS EntityStore, TLAPS

----------------------------------------------------------------------------
\* Rows

Value == {NoId, Null} \cup Ids

\* The fields of a row have the types its table gives them.
LEMMA RowFields ==
    ASSUME NEW r \in Row
    PROVE  /\ r.table \in Tables /\ r.id \in Ids /\ r.birth \in 1 .. MaxBirths
           /\ r.key \in Keys
           /\ r.refs \in [Columns(r.table) -> Value]
           /\ r.meant \in [Columns(r.table) -> 0 .. MaxBirths]
           /\ r = [table |-> r.table, id |-> r.id, birth |-> r.birth, key |-> r.key,
                   refs |-> r.refs, meant |-> r.meant]
<1>1. PICK t \in Tables :
          r \in [table : {t}, id : Ids, birth : 1 .. MaxBirths, key : Keys,
                 refs  : [Columns(t) -> {NoId, Null} \cup Ids],
                 meant : [Columns(t) -> 0 .. MaxBirths]]
  BY DEF Row
<1>2. r.table = t
  BY <1>1
<1> QED
  BY <1>1, <1>2 DEF Value

\* Such fields make a row.
LEMMA RowOfFields ==
    ASSUME NEW t \in Tables, NEW id \in Ids, NEW birth \in 1 .. MaxBirths, NEW key \in Keys,
           NEW refs \in [Columns(t) -> Value], NEW meant \in [Columns(t) -> 0 .. MaxBirths]
    PROVE  [table |-> t, id |-> id, birth |-> birth, key |-> key,
            refs |-> refs, meant |-> meant] \in Row
<1>1. [table |-> t, id |-> id, birth |-> birth, key |-> key, refs |-> refs, meant |-> meant]
        \in [table : {t}, id : Ids, birth : 1 .. MaxBirths, key : Keys,
             refs  : [Columns(t) -> {NoId, Null} \cup Ids],
             meant : [Columns(t) -> 0 .. MaxBirths]]
  BY DEF Value
<1> QED
  BY <1>1 DEF Row

\* What each column refers to.
LEMMA TargetOf ==
    /\ Target("TagTypeId") = "TagTypes" /\ Target("PostTypeId") = "PostTypes"
    /\ Target("PostId") = "Posts"       /\ Target("SiteId") = "Sites"
    /\ Target("TagId") = "Tags" /\ Target("ImpliedTagId") = "Tags" /\ Target("RedirectId") = "Tags"
<1>1. Target("TagTypeId") = "TagTypes" /\ Target("PostTypeId") = "PostTypes"
  BY DEF Target
<1>2. Target("PostId") = "Posts" /\ Target("SiteId") = "Sites"
  BY DEF Target
<1>3. Target("TagId") = "Tags" /\ Target("ImpliedTagId") = "Tags" /\ Target("RedirectId") = "Tags"
  BY DEF Target
<1> QED
  BY <1>1, <1>2, <1>3

\* A foreign key is a column, and refers to another table than its own; the
\* columns of an implication are foreign keys to Tags.
LEMMA Targets ==
    ASSUME NEW t, NEW c \in ForeignKeys(t)
    PROVE  c \in Columns(t) /\ Target(c) # t
<1>1. c \in Columns(t)
  BY DEF Columns
<1>2. CASE t = "Tags"
  <2>1. c \in {"TagTypeId"}
    BY <1>2 DEF ForeignKeys
  <2> QED
    BY <1>1, <1>2, <2>1, TargetOf
<1>3. CASE t = "Posts"
  <2>1. c \in {"PostTypeId"}
    BY <1>3 DEF ForeignKeys
  <2> QED
    BY <1>1, <1>3, <2>1, TargetOf
<1>4. CASE t = "TagImplications"
  <2>1. c \in {"TagId", "ImpliedTagId"}
    BY <1>4 DEF ForeignKeys
  <2> QED
    BY <1>1, <1>4, <2>1, TargetOf
<1>5. CASE t = "PostTags"
  <2>1. c \in {"PostId", "TagId"}
    BY <1>5 DEF ForeignKeys
  <2> QED
    BY <1>1, <1>5, <2>1, TargetOf
<1>6. CASE t = "PostFiles"
  <2>1. c \in {"PostId", "SiteId"}
    BY <1>6 DEF ForeignKeys
  <2> QED
    BY <1>1, <1>6, <2>1, TargetOf
<1>7. CASE t \notin {"Tags", "Posts", "TagImplications", "PostTags", "PostFiles"}
  BY <1>7 DEF ForeignKeys
<1> QED
  BY <1>1, <1>2, <1>3, <1>4, <1>5, <1>6, <1>7

\* Under an id there is at most one row, and BirthOf tells which.
LEMMA BirthOfRow ==
    ASSUME NEW db, Distinct(db), NEW r \in db
    PROVE  BirthOf(db, r.table, r.id) = r.birth
<1>1. RowsWith(db, r.table, r.id) = {r}
  BY DEF RowsWith, Distinct
<1>2. (CHOOSE s \in RowsWith(db, r.table, r.id) : TRUE) = r
  BY <1>1
<1> QED
  BY <1>1, <1>2 DEF BirthOf

\* BirthOf finds a row or says 0.
LEMMA BirthOfType ==
    ASSUME NEW db, NEW t, NEW id
    PROVE  \/ RowsWith(db, t, id) = {} /\ BirthOf(db, t, id) = 0
           \/ \E r \in db : r.table = t /\ r.id = id /\ BirthOf(db, t, id) = r.birth
<1>1. CASE RowsWith(db, t, id) = {}
  BY <1>1 DEF BirthOf
<1>2. CASE RowsWith(db, t, id) # {}
  <2>1. (CHOOSE s \in RowsWith(db, t, id) : TRUE) \in RowsWith(db, t, id)
    BY <1>2
  <2> QED
    BY <1>2, <2>1 DEF BirthOf, RowsWith
<1> QED
  BY <1>1, <1>2

\* What the columns name are births.
LEMMA MeantType ==
    ASSUME NEW db \in SUBSET Row, NEW t, NEW refs
    PROVE  Meant(db, t, refs) \in [Columns(t) -> 0 .. MaxBirths]
<1>1. \A c \in Columns(t) : BirthOf(db, Target(c), refs[c]) \in 0 .. MaxBirths
  <2> TAKE c \in Columns(t)
  <2> QED
    BY BirthOfType, RowFields, BoundsAssumption
<1> QED
  BY <1>1 DEF Meant

----------------------------------------------------------------------------
\* What a step does to the rows: nothing, or one statement.

\* The rows of a database that the library wrote: typed, distinct, with their
\* foreign keys, and without implications of a tag by itself.
Stored(db, n) ==
    /\ db \in SUBSET Row
    /\ n \in 0 .. MaxBirths
    /\ \A r \in db : r.birth <= n
    /\ Distinct(db)
    /\ ForeignKeysHold(db)
    /\ \A r \in db : CheckValues(r.table, r.refs)

Inserted(row) ==
    /\ row \in Row
    /\ rows' = rows \cup {row}
    /\ births' = births + 1 /\ births' \in 0 .. MaxBirths /\ row.birth = births'
    /\ \A r \in rows : r.table = row.table => r.id < row.id
    /\ row.meant = Meant(rows, row.table, row.refs)
    /\ ForeignKeysHold(rows') /\ CheckValues(row.table, row.refs)
    /\ UNCHANGED newestDeleted

Updated(row, changed) ==
    /\ row \in rows /\ changed \in Row
    /\ changed.table = row.table /\ changed.id = row.id /\ changed.birth = row.birth
    /\ rows' = (rows \ {row}) \cup {changed}
    /\ changed.meant = Meant(rows, changed.table, changed.refs)
    /\ ForeignKeysHold(rows') /\ CheckValues(changed.table, changed.refs)
    /\ UNCHANGED <<births, newestDeleted>>

\* A row that stays may have lost a type, by SET DEFAULT.
LeftOf(s, r) ==
    /\ s \in Row
    /\ s.table = r.table /\ s.id = r.id /\ s.birth = r.birth /\ s.meant = r.meant
    /\ \A c \in Columns(r.table) :
          s.refs[c] = r.refs[c] \/ (c \in SetDefault /\ s.refs[c] = NoId)

Deleted ==
    /\ \A s \in rows' : \E r \in rows : LeftOf(s, r)
    /\ Distinct(rows) => Distinct(rows')
    /\ ForeignKeysHold(rows')
    /\ newestDeleted \subseteq newestDeleted' /\ newestDeleted' \subseteq newestDeleted \cup Tables
    /\ \A r \in rows : r.table \notin newestDeleted' =>
          \E s \in rows' : s.table = r.table /\ r.id <= s.id
    /\ UNCHANGED births

\* Whoever inserts, the new row has an id above all of its table.
LEMMA InsertRow ==
    ASSUME Stored(rows, births), NEW t \in Tables, NEW key \in Keys,
           NEW refs \in [Columns(t) -> Value], CheckValues(t, refs),
           NEW id \in Ids, Insert(t, key, refs, id), UNCHANGED newestDeleted
    PROVE  \E row : Inserted(row) /\ row.table = t /\ row.id = id
<1> DEFINE row == [table |-> t, id |-> id, birth |-> births + 1, key |-> key,
                   refs |-> refs, meant |-> Meant(rows, t, refs)]
<1>1. /\ births < MaxBirths
      /\ IsNextId(rows, t, id)
      /\ Accepted(rows \cup {row}, row)
      /\ rows' = rows \cup {row}
      /\ births' = births + 1
  BY DEF Insert
<1>2. births + 1 \in 1 .. MaxBirths
  BY <1>1, BoundsAssumption DEF Stored
<1>3. row \in Row
  <2>1. Meant(rows, t, refs) \in [Columns(t) -> 0 .. MaxBirths]
    BY MeantType DEF Stored
  <2> QED
    BY <1>2, <2>1, RowOfFields
<1>4. \A r \in rows : r.table = t => r.id < id
  <2> SUFFICES ASSUME NEW r \in rows, r.table = t
               PROVE  r.id < id
    OBVIOUS
  <2>1. r \in TableRows(rows, t)
    BY DEF TableRows
  <2>2. PICK m \in TableRows(rows, t) : id = m.id + 1 /\ \A s \in TableRows(rows, t) : s.id <= m.id
    BY <1>1, <2>1 DEF IsNextId
  <2>3. r.id \in Int /\ m.id \in Int
    BY <2>2, RowFields DEF Stored, TableRows, Ids
  <2> QED
    BY <2>1, <2>2, <2>3
<1>5. ForeignKeysHold(rows')
  BY <1>1 DEF Accepted
<1>6. Inserted(row)
  <2>1. row.table = t /\ row.birth = births + 1 /\ row.id = id /\ row.refs = refs
        /\ row.meant = Meant(rows, t, refs)
    OBVIOUS
  <2> HIDE DEF row
  <2> QED
    BY <1>1, <1>2, <1>3, <1>4, <1>5, <2>1 DEF Inserted
<1> QED
  BY <1>6

\* An update keeps the row's identity.
LEMMA ChangeRow ==
    ASSUME Stored(rows, births), NEW r \in rows, NEW key \in Keys,
           NEW refs \in [Columns(r.table) -> Value], CheckValues(r.table, refs),
           UpdateRow(r, key, refs), UNCHANGED <<births, newestDeleted>>
    PROVE  \E row, changed : Updated(row, changed)
<1> DEFINE changed == [r EXCEPT !.key = key, !.refs = refs,
                                !.meant = Meant(rows, r.table, refs)]
<1>1. /\ Accepted((rows \ {r}) \cup {changed}, changed)
      /\ rows' = (rows \ {r}) \cup {changed}
  BY DEF UpdateRow
<1>2. r \in Row /\ Meant(rows, r.table, refs) \in [Columns(r.table) -> 0 .. MaxBirths]
  BY MeantType DEF Stored
<1>3. changed = [table |-> r.table, id |-> r.id, birth |-> r.birth, key |-> key,
                 refs |-> refs, meant |-> Meant(rows, r.table, refs)]
  <2> DEFINE m == Meant(rows, r.table, refs)
  <2>1. r = [table |-> r.table, id |-> r.id, birth |-> r.birth, key |-> r.key,
             refs |-> r.refs, meant |-> r.meant]
    BY <1>2, RowFields
  <2> HIDE DEF m
  <2>2. [r EXCEPT !.key = key, !.refs = refs, !.meant = m]
          = [table |-> r.table, id |-> r.id, birth |-> r.birth, key |-> key, refs |-> refs, meant |-> m]
    <3> DEFINE e == [r EXCEPT !.key = key, !.refs = refs, !.meant = m]
               e2 == [table |-> r.table, id |-> r.id, birth |-> r.birth, key |-> key, refs |-> refs, meant |-> m]
    <3>1. DOMAIN r = {"table", "id", "birth", "key", "refs", "meant"}
      BY <2>1, Zenon
    <3>2. DOMAIN e = DOMAIN r /\ DOMAIN e2 = DOMAIN r
      BY <3>1
    <3>3. \A x \in DOMAIN r : e[x] = e2[x]
      <4>1. e["table"] = r.table /\ e["id"] = r.id /\ e["birth"] = r.birth
        BY <3>1
      <4>2. e["key"] = key
        BY <3>1
      <4>3. e["refs"] = refs
        BY <3>1
      <4>4. e["meant"] = m
        BY <3>1
      <4> HIDE DEF e
      <4> QED
        BY <3>1, <4>1, <4>2, <4>3, <4>4
    <3>4. e = [x \in DOMAIN e |-> e[x]] /\ e2 = [x \in DOMAIN e2 |-> e2[x]]
      OBVIOUS
    <3> HIDE DEF e, e2
    <3> QED
      BY <3>2, <3>3, <3>4 DEF e, e2
  <2> QED
    BY <2>2 DEF m
<1>4. changed \in Row
  BY <1>2, <1>3, RowFields, RowOfFields
<1>5. /\ changed.table = r.table /\ changed.id = r.id /\ changed.birth = r.birth
      /\ changed.refs = refs /\ changed.meant = Meant(rows, r.table, refs)
  BY <1>3
<1>6. ForeignKeysHold(rows')
  BY <1>1 DEF Accepted
<1>7. Updated(r, changed)
  <2> HIDE DEF changed
  <2> QED
    BY <1>1, <1>4, <1>5, <1>6 DEF Updated
<1> QED
  BY <1>7

\* A delete takes rows away and changes nothing of the others but types.
LEMMA RemoveRow ==
    ASSUME Stored(rows, births), NEW r \in rows, DeleteRow(r), UNCHANGED births
    PROVE  Deleted
<1> DEFINE left == AfterDelete(rows, r)
<1>1. /\ ForeignKeysHold(left)
      /\ rows' = left
      /\ newestDeleted' = newestDeleted \cup
            {t \in Tables : \E x \in TableRows(rows, t) : \A s \in TableRows(left, t) : s.id < x.id}
  BY DEF DeleteRow
<1>2. \A x \in rows : LeftOf(Detached(x, r), x)
  <2> SUFFICES ASSUME NEW x \in rows
               PROVE  LeftOf(Detached(x, r), x)
    OBVIOUS
  <2> DEFINE refs == [c \in Columns(x.table) |->
                        IF c \in SetDefault /\ Target(c) = r.table /\ x.refs[c] = r.id
                        THEN NoId ELSE x.refs[c]]
  <2>1. x \in Row
    BY DEF Stored
  <2>2. refs \in [Columns(x.table) -> Value]
    BY <2>1, RowFields DEF Value
  <2>3. Detached(x, r) = [table |-> x.table, id |-> x.id, birth |-> x.birth, key |-> x.key,
                          refs |-> refs, meant |-> x.meant]
    BY <2>1, RowFields DEF Detached
  <2>4. Detached(x, r) \in Row
    BY <2>1, <2>2, <2>3, RowFields, RowOfFields
  <2>5. \A c \in Columns(x.table) : refs[c] = x.refs[c] \/ (c \in SetDefault /\ refs[c] = NoId)
    OBVIOUS
  <2> HIDE DEF refs
  <2> QED
    BY <2>3, <2>4, <2>5 DEF LeftOf
<1>3. \A s \in left : \E x \in rows : s = Detached(x, r)
  BY DEF AfterDelete
<1>4. Distinct(rows) => Distinct(left)
  <2> SUFFICES ASSUME Distinct(rows), NEW s1 \in left, NEW s2 \in left,
                      s1.birth = s2.birth \/ (s1.table = s2.table /\ s1.id = s2.id)
               PROVE  s1 = s2
    BY DEF Distinct
  <2>1. PICK x1 \in rows : s1 = Detached(x1, r)
    BY <1>3
  <2>2. PICK x2 \in rows : s2 = Detached(x2, r)
    BY <1>3
  <2>3. x1 = x2
    BY <2>1, <2>2, <1>2 DEF LeftOf, Distinct
  <2> QED
    BY <2>1, <2>2, <2>3
<1>5. ASSUME NEW x \in rows, x.table \notin newestDeleted'
      PROVE  \E s \in left : s.table = x.table /\ x.id <= s.id
  <2>1. x \in Row /\ x.table \in Tables /\ x.id \in Int
    BY RowFields DEF Stored, Ids
  <2>2. x \in TableRows(rows, x.table)
    BY DEF TableRows
  <2>3. PICK s \in TableRows(left, x.table) : ~(s.id < x.id)
    BY <1>1, <1>5, <2>1, <2>2
  <2>4. s \in left /\ s.table = x.table
    BY <2>3 DEF TableRows
  <2>5. s \in Row /\ s.id \in Int
    BY <1>2, <1>3, <2>4, RowFields DEF LeftOf, Ids
  <2> QED
    BY <2>1, <2>3, <2>4, <2>5
<1>6. newestDeleted \subseteq newestDeleted' /\ newestDeleted' \subseteq newestDeleted \cup Tables
  BY <1>1
<1> HIDE DEF left
<1> QED
  BY <1>1, <1>2, <1>3, <1>4, <1>5, <1>6 DEF Deleted

----------------------------------------------------------------------------
\* Types

\* While Create waits for its id, the entity has none yet, and
\* last_insert_rowid() is an id.
EntityTypes ==
    /\ lastRowId \in {0} \cup Ids
    /\ creating \in Handles \cup {NoHandle}
    /\ held \in [Handles -> Entity \cup {NoEntity}]
    /\ newestDeleted \subseteq Tables
    /\ creating # NoHandle => /\ held[creating] \in Entity /\ held[creating].id = NoId
                              /\ lastRowId \in Ids

StoredInv == Stored(rows, births) /\ EntityTypes

\* The values of an application fit the columns.
LEMMA ReferencesType ==
    ASSUME NEW t, NEW refs \in References(t)
    PROVE  refs \in [Columns(t) -> Value]
BY DEF References, Value

\* An entity with an id has a row's type.
LEMMA HeldType ==
    ASSUME EntityTypes, NEW h \in Handles, held[h].id # NoId
    PROVE  held[h] \in Entity
BY DEF EntityTypes, NoEntity

\* Every step does one of these to the rows.
LEMMA RowsStep ==
    ASSUME StoredInv, [Next]_vars
    PROVE  \/ UNCHANGED <<rows, births, newestDeleted>>
           \/ \E row : Inserted(row)
           \/ \E row, changed : Updated(row, changed)
           \/ Deleted
<1>1. ASSUME NEW table \in Tables, NEW key \in Keys, NEW refs \in References(table),
             OtherCreate(table, key, refs)
      PROVE  \E row : Inserted(row)
  BY <1>1, InsertRow, ReferencesType DEF StoredInv, OtherCreate
<1>2. ASSUME NEW table \in Tables, NEW key \in Keys, NEW refs \in References(table),
             NEW h \in Handles, Create(h, table, key, refs)
      PROVE  \E row : Inserted(row)
  BY <1>2, InsertRow, ReferencesType DEF StoredInv, Create
<1>3. CASE GetLastRowId
  BY <1>3 DEF GetLastRowId
<1>4. ASSUME NEW h \in Handles, Get(h)
      PROVE  UNCHANGED <<rows, births, newestDeleted>>
  BY <1>4 DEF Get
<1>5. ASSUME NEW h \in Handles, Delete(h)
      PROVE  Deleted
  <2>1. PICK r \in RowsWith(rows, held[h].table, held[h].id) : DeleteRow(r)
    BY <1>5 DEF Delete
  <2>2. r \in rows /\ UNCHANGED births
    BY <1>5, <2>1 DEF Delete, RowsWith
  <2> QED
    BY <2>1, <2>2, RemoveRow DEF StoredInv
<1>6. ASSUME NEW h \in Handles, NEW key \in Keys, NEW refs \in References(held[h].table),
             Update(h, key, refs)
      PROVE  \E row, changed : Updated(row, changed)
  <2>1. PICK r \in RowsWith(rows, held[h].table, held[h].id) : UpdateRow(r, key, refs)
    BY <1>6 DEF Update
  <2>2. r \in rows /\ r.table = held[h].table
    BY <2>1 DEF RowsWith
  <2>3. refs \in [Columns(r.table) -> Value] /\ CheckValues(r.table, refs)
    BY <1>6, <2>2, ReferencesType DEF Update
  <2>4. UNCHANGED <<births, newestDeleted>>
    BY <1>6 DEF Update
  <2> QED
    BY <2>1, <2>2, <2>3, <2>4, ChangeRow DEF StoredInv
<1>7. CASE OtherDelete
  <2>1. PICK r \in rows : DeleteRow(r)
    BY <1>7 DEF OtherDelete
  <2> QED
    BY <1>7, <2>1, RemoveRow DEF OtherDelete, StoredInv
<1>8. CASE UNCHANGED vars
  BY <1>8 DEF vars
<1> QED
  BY <1>1, <1>2, <1>3, <1>4, <1>5, <1>6, <1>7, <1>8 DEF Next

\* A fresh row is distinct from all others.
LEMMA StoredAfterInsert ==
    ASSUME Stored(rows, births), NEW row, Inserted(row)
    PROVE  Stored(rows', births')
<1>1. \A r \in rows : r.birth \in Int /\ r.birth <= births /\ births \in Int
  BY RowFields DEF Stored
<1>2. Distinct(rows')
  <2> SUFFICES ASSUME NEW r \in rows', NEW s \in rows',
                      r.birth = s.birth \/ (r.table = s.table /\ r.id = s.id)
               PROVE  r = s
    BY DEF Distinct
  <2>1. \A x \in rows : x.birth # row.birth /\ ~(x.table = row.table /\ x.id = row.id)
    <3> TAKE x \in rows
    <3>1. x.birth # row.birth
      BY <1>1 DEF Inserted
    <3>2. x.id \in Int /\ (x.table = row.table => x.id < row.id)
      BY RowFields DEF Stored, Inserted, Ids
    <3> QED
      BY <3>1, <3>2
  <2>2. \A x \in rows, y \in rows : x.birth = y.birth \/ (x.table = y.table /\ x.id = y.id) => x = y
    BY DEF Stored, Distinct
  <2>3. rows' = rows \cup {row}
    BY DEF Inserted
  <2> QED
    BY <2>1, <2>2, <2>3
<1>3. \A r \in rows' : r.birth <= births'
  BY <1>1 DEF Inserted
<1>4. \A r \in rows' : CheckValues(r.table, r.refs)
  BY DEF Stored, Inserted
<1> QED
  BY <1>2, <1>3, <1>4 DEF Stored, Inserted

\* An update changes neither the ids nor the births.
LEMMA StoredAfterUpdate ==
    ASSUME Stored(rows, births), NEW row, NEW changed, Updated(row, changed)
    PROVE  Stored(rows', births')
<1>1. Distinct(rows')
  BY DEF Stored, Distinct, Updated
<1>2. \A r \in rows' : r.birth <= births' /\ CheckValues(r.table, r.refs)
  BY DEF Stored, Updated
<1> QED
  BY <1>1, <1>2 DEF Stored, Updated

\* What a delete leaves was there before, and no implication loses a column.
LEMMA StoredAfterDelete ==
    ASSUME Stored(rows, births), Deleted
    PROVE  Stored(rows', births')
<1>1. \A s \in rows' : s \in Row /\ s.birth <= births'
  BY DEF Stored, Deleted, LeftOf
<1>2. ASSUME NEW s \in rows'
      PROVE  CheckValues(s.table, s.refs)
  <2>1. PICK r \in rows : LeftOf(s, r)
    BY DEF Deleted
  <2>2. CASE s.table = "TagImplications"
    <3>1. r.table = "TagImplications" /\ r.refs["TagId"] # r.refs["ImpliedTagId"]
      BY <2>1, <2>2 DEF LeftOf, Stored, CheckValues
    <3>2. ForeignKeys("TagImplications") = {"TagId", "ImpliedTagId"}
      BY DEF ForeignKeys
    <3>3. {"TagId", "ImpliedTagId"} \subseteq Columns(r.table)
      BY <3>1, <3>2 DEF Columns
    <3>4. s.refs["TagId"] = r.refs["TagId"] /\ s.refs["ImpliedTagId"] = r.refs["ImpliedTagId"]
      BY <2>1, <3>3 DEF LeftOf, SetDefault
    <3> QED
      BY <3>1, <3>4 DEF CheckValues
  <2>3. CASE s.table # "TagImplications"
    BY <2>3 DEF CheckValues
  <2> QED
    BY <2>2, <2>3
<1> QED
  BY <1>1, <1>2 DEF Stored, Deleted

\* The rows stay as the library would write them.
LEMMA StoredNext ==
    ASSUME StoredInv, [Next]_vars
    PROVE  Stored(rows', births')
<1>1. Stored(rows, births)
  BY DEF StoredInv
<1>2. CASE UNCHANGED <<rows, births, newestDeleted>>
  BY <1>1, <1>2
<1> QED
  BY <1>1, <1>2, RowsStep, StoredAfterInsert, StoredAfterUpdate, StoredAfterDelete

\* What the application holds keeps its type.
LEMMA EntityTypesNext ==
    ASSUME StoredInv, [Next]_vars
    PROVE  EntityTypes'
<1> USE DEF StoredInv
<1>0. newestDeleted' \subseteq Tables
  BY RowsStep DEF EntityTypes, Inserted, Updated, Deleted
<1>1. ASSUME NEW table \in Tables, NEW key \in Keys, NEW refs \in References(table),
             OtherCreate(table, key, refs)
      PROVE  EntityTypes'
  BY <1>0, <1>1 DEF EntityTypes, OtherCreate
<1>2. ASSUME NEW table \in Tables, NEW key \in Keys, NEW refs \in References(table),
             NEW h \in Handles, Create(h, table, key, refs)
      PROVE  EntityTypes'
  <2>1. births' \in 1 .. MaxBirths
    BY <1>2, BoundsAssumption DEF Create, Insert, Stored
  <2> DEFINE e == [table |-> table, id |-> NoId, birth |-> births']
  <2>2. e \in Entity /\ e.id = NoId
    BY <2>1 DEF Entity
  <2>3. creating' = h /\ held' = [held EXCEPT ![h] = e] /\ lastRowId' \in Ids
    BY <1>2 DEF Create
  <2> HIDE DEF e
  <2> QED
    BY <1>0, <2>2, <2>3, NoHandleAssumption DEF EntityTypes
<1>3. CASE GetLastRowId
  <2>1. /\ creating # NoHandle /\ creating \in Handles /\ creating' = NoHandle
        /\ held' = [held EXCEPT ![creating].id = lastRowId] /\ UNCHANGED lastRowId
        /\ held[creating] \in Entity /\ lastRowId \in Ids
    BY <1>3 DEF GetLastRowId, EntityTypes
  <2>2. [held[creating] EXCEPT !.id = lastRowId] \in Entity
    BY <2>1 DEF Entity
  <2> QED
    BY <1>0, <2>1, <2>2 DEF EntityTypes
<1>4. ASSUME NEW h \in Handles, Get(h)
      PROVE  EntityTypes'
  <2>1. PICK r \in rows : held' = [held EXCEPT ![h] = [table |-> r.table, id |-> r.id, birth |-> r.birth]]
    BY <1>4 DEF Get
  <2>2. [table |-> r.table, id |-> r.id, birth |-> r.birth] \in Entity
    BY RowFields DEF Stored, Entity
  <2>3. creating = NoHandle /\ UNCHANGED <<lastRowId, creating>>
    BY <1>4 DEF Get
  <2> QED
    BY <1>0, <2>1, <2>2, <2>3 DEF EntityTypes
<1>5. ASSUME NEW h \in Handles, Delete(h)
      PROVE  EntityTypes'
  <2>1. held[h] \in Entity
    BY <1>5, HeldType DEF Delete
  <2>2. PICK id \in {NoId, held[h].id} : held' = [held EXCEPT ![h].id = id]
    BY <1>5 DEF Delete
  <2>3. [held[h] EXCEPT !.id = id] \in Entity
    BY <2>1, <2>2 DEF Entity
  <2>4. creating = NoHandle /\ UNCHANGED <<lastRowId, creating>>
    BY <1>5 DEF Delete
  <2> QED
    BY <1>0, <2>2, <2>3, <2>4 DEF EntityTypes
<1>6. ASSUME NEW h \in Handles, NEW key \in Keys, NEW refs \in References(held[h].table),
             Update(h, key, refs)
      PROVE  EntityTypes'
  BY <1>0, <1>6 DEF EntityTypes, Update
<1>7. CASE OtherDelete
  BY <1>0, <1>7 DEF EntityTypes, OtherDelete
<1>8. CASE UNCHANGED vars
  BY <1>0, <1>8 DEF EntityTypes, vars
<1> QED
  BY <1>1, <1>2, <1>3, <1>4, <1>5, <1>6, <1>7, <1>8 DEF Next

\* The database an application opens is one that the library wrote.
LEMMA StoredInit ==
    ASSUME Init
    PROVE  StoredInv
<1>1. PICK c \in Catalogs : rows = c.rows /\ births = c.births
  BY DEF Init
<1>2. Stored(rows, births)
  BY <1>1, CatalogsAssumption DEF Stored
<1>3. EntityTypes
  BY DEF Init, EntityTypes
<1> QED
  BY <1>2, <1>3 DEF StoredInv

\* The rows are always what the library would write.
THEOREM StoredAlways == Spec => []StoredInv
<1>1. Init => StoredInv
  BY StoredInit
<1>2. StoredInv /\ [Next]_vars => StoredInv'
  BY StoredNext, EntityTypesNext DEF StoredInv
<1> QED
  BY <1>1, <1>2, PTL DEF Spec

\* The type invariant, for any tables, catalogs and entities.
THEOREM TypeCorrect == Spec => []TypeOK
<1>1. StoredInv => TypeOK
  BY DEF StoredInv, Stored, EntityTypes, TypeOK
<1> QED
  BY <1>1, StoredAlways, PTL

----------------------------------------------------------------------------
\* References

\* A foreign key finds a row, and it is the one that was meant.
LEMMA TrueReference ==
    ASSUME Stored(rows, births), ReferencesStayTrue, NEW r \in rows, NEW c \in ForeignKeys(r.table)
    PROVE  \E s \in rows : s.table = Target(c) /\ s.id = r.refs[c] /\ s.birth = r.meant[c]
<1>1. RowsWith(rows, Target(c), r.refs[c]) # {}
  BY DEF Stored, ForeignKeysHold
<1> QED
  BY <1>1, BirthOfType DEF ReferencesStayTrue

\* No statement makes a foreign key name another row than was meant: a new
\* row has a new id, an update keeps ids, and a delete takes what refers to
\* the row along.
LEMMA ReferencesNext ==
    ASSUME StoredInv, ReferencesStayTrue, [Next]_vars
    PROVE  ReferencesStayTrue'
<1>1. Stored(rows, births) /\ Stored(rows', births')
  BY StoredNext DEF StoredInv
<1>2. SUFFICES ASSUME NEW r \in rows', NEW c \in ForeignKeys(r.table)
               PROVE  BirthOf(rows', Target(c), r.refs[c]) = r.meant[c]
  BY DEF ReferencesStayTrue
<1>3. \A s \in rows' : BirthOf(rows', s.table, s.id) = s.birth
  BY <1>1, BirthOfRow DEF Stored
<1>4. \A s \in rows : BirthOf(rows, s.table, s.id) = s.birth
  BY <1>1, BirthOfRow DEF Stored
<1>5. PICK t \in rows' : t.table = Target(c) /\ t.id = r.refs[c]
  BY <1>1 DEF Stored, ForeignKeysHold, RowsWith
<1>6. BirthOf(rows', Target(c), r.refs[c]) = t.birth
  BY <1>3, <1>5
<1>7. c \in Columns(r.table) /\ Target(c) # r.table
  BY Targets
<1>8. ASSUME UNCHANGED <<rows, births, newestDeleted>>
      PROVE  t.birth = r.meant[c]
  <2>1. r \in rows /\ t \in rows
    BY <1>8
  <2> QED
    BY <1>4, <1>5, <2>1 DEF ReferencesStayTrue
<1>9. ASSUME NEW row, Inserted(row)
      PROVE  t.birth = r.meant[c]
  <2>1. rows' = rows \cup {row}
    BY <1>9 DEF Inserted
  <2>2. CASE r = row
    <3>1. t \in rows
      BY <1>5, <1>7, <2>1, <2>2
    <3>2. r.meant[c] = BirthOf(rows, Target(c), r.refs[c])
      BY <1>7, <1>9, <2>2 DEF Inserted, Meant
    <3> QED
      BY <1>4, <1>5, <3>1, <3>2
  <2>3. CASE r \in rows
    <3>1. PICK s \in rows : s.table = Target(c) /\ s.id = r.refs[c] /\ s.birth = r.meant[c]
      BY <1>1, <2>3, TrueReference
    <3>2. s = t
      BY <1>1, <1>5, <2>1, <3>1 DEF Stored, Distinct
    <3> QED
      BY <3>1, <3>2
  <2> QED
    BY <2>1, <2>2, <2>3
<1>10. ASSUME NEW row, NEW changed, Updated(row, changed)
       PROVE  t.birth = r.meant[c]
  <2>1. rows' = (rows \ {row}) \cup {changed} /\ row \in rows
    BY <1>10 DEF Updated
  <2>2. PICK t0 \in rows : t0.table = t.table /\ t0.id = t.id /\ t0.birth = t.birth
    BY <1>10, <2>1 DEF Updated
  <2>3. BirthOf(rows, Target(c), r.refs[c]) = t.birth
    BY <1>4, <1>5, <2>2
  <2>4. CASE r = changed
    BY <1>7, <1>10, <2>3, <2>4 DEF Updated, Meant
  <2>5. CASE r \in rows
    BY <2>3, <2>5 DEF ReferencesStayTrue
  <2> QED
    BY <2>1, <2>4, <2>5
<1>11. ASSUME Deleted
       PROVE  t.birth = r.meant[c]
  <2>1. PICK r0 \in rows : LeftOf(r, r0)
    BY <1>11 DEF Deleted
  <2>2. PICK t0 \in rows : LeftOf(t, t0)
    BY <1>11 DEF Deleted
  <2>3. t.id # NoId
    BY <2>2, RowFields DEF LeftOf, Ids, NoId
  <2>4. r.refs[c] = r0.refs[c]
    BY <1>5, <1>7, <2>1, <2>3 DEF LeftOf
  <2>5. c \in ForeignKeys(r0.table) /\ r0.meant[c] = r.meant[c]
    BY <2>1 DEF LeftOf
  <2>6. BirthOf(rows, Target(c), r0.refs[c]) = t0.birth
    BY <1>4, <1>5, <2>2, <2>4 DEF LeftOf
  <2> QED
    BY <2>2, <2>5, <2>6 DEF LeftOf, ReferencesStayTrue
<1>12. t.birth = r.meant[c]
  BY <1>8, <1>9, <1>10, <1>11, RowsStep
<1> QED
  BY <1>6, <1>12

\* The catalogs' columns name the rows they find.
LEMMA ReferencesInit ==
    ASSUME Init
    PROVE  ReferencesStayTrue
<1>1. PICK d \in Catalogs : rows = d.rows
  BY DEF Init
<1>2. SUFFICES ASSUME NEW r \in rows, NEW c \in ForeignKeys(r.table)
               PROVE  BirthOf(rows, Target(c), r.refs[c]) = r.meant[c]
  BY DEF ReferencesStayTrue
<1>3. r.meant = Meant(rows, r.table, r.refs)
  BY <1>1, CatalogsAssumption
<1> QED
  BY <1>3, Targets DEF Meant

\* A column with a foreign key refers to the row that was meant, for any
\* tables, catalogs and entities.
THEOREM ReferencesStayTrueAlways == Spec => []ReferencesStayTrue
<1>1. Init => ReferencesStayTrue
  BY ReferencesInit
<1>2. StoredInv /\ ReferencesStayTrue /\ [Next]_vars => ReferencesStayTrue'
  BY ReferencesNext
<1> QED
  BY <1>1, <1>2, StoredAlways, PTL DEF Spec

\* No tag implies itself: the two columns differ, and so do the rows that
\* they find.
THEOREM NoTagImpliesItselfAlways == Spec => []NoTagImpliesItself
<1>1. ASSUME StoredInv, ReferencesStayTrue
      PROVE  NoTagImpliesItself
  <2> SUFFICES ASSUME NEW r \in rows, r.table = "TagImplications"
               PROVE  r.meant["TagId"] # r.meant["ImpliedTagId"]
    BY DEF NoTagImpliesItself
  <2>1. ForeignKeys(r.table) = {"TagId", "ImpliedTagId"}
    BY DEF ForeignKeys
  <2>2. Stored(rows, births)
    BY <1>1 DEF StoredInv
  <2>3. PICK s \in rows : s.id = r.refs["TagId"] /\ s.birth = r.meant["TagId"]
    BY <1>1, <2>1, <2>2, TrueReference
  <2>4. PICK t \in rows : t.id = r.refs["ImpliedTagId"] /\ t.birth = r.meant["ImpliedTagId"]
    BY <1>1, <2>1, <2>2, TrueReference
  <2>5. r.refs["TagId"] # r.refs["ImpliedTagId"]
    BY <2>2 DEF Stored, CheckValues
  <2> QED
    BY <2>2, <2>3, <2>4, <2>5 DEF Stored, Distinct
<1> QED
  BY <1>1, StoredAlways, ReferencesStayTrueAlways, PTL

----------------------------------------------------------------------------
\* Ids that are remembered outside of foreign keys

\* Under this id, until the newest row of the table is deleted, there is the
\* row of this birth or none; and none will come, for new ids are larger.
Known(db, gone, t, id, birth) ==
    t \notin gone => /\ \E s \in db : s.table = t /\ id <= s.id
                     /\ \A s \in db : s.table = t /\ s.id = id => s.birth = birth

\* A row that is known stays known, whatever the step.
LEMMA KnownNext ==
    ASSUME StoredInv, [Next]_vars, NEW t, NEW id \in Int, NEW birth,
           Known(rows, newestDeleted, t, id, birth)
    PROVE  Known(rows', newestDeleted', t, id, birth)
<1> SUFFICES ASSUME t \notin newestDeleted'
             PROVE  /\ \E s \in rows' : s.table = t /\ id <= s.id
                    /\ \A s \in rows' : s.table = t /\ s.id = id => s.birth = birth
  BY DEF Known
<1>1. t \notin newestDeleted
  BY RowsStep DEF Inserted, Updated, Deleted
<1>2. PICK m \in rows : m.table = t /\ id <= m.id
  BY <1>1 DEF Known
<1>3. \A s \in rows : s.table = t /\ s.id = id => s.birth = birth
  BY <1>1 DEF Known
<1>4. \A s \in rows : s.id \in Int
  BY RowFields DEF StoredInv, Stored, Ids
<1>5. \A s \in rows' : s.id \in Int
  BY StoredNext, RowFields DEF Stored, Ids
<1>6. CASE UNCHANGED <<rows, births, newestDeleted>>
  BY <1>2, <1>3, <1>6
<1>7. ASSUME NEW row, Inserted(row)
      PROVE  /\ \E s \in rows' : s.table = t /\ id <= s.id
             /\ \A s \in rows' : s.table = t /\ s.id = id => s.birth = birth
  <2>1. rows' = rows \cup {row} /\ (row.table = t => m.id < row.id) /\ row.id \in Int
    BY <1>2, <1>5, <1>7 DEF Inserted
  <2>2. row.table = t => row.id # id
    BY <1>2, <1>4, <2>1
  <2> QED
    BY <1>2, <1>3, <2>1, <2>2
<1>8. ASSUME NEW row, NEW changed, Updated(row, changed)
      PROVE  /\ \E s \in rows' : s.table = t /\ id <= s.id
             /\ \A s \in rows' : s.table = t /\ s.id = id => s.birth = birth
  BY <1>2, <1>3, <1>8 DEF Updated
<1>9. CASE Deleted
  <2>1. PICK s \in rows' : s.table = t /\ m.id <= s.id
    BY <1>2, <1>9 DEF Deleted
  <2>2. id <= s.id
    BY <1>2, <1>4, <1>5, <2>1
  <2>3. \A x \in rows' : x.table = t /\ x.id = id => x.birth = birth
    BY <1>3, <1>9 DEF Deleted, LeftOf
  <2> QED
    BY <2>1, <2>2, <2>3
<1> QED
  BY <1>6, <1>7, <1>8, <1>9, RowsStep

\* A row that is there is known.
LEMMA KnownRow ==
    ASSUME NEW db \in SUBSET Row, Distinct(db), NEW r \in db, NEW gone
    PROVE  Known(db, gone, r.table, r.id, r.birth)
<1>1. r.id \in Int
  BY RowFields DEF Ids
<1> QED
  BY <1>1 DEF Known, Distinct

\* What is known is found, or nothing is.
LEMMA KnownFinds ==
    ASSUME NEW t, t \notin newestDeleted, NEW id, NEW birth, Known(rows, newestDeleted, t, id, birth)
    PROVE  BirthOf(rows, t, id) \in {0, birth}
BY BirthOfType DEF Known

\* Every id that the application holds, or is about to get, is known.
HeldKnown ==
    /\ \A h \in Handles :
          held[h].id # NoId => Known(rows, newestDeleted, held[h].table, held[h].id, held[h].birth)
    /\ creating # NoHandle =>
          Known(rows, newestDeleted, held[creating].table, lastRowId, held[creating].birth)

\* And so is the target of every redirection.
RedirectionsKnown ==
    \A r \in rows : r.table = "Tags" /\ r.meant["RedirectId"] # 0 =>
        Known(rows, newestDeleted, "Tags", r.refs["RedirectId"], r.meant["RedirectId"])

\* An entity that does not change, nor its id, stays known.
LEMMA HeldKeptKnown ==
    ASSUME StoredInv, HeldKnown, [Next]_vars, NEW h \in Handles,
           held'[h] = held[h] \/ held'[h].id = NoId,
           held'[h].id # NoId
    PROVE  Known(rows', newestDeleted', held'[h].table, held'[h].id, held'[h].birth)
<1>1. held'[h] = held[h] /\ held[h].id # NoId
  OBVIOUS
<1>2. held[h].id \in Int
  BY <1>1, HeldType DEF StoredInv, Entity, Ids, NoId
<1>3. Known(rows, newestDeleted, held[h].table, held[h].id, held[h].birth)
  BY <1>1 DEF HeldKnown
<1>4. Known(rows', newestDeleted', held[h].table, held[h].id, held[h].birth)
  BY <1>2, <1>3, KnownNext
<1> QED
  BY <1>1, <1>4

\* What is held stays known: Create's new row, Get's row and, under the id that
\* GetLastRowId asks for, the row of this connection's last INSERT.
LEMMA HeldKnownNext ==
    ASSUME StoredInv, HeldKnown, [Next]_vars
    PROVE  HeldKnown'
<1>1. EntityTypes /\ EntityTypes' /\ Stored(rows, births) /\ Stored(rows', births')
  BY EntityTypesNext, StoredNext DEF StoredInv
<1>2. ASSUME UNCHANGED <<held, creating, lastRowId>>
      PROVE  HeldKnown'
  <2>1. \A h \in Handles : held'[h].id # NoId =>
           Known(rows', newestDeleted', held'[h].table, held'[h].id, held'[h].birth)
    BY <1>2, HeldKeptKnown
  <2>2. creating # NoHandle =>
           Known(rows', newestDeleted', held[creating].table, lastRowId, held[creating].birth)
    BY <1>1, KnownNext DEF HeldKnown, EntityTypes, Ids
  <2> QED
    BY <1>2, <2>1, <2>2 DEF HeldKnown
<1>3. ASSUME NEW table \in Tables, NEW key \in Keys, NEW refs \in References(table),
             NEW g \in Handles, Create(g, table, key, refs)
      PROVE  HeldKnown'
  <2>1. /\ creating' = g /\ UNCHANGED newestDeleted
        /\ held' = [held EXCEPT ![g] = [table |-> table, id |-> NoId, birth |-> births']]
    BY <1>3 DEF Create
  <2>2. held'[g] = [table |-> table, id |-> NoId, birth |-> births']
        /\ \A h \in Handles : h # g => held'[h] = held[h]
    BY <1>1, <2>1 DEF EntityTypes
  <2>3. \A h \in Handles : held'[h].id # NoId =>
           Known(rows', newestDeleted', held'[h].table, held'[h].id, held'[h].birth)
    BY <2>2, HeldKeptKnown
  <2>4. PICK id \in Ids : Insert(table, key, refs, id) /\ lastRowId' = id
    BY <1>3 DEF Create
  <2>5. CheckValues(table, refs) /\ refs \in [Columns(table) -> Value]
    BY <1>3, ReferencesType DEF Create
  <2>6. PICK row : Inserted(row) /\ row.table = table /\ row.id = id
    BY <1>1, <2>1, <2>4, <2>5, InsertRow
  <2>7. row \in rows' /\ row.birth = births'
    BY <2>6 DEF Inserted
  <2>8. Known(rows', newestDeleted', row.table, row.id, row.birth)
    BY <1>1, <2>7, KnownRow DEF Stored
  <2>9. Known(rows', newestDeleted', held'[creating'].table, lastRowId', held'[creating'].birth)
    BY <2>1, <2>2, <2>4, <2>6, <2>7, <2>8
  <2> QED
    BY <2>3, <2>9 DEF HeldKnown
<1>4. CASE GetLastRowId
  <2>1. /\ creating # NoHandle /\ creating \in Handles /\ creating' = NoHandle
        /\ held' = [held EXCEPT ![creating].id = lastRowId]
        /\ UNCHANGED <<rows, newestDeleted>>
    BY <1>1, <1>4 DEF GetLastRowId, EntityTypes
  <2>2. /\ held'[creating].table = held[creating].table
        /\ held'[creating].id = lastRowId
        /\ held'[creating].birth = held[creating].birth
        /\ \A h \in Handles : h # creating => held'[h] = held[h]
    BY <1>1, <2>1 DEF EntityTypes, Entity
  <2>3. ASSUME NEW h \in Handles, held'[h].id # NoId
        PROVE  Known(rows', newestDeleted', held'[h].table, held'[h].id, held'[h].birth)
    <3>1. CASE h # creating
      BY <2>2, <2>3, <3>1, HeldKeptKnown
    <3>2. CASE h = creating
      BY <2>1, <2>2, <3>2 DEF HeldKnown
    <3> QED
      BY <3>1, <3>2
  <2> QED
    BY <2>1, <2>3 DEF HeldKnown
<1>5. ASSUME NEW g \in Handles, Get(g)
      PROVE  HeldKnown'
  <2>1. PICK r \in rows : held' = [held EXCEPT ![g] = [table |-> r.table, id |-> r.id, birth |-> r.birth]]
    BY <1>5 DEF Get
  <2>2. creating' = NoHandle /\ UNCHANGED <<rows, newestDeleted>>
    BY <1>5 DEF Get
  <2>3. held'[g] = [table |-> r.table, id |-> r.id, birth |-> r.birth]
        /\ \A h \in Handles : h # g => held'[h] = held[h]
    BY <1>1, <2>1 DEF EntityTypes
  <2>4. Known(rows, newestDeleted, r.table, r.id, r.birth)
    BY <1>1, KnownRow DEF Stored
  <2>5. ASSUME NEW h \in Handles, held'[h].id # NoId
        PROVE  Known(rows', newestDeleted', held'[h].table, held'[h].id, held'[h].birth)
    <3>1. CASE h # g
      BY <2>3, <2>5, <3>1, HeldKeptKnown
    <3>2. CASE h = g
      BY <2>2, <2>3, <2>4, <3>2
    <3> QED
      BY <3>1, <3>2
  <2> QED
    BY <2>2, <2>5 DEF HeldKnown
<1>6. ASSUME NEW g \in Handles, Delete(g)
      PROVE  HeldKnown'
  <2>1. PICK id \in {NoId, held[g].id} : held' = [held EXCEPT ![g].id = id]
    BY <1>6 DEF Delete
  <2>2. creating' = NoHandle
    BY <1>6 DEF Delete
  <2>3. held[g] \in Entity
    BY <1>1, <1>6, HeldType DEF Delete
  <2>4. held'[g] = held[g] \/ held'[g].id = NoId
    BY <1>1, <2>1, <2>3 DEF EntityTypes, Entity
  <2>5. \A h \in Handles : h # g => held'[h] = held[h]
    BY <1>1, <2>1 DEF EntityTypes
  <2>6. \A h \in Handles : held'[h].id # NoId =>
           Known(rows', newestDeleted', held'[h].table, held'[h].id, held'[h].birth)
    BY <2>4, <2>5, HeldKeptKnown
  <2> QED
    BY <2>2, <2>6 DEF HeldKnown
<1> QED
  BY <1>2, <1>3, <1>4, <1>5, <1>6 DEF Next, vars, OtherCreate, OtherDelete, Update

\* A redirection stays known as long as it does: a new or updated one names a
\* row that is there, and a delete never changes one.
LEMMA RedirectionsKnownNext ==
    ASSUME StoredInv, RedirectionsKnown, [Next]_vars
    PROVE  RedirectionsKnown'
<1>1. Stored(rows, births) /\ Stored(rows', births')
  BY StoredNext DEF StoredInv
<1>2. SUFFICES ASSUME NEW r \in rows', r.table = "Tags", r.meant["RedirectId"] # 0
               PROVE  Known(rows', newestDeleted', "Tags", r.refs["RedirectId"], r.meant["RedirectId"])
  BY DEF RedirectionsKnown
<1>3. "RedirectId" \in Columns("Tags") /\ "RedirectId" \notin SetDefault
  BY DEF Columns, SetDefault
<1>4. r.refs["RedirectId"] \in Int
  BY <1>1, <1>2, <1>3, RowFields DEF Stored, Value, Ids, NoId, Null
<1>5. SUFFICES Known(rows, newestDeleted, "Tags", r.refs["RedirectId"], r.meant["RedirectId"])
  BY <1>4, KnownNext
<1>6. ASSUME r.meant = Meant(rows, r.table, r.refs)
      PROVE  Known(rows, newestDeleted, "Tags", r.refs["RedirectId"], r.meant["RedirectId"])
  <2>1. r.meant["RedirectId"] = BirthOf(rows, "Tags", r.refs["RedirectId"])
    BY <1>2, <1>3, <1>6, TargetOf DEF Meant
  <2>2. PICK s \in rows : /\ s.table = "Tags" /\ s.id = r.refs["RedirectId"]
                          /\ s.birth = r.meant["RedirectId"]
    BY <1>2, <2>1, BirthOfType
  <2> QED
    BY <1>1, <2>2, KnownRow DEF Stored
<1>7. ASSUME r \in rows
      PROVE  Known(rows, newestDeleted, "Tags", r.refs["RedirectId"], r.meant["RedirectId"])
  BY <1>2, <1>7 DEF RedirectionsKnown
<1>8. ASSUME NEW row, Inserted(row)
      PROVE  r \in rows \/ r.meant = Meant(rows, r.table, r.refs)
  BY <1>8 DEF Inserted
<1>9. ASSUME NEW row, NEW changed, Updated(row, changed)
      PROVE  r \in rows \/ r.meant = Meant(rows, r.table, r.refs)
  BY <1>9 DEF Updated
<1>10. ASSUME Deleted
       PROVE  Known(rows, newestDeleted, "Tags", r.refs["RedirectId"], r.meant["RedirectId"])
  <2>1. PICK r0 \in rows : LeftOf(r, r0)
    BY <1>10 DEF Deleted
  <2>2. /\ r0.table = "Tags" /\ r0.meant["RedirectId"] = r.meant["RedirectId"]
        /\ r0.refs["RedirectId"] = r.refs["RedirectId"]
    BY <1>2, <1>3, <2>1 DEF LeftOf
  <2> QED
    BY <1>2, <2>2 DEF RedirectionsKnown
<1> QED
  BY <1>6, <1>7, <1>8, <1>9, <1>10, RowsStep

\* The columns of the rows an application starts with name rows that are there.
LEMMA RedirectionsKnownInit ==
    ASSUME Init
    PROVE  RedirectionsKnown
<1>1. Stored(rows, births)
  BY StoredInit DEF StoredInv
<1>2. \A r \in rows : r.meant = Meant(rows, r.table, r.refs)
  BY CatalogsAssumption DEF Init
<1>3. SUFFICES ASSUME NEW r \in rows, r.table = "Tags", r.meant["RedirectId"] # 0
               PROVE  Known(rows, newestDeleted, "Tags", r.refs["RedirectId"], r.meant["RedirectId"])
  BY DEF RedirectionsKnown
<1>4. "RedirectId" \in Columns("Tags")
  BY DEF Columns
<1>5. r.meant["RedirectId"] = BirthOf(rows, "Tags", r.refs["RedirectId"])
  BY <1>2, <1>3, <1>4, TargetOf DEF Meant
<1>6. PICK s \in rows : /\ s.table = "Tags" /\ s.id = r.refs["RedirectId"]
                        /\ s.birth = r.meant["RedirectId"]
  BY <1>3, <1>5, BirthOfType
<1> QED
  BY <1>1, <1>6, KnownRow DEF Stored

\* An application starts with empty hands.
LEMMA HeldKnownInit ==
    ASSUME Init
    PROVE  HeldKnown
<1>1. \A h \in Handles : held[h].id = NoId
  BY DEF Init, NoEntity
<1> QED
  BY <1>1 DEF Init, HeldKnown

\* Until the newest row of its table is deleted, an entity finds its own row or
\* none: for any tables, catalogs, handles and keys, with another process
\* writing between any two statements, Create's included.
THEOREM EntitiesFindTheirRowsAlways == Spec => []EntitiesFindTheirRows
<1>1. Init => HeldKnown
  BY HeldKnownInit
<1>2. StoredInv /\ HeldKnown /\ [Next]_vars => HeldKnown'
  BY HeldKnownNext
<1>3. HeldKnown => EntitiesFindTheirRows
  BY KnownFinds DEF HeldKnown, EntitiesFindTheirRows
<1> QED
  BY <1>1, <1>2, <1>3, StoredAlways, PTL DEF Spec

\* And so does a redirection, without a foreign key to keep it.
THEOREM RedirectionsStayTrueAlways == Spec => []RedirectionsStayTrue
<1>1. Init => RedirectionsKnown
  BY RedirectionsKnownInit
<1>2. StoredInv /\ RedirectionsKnown /\ [Next]_vars => RedirectionsKnown'
  BY RedirectionsKnownNext
<1>3. RedirectionsKnown => RedirectionsStayTrue
  BY KnownFinds DEF RedirectionsKnown, RedirectionsStayTrue
<1> QED
  BY <1>1, <1>2, <1>3, StoredAlways, PTL DEF Spec
==============================================================================
