-------------------------------- MODULE Schema --------------------------------
(***************************************************************************)
(* The tables of db/sql.cc and the properties that the entities of         *)
(* db/entities/ show their visitors, with the values of their columns.     *)
(*                                                                         *)
(* A row is a function from its columns to values: integers, texts and     *)
(* blobs (sequences of characters and of bytes) or Null.                   *)
(***************************************************************************)
EXTENDS Integers, SequencesExt, FiniteSetsExt

CONSTANT Null     \* SQL's NULL, and an optional without a value

NUL == "\\0"      \* the character that ends a C string

\* What each entity shows its visitors, in their order.
PostProperties == <<"Id", "MD5Sum", "Flags", "PostTypeId", "MimeType", "Rating",
                    "Score", "Height", "Width", "AddedTime">>
PostFileProperties       == <<"Id", "PostId", "SiteId", "PostId">>
PostTagProperties        == <<"Id", "PostId", "TagId">>
PostTypeProperties       == <<"Id", "Name", "Description">>
SiteProperties           == <<"Id", "Name", "Description">>
TagProperties            == <<"Id", "Name", "Description", "TagTypeId", "Rating", "RedirectId", "Flags">>
TagImplicationProperties == <<"Id", "TagId", "ImpliedTagId", "Flags">>
TagTypeProperties        == <<"Id", "Name", "Description", "Color">>

\* No entity stands for Config; these are its columns.
Properties ==
    [Posts |-> PostProperties, PostFiles |-> PostFileProperties, PostTags |-> PostTagProperties,
     PostTypes |-> PostTypeProperties, Sites |-> SiteProperties, Tags |-> TagProperties,
     TagImplications |-> TagImplicationProperties, TagTypes |-> TagTypeProperties,
     Config |-> <<"Name", "Value">>]

Tables == DOMAIN Properties

PropertiesOf(table) == ToSet(Properties[table])

\* Columns that no visitor sees, and what they are when an INSERT leaves them
\* out: Path has no DEFAULT.
Unvisited(table) ==
    CASE table = "Posts"     -> [UpdatedTime |-> 0, OriginalFilename |-> <<>>]
      [] table = "PostFiles" -> [Path |-> Null]
      [] OTHER               -> [c \in {} |-> Null]

Columns(table) == PropertiesOf(table) \cup DOMAIN Unvisited(table)

Texts    == {"Name", "Description", "MimeType", "Value", "Path", "OriginalFilename"}
Blobs    == {"MD5Sum"}
Nullable == {"RedirectId", "Value"}

Unique(table) ==
    CASE table = "Posts"                                  -> {"MD5Sum"}
      [] table \in {"Tags", "TagTypes", "Sites", "Config"} -> {"Name"}
      [] table = "TagImplications"                        -> {"TagId", "ImpliedTagId"}
      [] table = "PostTags"                               -> {"PostId", "TagId"}
      [] table = "PostFiles"                              -> {"SiteId", "Path"}
      [] table = "PostTypes"                              -> {"Id"}

\* The table each FOREIGN KEY refers to.  RedirectId has none.
ForeignKeys(table) ==
    CASE table = "Posts"           -> [PostTypeId |-> "PostTypes"]
      [] table = "Tags"            -> [TagTypeId |-> "TagTypes"]
      [] table = "TagImplications" -> [TagId |-> "Tags", ImpliedTagId |-> "Tags"]
      [] table = "PostTags"        -> [PostId |-> "Posts", TagId |-> "Tags"]
      [] table = "PostFiles"       -> [PostId |-> "Posts", SiteId |-> "Sites"]
      [] OTHER                     -> [c \in {} |-> table]

Agree(r, s, columns) == \A c \in columns : r[c] = s[c]

Incomplete(db, table) == {r \in db[table] : \E c \in DOMAIN r \ Nullable : r[c] = Null}

Duplicates(db, table) ==
    {r \in db[table] : \E s \in db[table] : r # s /\ Agree(r, s, Unique(table))}

Dangling(db, table) ==
    {r \in db[table] : \E c \in DOMAIN ForeignKeys(table) :
        \A s \in db[ForeignKeys(table)[c]] : s.Id # r[c]}

\* What an INSERT, UPDATE or DELETE that leads to db fails with, if it does.
Violation(db) ==
    IF \E t \in DOMAIN db : Incomplete(db, t) # {} THEN "DatabaseNotNullViolation"
    ELSE IF \E t \in DOMAIN db : Duplicates(db, t) # {} THEN "AlreadyExists"
    ELSE IF \E t \in DOMAIN db : Dangling(db, t) # {} THEN "DatabaseFKeyViolation"
    ELSE "OK"

\* ON DELETE CASCADE, which reaches no further than one table.  Where it is
\* SET DEFAULT, the default names no row and the DELETE is refused.
Cascaded(db) ==
    [t \in DOMAIN db |-> IF t \in {"TagImplications", "PostTags", "PostFiles"}
                         THEN db[t] \ Dangling(db, t) ELSE db[t]]

\* INTEGER PRIMARY KEY without AUTOINCREMENT.
NewId(rows) == IF rows = {} THEN 1 ELSE 1 + Max({r.Id : r \in rows})
===============================================================================
