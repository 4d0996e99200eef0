--------------------------- MODULE MCEntityStore ---------------------------
EXTENDS EntityStore

CONSTANTS k1, k2

\* Columns that are not given are no columns of the table.
StoredRow(table, id, birth, key, refs, meant) ==
    [table |-> table, id |-> id, birth |-> birth, key |-> key,
     refs |-> refs, meant |-> meant]

NoColumns == [c \in {} |-> 0]

Type(table, birth) == StoredRow(table, 1, birth, k1, NoColumns, NoColumns)

Tag(id, birth, key, redirect, meant) ==
    StoredRow("Tags", id, birth, key,
        [TagTypeId |-> 1, RedirectId |-> redirect], [TagTypeId |-> 1, RedirectId |-> meant])

\* A tag that redirects nowhere; two more rows may be made.
Plain == [births |-> 4, rows |-> {Type("TagTypes", 1), Tag(1, 2, k1, Null, 0)}]

\* Two tags, the first of which redirects to the second and implies it; one
\* more row.
Implied == [births |-> 5, rows |->
    {Type("TagTypes", 1), Tag(1, 2, k1, 2, 3), Tag(2, 3, k2, Null, 0),
     StoredRow("TagImplications", 1, 4,  k1,
         [TagId |-> 1, ImpliedTagId |-> 2], [TagId |-> 2, ImpliedTagId |-> 3])}]

\* A post with a tag; one more row.
Tagged == [births |-> 5, rows |->
    {Type("TagTypes", 1), Type("PostTypes", 2), Tag(1, 3, k1, Null, 0),
     StoredRow("Posts", 1, 4, k1, [PostTypeId |-> 1], [PostTypeId |-> 2]),
     StoredRow("PostTags", 1, 5, k1, [PostId |-> 1, TagId |-> 1], [PostId |-> 4, TagId |-> 3])}]

MCCatalogs == {Plain, Implied, Tagged}
=============================================================================
