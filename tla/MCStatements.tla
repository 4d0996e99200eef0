---------------------------- MODULE MCStatements ----------------------------
EXTENDS Statements, TLC

a == <<"a">>  b == <<"b">>

\* Entities, as their constructors leave what is not given.
Tag(id, name, redirect, flags) ==
    [Id |-> id, Name |-> name, Description |-> <<>>, TagTypeId |-> 1, Rating |-> 0,
     RedirectId |-> redirect, Flags |-> flags]

Post(id, md5sum) ==
    [Id |-> id, MD5Sum |-> md5sum, Flags |-> 0, PostTypeId |-> 1, MimeType |-> a, Rating |-> 0,
     Score |-> 0, Height |-> 0, Width |-> 0, AddedTime |-> 0]

PostTag(id, post, tag) == [Id |-> id, PostId |-> post, TagId |-> tag]

Implication(id, tag, implied) == [Id |-> id, TagId |-> tag, ImpliedTagId |-> implied, Flags |-> 0]

PostFile(id, post) == [Id |-> id, PostId |-> post, SiteId |-> 1]

Type(id) == [Id |-> id, Name |-> a, Description |-> a]

Setting(name, value) == [Name |-> name, Value |-> value]

StoredPost(id, md5sum) == Post(id, md5sum) @@ [UpdatedTime |-> 7, OriginalFilename |-> b]

\* Two tags, the first one redirected; a post with a blob that is too short and
\* the second tag, one with a blob that is too long; a file with its path.
Filled ==
    [TagTypes        |-> {Type(1) @@ [Color |-> 0]},
     PostTypes       |-> {Type(1)},
     Sites           |-> {Type(1)},
     Tags            |-> {Tag(1, a, 2, 0), Tag(2, b, Null, 0)},
     Posts           |-> {StoredPost(1, <<1>>), StoredPost(2, <<1, 2, 3>>)},
     PostTags        |-> {PostTag(1, 1, 2)},
     PostFiles       |-> {PostFile(1, 1) @@ [Path |-> a]},
     TagImplications |-> {},
     Config          |-> {Setting(a, a), Setting(b, Null)}]

MCDatabases == {Filled}

Request(call, table, given) == [call |-> call, table |-> table, given |-> given]

Writing ==
    {Request("Create", "Tags", Tag(-1, <<"b", NUL, "a">>, Null, 0)),
     Request("Create", "Tags", Tag(-1, <<"a", "b">>, 1, 0)),
     Request("Create", "PostFiles", PostFile(-1, 1)),
     Request("Create", "PostTags", PostTag(-1, 2, 2)),
     Request("Create", "TagImplications", Implication(-1, 2, 2)),
     Request("Update", "Tags", Tag(1, a, Null, 1)),
     Request("Update", "Tags", Tag(1, <<"c", NUL>>, 2, 0)),
     Request("Update", "PostFiles", PostFile(1, 2)),
     Request("Delete", "Tags", Tag(2, b, Null, 0)),
     Request("Delete", "TagTypes", Type(1) @@ [Color |-> 0]),
     Request("SetConfig", "Config", Setting(<<"b", NUL>>, <<"a", NUL>>))}

Reading ==
    {Request("Get", "Tags", [Name |-> <<"a", NUL, "b">>]),
     Request("Get", "Posts", [MD5Sum |-> <<1, 2>>]),
     Request("Get", "PostTags", [PostId |-> 1, TagId |-> 2]),     \* FindPostTag
     Request("GetAll", "Tags", [c \in {} |-> Null]),
     Request("GetAll", "Posts", [c \in {} |-> Null]),
     Request("GetAll", "PostFiles", [PostId |-> 1]),
     Request("GetTagsForPost", "Tags", [PostId |-> 1]),
     Request("GetConfig", "Config", [Name |-> b])}

MCRequests == Writing \cup Reading

PostsForTag == {Request("GetPostsForTag", "Posts", [TagId |-> 2]),
                Request("Create", "PostTags", PostTag(-1, 2, 2))}

Symmetry == Permutations(Callers)
=============================================================================
