------------------------------- MODULE Tagging -------------------------------
(***************************************************************************)
(* Booru::AddTagToPost and RemoveTagFromPost (library/booru.cc:175-236) on *)
(* one post: redirections, implications and the recursion between them,    *)
(* statement by statement, over a Backend whose file another process may   *)
(* lock and change, on a disk that may be full, and in a process that may  *)
(* die.                                                                    *)
(*                                                                         *)
(* The calls in progress are a stack of frames, the innermost last; a      *)
(* frame holds the locals of its function and where it stands.  The tag    *)
(* and the implications among the locals are copies of rows, as they were  *)
(* when they were loaded.                                                  *)
(***************************************************************************)
EXTENDS Backend, Sequences, FiniteSets

CONSTANTS
    Tags,           \* tag ids
    NoTag,          \* RedirectId is NULL
    Catalogs,       \* contents the database may start with
    MaxRedirects,   \* 32 in the source
    MaxCalls,       \* calls the thread's stack has room for
    OtherDeletes,   \* rows the other process may delete: tags, "post"
    OtherRedirects, \* RedirectIds it may store, each with its tag
    OtherImplies    \* implications it may create, change and delete

ASSUME RedirectsAssumption == MaxRedirects \in Nat
ASSUME CallsAssumption     == MaxCalls \in Nat \ {0}
ASSUME NoTagAssumption     == NoTag \notin Tags
ASSUME TagsAssumption      == IsFiniteSet(Tags)
ASSUME OtherAssumption     ==
    /\ OtherRedirects \subseteq Tags \X (Tags \cup {NoTag})
    /\ OtherImplies \subseteq Tags \X Tags

VARIABLES
    stack,       \* calls in progress
    returned     \* what the last outermost call returned

vars == <<backend, stack, returned>>

\* A row set of the schema: the tags and the post that exist, the tags that
\* are on the post, and what the tags say about each other.  RedirectId has
\* no foreign key: it may name a tag that was deleted.
Contents == [tags    : SUBSET Tags,
             post    : BOOLEAN,
             on      : SUBSET Tags,
             redirect: [Tags -> Tags \cup {NoTag}],
             adds    : SUBSET (Tags \X Tags),     \* TagImplications, but
             removes : SUBSET (Tags \X Tags)]     \* those with FLAG_REMOVE_TAG

\* The foreign keys of PostTags hold, and a tag implies another one once.
ASSUME CatalogsAssumption ==
    \A c \in Catalogs :
        /\ c \in Contents
        /\ c.on \subseteq c.tags /\ (c.on # {} => c.post)
        /\ c.adds \cap c.removes = {}

Frame == [pc      : {"follow", "insert", "implications", "each", "unwind", "find", "delete"},
          tag     : Tags,                    \* tag.Id
          redirect: Tags \cup {NoTag},       \* tag.RedirectId
          hops    : 0 .. MaxRedirects + 1,   \* iteration
          valid   : BOOLEAN,                 \* transactionGuard.m_IsValid
          todo    : SUBSET Tags,             \* the implied tags still to do
          removing: SUBSET Tags]             \* those with FLAG_REMOVE_TAG

TypeOK ==
    /\ EngineTypeOK
    /\ disk \in Contents /\ work \in Contents
    /\ transactionDepth \in Nat /\ transactionFailed \in BOOLEAN
    /\ stack \in Seq(Frame) /\ Len(stack) <= MaxCalls
    /\ returned \in ResultCode \cup {"none"}

Init ==
    /\ \E contents \in Catalogs : BackendInit(contents)
    /\ stack = <<>>
    /\ returned = "none"

----------------------------------------------------------------------------
\* Statements.  The depth and its flag belong to the guards.

Top == stack[Len(stack)]

At(pc) == stack # <<>> /\ Top.pc = pc

Levels == <<transactionDepth, transactionFailed>>

\* A SELECT that finds its row, or not.
Lookup(found, result) ==
    /\ \E rc \in SqliteCodes :
          /\ Read(rc)
          /\ result = IF rc # SQLITE_OK THEN Sqlite3ToResult(rc)
                      ELSE IF found THEN "OK" ELSE "NotFound"
    /\ UNCHANGED Levels

GetTag(t, result) == Lookup(t \in work.tags, result)

FindPostTag(t, result) == Lookup(t \in work.on, result)

\* INSERT INTO PostTags.  A row that is there already is noticed before its
\* foreign keys are.
CreatePostTag(t, result) ==
    /\ \E rc \in SqliteCodes :
          /\ \/ /\ t \in work.on
                /\ WriteRejected(SQLITE_CONSTRAINT_UNIQUE, rc)
             \/ /\ t \notin work.on /\ ~(work.post /\ t \in work.tags)
                /\ WriteRejected(SQLITE_CONSTRAINT_FOREIGNKEY, rc)
             \/ /\ t \notin work.on /\ work.post /\ t \in work.tags
                /\ Write([work EXCEPT !.on = @ \cup {t}], rc)
             \/ Fault(rc)
          /\ result = IF rc = SQLITE_OK THEN "CreatedOK" ELSE Sqlite3ToResult(rc)
    /\ UNCHANGED Levels

\* DELETE FROM PostTags; a DELETE that removed no row is an error.
DeletePostTag(t, result) ==
    /\ \E rc \in SqliteCodes :
          /\ Write([work EXCEPT !.on = @ \ {t}], rc) \/ Fault(rc)
          /\ result = IF rc = SQLITE_OK /\ t \notin work.on
                      THEN "DatabaseError" ELSE Sqlite3ToResult(rc)
    /\ UNCHANGED Levels

----------------------------------------------------------------------------
\* Calls and returns

Called(pc, t, redirect) ==
    [pc |-> pc, tag |-> t, redirect |-> redirect, hops |-> 0, valid |-> FALSE,
     todo |-> {}, removing |-> {}]

Continue(frame) ==
    /\ stack' = [stack EXCEPT ![Len(stack)] = frame]
    /\ UNCHANGED returned

\* The caller inside AddTagToPost drops the result (CHECK).
Return(result) ==
    /\ stack' = SubSeq(stack, 1, Len(stack) - 1)
    /\ returned' = IF Len(stack) = 1 THEN result ELSE returned

\* The application calls with an entity it loaded before, or changed itself:
\* by now its row may redirect elsewhere or be gone.
CallAddTagToPost(t, redirect) ==
    /\ stack = <<>>
    /\ stack' = <<Called("follow", t, redirect)>>
    /\ returned' = "none"
    /\ UNCHANGED backend

CallRemoveTagFromPost(t, redirect) ==
    /\ stack = <<>>
    /\ stack' = <<Called("find", t, redirect)>>
    /\ returned' = "none"
    /\ UNCHANGED backend

----------------------------------------------------------------------------
\* AddTagToPost

\* Mutant: one redirection too many.
FollowRedirectionOffByOne ==
    /\ At("follow") /\ Top.redirect # NoTag
    /\ \/ Top.hops > MaxRedirects + 1 /\ Return("RecursionExceeded") /\ UNCHANGED backend
       \/ /\ Top.hops <= MaxRedirects + 1
          /\ \E result \in ResultCode :
                /\ GetTag(Top.redirect, result)
                /\ IF ResultIsError(result)
                   THEN Return(result)
                   ELSE Continue([Top EXCEPT !.tag = Top.redirect,
                                    !.redirect = work.redirect[@], !.hops = @ + 1])

\* Mutant: redirections are not counted.
FollowRedirectionUncounted ==
    /\ At("follow") /\ Top.redirect # NoTag
    /\ \E result \in ResultCode :
          /\ GetTag(Top.redirect, result)
          /\ IF ResultIsError(result)
             THEN Return(result)
             ELSE Continue([Top EXCEPT !.tag = Top.redirect, !.redirect = work.redirect[@]])

\* One round of FollowRedirections: the copy at hand says where to go, the
\* row found there is the next copy.
FollowRedirection ==
    /\ At("follow") /\ Top.redirect # NoTag
    /\ \/ /\ Top.hops > MaxRedirects
          /\ Return("RecursionExceeded")
          /\ UNCHANGED backend
       \/ /\ Top.hops <= MaxRedirects
          /\ \E result \in ResultCode :
                /\ GetTag(Top.redirect, result)
                /\ IF ResultIsError(result)
                   THEN Return(result)
                   ELSE Continue([Top EXCEPT !.tag = Top.redirect,
                                    !.redirect = work.redirect[@], !.hops = @ + 1])

\* Mutant: the tag is added as it was given.
OpenGuardUnresolved ==
    /\ At("follow")
    /\ \E result \in ResultCode :
          /\ BeginTransaction(result)
          /\ Continue([Top EXCEPT !.pc = "insert", !.hops = 0, !.valid = ~ResultIsError(result)])

\* Mutant: no guard.
OpenGuardOmitted ==
    /\ At("follow") /\ Top.redirect = NoTag
    /\ Continue([Top EXCEPT !.pc = "insert", !.hops = 0])
    /\ UNCHANGED backend

OpenGuard ==
    /\ At("follow") /\ Top.redirect = NoTag
    /\ \E result \in ResultCode :
          /\ BeginTransaction(result)
          /\ Continue([Top EXCEPT !.pc = "insert", !.hops = 0, !.valid = ~ResultIsError(result)])

GuardCommit ==
    IF Top.valid THEN \E result \in ResultCode : CommitTransaction(result)
                 ELSE UNCHANGED backend

\* Mutant: the destructor does nothing.
GuardRollbackForgotten == UNCHANGED backend

GuardRollback ==
    IF Top.valid THEN \E result \in ResultCode : RollbackTransaction(result)
                 ELSE UNCHANGED backend

\* Mutant: every error returns.
CreateTagReturnsErrors ==
    /\ At("insert")
    /\ \E result \in ResultCode :
          /\ CreatePostTag(Top.tag, result)
          /\ Continue([Top EXCEPT !.pc = IF ResultIsError(result)
                                         THEN "unwind" ELSE "implications"])

\* Any result but AlreadyExists goes on to the implications, errors too.
CreateTag ==
    /\ At("insert")
    /\ \E result \in ResultCode :
          /\ CreatePostTag(Top.tag, result)
          /\ Continue([Top EXCEPT !.pc = IF result = "AlreadyExists"
                                         THEN "each" ELSE "implications"])

GetTagImplicationsForTag ==
    /\ At("implications")
    /\ \E result \in ResultCode :
          /\ Lookup(TRUE, result)
          /\ Continue(
               IF ResultIsError(result)
               THEN [Top EXCEPT !.pc = "unwind"]
               ELSE [Top EXCEPT !.pc = "each",
                       !.todo = {t \in Tags : <<Top.tag, t>> \in work.adds \cup work.removes},
                       !.removing = {t \in Tags : <<Top.tag, t>> \in work.removes}])

\* The early return: the guard's destructor rolls back.
Unwind ==
    /\ At("unwind")
    /\ GuardRollback
    /\ Return("DatabaseLocked")

\* Mutant: recurses on the tag itself.
NextImplicationSelf(t) ==
    /\ At("each") /\ t \in Top.todo /\ Len(stack) < MaxCalls
    /\ \E result \in ResultCode :
          /\ GetTag(t, result)
          /\ stack' = [stack EXCEPT ![Len(stack)].todo = @ \ {t}]
                       \o (IF ResultIsError(result) THEN <<>>
                           ELSE <<Called("follow", Top.tag, Top.redirect)>>)
    /\ UNCHANGED returned

\* One round of the loop; SQL leaves the order of the implications open.
NextImplication(t) ==
    /\ At("each") /\ t \in Top.todo /\ Len(stack) < MaxCalls
    /\ \E result \in ResultCode :
          /\ GetTag(t, result)
          /\ LET rest   == [Top EXCEPT !.todo = @ \ {t}, !.removing = @ \ {t}]
                 callee == Called(IF t \in Top.removing THEN "find" ELSE "follow",
                                  t, work.redirect[t])
             IN  stack' = [stack EXCEPT ![Len(stack)] = rest]
                          \o (IF ResultIsError(result) THEN <<>> ELSE <<callee>>)
    /\ UNCHANGED returned

CommitAndReturn ==
    /\ At("each") /\ Top.todo = {}
    /\ GuardCommit
    /\ Return("OK")

----------------------------------------------------------------------------
\* RemoveTagFromPost: look the association up, then delete it.

FindTag ==
    /\ At("find")
    /\ \E result \in ResultCode :
          /\ FindPostTag(Top.tag, result)
          /\ IF ResultIsError(result) THEN Return(result)
                                      ELSE Continue([Top EXCEPT !.pc = "delete"])

DeleteTag ==
    /\ At("delete")
    /\ \E result \in ResultCode : DeletePostTag(Top.tag, result) /\ Return(result)

----------------------------------------------------------------------------
\* Death of the process, by the stack of the thread running out or otherwise,
\* and a new one that opens the database again.

Restart ==
    /\ DestroyBackend
    /\ stack' = <<>>
    /\ returned' = "none"

StackOverflow ==
    /\ At("each") /\ Top.todo # {} /\ Len(stack) = MaxCalls
    /\ Restart

Crash == stack # <<>> /\ Restart

----------------------------------------------------------------------------
\* The other process uses the library too.

\* Delete of a tag; ON DELETE CASCADE takes what refers to it along.
OtherDeletesTag(t) ==
    /\ t \in disk.tags
    /\ OtherCommits([disk EXCEPT !.tags = @ \ {t}, !.on = @ \ {t},
                                 !.adds = {i \in @ : t \notin {i[1], i[2]}},
                                 !.removes = {i \in @ : t \notin {i[1], i[2]}}])

OtherDeletesPost ==
    /\ disk.post
    /\ OtherCommits([disk EXCEPT !.post = FALSE, !.on = {}])

\* Update of a tag.
OtherRedirectsTag(t, next) ==
    /\ t \in disk.tags
    /\ OtherCommits([disk EXCEPT !.redirect[t] = next])

\* Create, Update or Delete of an implication.
OtherChangesImplication(i) ==
    /\ i[1] \in disk.tags /\ i[2] \in disk.tags
    /\ \E flag \in {"add", "remove", "none"} :
          OtherCommits([disk EXCEPT
              !.adds    = IF flag = "add" THEN @ \cup {i} ELSE @ \ {i},
              !.removes = IF flag = "remove" THEN @ \cup {i} ELSE @ \ {i}])

OtherProcess ==
    /\ \/ OtherAcquires
       \/ OtherReleases
       \/ \E t \in Tags \cap OtherDeletes : OtherDeletesTag(t)
       \/ "post" \in OtherDeletes /\ OtherDeletesPost
       \/ \E r \in OtherRedirects : OtherRedirectsTag(r[1], r[2])
       \/ \E i \in OtherImplies : OtherChangesImplication(i)
    /\ UNCHANGED <<Levels, stack, returned>>

----------------------------------------------------------------------------
\* The library runs to the end of a call once it was entered.
Step ==
    \/ FollowRedirection \/ OpenGuard \/ CreateTag \/ GetTagImplicationsForTag
    \/ Unwind \/ (\E t \in Tags : NextImplication(t)) \/ CommitAndReturn
    \/ FindTag \/ DeleteTag
    \/ StackOverflow

Next ==
    \/ \E t \in Tags, redirect \in Tags \cup {NoTag} :
          CallAddTagToPost(t, redirect) \/ CallRemoveTagFromPost(t, redirect)
    \/ Step
    \/ Crash
    \/ OtherProcess

Spec == Init /\ [][Next]_vars /\ WF_vars(Step)

----------------------------------------------------------------------------
\* Where a tag leads to by at most so many redirections, if anywhere.
Follow(tags, redirect) ==
    LET follow[hops \in 0 .. MaxRedirects + 1] ==
          [t \in Tags \cup {NoTag} |->
             IF t \notin tags THEN NoTag
             ELSE IF redirect[t] = NoTag THEN t
             ELSE IF hops = 0 THEN NoTag
             ELSE follow[hops - 1][redirect[t]]]
    IN  follow

Resolved(db, t) == Follow(db.tags, db.redirect)[MaxRedirects + 1][t]

\* No tag implies itself, directly or not: the tags have levels, and each is
\* above those that it implies.
Acyclic(db) ==
    \E level \in [Tags -> 1 .. Cardinality(Tags)] :
        \A t, u \in Tags :
            <<t, u>> \in db.adds /\ Resolved(db, u) # NoTag
                => level[Resolved(db, u)] < level[t]

\* A tag comes on disk together with its implied tags, unless implications
\* also remove tags: the nested calls of AddTagToPost reach the disk at once,
\* through all locks, changes by the other process and crashes, as long as
\* the disk is not full (booru.cc:185-224).
ImpliedTagsComeAlong ==
    [][faults = 0 /\ disk.removes = {} =>
         \A t \in disk'.on \ disk.on, u \in Tags :
            <<t, u>> \in disk.adds => Resolved(disk', u) \in disk'.on \cup {NoTag}]_vars

\* What comes on disk redirects nowhere when it does, although redirections
\* are followed on copies: implied tags are loaded under the lock, and go on
\* meaning their rows until COMMIT.  The copy that the outermost call was made
\* with, or found outside its transaction, may be stale (booru.cc:181,206).
ImpliedTagsAreResolved ==
    [][faults = 0 => \A t \in disk'.on \ disk.on :
                        disk.redirect[t] = NoTag \/ t = stack[1].tag]_vars

\* A call commits once: until a full disk takes the transaction away under
\* the guards, no step of a nested call changes the disk.
OneCommitPerCall ==
    [][faults = 0 /\ other' = other /\ disk' # disk => Len(stack) = 1]_vars

\* No call leaves a transaction open behind it, whichever way it returned; a
\* COMMIT that found a reader is the one exception.
NoTransactionLeftOpen == stack = <<>> /\ sqlTx => lock = "pending"

\* "ignore errors" (booru.cc:200): no error of a nested call marks the
\* transaction of the outer call failed.  A nested guard would do so if it
\* could not read its implications, but by then the lock is held; a full disk
\* would take it away.
NestedErrorsDoNotDoom == faults = 0 /\ transactionDepth > 0 => ~transactionFailed

\* While no tag implies itself, directly or not, nested calls go no deeper
\* than there are tags, and one more to remove a tag, through redirections,
\* tags already there and additions that failed.  After a full disk the other
\* process may change the implications under the recursion.
CallDepthBounded ==
    faults = 0 /\ Acyclic(disk) => Len(stack) <= Cardinality(Tags) + 1

\* Every call ends, redirection cycles, locks and changes notwithstanding.
CallsEnd == stack # <<>> ~> stack = <<>>

----------------------------------------------------------------------------
\* What the code says and does not do.

\* "actually add tag" (booru.cc:187), OK is "The requested operation completed
\* successfully" (result.cc:82): the post has the tag when the call returns OK.
OKMeansTagged ==
    [][At("each") /\ Len(stack) = 1 /\ returned' = "OK" /\ disk.removes = {}
         => Top.tag \in work.on]_vars
==============================================================================
