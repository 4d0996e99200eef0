# TLA+ model of libbooru

libbooru is a C++ library that keeps an image board (posts, tags, tag types, implications, files, sites) in an SQLite file. This directory models the parts of it that have state, order and failure: nested transactions, opening and upgrading a database, tagging, the entity store and the statements it is made of, searching, the conversions of text and the hashes. Paths below are relative to `src/library/`, headers to `include/booru/`.

## Inventory

| Component | State | Operations | Interacts with | Module |
|---|---|---|---|---|
| SQLite backend (`db/sqlite3/db.cc`, `db.hh`) | the handle, `m_TransactionDepth`, `m_TransactionFailed` | OpenDatabase, Begin/Commit/RollbackTransaction, IsInTransaction, ExecuteSQL, PrepareStatement, GetLastRowId | SQLite; every guard and every statement | `Backend` |
| TransactionGuard (`db.hh`) | `m_IsValid`, `m_IsCommited`, a reference to the backend | constructor, Commit, Rollback, destructor | the backend, other guards on it | `TransactionGuard` |
| SQLite (external) | the file, the connection's view of it, the locks of this and of other processes | SELECT, writes, BEGIN, COMMIT, ROLLBACK, close | other processes | `Sqlite3` |
| Opening (`booru.cc`, `db/sql.cc`) | `m_DB`, `db.version` in the file | OpenDatabase, CreateTables, UpdateTables, CloseDatabase, Get/SetConfig | guard, backend, other processes that open the file | `Lifecycle` |
| Tagging (`booru.cc`) | the locals of the calls in progress; PostTags, Tags, TagImplications | AddTagToPost, FollowRedirections, RemoveTagFromPost | guard, entity store, itself (recursion) | `Tagging` |
| Entity store (`db/entity.hh`, `db/entities/`, `db/sql.cc`) | rows, ids, foreign keys; the ids that the application's entities hold | Create, Get, GetAll, Update, Delete | statements, other processes | `EntityStore` |
| Searching (`booru.cc`, `db/query.hh`) | the condition built so far | FindPosts, GetSQLConditionForTag, MatchTags; GetTagsForPost, GetPostsForTag, FindPostTag | query builder, entity store, other processes | `Searching`; the last three in `Statements` |
| Query builder and prepared statements (`db/query.hh`, `db/stmt.hh`, `db/visitors.hh`, `db/sqlite3/stmt.cc`) | the bound parameters, the cursor, the entities of a list so far | Prepare, BindValue, StepQuery, StepUpdate, GetColumnValue, ExecuteScalar/Row/List; Get/SetConfig and the getters of `booru.cc` | entity store, the backend, cursors of other connections | `Schema`, `Statements` |
| Result codes (`result.hh`, `db/sqlite3/result.cc`) | none | Sqlite3ToResult, ResultIsError | everybody | `Results`; `Expected` in `Statements` |
| Strings, hashes (`string.cc`, `util/hash.hh`) | locals of their loops | UTF-8, HTML entities, hex, base64; padding, MD5, SHA-1 | callers; nothing in the library calls them | `Encodings`, `Hashes` |

The library starts no thread and has no lock: concurrency comes from *other processes* on the same file. No busy timeout is set, so every SQLite call returns at once, possibly with SQLITE_BUSY, and the errors that nobody looks at (`CHECK` logs and drops them) are where behaviour gets hard: a refused COMMIT, a BEGIN on a transaction that was left open, a transaction that SQLite rolled back by itself, a process that dies between two statements, a recursion whose end depends on an insert. `PROJECT.json` lists these at their lines.

What makes each component correct:

* guards: nested scopes reach the disk together or not at all; the depth follows the guards; what a guard committed is durable;
* opening: the schema on disk is whole at every instant; after OK it is current; existing data is not touched unless it has to be; a failed open leaves no lock;
* tagging: one commit per outermost call, a tag comes with its implied tags, no implied tag is stored while it redirects, calls end, errors of nested calls do not undo the outer one;
* entity store: a reference, a held entity and a redirection go on meaning the row they meant, although SQLite gives the ids of deleted rows away again; no tag implies itself;
* searching: a post that is found has, for each token, a tag whose id bore a fitting name at some moment of the search, nothing that matched throughout is missed, and a failed lookup is an error and not an empty condition;
* statements: a query and its bindings name the same parameters; a call takes effect at one moment and whole, or reports a true error and changes nothing; a list is whole;
* conversions: each result is what an independent definition of the encoding says.

## Modules

`Results` → `Sqlite3` → `Backend` extend one another and own the engine's and the backend's variables; `TransactionGuard`, `Tagging` and `Lifecycle` extend `Backend` and use its operators as conjuncts of their actions. An operator `F(.., result)` is the call of `F` that returns `result`, so an action reads `\E result : BeginTransaction(result) /\ ...` as the code reads `auto result = BeginTransaction(); ...`.

* `Results`: `ResultCode`, `ResultIsError`, `Sqlite3ToResult` with the fallback from an extended code to its low byte.
* `Sqlite3` (external): `disk` is what is committed, `work` what this connection sees; they differ inside a transaction that wrote. `lock` and `other` are the locks of this and of the other process (none, shared, reserved, pending/exclusive). A write is refused while the other process writes, a COMMIT while it reads; a refused COMMIT keeps the transaction and the pending lock. `Fault` is SQLITE_FULL, after which SQLite has rolled back by itself.
* `Backend`: the three transaction calls as in `db.cc`, in the order of its assignments: the depth changes even when the statement then fails.
* `TransactionGuard`: an application with up to `MaxGuards` guards alive, used in any order; `guards` holds `m_IsValid` and `m_IsCommited` of each. Statements run inside and outside guards; CloseDatabase may happen under guards, which then keep the old Backend alive. `scope`, `doomed`, `undone` and `acked` are history: what the application was told.
* `AtomicScopes`: what `IBackend` promises, as a specification of its own (`store`, `pending`, `open`, `doomed`). `TransactionGuard!Abstract` is the refinement mapping: the store is `disk`, the pending writes are `work \ disk`, the open scopes are the depth.
* `TransactionGuardProofs`: the theorems about both. It begins, as `TaggingProofs` and `LifecycleProofs` do, with the lemmas about `Sqlite3` and `Backend` over its own contents of the file: what the return codes become, what BEGIN, COMMIT and ROLLBACK leave behind, how the two processes' locks exclude each other.
* `Tagging`: the calls in progress are a stack of frames, each at a statement of AddTagToPost or RemoveTagFromPost. A step is one SQL statement with the code around it. The tag with its `RedirectId` and the implications in a frame are copies of rows: those that the caller passed, which may be of any age, or those that the call loaded. Between two statements the other process may lock, delete a tag or the post, redirect a tag and create, change or delete an implication; the process may die; and a write may find the disk full, after which SQLite has rolled back by itself under the guards (`Fault`). The order of implications is left open, as SQL leaves it. `TaggingProofs`: the theorems.
* `Lifecycle`: OpenDatabase statement by statement. The version may be one that the library wrote, a newer one, or text that the application stored with SetConfig and that is no number: `std::stoll` then throws through OpenDatabase. The base schema is five groups of statements (drop Config, drop the rest, create Config, insert the version, create the rest). `PRAGMA foreign_keys` inside it is a no-op, since it runs inside a transaction. The other process opens the file with the same library: it reads the version at one moment and decides what to do (`otherOpen`), and creates or upgrades at a later one, whatever the file contains by then; it also stores rows. Its transactions are one step each, and it is kept from reading the version by a pending COMMIT only, since its own BEGIN to COMMIT is that one step. `remade` is history: the other process made the tables since this one last read or wrote the version. `LifecycleProofs`: the theorems.
* `EntityStore`: the tables as one set of rows with ids, a unique key, references and, as history, the births that say which row is which. SQLite's choice of ids (one above the largest in use), UNIQUE, FOREIGN KEY, CASCADE and SET DEFAULT are those of `sql.cc`; Create is two statements (`INSERT`, `last_insert_rowid()`), with the other process between them. Every statement is a transaction of its own here: guards are the other modules' matter.
* `EntityStoreProofs`: the theorems about it.
* `Searching`: FindPosts token by token: a tag token is looked up with LIKE and its matches become ids in the condition; the posts are selected at the end. Between any two statements the other process may add or delete tags, change posts' tags and so on. Patterns are characters that are wildcards of the query language, wildcards of LIKE, the escape, or letters. `SearchingProofs`: the theorems.
* `Schema`: the tables of `sql.cc` with their constraints, and what `IterateProperties` of each entity visits, duplicates and omissions included. A row is a function from columns to values.
* `EntityTable`: what the comments of `entity.hh` and `booru.hh` promise, as a specification of its own: a call is asked for, takes effect at one moment, and is answered.
* `Statements`: how the code does it. A call builds a query (the columns it sets, the keys a row must agree with, the subquery it is within), binds values by name (a name without a parameter is passed over, a parameter without a value is NULL, a text ends at its first NUL), steps, and loads rows by column name (a blob is cut or padded). A list is loaded row by row; meanwhile its cursor keeps the other connection from writing. Any statement may fail at any point. `Abstract` needs no mapping: the abstract variables are the rows, the requests and the answers, and the statements are hidden. `StatementsProofs`: the theorems.
* `DataInduction`: induction over numbers, and over folds, for the proofs about loops: redirections, patterns, values, digits and text.
* `Hashes`: the words and rounds of MD5 and SHA-1 as operators. A 32-bit word is a pair of 16-bit halves, since TLC's integers have 32 bits with a sign; sums, rotations and bit functions are computed on the halves.
* `Encodings`: the loops of ParseHex, ParseBase64 (with their array variants), ConvertC32ToUTF8 and PadMessage, one iteration a step, FromChars of numeric HTML entities, and the digests, one round a step. The scratch pad that ParseBase64 does not initialize and the words that MD5 does not initialize start with any values. `EncodingsProofs`: the theorems.
* `MCTransactionGuard`, `MCTagging`, `MCEntityStore`, `MCSearching`, `MCEncodings`, `MCStatements`: values for TLC.

## Runs

| Run | Question | Bounds | Result |
|---|---|---|---|
| `guard_locks` | do depth, flag and disk agree in every use of guards? | 3 writes, 3 guards, all locks, 1 full disk; writes symmetric | pass |
| `guard_exclusive` | do guards implement atomic scopes? | 3 writes, 3 guards, the other process writes but never just reads, no full disk | pass |
| `guard_commit_busy` | is what was committed on disk? (with readers) | 2 writes, 2 guards | violated |
| `tagging` | is tagging atomic and complete, do its calls end and give their guards back? | 3 tags, 2 catalogs, 1 redirection, 5 frames, all locks, 1 full disk, crashes; one tag and the post deleted, one tag redirected, one implication changed | pass |
| `tagging_ok` | does OK mean tagged? | the same catalogs, the post may be deleted, no full disk | violated |
| `lifecycle` | is the schema whole and current? | 2 rows, all locks, 2 full disks, crashes, 5 versions | pass |
| `lifecycle_tabula_rasa` | does OpenDatabase keep existing tables? | 1 row | violated |
| `entity_store` | do ids go on meaning their rows? | 6 tables, 3 catalogs, 6 births, ids up to 3, 1 handle, 2 keys | pass |
| `statements` | does each call do what its comment says, whole or not at all? | 2 connections, 19 calls, 3 rows a table, blobs of 2 bytes, one database with a redirection, NULLs, a blob too long and one too short; connections symmetric | pass |
| `posts_for_tag` | do the posts of a tag have the tag? | same, 2 calls | violated |
| `searching` | is what is found what was asked for? | one pattern of up to 3 characters or any 2 of 7 tokens, 2 posts, 2 tags, 3 changes by the other process | pass |
| `encodings` | do conversions, padding and digests agree with their definitions? | hex texts of up to 5 and base64 texts of up to 7 characters, 11 code points at the boundaries, numbers of up to 4 digits and 11 longer ones on both sides of 0x10000 and 0x20000, messages of up to 130 bytes, arrays of 2 bytes, 8 published digests | pass |

Bounds. Three guards are a nest with an outermost, a middle and an innermost one, and depth zero, one and more are all the code tells apart. Three writes are one before, one inside and one after a scope. `MaxRedirects` is 1 instead of 32: a chain that fits, one that does not and a circle all occur. `MaxCalls` is one more frame than the depth an acyclic catalog of three tags can reach, so the bound is met only by the recursion that does not end. Of three tags one may be deleted, one redirected to another, and one implication created, changed and deleted, in any order: with the two catalogs this gives rows, cycles through a redirection, circles of redirections, and a tag that is added, removed or neither. Six births leave room for one or two new rows beside those of a catalog: enough to delete the newest row of a table and give its id to another while something still names it; the births bound is where `entity_store` stops, so it does not check deadlock. Three changes are one before, one between and one after two lookups. Seven base64 characters are a full group and every incomplete one behind it, 130 bytes are messages around the end of the first and of the second block, and every code-point boundary has both its sides. One fault per behaviour is enough to lose a transaction under live guards; `lifecycle` has a second one for the attempt after the first. Two connections are one that holds a cursor and one that writes under it; the nineteen calls have each kind of statement, each way to violate a constraint and each conversion at least once, and three rows let one table grow by one or two. `statements` does not check deadlock: it stops where a table is full. The digests are the test suite of RFC 1321, one and two blocks long, and the one digest that SHA-1 gets right.

What the violated runs show:

* `guard_commit_busy`: a reader makes COMMIT return SQLITE_BUSY. `db.hh:72` logs and drops it; the depth is zero but SQLite's transaction stays open. Later writes join it, the next BEGIN fails and its level is never given back, and closing the database rolls all of it back. OpenDatabase uses the same guard: it can return OK with nothing on disk.
* `tagging_ok`: `booru.cc:193` looks for AlreadyExists only; with the post gone the call still returns OK.
* `lifecycle_tabula_rasa`: with `_Create`, a version that cannot be *read* (SQLITE_BUSY) is treated as one that is not there, and the tables are dropped.
* `posts_for_tag`: the subquery selects `TagId` where `PostId` is meant (`booru.cc:287`), so the post whose id is the tag's is returned.

Where the code differs from what one would expect, the model has the code's behaviour and the property its premise: `rating:q` closes one parenthesis too few (`booru.cc:529`) and a backslash in a pattern is erased with all that follows (`booru.cc:401`; the comment says "remove escape character and skip over the next"), so `NothingElseIsFound` and `NothingIsMissed` speak of searches that return posts and of patterns without backslashes; the lead byte of a four-byte UTF-8 sequence is shifted by 17 instead of 18 (`string.cc:38`), so `UTF8Decodes` and `EntitiesDecode` end at 0x1FFFF; PadMessage adds a block too many when a message leaves exactly nine bytes of its last block (`hash.hh:74`), so that MD5 differs for messages of 55, 119, ... bytes, and writes its size lowest byte first (`hash.hh:90`), as MD5 wants it, though its comment promises "64bit big endian" (`hash.hh:66`) and SHA-1 wants that: `PaddingKeepsTheMessage` states the order that the code has, not the comment's, and `DigestsArePublished` has no message of SHA-1 but the empty one, and none of 55 bytes; it counts blocks and bytes in a `uint32_t` (`hash.hh:76`), which wraps for messages of about 4 GiB, so `PaddingKeepsTheMessage` speaks of shorter ones (`Fits`); a PostFile can never be created, since its Path is NOT NULL and never bound (every Create of one fails, which `EntityTable!Fail` allows); an Update writes all columns of the entity as it was loaded, so that of two updates the first is lost (`EntityTable!Update` says so); Delete goes through `Expected::Then`, which copies its arguments, so the caller's entity keeps its id, and ids are reused: after the newest row of a table is deleted, Update of an entity loaded before changes another row, so `EntitiesFindTheirRows` ends there; and tags that imply each other end at AlreadyExists only if the insert succeeds (`booru.cc:219`): a failing one recurses until the stack is full, so `CallDepthBounded` speaks of catalogs without such cycles.

Premises of the properties about opening: `OpenedIsCurrent` excludes a COMMIT that met a reader or a full disk, and `remade`: two processes open an empty file with `_Create`, the other one reads no version, waits, and this one creates, upgrades and returns OK; then the other one's CreateTables drops all of that and what was stored since, for it looks at nothing again inside its transaction (`booru.cc:58-67`, `sql.cc:14-24`). It is the decision of `lifecycle_tabula_rasa`, made on old news. `KeptWithoutCreate` speaks of this process's own steps.

Premises about full disks: `NoPartialCommit` ends there, and so do `NestedErrorsDoNotDoom`, `CallDepthBounded`, `ImpliedTagsComeAlong`, `ImpliedTagsAreResolved` and `OneCommitPerCall` (`faults = 0`). SQLite then has rolled back by itself while the depth still counts the guards: BeginTransaction of a nested call returns OK with no transaction active, what it inserts is committed at once and alone, the lock is gone, another process may change the implications under the recursion, and a nested call that cannot read its implications returns early (`booru.cc:201`) and marks what is left failed. The other properties of `tagging` hold on a full disk too.

Premises about copies: `FollowRedirections` looks at the RedirectId of the copy that the caller passed (`booru.cc:449-453`), which may be older than the row, although AddTagToPost "Considers negation, redirections and implications" (`booru.cc:173`). So the tag that the outermost call was asked for may come on disk while it redirects, and `ImpliedTagsAreResolved` excepts it; the copies of nested calls are made under the lock and agree with their rows until the COMMIT. `ImpliedTagsComeAlong` speaks of databases without removing implications.

## Fairness

`Tagging` and `Lifecycle` assume `WF_vars(Step)`: once a call was entered, its thread goes on. The library is single-threaded, never waits for a lock (no busy timeout, no busy handler), and every call into SQLite returns, so a step is always enabled inside a call. Nothing is assumed of the application, of the other process or of crashes. `TransactionGuard`, `EntityStore`, `Statements`, `Searching` and `Encodings` have no liveness property and no fairness.

## Proofs

`TransactionGuardProofs` proves, for all finite or infinite `Writes`, every `MaxGuards`, `MaxFaults` and `OtherLocks`:

* `TypeCorrect`, `DepthMatchesGuardsAlways`, `NoPartialCommitAlways`, `WedgedNeverCommitsAlways`, `OrphanOnlyAfterRefusedCommitAlways`: the five properties of `guard_locks`;
* `DurableWithoutReaders` and `Refinement`: the two of `guard_exclusive`, assuming `NoReaderAssumption` (no `"shared"` among the other's locks, `MaxFaults = 0`).

None of these properties is inductive. The invariant is built in layers, each preserved with the help of those before it: `LockInv` (the lock this connection holds excludes those of the other process; outside a transaction it holds none and `work = disk`), `AccountInv` (the history sets are disjoint and within what was written), `DepthInv` (the depth is the number of live guards, plus one if a level leaked, and then the SQLite state is the one a refused COMMIT or an automatic rollback left), `ScopeInv` (a scope with live guards is in the transaction, not on disk, and a doomed one has the flag or will get it). `NoReaderInv` adds that without readers a level never leaks, which gives durability and, with `RefInv`, the step simulation. Cardinality facts about the set of live guards (`LiveFinite`, `LiveAfterNew`, `LiveAfterLeave`, `LiveAfterDestroy`) are lemmas of their own.

`EntityStoreProofs` proves, for all tables, keys, handles and bounds and every catalog that `CatalogsAssumption` allows (distinct rows with their foreign keys in place, as the library writes them):

* `TypeCorrect`, `ReferencesStayTrueAlways`, `NoTagImpliesItselfAlways`, `EntitiesFindTheirRowsAlways`, `RedirectionsStayTrueAlways`: the five properties of `entity_store`.

`RowsStep` says once what a step can do to the rows: nothing, `Inserted`, `Updated` or `Deleted`; the rest of the proofs argue about these four and not about the actions. `StoredInv` is the invariant below all others: rows are typed, no two share an id or a birth, foreign keys hold and no implication has two equal columns. From it a foreign key keeps its meaning: an insert takes an id that is not in use, an update keeps ids, and a delete is refused or takes along what refers to the row. That different columns of an implication *mean* different tags needs this and the check of the values. For ids without a foreign key, held entities and redirections, the invariant is `Known`: as long as the newest row of the table was never deleted, some row has at least this id and whatever has exactly this id is the row that is meant; so no later insert can take the id. `HeldKnown` has it for every id held and for `last_insert_rowid()` while Create is between its two statements.

`LifecycleProofs` proves, for any rows, locks of the other process and number of faults:

* `TypeCorrect`, `SchemaWholeAlways`, `OpenedIsCurrentAlways`, `FailedOpenHoldsNothingAlways`, `KeptWithoutCreateAlways`: the five safety properties of `lifecycle`.

That the schema on disk is whole says nothing of the statements between BEGIN and COMMIT. `Inv` therefore says, for each place where OpenDatabase can stand, which transaction and lock it holds there (`CreateInv`, `UpdateInv`, `CallInv`), and which part of the schema the statements so far have made (`Stage`). `WholeInv` is then inductive: only CreateTables sees a schema that is not whole, and it has no COMMIT but after the last statement; what the other process commits is whole as well, whatever it decided and whenever (`OtherMakes`). `CurrentInv` and `KeepInv` carry what the loop of updates has reached over to the return.

`TaggingProofs` proves, for any tags, redirections, implications, changes by the other process, number of full disks and room on the stack:

* `TypeCorrect`, `NoTransactionLeftOpenAlways`;
* until the disk is full, `NestedErrorsNeverDoom`, `OneCommitPerCallAlways`, `ImpliedTagsAreResolvedAlways`, `ImpliedTagsComeAlongAlways`, from foreign keys that hold to begin with (`CatalogsAssumption`), and `CallDepthBoundedAlways`, for finitely many tags (`TagsAssumption`).

The invariant has two levels. `Always` holds on a full disk too: locks exclude each other, the rows this connection sees differ from those on disk in the tags on the post only (`StoreInv`), every call but the innermost is in its loop over implications (`NestInv`), and the depth is the number of guards, or one more because of a transaction that a refused COMMIT left open (`GuardInv`). It gives the type invariant and that a transaction outlives the outermost call only as a refused COMMIT leaves it. `Inv` adds what a full disk destroys: a call in its loop has read the implications, so this connection has a lock since (`StackInv`); under guards there is a transaction, and it is not failed (`DepthInv`); the copies that nested calls work with agree with the rows (`CopiesInv`). `Invariance` is therefore proved as `[](faults = 0 => Inv)`, from `FaultsStay`: a disk that was full stays so in `faults`. With both levels the BEGIN of a nested call sends no statement, so its guard is valid or the outermost one alone is not; nothing but the outermost COMMIT reaches the disk; and no nested call finds its implications locked, which is the one error that would doom the outer call.

The implied tags need to know what the calls in progress are still going to do. From `StoreInv`, foreign keys hold in what this connection sees, so an insert of a tag that was found cannot fail but for a lock, and then nothing was written. `ImpliedInv` adds that nested calls add tags where no implication removes any (`NestedInv`), and of the transaction of a call whose guard will commit it (`Owned`): no tag in it redirects but the one the call is for (`Settled`, from `CopiesInv`), and of each tag in it each implied one is there, or a call for the tag has it ahead or has made a call that is about to add it (`Covered`, `Due`). At the COMMIT of the outermost call nothing is due. "About to add" is `Follow`, which says where a tag leads to in the redirections that a call may still follow; that there is such a function (`FollowExists`) and that it takes one redirection at a time (`FollowRecurs`) are proved by induction over their number.

For the depth, `LinksInv` says that every call was made for an implication of its caller's tag: it follows redirections from an implied tag, is about the tag they lead to, or removes a tag. Where no tag implies itself the tags have levels, so the levels of the tags descend along the stack (`LevelsDescend`). Nobody deletes a tag meanwhile, since under a nested call this connection holds a lock.

`SearchingProofs` proves, for names and patterns of any length, any database and any changes by the other process:

* `PatternsMean`: LIKE with the pattern that MatchTags builds matches the names that the pattern means, if the pattern has no backslash;
* `TypeCorrect`, `NothingElseIsFoundAlways`, `NothingIsMissedAlways`, `FailedLookupsAreReportedAlways`: the properties of `searching`.

`Like` is the table that SQLite's matching fills from the end of the pattern; what a pattern means is stated with cuts of the name, one for each character. `MatchesStep` says of one row of that table what the cuts say of one character, and induction over the pattern from its end gives the theorem. The invariant about searches is `ConditionsInv`: a condition stands for its token as long as its ids have borne a fitting name since the search began (`seen`) and those that fitted all along (`kept`) are among them. It says nothing of the tags as they are: the condition may be stale.

`StatementsProofs` proves, for any number of connections, any requests and databases that `RequestsAssumption` and `DatabasesAssumption` allow (calls of the library with entities of their tables; rows in order):

* `TypeCorrect`, `ParametersAreBoundAlways`;
* `ImplementsEntityTableAlways`: statements implement `EntityTable`, if no call is `GetPostsForTag`, whose query asks for something else (`posts_for_tag`).

The step simulation needs what a statement in progress is worth: `StatementsInv` says that a statement was built from its request and bound to what it means (`BoundTo`), and that the rows it still has to step over together with the entities it has loaded are those that it selects *now*. That holds because a cursor keeps every other connection from writing, and it makes the answer of a list one of a single moment. `WellKept` (types, constraints, finitely many ids) is kept by each write. That what is bound and loaded is what `EntityTable` promises (`CutOff`, `LoadEntity`) are lemmas about values of any length.

`DataInduction`: the library's induction theorems take the formula as an operator, which the provers cannot instantiate. Here the formula is the *set* of the numbers for which it holds: `UpTo` and `DownFrom` say that a set that has the first number and with each number the next one has them all, and rest on `LeastElement`, which rests on the library's theorem that finite sets are well founded. `FoldExists` gives a fold over sequences its recursive equation.

`EncodingsProofs` proves, for texts and messages of any length, arrays of any size, any garbage and every block length from 64:

* `TypeCorrect`: conversions and digests write bytes and 32-bit words, which takes that every index is inside its text, block or table;
* `HexKeepsTheNumberAlways`, `Base64KeepsTheBitsAlways`, `UTF8DecodesAlways`, `EntitiesDecodeAlways`, `PaddingKeepsTheMessageAlways`: the other properties of `encodings`, but the one about published digests.

The properties speak of a call that has returned, so each loop has an invariant that says what is written for what is read. `HexInv`: byte i is made of digits 2i - 1 and 2i of the text with a 0 in front if their number is odd, and `curByteValue` is the digit that is waiting. `Base64Inv`: the bytes of group g are those that `Convert` makes of its four digits; the scratch pad is the digits since the last group and, behind them, anything, which reaches only bytes that `Kept` cuts off. That the bytes of four digits have the digits' bits is `Base64Bits`, from one lemma for each byte of a group (`FirstBits`, `SecondBits`, `ThirdBits`). `UTF8Inv`: `Decodes` holds between what is written and what is read; it grows by a code point (`DecodesOne`, `DecodesMore`), since each form starts with a byte that no other place has. `EntityInv` needs `NumbersRecur` about the fold that makes a number of digits. `PadInv`: what the eight bytes hold is the size divided by 256 so often (`Shifts`), and nothing of the message or its marker is where they go. `DigestInv`: states have as many words as the hash, a block in progress is inside the padded message, and rounds map words to words (`PlusType`, `RotlType`, `MD5StepType`, `SHA1StepType`). `OthersInv` says that no call touches another's variables.

What the proofs assume are the named assumptions of the modules: the locks are those SQLite has (`OtherLocksAssumption`), catalogs are rows of the schema, names and queries are texts and tokens (`NamesAssumption`, `QueriesAssumption`), NULL is no text (`ValuesAssumption`), hex and base64 texts and code points are what the code looks characters up as (`HexTextsAssumption`, `Base64TextsAssumption`, `CodesAssumption`), an entity has at most seven digits, so that `std::from_chars` does not overflow (`EntitiesAssumption`), blocks have 64 bytes or more (`BlockLengthAssumption`; MD5 and SHA-1 have 64), the size of a padded message is held by a `uint32_t` (`Fits`), bounds are numbers. TLC evaluates all of them in the runs.

Only model-checked:

* `DigestsArePublished`: that a digest is the one of RFC 1321 or RFC 3174 is an evaluation of given data and nothing that follows from the rounds; TLC evaluates it, and the proofs have the part that holds for every message, `TypeCorrect` and the padding;
* liveness (`CallsEnd`, `OpenEnds`), which needs fairness and ENABLED and is outside the prover.

## Plan

Done: the transaction core with its proofs, opening, tagging, the entity store with its proofs, statements and lists with their abstract specification, searching, the conversions and the hashes. Proved: the safety properties of the transaction core, of opening, of the entity store, of tagging, of statements, of searching, and of the conversions and the padding, and the refinements of `AtomicScopes` and `EntityTable`. Every invariant and every step property that a passing run checks is a theorem but `DigestsArePublished`.

## Not modelled

Logging and result descriptions (no state). Named HTML entities (a table of constants), Replace, Join and ToLower (single expressions). `DELETE` without a condition: the builder would refuse it, and no call of the library builds one. `BindValue` and `GetColumnValue` of FLOAT: no entity has such a property. WAL mode, shared cache and several connections in one process: the library uses none of them. Threads: the library has no synchronisation and offers no thread safety.
