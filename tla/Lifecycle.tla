------------------------------ MODULE Lifecycle ------------------------------
(***************************************************************************)
(* Booru::OpenDatabase and CloseDatabase (library/booru.cc:44-92): reading *)
(* the schema version, creating the tables and upgrading them, statement   *)
(* by statement, in a process that may die, on a file another process      *)
(* creates, upgrades and fills at the same time.                           *)
(***************************************************************************)
EXTENDS Backend, Sequences

CONSTANT Rows    \* what applications store in the tables

VARIABLES
    pc,          \* where OpenDatabase stands; "idle" between calls
    create,      \* its argument _Create
    isOpen,      \* m_DB is set
    version,     \* the local dbVersion, then the loop's i
    statement,   \* index of the schema's next statement
    valid,       \* the guard in scope is valid
    returned,    \* what the last OpenDatabase returned, or is about to return
    otherOpen,   \* what an OpenDatabase of the other process decided to do
    remade       \* it made the tables since this one last read or wrote the version

locals == <<create, version, statement, valid>>
others == <<otherOpen, remade>>
vars   == <<backend, pc, locals, isOpen, returned, others>>

SQLGetSchemaVersion == 1

\* db.version: no Config table, a table without that row, or its value: what
\* the library wrote, a later one did, or the application by SetConfig.
NoConfig   == -2
NoVersion  == -1
NotANumber == -3
Newer      == SQLGetSchemaVersion + 2
Versions   == 0 .. SQLGetSchemaVersion \cup {Newer}

Contents == [version : {NoConfig, NoVersion, NotANumber} \cup Versions,
             tables  : BOOLEAN,       \* all tables but Config
             rows    : SUBSET Rows]

Empty   == [version |-> NoConfig, tables |-> FALSE, rows |-> {}]
Created == [version |-> 0, tables |-> TRUE, rows |-> {}]

TypeOK ==
    /\ EngineTypeOK
    /\ disk \in Contents /\ work \in Contents
    /\ transactionDepth \in 0 .. 1 /\ transactionFailed \in BOOLEAN
    /\ pc \in {"idle", "version", "begin", "create", "commit", "reread",
               "update", "upgrade", "finish", "unwind"}
    /\ create \in BOOLEAN /\ isOpen \in BOOLEAN /\ valid \in BOOLEAN
    /\ version \in Versions
    /\ statement \in 1 .. 6
    /\ returned \in ResultCode \cup {"none", "exception"}
    /\ otherOpen \in {"none", "create", "update"} /\ remade \in BOOLEAN

\* A new file, one whose creator died before the upgrade, those in use.
Init ==
    /\ \E contents \in {Empty, Created} \cup
             [version : {SQLGetSchemaVersion, Newer}, tables : {TRUE}, rows : SUBSET Rows] :
          BackendInit(contents)
    /\ pc = "idle"
    /\ create = FALSE /\ isOpen = FALSE
    /\ version = 0 /\ statement = 1 /\ valid = FALSE
    /\ returned = "none"
    /\ otherOpen = "none" /\ remade = FALSE

----------------------------------------------------------------------------
\* The base schema: what each group of its statements does to the contents.
Schema == <<"dropConfig", "dropTables", "createConfig", "insertVersion", "createTables">>

Effect(command, db) ==
    CASE command = "dropConfig"    -> [db EXCEPT !.version = NoConfig]
      [] command = "dropTables"    -> [db EXCEPT !.tables = FALSE, !.rows = {}]
      [] command = "createConfig"  -> [db EXCEPT !.version = NoVersion]
      [] command = "insertVersion" -> [db EXCEPT !.version = 0]
      [] command = "createTables"  -> [db EXCEPT !.tables = TRUE]

\* IF EXISTS: dropping what is not there only reads; creating what is there,
\* or filling a table that is not, is an error.
ExecuteSchema(command, result) ==
    \E rc \in SqliteCodes :
       /\ result = Sqlite3ToResult(rc)
       /\ \/ IF command \in {"dropConfig", "dropTables"} /\ Effect(command, work) = work
             THEN Read(rc)
             ELSE IF \/ command = "createConfig" /\ work.version # NoConfig
                     \/ command = "insertVersion" /\ work.version # NoVersion
             THEN WriteRejected(SQLITE_ERROR, rc)
             ELSE Write(Effect(command, work), rc)
          \/ Fault(rc)
       /\ UNCHANGED <<transactionDepth, transactionFailed>>

\* The update to version 1.
SQLGetUpdateSchema(db) ==
    IF db.version \in {NoConfig, NoVersion} THEN db ELSE [db EXCEPT !.version = 1]

ExecuteUpdate(result) ==
    \E rc \in SqliteCodes :
       /\ result = Sqlite3ToResult(rc)
       /\ \/ IF work.version = NoConfig THEN WriteRejected(SQLITE_ERROR, rc)
                                        ELSE Write(SQLGetUpdateSchema(work), rc)
          \/ Fault(rc)
       /\ UNCHANGED <<transactionDepth, transactionFailed>>

\* GetConfigInt64("db.version"): std::stoll throws at what is no number.
GetDBVersion(result) ==
    \E rc \in SqliteCodes :
       /\ Read(rc)
       /\ UNCHANGED <<transactionDepth, transactionFailed>>
       /\ result = IF rc # SQLITE_OK THEN Sqlite3ToResult(rc)
                   ELSE IF work.version = NoConfig THEN "DatabaseError"
                   ELSE IF work.version = NoVersion THEN "ValueIsNull"
                   ELSE IF work.version = NotANumber THEN "exception"
                   ELSE "OK"

Goto(next) == pc' = next

Return(result) == pc' = "idle" /\ returned' = result

\* From here on, tables that the other process makes are news.
VersionKnown == remade' = FALSE /\ UNCHANGED otherOpen

----------------------------------------------------------------------------
\* OpenDatabase closes what is open before it opens the file.
CallOpenDatabase(createTables) ==
    /\ pc = "idle"
    /\ DestroyBackend
    /\ create' = createTables
    /\ version' = 0 /\ statement' = 1 /\ valid' = FALSE
    /\ \/ isOpen' = TRUE /\ Goto("version") /\ returned' = "none"
       \/ isOpen' = FALSE /\ Return("DatabaseError")      \* it cannot be opened
    /\ UNCHANGED others

\* Mutant: _Create is not looked at.
ReadVersionAlwaysCreates ==
    /\ pc = "version"
    /\ \/ GetDBVersion("OK") /\ version' = work.version /\ Goto("update")
       \/ (\E result \in Errors : GetDBVersion(result)) /\ Goto("begin") /\ UNCHANGED version
    /\ VersionKnown
    /\ UNCHANGED <<create, statement, valid, isOpen, returned>>

\* The exception leaves OpenDatabase, with m_DB set.
ThrowVersion ==
    /\ GetDBVersion("exception")
    /\ Return("exception")
    /\ UNCHANGED <<isOpen, version>>

\* No version, for whatever reason: give up, or start from scratch.
ReadVersion ==
    /\ pc = "version"
    /\ \/ /\ GetDBVersion("OK")
          /\ version' = work.version
          /\ Goto("update")
          /\ UNCHANGED <<isOpen, returned>>
       \/ /\ ~create
          /\ \E result \in Errors : GetDBVersion(result)
          /\ isOpen' = FALSE
          /\ Return("InvalidArgument")
          /\ UNCHANGED version
       \/ /\ create
          /\ \E result \in Errors : GetDBVersion(result)
          /\ Goto("begin")
          /\ UNCHANGED <<isOpen, version, returned>>
       \/ ThrowVersion
    /\ VersionKnown
    /\ UNCHANGED <<create, statement, valid>>

----------------------------------------------------------------------------
\* CreateTables and UpdateTables

OpenGuard(next) ==
    /\ \E result \in ResultCode :
          /\ BeginTransaction(result)
          /\ valid' = ~ResultIsError(result)
    /\ Goto(next)
    /\ UNCHANGED <<create, version, isOpen, returned, others>>

GuardCommit ==
    IF valid THEN \E result \in ResultCode : CommitTransaction(result)
             ELSE UNCHANGED backend

\* Mutant: the destructor does nothing.
GuardRollbackForgotten == UNCHANGED backend

GuardRollback ==
    IF valid THEN \E result \in ResultCode : RollbackTransaction(result)
             ELSE UNCHANGED backend

\* The error goes to the caller once the guard is gone.
Fail(result) == pc' = "unwind" /\ returned' = result

BeginCreate == pc = "begin" /\ OpenGuard("create") /\ statement' = 1

\* Mutant: the loop goes on after an error.
CreateTablesIgnoresErrors ==
    /\ pc = "create"
    /\ \E result \in ResultCode : ExecuteSchema(Schema[statement], result)
    /\ statement' = statement + 1
    /\ Goto(IF statement = Len(Schema) THEN "commit" ELSE "create")
    /\ UNCHANGED <<create, version, valid, isOpen, returned, others>>

CreateTables ==
    /\ pc = "create"
    /\ \E result \in ResultCode :
          /\ ExecuteSchema(Schema[statement], result)
          /\ IF ResultIsError(result) THEN Fail(result) /\ UNCHANGED statement
             ELSE /\ statement' = statement + 1
                  /\ Goto(IF statement = Len(Schema) THEN "commit" ELSE "create")
                  /\ UNCHANGED returned
    /\ UNCHANGED <<create, version, valid, isOpen, others>>

CommitCreate ==
    /\ pc = "commit"
    /\ GuardCommit
    /\ Goto("reread")
    /\ UNCHANGED <<locals, isOpen, returned, others>>

RereadVersion ==
    /\ pc = "reread"
    /\ \/ /\ GetDBVersion("OK")
          /\ version' = work.version
          /\ Goto("update")
          /\ UNCHANGED <<isOpen, returned>>
       \/ /\ \E result \in Errors : GetDBVersion(result) /\ Return(result)
          /\ UNCHANGED <<isOpen, version>>
       \/ ThrowVersion
    /\ VersionKnown
    /\ UNCHANGED <<create, statement, valid>>

\* Mutant: one update too many.
NextUpdateOffByOne ==
    \/ /\ pc = "update" /\ version <= SQLGetSchemaVersion
       /\ OpenGuard("upgrade")
       /\ UNCHANGED statement
    \/ /\ pc = "update" /\ version > SQLGetSchemaVersion
       /\ Return("OK")
       /\ UNCHANGED <<backend, locals, isOpen, others>>

NextUpdate ==
    \/ /\ pc = "update" /\ version < SQLGetSchemaVersion
       /\ OpenGuard("upgrade")
       /\ UNCHANGED statement
    \/ /\ pc = "update" /\ version >= SQLGetSchemaVersion
       /\ Return("OK")
       /\ UNCHANGED <<backend, locals, isOpen, others>>

UpdateTables ==
    /\ pc = "upgrade"
    /\ \E result \in ResultCode :
          /\ ExecuteUpdate(result)
          /\ IF ResultIsError(result) THEN Fail(result)
                                      ELSE Goto("finish") /\ UNCHANGED returned
    /\ UNCHANGED <<locals, isOpen, others>>

\* Mutant: no guard.Commit(); the destructor rolls back.
CommitUpdateForgotten ==
    /\ pc = "finish"
    /\ GuardRollback
    /\ version' = version + 1
    /\ Goto("update")
    /\ VersionKnown
    /\ UNCHANGED <<create, statement, valid, isOpen, returned>>

\* Mutant: the loop does not advance.
CommitUpdateAgain ==
    /\ pc = "finish"
    /\ GuardCommit
    /\ Goto("update")
    /\ VersionKnown
    /\ UNCHANGED <<locals, isOpen, returned>>

CommitUpdate ==
    /\ pc = "finish"
    /\ GuardCommit
    /\ version' = version + 1
    /\ Goto("update")
    /\ VersionKnown
    /\ UNCHANGED <<create, statement, valid, isOpen, returned>>

\* The early return: m_DB stays set.
Unwind ==
    /\ pc = "unwind"
    /\ GuardRollback
    /\ Return(returned)
    /\ UNCHANGED <<locals, isOpen, others>>

----------------------------------------------------------------------------
CloseDatabase ==
    /\ pc = "idle" /\ isOpen
    /\ DestroyBackend              \* nobody else holds the Backend
    /\ isOpen' = FALSE
    /\ returned' = "none"
    /\ UNCHANGED <<pc, locals, others>>

\* The application stores a row; it may do so after an open that failed.
StoreRow(r) ==
    /\ pc = "idle" /\ isOpen /\ work.tables
    /\ \E rc \in SqliteCodes : Write([work EXCEPT !.rows = @ \cup {r}], rc)
    /\ UNCHANGED <<transactionDepth, transactionFailed, pc, locals, isOpen, returned, others>>

\* SetConfig("db.version", ..) by the application.
SetVersion(v) ==
    /\ pc = "idle" /\ isOpen /\ work.version # NoConfig
    /\ returned' = "none"
    /\ \E rc \in SqliteCodes : Write([work EXCEPT !.version = v], rc)
    /\ UNCHANGED <<transactionDepth, transactionFailed, pc, locals, isOpen, others>>

Crash ==
    /\ DestroyBackend
    /\ pc' = "idle" /\ isOpen' = FALSE /\ returned' = "none"
    /\ UNCHANGED <<locals, others>>

\* Another process with this library opens the file: what it read of the
\* version decides what it does, however long ago that was.  It reads none
\* where there is none, and where a pending COMMIT of this one locks it out.
OtherReadsVersion ==
    /\ otherOpen = "none"
    /\ \/ /\ disk.version \in {NoConfig, NoVersion} \/ lock = "pending"
          /\ otherOpen' = "create"
       \/ /\ disk.version = 0 /\ lock # "pending"
          /\ otherOpen' = "update"
    /\ UNCHANGED <<engine, remade>>

\* Its CreateTables drops what it finds, and its UpdateTables asks for no
\* version either.
OtherCreates ==
    /\ otherOpen = "create" /\ otherOpen' = "none"
    /\ OtherCommits(Created)
    /\ remade' = TRUE

OtherUpdates ==
    /\ otherOpen = "update" /\ otherOpen' = "none"
    /\ OtherCommits(SQLGetUpdateSchema(disk))
    /\ UNCHANGED remade

\* Its OpenDatabase fails, or it dies.
OtherGivesUp ==
    /\ otherOpen # "none" /\ otherOpen' = "none"
    /\ UNCHANGED <<engine, remade>>

OtherStores ==
    /\ disk.version = SQLGetSchemaVersion
    /\ \E r \in Rows : OtherCommits([disk EXCEPT !.rows = @ \cup {r}])
    /\ UNCHANGED others

OtherProcess ==
    /\ \/ (OtherAcquires \/ OtherReleases) /\ UNCHANGED others
       \/ OtherReadsVersion \/ OtherCreates \/ OtherUpdates \/ OtherGivesUp
       \/ OtherStores
    /\ UNCHANGED <<transactionDepth, transactionFailed, pc, locals, isOpen, returned>>

\* OpenDatabase runs to its end once it was called.
Step ==
    \/ ReadVersion \/ BeginCreate \/ CreateTables \/ CommitCreate \/ RereadVersion
    \/ NextUpdate \/ UpdateTables \/ CommitUpdate \/ Unwind

Next ==
    \/ \E createTables \in BOOLEAN : CallOpenDatabase(createTables)
    \/ Step
    \/ CloseDatabase
    \/ \E r \in Rows : StoreRow(r)
    \/ \E v \in Versions \cup {NotANumber} : SetVersion(v)
    \/ Crash
    \/ OtherProcess

Spec == Init /\ [][Next]_vars /\ WF_vars(Step)

----------------------------------------------------------------------------
\* The schema is on disk whole or not at all: no error, full disk, lock or
\* crash between its statements leaves a part of it, or a version without its
\* tables (booru.cc:567-570).
SchemaWhole ==
    \/ disk = Empty
    \/ disk.tables /\ disk.version \in Versions \cup {NotANumber}

\* After OpenDatabase returned OK the schema on disk is not older than this
\* library's, whichever version the file had, and whoever else upgraded it or was
\* creating it before the version was read.  The exceptions are a COMMIT that
\* found a reader and one that found the disk full, whose errors are dropped
\* (booru.cc:76-81, db.hh:72), and another process that had read no version and
\* makes its tables only now (booru.cc:58-67), dropping those it finds.
OpenedIsCurrent ==
    pc = "idle" /\ returned = "OK" /\ lock # "pending" /\ faults = 0 /\ ~remade
       => disk.version >= SQLGetSchemaVersion

\* Without _Create, opening a file may upgrade its version and does nothing
\* else to it (booru.cc:61-65).  What the other process commits meanwhile is
\* its own doing.
KeptWithoutCreate ==
    [][pc # "idle" /\ ~create /\ other' = other
         => /\ disk.rows \subseteq disk'.rows
            /\ disk.version <= disk'.version
            /\ disk = Empty => disk' = Empty]_vars

\* An OpenDatabase that failed, or that an exception ended, leaves m_DB set, but
\* neither a lock on the file nor a transaction behind it: other processes, and
\* a later attempt, are not in its way (booru.cc:67-71,78,126).
FailedOpenHoldsNothing ==
    pc = "idle" /\ (ResultIsError(returned) \/ returned = "exception")
        => ~sqlTx /\ lock = "none"

\* OpenDatabase ends, whatever the other process does.
OpenEnds == pc # "idle" ~> pc = "idle"

----------------------------------------------------------------------------
\* What the code says and does not do.

\* "If true, create and database tables if they are not found"
\* (include/booru/booru.hh:24): where there are tables, OpenDatabase keeps
\* what is stored in them.
ExistingTablesKept ==
    [][pc # "idle" /\ other' = other => disk.rows \subseteq disk'.rows]_vars
==============================================================================
