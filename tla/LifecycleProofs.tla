--------------------------- MODULE LifecycleProofs ---------------------------
(***************************************************************************)
(* Proofs about Lifecycle, for any rows, any locks of the other process    *)
(* and any number of faults: the schema on disk is whole at every instant, *)
(* an OpenDatabase that returned OK left it current, one that failed left  *)
(* nothing behind, and without _Create nothing but the version changes.    *)
(***************************************************************************)
EXTENDS Lifecycle, TLAPS

----------------------------------------------------------------------------
\* The Backend: what the engine's return codes become

\* The codes that statements end with, by name (result.cc:7-43); a full disk
\* has no name of its own.
LEMMA NamedResults ==
    /\ Sqlite3ToResult(SQLITE_OK) = "OK"
    /\ Sqlite3ToResult(SQLITE_ERROR) = "DatabaseError"
    /\ Sqlite3ToResult(SQLITE_FULL) = "DatabaseError"
    /\ Sqlite3ToResult(SQLITE_BUSY) = "DatabaseLocked"
    /\ Sqlite3ToResult(SQLITE_CONSTRAINT_FOREIGNKEY) = "DatabaseFKeyViolation"
    /\ Sqlite3ToResult(SQLITE_CONSTRAINT_UNIQUE) = "AlreadyExists"
<1>1. Sqlite3ToResult(0) = "OK" /\ Sqlite3ToResult(1) = "DatabaseError"
      /\ Sqlite3ToResult(5) = "DatabaseLocked"
      /\ Sqlite3ToResult(787) = "DatabaseFKeyViolation"
      /\ Sqlite3ToResult(2067) = "AlreadyExists"
  BY DEF Sqlite3ToResult, NamedCode
<1>2. Sqlite3ToResult(13) = "DatabaseError"
  BY DEF Sqlite3ToResult, NamedCode
<1> QED
  BY <1>1, <1>2 DEF SQLITE_OK, SQLITE_ERROR, SQLITE_BUSY, SQLITE_FULL,
                    SQLITE_CONSTRAINT_FOREIGNKEY, SQLITE_CONSTRAINT_UNIQUE

\* Success is "OK", and everything a statement can fail with is an error
\* (result.cc:7-43, result.hh:48-51).
LEMMA Translation ==
    /\ Sqlite3ToResult(SQLITE_OK) = "OK"
    /\ \A rc \in SqliteCodes : /\ Sqlite3ToResult(rc) \in ResultCode
                               /\ ResultIsError(Sqlite3ToResult(rc)) <=> rc # SQLITE_OK
<1>1. "OK" \in ResultCode /\ ~ResultIsError("OK")
  BY DEF ResultIsError, ResultCode, Errors, Successes
<1>2. \A r \in {"DatabaseError", "DatabaseLocked", "DatabaseFKeyViolation", "AlreadyExists"} :
         r \in ResultCode /\ ResultIsError(r)
  BY DEF ResultIsError, ResultCode, Errors
<1> QED
  BY <1>1, <1>2, NamedResults
     DEF SqliteCodes, SQLITE_OK, SQLITE_ERROR, SQLITE_BUSY, SQLITE_FULL,
         SQLITE_CONSTRAINT_FOREIGNKEY, SQLITE_CONSTRAINT_UNIQUE

\* The codes are different numbers.
LEMMA Codes ==
    /\ {SQLITE_ERROR, SQLITE_BUSY, SQLITE_FULL} \subseteq SqliteCodes \ {SQLITE_OK}
    /\ {SQLITE_CONSTRAINT_UNIQUE, SQLITE_CONSTRAINT_FOREIGNKEY} \subseteq SqliteCodes \ {SQLITE_OK}
    /\ SQLITE_OK \in SqliteCodes
  BY DEF SqliteCodes, SQLITE_OK, SQLITE_ERROR, SQLITE_BUSY, SQLITE_FULL,
         SQLITE_CONSTRAINT_FOREIGNKEY, SQLITE_CONSTRAINT_UNIQUE

----------------------------------------------------------------------------
\* Types and locks

\* A step of the engine that does not make contents of its own.
EngineStep ==
    \/ \E rc : \/ Read(rc) \/ WriteRejected(SQLITE_CONSTRAINT_UNIQUE, rc)
               \/ WriteRejected(SQLITE_CONSTRAINT_FOREIGNKEY, rc)
               \/ WriteRejected(SQLITE_ERROR, rc) \/ Fault(rc)
               \/ ExecBegin(rc) \/ ExecCommit(rc) \/ ExecRollback(rc)
    \/ CloseHandle \/ OtherAcquires \/ OtherReleases
    \/ UNCHANGED engine

\* A step that turns the contents into db.
EngineStepTo(db) == (\E rc : Write(db, rc)) \/ OtherCommits(db)

\* No step of the engine leaves its types; what is on disk or seen by this
\* connection was so before or is db.
LEMMA EngineTypes ==
    ASSUME EngineTypeOK, NEW db, EngineStep \/ EngineStepTo(db)
    PROVE  /\ EngineTypeOK'
           /\ disk' \in {disk, work, db} /\ work' \in {disk, work, db}
           /\ EngineStep => disk' \in {disk, work} /\ work' \in {disk, work}
<1> USE DEF engine, Abandon, ExecBegin, ExecCommit, ExecRollback, Read,
            WriteRejected, Fault, CloseHandle, OtherAcquires, OtherReleases,
            Write, OtherCommits, EngineStep, EngineStepTo
<1>1. sqlTx' \in BOOLEAN
  BY Zenon DEF EngineTypeOK
<1>2. lock' \in {"none", "shared", "reserved", "pending"}
  BY DEF EngineTypeOK
<1>3. other' \in {"none"} \cup OtherLocks
  BY DEF EngineTypeOK
<1>4. faults' \in 0..MaxFaults
  BY MaxFaultsAssumption DEF EngineTypeOK
<1>5. disk' \in {disk, work, db} /\ work' \in {disk, work, db}
  OBVIOUS
<1>6. EngineStep => disk' \in {disk, work} /\ work' \in {disk, work}
  OBVIOUS
<1> QED
  BY <1>1, <1>2, <1>3, <1>4, <1>5, <1>6 DEF EngineTypeOK

\* Faults are only ever added.
LEMMA FaultsGrow ==
    ASSUME EngineTypeOK, NEW db, EngineStep \/ EngineStepTo(db)
    PROVE  faults' = faults \/ faults' = faults + 1
<1> QED
  BY DEF engine, Abandon, ExecBegin, ExecCommit, ExecRollback, Read, WriteRejected, Fault,
         CloseHandle, OtherAcquires, OtherReleases, Write, OtherCommits, EngineStep, EngineStepTo

\* A lock is held inside a transaction only, uncommitted work exists only
\* under a writing lock, and no lock beside the other process's exclusive one.
LockInv ==
    /\ lock # "none" => sqlTx
    /\ ~Writing => work = disk
    /\ other = "exclusive" => lock = "none"

\* Every step of either process respects the locks.
LEMMA LockStep ==
    ASSUME LockInv, NEW db, EngineStep \/ EngineStepTo(db)
    PROVE  LockInv'
<1> USE DEF LockInv, Writing, WriteRefused, engine, Abandon
<1>1. CASE EngineStep
  <2>1. ASSUME NEW rc, \/ Read(rc) \/ WriteRejected(SQLITE_CONSTRAINT_UNIQUE, rc)
                       \/ WriteRejected(SQLITE_CONSTRAINT_FOREIGNKEY, rc)
                       \/ WriteRejected(SQLITE_ERROR, rc) \/ Fault(rc)
        PROVE  LockInv'
    BY <2>1 DEF Read, WriteRejected, Fault
  <2>2. ASSUME NEW rc, ExecBegin(rc) \/ ExecCommit(rc) \/ ExecRollback(rc)
        PROVE  LockInv'
    BY <2>2 DEF ExecBegin, ExecCommit, ExecRollback, Fault
  <2>3. CASE CloseHandle \/ OtherAcquires \/ OtherReleases \/ UNCHANGED engine
    BY <2>3 DEF CloseHandle, OtherAcquires, OtherReleases
  <2> QED
    BY <1>1, <2>1, <2>2, <2>3 DEF EngineStep
<1>2. CASE EngineStepTo(db)
  BY <1>2 DEF EngineStepTo, Write, OtherCommits
<1> QED
  BY <1>1, <1>2

\* The locks are free initially.
LEMMA LockInit == ASSUME NEW db, EngineInit(db) PROVE LockInv
  BY DEF EngineInit, LockInv, Writing

----------------------------------------------------------------------------
\* The outermost transaction calls

\* BEGIN fails inside a transaction only, and does nothing then.
LEMMA OuterBegin ==
    ASSUME NEW result, BeginTransaction(result), transactionDepth = 0
    PROVE  /\ transactionDepth' = 1 /\ transactionFailed' = FALSE
           /\ UNCHANGED <<disk, work, lock, other, faults>>
           /\ sqlTx' /\ (ResultIsError(result) <=> sqlTx)
<1>1. PICK rc \in SqliteCodes : ExecBegin(rc) /\ result = Sqlite3ToResult(rc)
  BY DEF BeginTransaction, ExecuteBegin
<1>2. ResultIsError(result) <=> rc # SQLITE_OK
  BY <1>1, Translation
<1>3. transactionDepth' = 1 /\ transactionFailed' = FALSE
  BY DEF BeginTransaction
<1> QED
  BY <1>1, <1>2, <1>3, Codes DEF ExecBegin, engine

\* The four ends of an outermost COMMIT: nothing to commit, refused because of
\* a reader, done, or rolled back because the disk is full.
LEMMA OuterCommit ==
    ASSUME NEW result, CommitTransaction(result), transactionDepth = 1, ~transactionFailed
    PROVE  /\ transactionDepth' = 0 /\ UNCHANGED <<transactionFailed, other>>
           /\ \/ ~sqlTx /\ UNCHANGED engine
              \/ /\ sqlTx /\ Writing /\ lock' = "pending"
                 /\ UNCHANGED <<disk, work, sqlTx, faults>>
              \/ /\ sqlTx /\ disk' = work /\ sqlTx' = FALSE /\ lock' = "none"
                 /\ UNCHANGED <<work, faults>>
              \/ /\ sqlTx /\ work' = disk /\ sqlTx' = FALSE /\ lock' = "none"
                 /\ faults' = faults + 1 /\ UNCHANGED disk
<1>1. transactionDepth' = 0 /\ UNCHANGED transactionFailed
  BY DEF CommitTransaction
<1>2. PICK rc \in SqliteCodes : ExecCommit(rc)
  BY DEF CommitTransaction, ExecuteCommit
<1> QED
  BY <1>1, <1>2 DEF ExecCommit, Fault, Abandon, engine

\* An outermost ROLLBACK, in a transaction and outside.
LEMMA OuterRollback ==
    ASSUME NEW result, RollbackTransaction(result), transactionDepth = 1
    PROVE  /\ transactionDepth' = 0
           /\ UNCHANGED <<transactionFailed, disk, other, faults>>
           /\ \/ ~sqlTx /\ UNCHANGED engine
              \/ sqlTx /\ work' = disk /\ sqlTx' = FALSE /\ lock' = "none"
<1>1. transactionDepth' = 0 /\ UNCHANGED transactionFailed
  BY DEF RollbackTransaction
<1>2. PICK rc \in SqliteCodes : ExecRollback(rc)
  BY DEF RollbackTransaction, ExecuteRollback
<1> QED
  BY <1>1, <1>2 DEF ExecRollback, Abandon, engine

\* The calls of the Backend are steps of its engine.
LEMMA BackendSteps ==
    ASSUME \/ \E result : \/ BeginTransaction(result) \/ CommitTransaction(result)
                          \/ RollbackTransaction(result)
           \/ RollbackAll \/ DestroyBackend \/ UNCHANGED backend
    PROVE  EngineStep
  BY DEF BeginTransaction, CommitTransaction, RollbackTransaction, RollbackAll,
         DestroyBackend, backend, ExecuteBegin, ExecuteCommit, ExecuteRollback, EngineStep

----------------------------------------------------------------------------
(***************************************************************************)
(* The inductive invariant: CoreTypes, LockInv, and where OpenDatabase stands *)
(* says how the transaction, the lock and what this connection sees belong *)
(* together.                                                               *)
(***************************************************************************)

\* Contents that may be found on disk between two transactions.
Whole(db) == db = Empty \/ (db.tables /\ db.version \in Versions \cup {NotANumber})

\* A guard is in scope whose BEGIN succeeded.
Guarded == valid /\ sqlTx

\* What the statements before the next one made of the contents.
Stage(db) ==
    \/ statement = 1 /\ Whole(db)
    \/ statement = 2 /\ db.version = NoConfig
    \/ statement = 3 /\ db = Empty
    \/ statement = 4 /\ db = [version |-> NoVersion, tables |-> FALSE, rows |-> {}]
    \/ statement = 5 /\ db = [version |-> 0, tables |-> FALSE, rows |-> {}]

\* CreateTables holds a lock from its first statement on, and the writing one
\* once there is a table to make.
CreateInv ==
    /\ pc = "create" => /\ Guarded /\ Stage(work)
                        /\ statement > 1 => lock # "none"
                        /\ statement > 3 => Writing
    /\ pc = "commit" => Guarded /\ Writing /\ work = Created
    /\ pc = "reread" /\ sqlTx => work = Created
    /\ pc \in {"begin", "create", "commit", "reread"} => create

\* A guard of UpdateTables that is not valid is in the transaction that a
\* refused COMMIT of CreateTables left open.
UpdateInv ==
    /\ pc = "update" /\ version < SQLGetSchemaVersion =>
          work.version \in {0, 1} /\ (~create => ~sqlTx)
    /\ pc \in {"upgrade", "finish"} => sqlTx /\ version = 0 /\ (~valid => lock = "pending")
    /\ pc = "upgrade" => work.version \in {0, 1} /\ (valid => lock = "none") /\ (~create => valid)
    /\ pc = "finish" => Writing /\ work.version = 1

\* The transaction between the guards, and how many levels are entered.
CallInv ==
    /\ ~transactionFailed
    /\ pc \in {"version", "begin"} => ~sqlTx
    /\ pc \in {"idle", "reread", "update"} /\ sqlTx => lock = "pending"
    /\ pc = "unwind" => ResultIsError(returned) /\ (~valid => ~sqlTx)
    /\ pc \in {"version", "begin", "reread"} => transactionDepth = 0
    /\ pc = "update" /\ version < SQLGetSchemaVersion => transactionDepth = 0
    /\ pc \in {"create", "commit", "upgrade", "finish", "unwind"} => transactionDepth = 1

\* Only the statements of CreateTables see a schema that is not whole, and
\* none of them is followed by a COMMIT before the last one.
WholeInv ==
    /\ Whole(disk)
    /\ pc \notin {"create", "unwind"} => Whole(work)

\* When the loop of updates ends, what it counted up to is on disk, unless the
\* other process made the tables again.
CurrentInv ==
    /\ pc = "update" /\ version >= SQLGetSchemaVersion /\ lock # "pending" /\ faults = 0
       /\ ~remade => disk.version >= SQLGetSchemaVersion
    /\ OpenedIsCurrent

\* Without _Create an update is all that is ever written.
KeepInv ==
    pc = "finish" /\ ~create =>
        valid /\ disk.version \in {0, 1} /\ work.rows = disk.rows

\* The types of what OpenDatabase and the engine hold.
CoreTypes ==
    /\ EngineTypeOK
    /\ disk \in Contents /\ work \in Contents
    /\ transactionDepth \in 0 .. 1 /\ transactionFailed \in BOOLEAN
    /\ pc \in {"idle", "version", "begin", "create", "commit", "reread",
               "update", "upgrade", "finish", "unwind"}
    /\ create \in BOOLEAN /\ isOpen \in BOOLEAN /\ valid \in BOOLEAN
    /\ version \in Versions
    /\ statement \in 1 .. 6
    /\ returned \in ResultCode \cup {"none", "exception"}

\* What is known of the other process.
OthersTypes == otherOpen \in {"none", "create", "update"} /\ remade \in BOOLEAN

Inv ==
    /\ CoreTypes /\ LockInv
    /\ CreateInv /\ UpdateInv /\ CallInv
    /\ WholeInv /\ CurrentInv /\ KeepInv /\ FailedOpenHoldsNothing

----------------------------------------------------------------------------
\* What a statement of OpenDatabase does.

\* The five statements keep the contents what they are by type.
LEMMA EffectType ==
    ASSUME NEW db \in Contents, NEW i \in 1 .. 5
    PROVE  Effect(Schema[i], db) \in Contents
<1>1. /\ db.version \in {NoConfig, NoVersion, NotANumber} \cup Versions
      /\ db.tables \in BOOLEAN /\ db.rows \in SUBSET Rows
  BY Zenon DEF Contents
<1>2. 0 \in Versions
  BY DEF Versions, SQLGetSchemaVersion
<1>3. CASE i = 1
  BY <1>1, <1>3 DEF Effect, Schema, Contents
<1>4. CASE i = 2
  BY <1>1, <1>4 DEF Effect, Schema, Contents
<1>5. CASE i = 3
  BY <1>1, <1>5 DEF Effect, Schema, Contents
<1>6. CASE i = 4
  BY <1>1, <1>2, <1>6 DEF Effect, Schema, Contents
<1>7. CASE i = 5
  BY <1>1, <1>7 DEF Effect, Schema, Contents
<1> QED
  BY <1>3, <1>4, <1>5, <1>6, <1>7

\* A statement of the schema succeeds and takes the contents a stage further,
\* or fails, with nothing on disk either way.
LEMMA SchemaStatement ==
    ASSUME Inv, pc = "create", NEW result, ExecuteSchema(Schema[statement], result)
    PROVE  /\ statement \in 1 .. 5 /\ result \in ResultCode
           /\ UNCHANGED <<transactionDepth, transactionFailed, disk, other>>
           /\ faults' \in {faults, faults + 1}
           /\ EngineTypeOK' /\ work' \in Contents /\ LockInv'
           /\ ~ResultIsError(result) /\ statement' = statement + 1 =>
                 /\ sqlTx' /\ lock' # "none" /\ (statement > 2 => Writing')
                 /\ statement < 5 => Stage(work)'
                 /\ statement = 5 => work' = Created
<1> DEFINE command == Schema[statement]
<1>0. /\ Guarded /\ Stage(work) /\ EngineTypeOK /\ LockInv
      /\ work \in Contents /\ disk \in Contents /\ statement \in 1 .. 5
      /\ statement > 1 => lock # "none"
      /\ statement > 3 => Writing
  BY DEF Inv, CreateInv, CoreTypes, Stage
<1>1. PICK rc \in SqliteCodes :
         /\ result = Sqlite3ToResult(rc)
         /\ UNCHANGED <<transactionDepth, transactionFailed>>
         /\ \/ /\ command \in {"dropConfig", "dropTables"} /\ Effect(command, work) = work
               /\ Read(rc)
            \/ WriteRejected(SQLITE_ERROR, rc)
            \/ Write(Effect(command, work), rc)
            \/ Fault(rc)
  BY DEF ExecuteSchema
<1>2. result \in ResultCode /\ (ResultIsError(result) <=> rc # SQLITE_OK)
  BY <1>1, Translation
<1>3. EngineStep \/ EngineStepTo(Effect(command, work))
  BY <1>1 DEF EngineStep, EngineStepTo
<1>4. LockInv' /\ EngineTypeOK' /\ work' \in Contents
  BY <1>0, <1>3, EffectType, EngineTypes, LockStep
<1>5. UNCHANGED <<disk, other>>
  BY <1>0, <1>1 DEF Read, WriteRejected, Write, Fault, Abandon, engine, Guarded
<1>f. faults' \in {faults, faults + 1}
  BY <1>0, <1>3, FaultsGrow
<1>6. ASSUME rc = SQLITE_OK
      PROVE  /\ work' = Effect(command, work)
             /\ sqlTx' /\ lock' # "none" /\ (statement > 2 => Writing')
  <2>1. CASE command \in {"dropConfig", "dropTables"} /\ Effect(command, work) = work /\ Read(rc)
    <3>1. statement \in {1, 2}
      BY <1>0, <2>1 DEF Schema
    <3>2. work' = work /\ sqlTx' = sqlTx /\ lock' # "none"
      BY <1>0, <1>6, <2>1, Codes DEF Read, Guarded
    <3> QED
      BY <1>0, <2>1, <3>1, <3>2 DEF Guarded
  <2>2. CASE Write(Effect(command, work), rc)
    BY <1>0, <1>6, <2>2, Codes DEF Write, Guarded, Writing
  <2>3. ~WriteRejected(SQLITE_ERROR, rc) /\ ~Fault(rc)
    BY <1>6, Codes DEF WriteRejected, Fault
  <2> QED
    BY <1>1, <2>1, <2>2, <2>3
<1>7. ASSUME rc = SQLITE_OK, statement' = statement + 1
      PROVE  /\ statement < 5 => Stage(work)'
             /\ statement = 5 => work' = Created
  <2>0. /\ work' = Effect(command, work)
        /\ work = [version |-> work.version, tables |-> work.tables, rows |-> work.rows]
    BY <1>0, <1>6, <1>7 DEF Contents
  <2>1. CASE statement = 1
    BY <1>7, <2>0, <2>1 DEF Stage, Effect, Schema
  <2>2. CASE statement = 2
    <3>1. work.version = NoConfig
      BY <1>0, <2>2 DEF Stage
    <3>2. work' = [version |-> NoConfig, tables |-> FALSE, rows |-> {}]
      BY <2>0, <2>2, <3>1 DEF Effect, Schema
    <3> QED
      BY <1>7, <2>2, <3>2 DEF Stage, Empty
  <2>3. CASE statement = 3
    <3>1. work = [version |-> NoConfig, tables |-> FALSE, rows |-> {}]
      BY <1>0, <2>3 DEF Stage, Empty
    <3>2. work' = [version |-> NoVersion, tables |-> FALSE, rows |-> {}]
      BY <2>0, <2>3, <3>1 DEF Effect, Schema
    <3> QED
      BY <1>7, <2>3, <3>2 DEF Stage
  <2>4. CASE statement = 4
    <3>1. work = [version |-> NoVersion, tables |-> FALSE, rows |-> {}]
      BY <1>0, <2>4 DEF Stage, Empty
    <3>2. work' = [version |-> 0, tables |-> FALSE, rows |-> {}]
      BY <2>0, <2>4, <3>1 DEF Effect, Schema
    <3> QED
      BY <1>7, <2>4, <3>2 DEF Stage
  <2>5. CASE statement = 5
    <3>1. work = [version |-> 0, tables |-> FALSE, rows |-> {}]
      BY <1>0, <2>5 DEF Stage, Empty
    <3>2. work' = [version |-> 0, tables |-> TRUE, rows |-> {}]
      BY <2>0, <2>5, <3>1 DEF Effect, Schema
    <3> QED
      BY <2>5, <3>2 DEF Created
  <2> QED
    BY <1>0, <2>1, <2>2, <2>3, <2>4, <2>5
<1> QED
  BY <1>0, <1>1, <1>2, <1>4, <1>5, <1>6, <1>7, <1>f

\* Within its transaction the update succeeds, and nothing is written but the
\* version, or it fails; it is on disk in neither case.
LEMMA UpdateStatement ==
    ASSUME Inv, pc = "upgrade", NEW result, ExecuteUpdate(result)
    PROVE  /\ result \in ResultCode
           /\ UNCHANGED <<transactionDepth, transactionFailed, disk, other>>
           /\ faults' \in {faults, faults + 1}
           /\ EngineTypeOK' /\ work' \in Contents /\ LockInv'
           /\ ResultIsError(result) => valid \/ ~sqlTx'
           /\ ~ResultIsError(result) =>
                 /\ sqlTx' /\ Writing' /\ (lock = "pending" => lock' = "pending")
                 /\ work' = [work EXCEPT !.version = 1]
<1>0. /\ sqlTx /\ work.version \in {0, 1} /\ (~valid => lock = "pending")
      /\ EngineTypeOK /\ LockInv /\ work \in Contents /\ disk \in Contents
  BY DEF Inv, UpdateInv, CoreTypes
<1>1. work.version \notin {NoConfig, NoVersion} /\ 1 \in Versions
  BY <1>0 DEF NoConfig, NoVersion, Versions, SQLGetSchemaVersion
<1>2. SQLGetUpdateSchema(work) = [work EXCEPT !.version = 1]
  BY <1>1 DEF SQLGetUpdateSchema
<1>3. [work EXCEPT !.version = 1] \in Contents
  BY <1>0, <1>1 DEF Contents
<1>4. PICK rc \in SqliteCodes :
         /\ result = Sqlite3ToResult(rc)
         /\ UNCHANGED <<transactionDepth, transactionFailed>>
         /\ Write([work EXCEPT !.version = 1], rc) \/ Fault(rc)
  BY <1>1, <1>2 DEF ExecuteUpdate
<1>5. result \in ResultCode /\ (ResultIsError(result) <=> rc # SQLITE_OK)
  BY <1>4, Translation
<1>6. EngineStep \/ EngineStepTo([work EXCEPT !.version = 1])
  BY <1>4 DEF EngineStep, EngineStepTo
<1>7. LockInv' /\ EngineTypeOK' /\ work' \in Contents
  BY <1>0, <1>3, <1>6, EngineTypes, LockStep
<1>8. UNCHANGED <<disk, other>>
  BY <1>0, <1>4 DEF Write, Fault, Abandon, engine
<1>f. faults' \in {faults, faults + 1}
  BY <1>0, <1>6, FaultsGrow
<1>9. rc # SQLITE_OK => valid \/ ~sqlTx'
  BY <1>0, <1>4 DEF Write, Fault, Abandon, WriteRefused, Writing
<1>10. rc = SQLITE_OK =>
           /\ sqlTx' /\ Writing' /\ (lock = "pending" => lock' = "pending")
           /\ work' = [work EXCEPT !.version = 1]
  BY <1>0, <1>4, Codes DEF Write, Fault, Writing
<1> QED
  BY <1>4, <1>5, <1>7, <1>8, <1>9, <1>10, <1>f

\* Reading the version changes nothing but the lock, and returns OK where it
\* is a number; under a lock it fails only where it is none.
LEMMA VersionRead ==
    ASSUME Inv, NEW result, GetDBVersion(result)
    PROVE  /\ result \in ResultCode \cup {"exception"}
           /\ UNCHANGED <<transactionDepth, transactionFailed, disk, work, sqlTx, other, faults>>
           /\ ~sqlTx => UNCHANGED lock
           /\ lock # "none" => UNCHANGED lock
           /\ EngineTypeOK' /\ LockInv'
           /\ result = "OK" => work.version \in Versions
           /\ result # "OK" => ResultIsError(result) \/ result = "exception"
           /\ result # "OK" /\ lock # "none" => work.version \notin Versions
<1>0. EngineTypeOK /\ LockInv /\ work \in Contents
  BY DEF Inv, CoreTypes
<1>1. PICK rc \in SqliteCodes :
         /\ Read(rc)
         /\ UNCHANGED <<transactionDepth, transactionFailed>>
         /\ result = IF rc # SQLITE_OK THEN Sqlite3ToResult(rc)
                     ELSE IF work.version = NoConfig THEN "DatabaseError"
                     ELSE IF work.version = NoVersion THEN "ValueIsNull"
                     ELSE IF work.version = NotANumber THEN "exception"
                     ELSE "OK"
  BY DEF GetDBVersion
<1>2. /\ Sqlite3ToResult(rc) \in ResultCode
      /\ rc # SQLITE_OK => ResultIsError(Sqlite3ToResult(rc))
      /\ ~ResultIsError("OK") /\ ResultIsError("DatabaseError") /\ ResultIsError("ValueIsNull")
      /\ {"OK", "DatabaseError", "ValueIsNull"} \subseteq ResultCode
  BY Translation DEF ResultIsError, Errors, ResultCode, Successes
<1>3. EngineStep /\ EngineTypeOK' /\ LockInv'
  BY <1>0, <1>1, EngineTypes, LockStep DEF EngineStep
<1>4. /\ UNCHANGED <<disk, work, sqlTx, other, faults>>
      /\ ~sqlTx => UNCHANGED lock
      /\ lock # "none" => UNCHANGED lock /\ rc = SQLITE_OK
  BY <1>1 DEF Read, engine
<1>5. work.version \in {NoConfig, NoVersion, NotANumber} \cup Versions
  BY <1>0 DEF Contents
<1>6. {NoConfig, NoVersion, NotANumber} \cap Versions = {}
  BY DEF NoConfig, NoVersion, NotANumber, Versions, Newer, SQLGetSchemaVersion
<1> QED
  BY <1>1, <1>2, <1>3, <1>4, <1>5, <1>6

----------------------------------------------------------------------------
\* What every step keeps.

\* A step of the engine that makes no contents but db keeps the engine's types
\* and its locks.
LEMMA StepTypes ==
    ASSUME Inv, NEW db \in Contents, EngineStep \/ EngineStepTo(db)
    PROVE  /\ EngineTypeOK' /\ LockInv' /\ disk' \in Contents /\ work' \in Contents
           /\ faults \in Nat /\ faults' \in {faults, faults + 1}
<1>1. EngineTypeOK /\ LockInv /\ work \in Contents /\ disk \in Contents
  BY DEF Inv, CoreTypes
<1>2. EngineTypeOK' /\ disk' \in {disk, work, db} /\ work' \in {disk, work, db}
  BY <1>1, EngineTypes
<1>3. LockInv'
  BY <1>1, LockStep
<1>4. faults' \in {faults, faults + 1}
  BY <1>1, FaultsGrow
<1>5. faults \in Nat
  BY <1>1, MaxFaultsAssumption DEF EngineTypeOK
<1> QED
  BY <1>1, <1>2, <1>3, <1>4, <1>5

\* Whatever is on disk initially is whole.
LEMMA InitInv == Init => Inv
<1> SUFFICES ASSUME Init PROVE Inv
  OBVIOUS
<1>1. PICK contents \in {Empty, Created} \cup
             [version : {SQLGetSchemaVersion, Newer}, tables : {TRUE}, rows : SUBSET Rows] :
        BackendInit(contents)
  BY DEF Init
<1>2. contents \in Contents /\ Whole(contents)
  <2>1. {0, SQLGetSchemaVersion, Newer} \subseteq Versions
    BY DEF Versions, SQLGetSchemaVersion, Newer
  <2>2. CASE contents = Empty
    BY <2>2 DEF Contents, Whole, Empty
  <2>3. CASE contents = Created
    BY <2>1, <2>3 DEF Contents, Whole, Created
  <2>4. CASE contents \in [version : {SQLGetSchemaVersion, Newer}, tables : {TRUE},
                           rows : SUBSET Rows]
    BY <2>1, <2>4, Zenon DEF Contents, Whole
  <2> QED
    BY <2>2, <2>3, <2>4
<1>3. /\ disk = contents /\ work = contents /\ sqlTx = FALSE /\ lock = "none"
      /\ other = "none" /\ faults = 0 /\ transactionDepth = 0 /\ transactionFailed = FALSE
  BY <1>1 DEF BackendInit, EngineInit
<1>4. /\ pc = "idle" /\ create = FALSE /\ isOpen = FALSE
      /\ version = 0 /\ statement = 1 /\ valid = FALSE /\ returned = "none"
  BY DEF Init
<1>b. {sqlTx, transactionFailed, create, isOpen, valid} \subseteq BOOLEAN
  BY <1>3, <1>4, Zenon
<1>5. EngineTypeOK
  BY <1>3, <1>b, MaxFaultsAssumption DEF EngineTypeOK
<1>6. CoreTypes
  BY <1>2, <1>3, <1>4, <1>5, <1>b DEF CoreTypes, Versions, SQLGetSchemaVersion
<1>7. LockInv
  BY <1>3 DEF LockInv, Writing
<1>8. FailedOpenHoldsNothing
  BY <1>3 DEF FailedOpenHoldsNothing
<1> QED
  BY <1>2, <1>3, <1>4, <1>6, <1>7, <1>8
     DEF Inv, CreateInv, UpdateInv, CallInv, WholeInv, CurrentInv, KeepInv, OpenedIsCurrent

\* CloseHandle leaves nothing but what is on disk.
LEMMA HandleClosed ==
    ASSUME Inv, DestroyBackend
    PROVE  /\ EngineTypeOK' /\ LockInv' /\ disk' \in Contents /\ work' \in Contents
           /\ disk' = disk /\ work' = disk /\ sqlTx' = FALSE /\ lock' = "none"
           /\ transactionDepth' = 0 /\ transactionFailed' = FALSE /\ Whole(disk)
<1>1. EngineStep
  BY BackendSteps
<1>2. EngineTypeOK' /\ LockInv' /\ disk' \in Contents /\ work' \in Contents
  BY <1>1, StepTypes DEF Inv, CoreTypes
<1> QED
  BY <1>2 DEF DestroyBackend, CloseHandle, Abandon, Inv, WholeInv

----------------------------------------------------------------------------
\* The steps of OpenDatabase keep the invariant.

\* OpenDatabase starts: a handle is opened and the version is read next
\* (booru.cc:44).
LEMMA CallOpenDatabaseInv ==
    ASSUME Inv, NEW createTables \in BOOLEAN, CallOpenDatabase(createTables)
    PROVE  Inv'
<1>1. DestroyBackend
  BY DEF CallOpenDatabase
<1>2. /\ EngineTypeOK' /\ LockInv' /\ disk' \in Contents /\ work' \in Contents
      /\ disk' = disk /\ work' = disk /\ sqlTx' = FALSE /\ lock' = "none"
      /\ transactionDepth' = 0 /\ transactionFailed' = FALSE /\ Whole(disk)
  BY <1>1, HandleClosed
<1>3. /\ create' = createTables /\ version' = 0 /\ statement' = 1 /\ valid' = FALSE
      /\ \/ isOpen' = TRUE /\ pc' = "version" /\ returned' = "none"
         \/ isOpen' = FALSE /\ pc' = "idle" /\ returned' = "DatabaseError"
  BY DEF CallOpenDatabase, Goto, Return
<1>b. {transactionFailed', create', isOpen', valid'} \subseteq BOOLEAN
  BY <1>2, <1>3, Zenon
<1>4. CoreTypes'
  BY <1>2, <1>3, <1>b DEF CoreTypes, Versions, SQLGetSchemaVersion, ResultCode, Errors
<1> QED
  BY <1>2, <1>3, <1>4 DEF Inv, CreateInv, UpdateInv, CallInv, WholeInv, Whole, CurrentInv, KeepInv,
                          OpenedIsCurrent, FailedOpenHoldsNothing

\* The first read of db.version decides whether the tables are made
\* (booru.cc:58).
LEMMA ReadVersionInv == ASSUME Inv, ReadVersion PROVE Inv'
<1>0. /\ pc = "version" /\ ~sqlTx /\ lock = "none" /\ work = disk /\ Whole(disk)
      /\ CoreTypes /\ transactionDepth = 0 /\ ~transactionFailed
  BY DEF Inv, CallInv, LockInv, Writing, WholeInv, ReadVersion
<1>1. PICK result : GetDBVersion(result) /\
        \/ /\ result = "OK" /\ version' = work.version /\ pc' = "update"
           /\ UNCHANGED <<isOpen, returned>>
        \/ /\ ~create /\ result \in Errors /\ isOpen' = FALSE
           /\ pc' = "idle" /\ returned' = "InvalidArgument" /\ UNCHANGED version
        \/ /\ create /\ result \in Errors /\ pc' = "begin"
           /\ UNCHANGED <<isOpen, version, returned>>
        \/ /\ result = "exception" /\ pc' = "idle" /\ returned' = "exception"
           /\ UNCHANGED <<isOpen, version>>
  BY DEF ReadVersion, Goto, Return, ThrowVersion
<1>2. UNCHANGED <<create, statement, valid>>
  BY DEF ReadVersion
<1>3. /\ UNCHANGED <<transactionDepth, transactionFailed, disk, work, sqlTx, other, faults, lock>>
      /\ EngineTypeOK' /\ LockInv'
      /\ result = "OK" => work.version \in Versions
  BY <1>0, <1>1, VersionRead
<1>4. CoreTypes'
  BY <1>0, <1>1, <1>2, <1>3 DEF CoreTypes, Versions, ResultCode, Errors
<1>5. version' < SQLGetSchemaVersion /\ pc' = "update" => work.version \in {0, 1}
  BY <1>1, <1>3 DEF Versions, SQLGetSchemaVersion, Newer
<1> QED
  BY <1>0, <1>1, <1>2, <1>3, <1>4, <1>5
     DEF Inv, CreateInv, UpdateInv, CallInv, WholeInv, Whole, CurrentInv, KeepInv,
         OpenedIsCurrent, FailedOpenHoldsNothing, Errors, ResultIsError

\* The guard of CreateTables opens its transaction, or the open fails
\* (booru.cc:568).
LEMMA BeginCreateInv == ASSUME Inv, BeginCreate PROVE Inv'
<1>0. /\ pc = "begin" /\ ~sqlTx /\ lock = "none" /\ work = disk /\ Whole(disk) /\ create
      /\ CoreTypes /\ transactionDepth = 0
  BY DEF Inv, CallInv, CreateInv, LockInv, Writing, WholeInv, BeginCreate
<1>1. PICK result \in ResultCode : BeginTransaction(result) /\ valid' = ~ResultIsError(result)
  BY DEF BeginCreate, OpenGuard
<1>2. /\ transactionDepth' = 1 /\ transactionFailed' = FALSE
      /\ UNCHANGED <<disk, work, lock, other, faults>> /\ sqlTx' /\ valid'
  BY <1>0, <1>1, OuterBegin
<1>3. pc' = "create" /\ statement' = 1 /\ UNCHANGED <<create, version, isOpen, returned>>
  BY DEF BeginCreate, OpenGuard, Goto
<1>4. EngineTypeOK' /\ LockInv'
  <2>1. EngineStep
    BY <1>1, BackendSteps
  <2> QED
    BY <2>1, <1>0, StepTypes DEF CoreTypes
<1>b. {transactionFailed', create', isOpen', valid'} \subseteq BOOLEAN
  BY <1>0, <1>2, <1>3, <1>1, Zenon DEF CoreTypes
<1>5. CoreTypes'
  BY <1>0, <1>2, <1>3, <1>4, <1>b DEF CoreTypes
<1> QED
  BY <1>0, <1>2, <1>3, <1>4, <1>5
     DEF Inv, CreateInv, Guarded, Stage, UpdateInv, CallInv, WholeInv, Whole, CurrentInv, KeepInv,
         OpenedIsCurrent, FailedOpenHoldsNothing

\* One group of statements of the base schema runs inside that guard.
LEMMA CreateTablesInv == ASSUME Inv, CreateTables PROVE Inv'
<1>0. /\ pc = "create" /\ Guarded /\ create /\ CoreTypes /\ Whole(disk)
      /\ ~transactionFailed /\ transactionDepth = 1
  BY DEF Inv, CallInv, CreateInv, WholeInv, CreateTables
<1>1. PICK result : ExecuteSchema(Schema[statement], result) /\
        \/ /\ ResultIsError(result) /\ pc' = "unwind" /\ returned' = result /\ UNCHANGED statement
        \/ /\ ~ResultIsError(result) /\ statement' = statement + 1 /\ UNCHANGED returned
           /\ pc' = IF statement = 5 THEN "commit" ELSE "create"
  BY DEF CreateTables, Fail, Goto, Schema
<1>2. UNCHANGED <<create, version, valid, isOpen>>
  BY DEF CreateTables
<1>3. /\ statement \in 1 .. 5 /\ result \in ResultCode
      /\ UNCHANGED <<transactionDepth, transactionFailed, disk, other>>
      /\ EngineTypeOK' /\ work' \in Contents /\ LockInv'
      /\ ~ResultIsError(result) /\ statement' = statement + 1 =>
            /\ sqlTx' /\ lock' # "none" /\ (statement > 2 => Writing')
            /\ statement < 5 => Stage(work)'
            /\ statement = 5 => work' = Created
  BY <1>0, <1>1, SchemaStatement
<1>4. CoreTypes'
  BY <1>0, <1>1, <1>2, <1>3 DEF CoreTypes
<1>5. CASE ResultIsError(result)
  <2>1. pc' = "unwind" /\ valid'
    BY <1>0, <1>1, <1>2, <1>5 DEF Guarded
  <2> QED
    BY <1>0, <1>1, <1>3, <1>4, <1>5, <2>1
       DEF Inv, CreateInv, UpdateInv, CallInv, WholeInv, Whole, CurrentInv, KeepInv,
           OpenedIsCurrent, FailedOpenHoldsNothing
<1>6. CASE ~ResultIsError(result)
  <2>1. /\ sqlTx' /\ valid' /\ create' /\ lock' # "none"
        /\ pc' = IF statement = 5 THEN "commit" ELSE "create"
    BY <1>0, <1>1, <1>2, <1>3, <1>6 DEF Guarded
  <2>2. Whole(Created)
    BY DEF Whole, Created, Versions, SQLGetSchemaVersion
  <2>3. CreateInv'
    BY <1>0, <1>1, <1>3, <1>6, <2>1 DEF CreateInv, Guarded
  <2>4. WholeInv'
    BY <1>0, <1>1, <1>3, <1>6, <2>1, <2>2 DEF WholeInv, Whole
  <2> QED
    BY <1>0, <1>3, <1>4, <2>1, <2>3, <2>4
       DEF Inv, UpdateInv, CallInv, CurrentInv, KeepInv, OpenedIsCurrent, FailedOpenHoldsNothing
<1> QED
  BY <1>5, <1>6

\* COMMIT puts the created schema on disk, is refused and keeps its work, or
\* leaves the disk as it was.
LEMMA CommitCreateInv == ASSUME Inv, CommitCreate PROVE Inv'
<1>0. /\ pc = "commit" /\ Guarded /\ create /\ CoreTypes /\ Whole(disk) /\ work = Created
      /\ ~transactionFailed /\ transactionDepth = 1
  BY DEF Inv, CallInv, CreateInv, WholeInv, CommitCreate
<1>1. PICK result \in ResultCode : CommitTransaction(result)
  BY <1>0 DEF CommitCreate, GuardCommit, Guarded
<1>2. pc' = "reread" /\ UNCHANGED <<create, version, statement, valid, isOpen, returned>>
  BY DEF CommitCreate, locals, Goto
<1>3. /\ transactionDepth' = 0 /\ UNCHANGED <<transactionFailed, other>>
      /\ \/ lock' = "pending" /\ UNCHANGED <<disk, work, sqlTx>>
         \/ disk' = work /\ sqlTx' = FALSE /\ UNCHANGED work
         \/ work' = disk /\ sqlTx' = FALSE /\ UNCHANGED disk
  BY <1>0, <1>1, OuterCommit DEF Guarded
<1>4. EngineStep
  BY <1>1, BackendSteps
<1>5. EngineTypeOK' /\ LockInv' /\ disk' \in Contents /\ work' \in Contents
  BY <1>0, <1>4, StepTypes DEF CoreTypes
<1>6. CoreTypes'
  BY <1>0, <1>2, <1>3, <1>5 DEF CoreTypes
<1>7. Whole(Created)
  BY DEF Whole, Created, Versions, SQLGetSchemaVersion
<1>8. WholeInv'
  BY <1>0, <1>3, <1>7 DEF WholeInv, Whole
<1> QED
  BY <1>0, <1>2, <1>3, <1>5, <1>6, <1>8
     DEF Inv, CreateInv, UpdateInv, CallInv, CurrentInv, KeepInv, OpenedIsCurrent,
         FailedOpenHoldsNothing

\* The version is read again before the upgrade; text that is no number
\* throws.
LEMMA RereadVersionInv == ASSUME Inv, RereadVersion PROVE Inv'
<1>0. /\ pc = "reread" /\ create /\ CoreTypes /\ Whole(disk) /\ Whole(work)
      /\ ~transactionFailed /\ transactionDepth = 0
      /\ sqlTx => work = Created /\ lock = "pending"
      /\ ~sqlTx => lock = "none" /\ work = disk
  BY DEF Inv, CallInv, CreateInv, LockInv, Writing, WholeInv, RereadVersion
<1>1. PICK result : GetDBVersion(result) /\
        \/ /\ result = "OK" /\ version' = work.version /\ pc' = "update"
           /\ UNCHANGED <<isOpen, returned>>
        \/ /\ result \in Errors \cup {"exception"} /\ pc' = "idle" /\ returned' = result
           /\ UNCHANGED <<isOpen, version>>
  BY DEF RereadVersion, Goto, Return, ThrowVersion
<1>2. UNCHANGED <<create, statement, valid>>
  BY DEF RereadVersion
<1>3. /\ UNCHANGED <<transactionDepth, transactionFailed, disk, work, sqlTx, other, faults>>
      /\ ~sqlTx => UNCHANGED lock
      /\ lock # "none" => UNCHANGED lock
      /\ EngineTypeOK' /\ LockInv'
      /\ result = "OK" => work.version \in Versions
      /\ result # "OK" /\ lock # "none" => work.version \notin Versions
  BY <1>1, VersionRead
<1>4. Created.version = 0 /\ 0 \in Versions
  BY DEF Created, Versions, SQLGetSchemaVersion
<1>5. UNCHANGED lock /\ (result # "OK" => ~sqlTx)
  BY <1>0, <1>3, <1>4
<1>6. CoreTypes'
  BY <1>0, <1>1, <1>2, <1>3 DEF CoreTypes, ResultCode, Errors
<1>7. CASE result = "OK"
  <2>1. pc' = "update" /\ version' = work.version /\ version' \in Versions
    BY <1>1, <1>3, <1>7 DEF Errors
  <2>2. version' < SQLGetSchemaVersion => work.version \in {0, 1}
    BY <2>1 DEF Versions, SQLGetSchemaVersion, Newer
  <2>3. version' >= SQLGetSchemaVersion => ~sqlTx
    BY <1>0, <1>4, <2>1 DEF SQLGetSchemaVersion
  <2> QED
    BY <1>0, <1>2, <1>3, <1>5, <1>6, <2>1, <2>2, <2>3
       DEF Inv, CreateInv, UpdateInv, CallInv, WholeInv, Whole, CurrentInv, KeepInv,
           OpenedIsCurrent, FailedOpenHoldsNothing
<1>8. CASE result # "OK"
  <2>1. pc' = "idle" /\ returned' # "OK"
    BY <1>1, <1>8
  <2> QED
    BY <1>0, <1>2, <1>3, <1>5, <1>6, <1>8, <2>1
       DEF Inv, CreateInv, UpdateInv, CallInv, WholeInv, Whole, CurrentInv, KeepInv,
           OpenedIsCurrent, FailedOpenHoldsNothing
<1> QED
  BY <1>7, <1>8

\* The next step of the upgrade opens its guard, or there is none left
\* (booru.cc:76).
LEMMA NextUpdateInv == ASSUME Inv, NextUpdate PROVE Inv'
<1>0. pc = "update" /\ CoreTypes /\ LockInv /\ WholeInv /\ ~transactionFailed
  BY DEF Inv, CallInv, NextUpdate
<1>1. CASE version < SQLGetSchemaVersion
  <2>0. /\ version = 0 /\ work.version \in {0, 1} /\ transactionDepth = 0
        /\ (~create => ~sqlTx) /\ (sqlTx => lock = "pending")
        /\ Whole(disk) /\ Whole(work)
    <3>1. version = 0
      BY <1>0, <1>1 DEF CoreTypes, Versions, SQLGetSchemaVersion, Newer
    <3>2. UpdateInv /\ CallInv /\ WholeInv
      BY DEF Inv
    <3>3. work.version \in {0, 1} /\ (~create => ~sqlTx)
      BY <1>0, <1>1, <3>2, Zenon DEF UpdateInv
    <3>4. transactionDepth = 0 /\ (sqlTx => lock = "pending")
      BY <1>0, <1>1, <3>2 DEF CallInv
    <3>5. Whole(disk) /\ Whole(work)
      BY <1>0, <3>2 DEF WholeInv
    <3> QED
      BY <3>1, <3>3, <3>4, <3>5
  <2>1. PICK result \in ResultCode : BeginTransaction(result) /\ valid' = ~ResultIsError(result)
    BY <1>1, <2>0 DEF NextUpdate, OpenGuard, SQLGetSchemaVersion
  <2>2. /\ transactionDepth' = 1 /\ transactionFailed' = FALSE
        /\ UNCHANGED <<disk, work, lock, other, faults>> /\ sqlTx' /\ (valid' <=> ~sqlTx)
    <3>1. /\ transactionDepth' = 1 /\ transactionFailed' = FALSE
          /\ UNCHANGED <<disk, work, lock, other, faults>>
          /\ sqlTx' /\ (ResultIsError(result) <=> sqlTx)
      BY <2>0, <2>1, OuterBegin
    <3>2. valid' <=> ~ResultIsError(result)
      BY <2>1
    <3> QED
      BY <3>1, <3>2, Zenon
  <2>3. pc' = "upgrade" /\ UNCHANGED <<create, version, statement, isOpen, returned>>
    BY <1>1, <2>0 DEF NextUpdate, OpenGuard, Goto, SQLGetSchemaVersion
  <2>4. EngineTypeOK'
    <3>1. EngineStep
      BY <2>1, BackendSteps
    <3> QED
      BY <3>1, <1>0, StepTypes DEF CoreTypes
  <2>b. {transactionFailed', create', isOpen', valid'} \subseteq BOOLEAN
    BY <1>0, <2>1, <2>2, <2>3, Zenon DEF CoreTypes
  <2>5. CoreTypes'
    BY <1>0, <2>2, <2>3, <2>4, <2>b DEF CoreTypes
  <2>6. LockInv'
    BY <1>0, <2>2 DEF LockInv, Writing
  <2> QED
    BY <1>0, <2>0, <2>2, <2>3, <2>5, <2>6
       DEF Inv, CreateInv, UpdateInv, CallInv, LockInv, WholeInv, Whole, CurrentInv, KeepInv,
           OpenedIsCurrent, FailedOpenHoldsNothing
<1>2. CASE ~(version < SQLGetSchemaVersion)
  <2>1. /\ pc' = "idle" /\ returned' = "OK" /\ UNCHANGED <<backend, locals, isOpen>>
        /\ UNCHANGED remade
    BY <1>2 DEF NextUpdate, Return, others
  <2>2. version >= SQLGetSchemaVersion
    BY <1>0, <1>2 DEF CoreTypes, Versions, SQLGetSchemaVersion, Newer
  <2>3. /\ UNCHANGED <<disk, work, sqlTx, lock, other, faults, transactionDepth, transactionFailed>>
        /\ UNCHANGED <<create, version, statement, valid>>
    BY <2>1 DEF backend, engine, locals
  <2>4. CoreTypes' /\ LockInv'
    BY <1>0, <2>1, <2>3 DEF CoreTypes, EngineTypeOK, LockInv, Writing, ResultCode, Successes
  <2>5. "OK" \notin Errors
    BY DEF Errors
  <2> QED
    BY <1>0, <2>1, <2>2, <2>3, <2>4, <2>5
       DEF Inv, CreateInv, UpdateInv, CallInv, WholeInv, Whole, CurrentInv, KeepInv,
           OpenedIsCurrent, FailedOpenHoldsNothing, ResultIsError
<1> QED
  BY <1>1, <1>2

\* One statement of an upgrade, or the new version, inside its guard.
LEMMA UpdateTablesInv == ASSUME Inv, UpdateTables PROVE Inv'
<1>0. /\ pc = "upgrade" /\ CoreTypes /\ LockInv /\ Whole(disk) /\ Whole(work)
      /\ ~transactionFailed /\ transactionDepth = 1
      /\ sqlTx /\ version = 0 /\ work.version \in {0, 1}
      /\ (~valid => lock = "pending") /\ (valid => lock = "none" /\ work = disk)
      /\ (~create => valid)
  BY DEF Inv, CallInv, UpdateInv, WholeInv, LockInv, Writing, UpdateTables
<1>1. PICK result : ExecuteUpdate(result) /\
        \/ ResultIsError(result) /\ pc' = "unwind" /\ returned' = result
        \/ ~ResultIsError(result) /\ pc' = "finish" /\ UNCHANGED returned
  BY DEF UpdateTables, Fail, Goto
<1>2. UNCHANGED <<create, version, statement, valid, isOpen>>
  BY DEF UpdateTables, locals
<1>3. /\ result \in ResultCode
      /\ UNCHANGED <<transactionDepth, transactionFailed, disk, other>>
      /\ EngineTypeOK' /\ work' \in Contents /\ LockInv'
      /\ ResultIsError(result) => valid \/ ~sqlTx'
      /\ ~ResultIsError(result) =>
            /\ sqlTx' /\ Writing' /\ (lock = "pending" => lock' = "pending")
            /\ work' = [work EXCEPT !.version = 1]
  BY <1>0, <1>1, UpdateStatement
<1>4. CoreTypes'
  BY <1>0, <1>1, <1>2, <1>3 DEF CoreTypes
<1>5. CASE ResultIsError(result)
  BY <1>0, <1>1, <1>2, <1>3, <1>4, <1>5
     DEF Inv, CreateInv, UpdateInv, CallInv, WholeInv, Whole, CurrentInv, KeepInv,
         OpenedIsCurrent, FailedOpenHoldsNothing
<1>6. CASE ~ResultIsError(result)
  <2>1. work' = [work EXCEPT !.version = 1] /\ work \in Contents
    BY <1>0, <1>3, <1>6 DEF CoreTypes
  <2>2. work'.version = 1 /\ work'.rows = work.rows /\ work'.tables = work.tables
    BY <2>1 DEF Contents
  <2>3. Whole(work')
    BY <1>0, <2>2 DEF Whole, Empty, Versions, SQLGetSchemaVersion, NoConfig
  <2>4. work.version \in {0, 1} => Empty # work
    BY DEF Empty, NoConfig
  <2>5. KeepInv'
    BY <1>0, <1>1, <1>2, <1>3, <1>6, <2>2 DEF KeepInv
  <2> QED
    BY <1>0, <1>1, <1>2, <1>3, <1>4, <1>6, <2>2, <2>3, <2>5
       DEF Inv, CreateInv, UpdateInv, CallInv, WholeInv, Whole, CurrentInv,
           OpenedIsCurrent, FailedOpenHoldsNothing
<1> QED
  BY <1>5, <1>6

\* Unless its COMMIT is refused, or meets a full disk, the update is on disk
\* when the loop goes on.
LEMMA CommitUpdateInv == ASSUME Inv, CommitUpdate PROVE Inv'
<1>0. /\ pc = "finish" /\ CoreTypes /\ LockInv /\ Whole(disk) /\ Whole(work)
      /\ ~transactionFailed /\ transactionDepth = 1
      /\ sqlTx /\ version = 0 /\ work.version = 1 /\ (~valid => lock = "pending")
  BY DEF Inv, CallInv, UpdateInv, WholeInv, CommitUpdate
<1>1. /\ pc' = "update" /\ version' = 1
      /\ UNCHANGED <<create, statement, valid, isOpen, returned>>
  BY <1>0 DEF CommitUpdate, Goto
<1>2. /\ UNCHANGED <<transactionFailed, other>>
      /\ \/ lock' = "pending" /\ sqlTx' /\ UNCHANGED <<disk, work, sqlTx, faults>>
         \/ disk' = work /\ sqlTx' = FALSE /\ UNCHANGED <<work, faults>>
         \/ work' = disk /\ sqlTx' = FALSE /\ faults' = faults + 1 /\ UNCHANGED disk
      /\ EngineStep /\ transactionDepth' \in {0, 1}
  <2>1. CASE valid
    <3>1. PICK result \in ResultCode : CommitTransaction(result)
      BY <2>1 DEF CommitUpdate, GuardCommit
    <3>2. EngineStep
      BY <3>1, BackendSteps
    <3> QED
      BY <1>0, <3>1, <3>2, OuterCommit
  <2>2. CASE ~valid
    <3>1. UNCHANGED backend
      BY <2>2 DEF CommitUpdate, GuardCommit
    <3>2. EngineStep
      BY <3>1, BackendSteps
    <3> QED
      BY <1>0, <2>2, <3>1, <3>2 DEF backend, engine
  <2> QED
    BY <2>1, <2>2
<1>3. /\ EngineTypeOK' /\ LockInv' /\ disk' \in Contents /\ work' \in Contents
      /\ faults \in Nat
  BY <1>0, <1>2, StepTypes DEF CoreTypes
<1>4. CoreTypes'
  BY <1>0, <1>1, <1>2, <1>3 DEF CoreTypes, Versions, SQLGetSchemaVersion
<1>5. WholeInv'
  BY <1>0, <1>2 DEF WholeInv, Whole
<1>6. CurrentInv'
  <2>1. lock' = "pending" \/ disk'.version = 1 \/ faults' # 0
    <3>1. faults + 1 # 0
      BY <1>3
    <3> QED
      BY <1>0, <1>2, <3>1, Zenon
  <2> QED
    BY <1>1, <2>1 DEF CurrentInv, OpenedIsCurrent, SQLGetSchemaVersion
<1>7. ~(version' < SQLGetSchemaVersion)
  BY <1>1 DEF SQLGetSchemaVersion
<1>8. ~transactionFailed' /\ (sqlTx' => lock' = "pending")
  BY <1>0, <1>2
<1> QED
  BY <1>1, <1>3, <1>4, <1>5, <1>6, <1>7, <1>8
     DEF Inv, CreateInv, UpdateInv, CallInv, KeepInv, FailedOpenHoldsNothing

\* The destructor of a valid guard ends the transaction; there is none where
\* the guard is not valid.
LEMMA UnwindInv == ASSUME Inv, Unwind PROVE Inv'
<1>0. /\ pc = "unwind" /\ CoreTypes /\ LockInv /\ Whole(disk)
      /\ ~transactionFailed /\ transactionDepth = 1
      /\ ResultIsError(returned) /\ (~valid => ~sqlTx)
  BY DEF Inv, CallInv, WholeInv, Unwind
<1>1. /\ pc' = "idle" /\ returned' = returned
      /\ UNCHANGED <<create, version, statement, valid, isOpen>>
  BY DEF Unwind, Return, locals
<1>2. /\ UNCHANGED <<transactionFailed, disk, other, faults>>
      /\ ~sqlTx' /\ lock' = "none" /\ work' = disk
      /\ EngineStep /\ transactionDepth' \in {0, 1}
  <2>1. CASE valid
    <3>1. PICK result \in ResultCode : RollbackTransaction(result)
      BY <2>1 DEF Unwind, GuardRollback
    <3>2. EngineStep
      BY <3>1, BackendSteps
    <3> QED
      BY <1>0, <3>1, <3>2, OuterRollback DEF LockInv, Writing, engine
  <2>2. CASE ~valid
    <3>1. UNCHANGED backend
      BY <2>2 DEF Unwind, GuardRollback
    <3>2. EngineStep
      BY <3>1, BackendSteps
    <3> QED
      BY <1>0, <2>2, <3>1, <3>2 DEF backend, engine, LockInv, Writing
  <2> QED
    BY <2>1, <2>2
<1>3. EngineTypeOK' /\ LockInv' /\ disk' \in Contents /\ work' \in Contents
  BY <1>0, <1>2, StepTypes DEF CoreTypes
<1>4. CoreTypes'
  BY <1>0, <1>1, <1>2, <1>3 DEF CoreTypes
<1>5. "OK" \notin Errors
  BY DEF Errors
<1> QED
  BY <1>0, <1>1, <1>2, <1>3, <1>4, <1>5
     DEF Inv, CreateInv, UpdateInv, CallInv, WholeInv, Whole, CurrentInv, KeepInv,
         OpenedIsCurrent, FailedOpenHoldsNothing, ResultIsError

----------------------------------------------------------------------------
\* So do the application, a crash and the other process.

\* The handle is closed by CloseDatabase, and by the death of the process.
LEMMA CloseInv == ASSUME Inv, CloseDatabase \/ Crash PROVE Inv'
<1>1. DestroyBackend
  BY DEF CloseDatabase, Crash
<1>2. /\ EngineTypeOK' /\ LockInv' /\ disk' \in Contents /\ work' \in Contents
      /\ disk' = disk /\ work' = disk /\ sqlTx' = FALSE /\ lock' = "none"
      /\ transactionDepth' = 0 /\ transactionFailed' = FALSE /\ Whole(disk)
  BY <1>1, HandleClosed
<1>3. /\ pc' = "idle" /\ isOpen' = FALSE /\ returned' = "none"
      /\ UNCHANGED <<create, version, statement, valid>>
  BY DEF CloseDatabase, Crash, locals
<1>b. {transactionFailed', create', isOpen', valid'} \subseteq BOOLEAN
  BY <1>2, <1>3, Zenon DEF CoreTypes, Inv
<1>4. CoreTypes'
  BY <1>2, <1>3, <1>b DEF CoreTypes, Inv
<1> QED
  BY <1>2, <1>3, <1>4
     DEF Inv, CreateInv, UpdateInv, CallInv, WholeInv, Whole, CurrentInv, KeepInv,
         OpenedIsCurrent, FailedOpenHoldsNothing

\* A write of the application between two calls; db is whole, and not older
\* where the last OpenDatabase returned OK.
LEMMA ApplicationWrites ==
    ASSUME Inv, NEW db \in Contents, Whole(db), NEW rc, Write(db, rc),
           pc = "idle", pc' = pc, UNCHANGED <<locals, isOpen>>,
           UNCHANGED <<transactionDepth, transactionFailed, others>>,
           \/ returned' = "none"
           \/ returned' = returned /\ db.version = work.version
    PROVE  Inv'
<1>0. /\ CoreTypes /\ LockInv /\ Whole(disk) /\ Whole(work) /\ ~transactionFailed
      /\ (sqlTx => lock = "pending") /\ OpenedIsCurrent /\ FailedOpenHoldsNothing
  BY DEF Inv, WholeInv, CallInv, CurrentInv
<1>1. UNCHANGED <<create, version, statement, valid, isOpen>>
  BY DEF locals
<1>2. EngineTypeOK' /\ LockInv' /\ disk' \in Contents /\ work' \in Contents
  BY StepTypes DEF EngineStepTo
<1>3. CoreTypes'
  BY <1>0, <1>1, <1>2 DEF CoreTypes
<1>4. /\ UNCHANGED <<sqlTx, faults>> /\ (sqlTx => lock' = "pending") /\ (~sqlTx => lock' = lock)
      /\ disk' \in {disk, db} /\ work' \in {work, db}
      /\ disk' = disk \/ (~sqlTx /\ disk' = db)
  BY <1>0 DEF Write, engine, Writing
<1>5. OpenedIsCurrent'
  <2> SUFFICES ASSUME returned' = "OK", lock' # "pending", faults' = 0, ~remade
               PROVE  disk'.version >= SQLGetSchemaVersion
    BY DEF OpenedIsCurrent, others
  <2>1. ~sqlTx /\ lock = "none" /\ work = disk /\ faults = 0 /\ returned = "OK"
    BY <1>0, <1>4 DEF LockInv, Writing
  <2>2. db.version = disk.version /\ disk.version >= SQLGetSchemaVersion
    BY <1>0, <2>1 DEF OpenedIsCurrent
  <2> QED
    BY <1>4, <2>2
<1>6. FailedOpenHoldsNothing'
  <2>1. ~ResultIsError("none")
    BY DEF ResultIsError, Errors
  <2> QED
    BY <1>0, <1>4, <2>1 DEF FailedOpenHoldsNothing, LockInv
<1> QED
  BY <1>0, <1>1, <1>2, <1>3, <1>4, <1>5, <1>6
     DEF Inv, CreateInv, UpdateInv, CallInv, WholeInv, Whole, CurrentInv, KeepInv

\* The application stores a row in a database that OpenDatabase said is
\* open.
LEMMA StoreRowInv == ASSUME Inv, NEW r \in Rows, StoreRow(r) PROVE Inv'
<1> DEFINE db == [work EXCEPT !.rows = @ \cup {r}]
<1>0. work \in Contents /\ Whole(work) /\ work.tables /\ pc = "idle"
  BY DEF Inv, CoreTypes, WholeInv, StoreRow
<1>1. db \in Contents
  BY <1>0 DEF Contents
<1>2. db.version = work.version /\ db.tables = work.tables
  BY <1>0 DEF Contents
<1>3. work # Empty
  BY <1>0 DEF Empty
<1>4. Whole(db)
  BY <1>0, <1>2, <1>3 DEF Whole
<1>5. PICK rc \in SqliteCodes : Write(db, rc)
  BY DEF StoreRow
<1> HIDE DEF db
<1> QED
  BY <1>0, <1>1, <1>2, <1>4, <1>5, ApplicationWrites DEF StoreRow

\* The application stores a version of its own with SetConfig.
LEMMA SetVersionInv == ASSUME Inv, NEW v \in Versions \cup {NotANumber}, SetVersion(v) PROVE Inv'
<1> DEFINE db == [work EXCEPT !.version = v]
<1>0. work \in Contents /\ Whole(work) /\ work.version # NoConfig /\ pc = "idle"
  BY DEF Inv, CoreTypes, WholeInv, SetVersion
<1>1. db \in Contents
  BY <1>0 DEF Contents
<1>2. db.version = v /\ db.tables = work.tables
  BY <1>0 DEF Contents
<1>3. work # Empty
  BY <1>0 DEF Empty
<1>4. Whole(db)
  BY <1>0, <1>2, <1>3 DEF Whole
<1>5. PICK rc \in SqliteCodes : Write(db, rc)
  BY DEF SetVersion
<1> HIDE DEF db
<1> QED
  BY <1>0, <1>1, <1>4, <1>5, ApplicationWrites DEF SetVersion

\* Where the other process commits something it creates, upgrades or fills the
\* tables; those that were current stay so unless it made them again.
LEMMA OtherMakes ==
    ASSUME Inv, OtherProcess
    PROVE  \/ /\ UNCHANGED <<disk, work, sqlTx, lock, faults, remade>>
              /\ OtherAcquires \/ OtherReleases \/ UNCHANGED engine
           \/ \E db \in Contents :
                 /\ OtherCommits(db) /\ Whole(db)
                 /\ disk.version \in {0, 1} => db.version \in {0, 1}
                 /\ \/ remade'
                    \/ /\ UNCHANGED remade
                       /\ disk.version >= SQLGetSchemaVersion =>
                             db.version >= SQLGetSchemaVersion
<1>0. disk \in Contents /\ Whole(disk)
  BY DEF Inv, CoreTypes, WholeInv
<1>1. CASE OtherCreates
  <2>1. Created \in Contents /\ Whole(Created) /\ Created.version = 0
    BY DEF Created, Contents, Whole, Versions, SQLGetSchemaVersion
  <2>2. OtherCommits(Created) /\ remade'
    BY <1>1 DEF OtherCreates
  <2> QED
    BY <2>1, <2>2
<1>2. CASE OtherUpdates
  <2> DEFINE db == SQLGetUpdateSchema(disk)
  <2>1. OtherCommits(db) /\ UNCHANGED remade
    BY <1>2 DEF OtherUpdates
  <2>2. CASE disk.version \in {NoConfig, NoVersion}
    <3>1. db = disk
      BY <2>2 DEF SQLGetUpdateSchema
    <3> QED
      BY <1>0, <2>1, <3>1
  <2>3. CASE disk.version \notin {NoConfig, NoVersion}
    <3>1. 1 \in Versions
      BY DEF Versions, SQLGetSchemaVersion
    <3>2. db = [disk EXCEPT !.version = 1]
      BY <2>3 DEF SQLGetUpdateSchema
    <3>3. db \in Contents /\ db.version = 1 /\ db.tables = disk.tables
      BY <1>0, <3>1, <3>2 DEF Contents
    <3>4. disk # Empty
      BY <2>3 DEF Empty
    <3>5. Whole(db)
      BY <1>0, <3>1, <3>3, <3>4 DEF Whole
    <3> HIDE DEF db
    <3> QED
      BY <2>1, <3>3, <3>5 DEF SQLGetSchemaVersion
  <2> QED
    BY <2>2, <2>3
<1>3. CASE OtherStores
  <2> PICK r \in Rows : OtherCommits([disk EXCEPT !.rows = @ \cup {r}])
    BY <1>3 DEF OtherStores
  <2> DEFINE db == [disk EXCEPT !.rows = @ \cup {r}]
  <2>1. db \in Contents /\ db.version = disk.version /\ db.tables = disk.tables
    BY <1>0 DEF Contents
  <2>2. disk.version = 1 /\ UNCHANGED remade
    BY <1>3 DEF OtherStores, SQLGetSchemaVersion, others
  <2>3. disk # Empty
    BY <2>2 DEF Empty, NoConfig
  <2>4. Whole(db)
    BY <1>0, <2>1, <2>2, <2>3 DEF Whole
  <2>5. OtherCommits(db)
    OBVIOUS
  <2> HIDE DEF db
  <2> QED
    BY <2>1, <2>2, <2>4, <2>5
<1>4. CASE (OtherAcquires \/ OtherReleases) /\ UNCHANGED others
  BY <1>4 DEF OtherAcquires, OtherReleases, others
<1>5. CASE OtherReadsVersion \/ OtherGivesUp
  BY <1>5 DEF OtherReadsVersion, OtherGivesUp, engine
<1> QED
  BY <1>1, <1>2, <1>3, <1>4, <1>5 DEF OtherProcess

\* Another process locks, unlocks, decides, creates, upgrades or stores.
LEMMA OtherProcessInv == ASSUME Inv, OtherProcess PROVE Inv'
<1>0. /\ CoreTypes /\ LockInv /\ CreateInv /\ UpdateInv /\ CallInv /\ WholeInv /\ KeepInv
      /\ CurrentInv /\ FailedOpenHoldsNothing
  BY DEF Inv
<1>1. /\ UNCHANGED <<transactionDepth, transactionFailed, pc, isOpen, returned>>
      /\ UNCHANGED <<create, version, statement, valid>>
  BY DEF OtherProcess, locals
<1>2. ASSUME UNCHANGED <<disk, work, sqlTx, lock, faults, remade>>,
             OtherAcquires \/ OtherReleases \/ UNCHANGED engine
      PROVE  Inv'
  <2>1. EngineStep
    BY <1>2 DEF EngineStep
  <2>2. EngineTypeOK' /\ LockInv'
    BY <1>0, <2>1, StepTypes DEF CoreTypes
  <2>3. CoreTypes'
    BY <1>0, <1>1, <1>2, <2>2 DEF CoreTypes
  <2> QED
    BY <1>0, <1>1, <1>2, <2>2, <2>3
       DEF Inv, CreateInv, Guarded, Stage, Writing, UpdateInv, CallInv, WholeInv, Whole,
           CurrentInv, KeepInv, OpenedIsCurrent, FailedOpenHoldsNothing
<1>3. ASSUME NEW db \in Contents, OtherCommits(db), Whole(db),
             disk.version \in {0, 1} => db.version \in {0, 1},
             \/ remade'
             \/ /\ UNCHANGED remade
                /\ disk.version >= SQLGetSchemaVersion => db.version >= SQLGetSchemaVersion
      PROVE  Inv'
  <2>1. /\ UNCHANGED <<sqlTx, lock, faults>> /\ disk' = db /\ work' = db
        /\ lock = "none" /\ work = disk /\ ~Writing
    BY <1>0, <1>3 DEF OtherCommits, LockInv, Writing
  <2>2. EngineTypeOK' /\ LockInv'
    BY <1>3, StepTypes DEF EngineStepTo
  <2>3. CoreTypes'
    BY <1>0, <1>1, <1>3, <2>1, <2>2 DEF CoreTypes
  <2>4. CreateInv'
    <3>1. pc = "create" => statement = 1
      BY <1>0, <2>1 DEF CreateInv, Stage
    <3>2. pc = "reread" => ~sqlTx
      BY <1>0, <2>1 DEF CallInv
    <3> QED
      BY <1>0, <1>1, <1>3, <2>1, <3>1, <3>2 DEF CreateInv, Guarded, Stage, Whole
  <2>5. UpdateInv'
    <3>1. work.version \in {0, 1} => work'.version \in {0, 1}
      BY <1>3, <2>1
    <3>2. pc # "finish"
      BY <1>0, <2>1 DEF UpdateInv
    <3>3. pc = "update" /\ version < SQLGetSchemaVersion =>
             work'.version \in {0, 1} /\ (~create => ~sqlTx)
      BY <1>0, <3>1, Zenon DEF UpdateInv
    <3>4. pc = "upgrade" => /\ sqlTx /\ version = 0 /\ (~valid => lock = "pending")
                            /\ work'.version \in {0, 1} /\ (valid => lock = "none")
                            /\ (~create => valid)
      BY <1>0, <3>1 DEF UpdateInv
    <3> QED
      BY <1>1, <2>1, <3>2, <3>3, <3>4 DEF UpdateInv
  <2>6. WholeInv'
    BY <1>3, <2>1 DEF WholeInv, Whole
  <2>7. CurrentInv'
    <3>1. CASE remade'
      BY <3>1 DEF CurrentInv, OpenedIsCurrent
    <3>2. CASE UNCHANGED remade /\ (disk.version >= SQLGetSchemaVersion
                                      => db.version >= SQLGetSchemaVersion)
      <4>1. disk.version >= SQLGetSchemaVersion => disk'.version >= SQLGetSchemaVersion
        BY <2>1, <3>2
      <4>2. /\ pc = "update" /\ version >= SQLGetSchemaVersion /\ lock # "pending"
               /\ faults = 0 /\ ~remade => disk.version >= SQLGetSchemaVersion
            /\ OpenedIsCurrent
        BY <1>0, Zenon DEF CurrentInv
      <4> QED
        BY <1>1, <2>1, <3>2, <4>1, <4>2, Zenon DEF CurrentInv, OpenedIsCurrent
    <3> QED
      BY <1>3, <3>1, <3>2
  <2>8. KeepInv'
    BY <1>0, <1>1, <2>1 DEF KeepInv, UpdateInv, Writing
  <2>9. CallInv' /\ FailedOpenHoldsNothing'
    BY <1>0, <1>1, <2>1 DEF CallInv, FailedOpenHoldsNothing
  <2> QED
    BY <2>2, <2>3, <2>4, <2>5, <2>6, <2>7, <2>8, <2>9 DEF Inv
<1> QED
  BY <1>2, <1>3, OtherMakes

----------------------------------------------------------------------------
\* The invariant, and what follows from it.

\* Every step of the specification keeps the invariant.
LEMMA Inductive == Inv /\ [Next]_vars => Inv'
<1> SUFFICES ASSUME Inv, [Next]_vars PROVE Inv'
  OBVIOUS
<1>1. ASSUME NEW createTables \in BOOLEAN, CallOpenDatabase(createTables) PROVE Inv'
  BY <1>1, CallOpenDatabaseInv
<1>2. CASE Step
  BY <1>2, ReadVersionInv, BeginCreateInv, CreateTablesInv, CommitCreateInv, RereadVersionInv,
     NextUpdateInv, UpdateTablesInv, CommitUpdateInv, UnwindInv DEF Step
<1>3. CASE CloseDatabase \/ Crash
  BY <1>3, CloseInv
<1>4. ASSUME NEW r \in Rows, StoreRow(r) PROVE Inv'
  BY <1>4, StoreRowInv
<1>5. ASSUME NEW v \in Versions \cup {NotANumber}, SetVersion(v) PROVE Inv'
  BY <1>5, SetVersionInv
<1>6. CASE OtherProcess
  BY <1>6, OtherProcessInv
<1>7. CASE UNCHANGED vars
  BY <1>7 DEF vars, backend, engine, locals, others, Inv, CoreTypes, EngineTypeOK, LockInv, CreateInv,
              Guarded, Stage, Writing, UpdateInv, CallInv, WholeInv, Whole, CurrentInv, KeepInv,
              OpenedIsCurrent, FailedOpenHoldsNothing
<1> QED
  BY <1>1, <1>2, <1>3, <1>4, <1>5, <1>6, <1>7 DEF Next

\* Init establishes the invariant and every step keeps it.
THEOREM Invariance == Spec => []Inv
<1> QED
  BY InitInv, Inductive, PTL DEF Spec

\* Every variable keeps its type; transactionDepth is 0 or 1 because the guards
\* of OpenDatabase are never nested.
THEOREM TypeCorrect == Spec => []TypeOK
<1>1. Init => OthersTypes
  BY DEF Init, OthersTypes
<1>2. OthersTypes /\ [Next]_vars => OthersTypes'
  <2> SUFFICES ASSUME OthersTypes, [Next]_vars PROVE OthersTypes'
    OBVIOUS
  <2> USE DEF OthersTypes, others, VersionKnown
  <2>1. CASE Step
    <3>1. CASE ReadVersion \/ RereadVersion \/ CommitUpdate
      BY <3>1 DEF ReadVersion, RereadVersion, CommitUpdate
    <3>2. CASE BeginCreate \/ CreateTables \/ CommitCreate
      BY <3>2 DEF BeginCreate, OpenGuard, CreateTables, CommitCreate
    <3>3. CASE NextUpdate \/ UpdateTables \/ Unwind
      BY <3>3 DEF NextUpdate, OpenGuard, UpdateTables, Unwind
    <3> QED
      BY <2>1, <3>1, <3>2, <3>3 DEF Step
  <2>2. CASE OtherProcess
    BY <2>2 DEF OtherProcess, OtherReadsVersion, OtherCreates, OtherUpdates, OtherGivesUp,
                OtherStores
  <2>3. CASE \/ \E createTables \in BOOLEAN : CallOpenDatabase(createTables)
             \/ CloseDatabase \/ Crash
             \/ \E r \in Rows : StoreRow(r)
             \/ \E v \in Versions \cup {NotANumber} : SetVersion(v)
    BY <2>3 DEF CallOpenDatabase, CloseDatabase, Crash, StoreRow, SetVersion
  <2>4. CASE UNCHANGED vars
    BY <2>4 DEF vars
  <2> QED
    BY <2>1, <2>2, <2>3, <2>4 DEF Next
<1>3. Inv /\ OthersTypes => TypeOK
  BY DEF Inv, CoreTypes, OthersTypes, TypeOK
<1> QED
  BY <1>1, <1>2, <1>3, Invariance, PTL DEF Spec

\* Whatever dies, fails or comes between the statements, the disk holds no part
\* of a schema (booru.cc:567-570).
THEOREM SchemaWholeAlways == Spec => []SchemaWhole
<1>1. Inv => SchemaWhole
  BY DEF Inv, WholeInv, Whole, SchemaWhole
<1> QED
  BY <1>1, Invariance, PTL

\* After an OpenDatabase that returned OK the schema is current, unless a COMMIT
\* whose error is dropped was refused or found the disk full (booru.cc:76-81), or
\* another process that had read no version made the tables again.
THEOREM OpenedIsCurrentAlways == Spec => []OpenedIsCurrent
<1>1. Inv => OpenedIsCurrent
  BY DEF Inv, CurrentInv
<1> QED
  BY <1>1, Invariance, PTL

\* An OpenDatabase that failed left no lock and no transaction behind
\* (booru.cc:67-71,78,126).
THEOREM FailedOpenHoldsNothingAlways == Spec => []FailedOpenHoldsNothing
<1>1. Inv => FailedOpenHoldsNothing
  BY DEF Inv
<1> QED
  BY <1>1, Invariance, PTL

\* Without _Create an OpenDatabase in progress upgrades the version on disk and
\* does nothing else to it (booru.cc:61-65).
THEOREM KeptWithoutCreateAlways == Spec => KeptWithoutCreate
<1> DEFINE Kept == /\ disk.rows \subseteq disk'.rows
                   /\ disk.version <= disk'.version
                   /\ disk = Empty => disk' = Empty
<1>1. ASSUME Inv, [Next]_vars, pc # "idle", ~create, other' = other PROVE Kept
  <2>0. disk \in Contents /\ disk.version \in Int
    BY <1>1 DEF Inv, CoreTypes, Contents, NoConfig, NoVersion, NotANumber, Versions, Newer,
                SQLGetSchemaVersion
  <2>1. ASSUME disk' = disk PROVE Kept
    BY <2>0, <2>1
  <2>2. CASE Crash
    BY <2>1, <2>2 DEF Crash, DestroyBackend, CloseHandle
  <2>3. CASE ReadVersion
    <3>1. PICK result : GetDBVersion(result)
      BY <2>3 DEF ReadVersion, ThrowVersion
    <3> QED
      BY <1>1, <2>1, <3>1, VersionRead
  <2>4. ~BeginCreate /\ ~CreateTables /\ ~CommitCreate /\ ~RereadVersion
    BY <1>1 DEF Inv, CreateInv, BeginCreate, CreateTables, CommitCreate, RereadVersion
  <2>5. CASE NextUpdate
    <3>1. CASE \E result \in ResultCode : BeginTransaction(result)
      BY <3>1, <2>1 DEF BeginTransaction, ExecuteBegin, ExecBegin, engine
    <3>2. CASE UNCHANGED backend
      BY <3>2, <2>1 DEF backend, engine
    <3> QED
      BY <2>5, <3>1, <3>2 DEF NextUpdate, OpenGuard
  <2>6. CASE UpdateTables
    <3>1. pc = "upgrade" /\ \E result : ExecuteUpdate(result)
      BY <2>6 DEF UpdateTables
    <3> QED
      BY <1>1, <2>1, <3>1, UpdateStatement
  <2>7. CASE CommitUpdate
    <3>1. /\ valid /\ disk.version \in {0, 1} /\ work.rows = disk.rows /\ work.version = 1
          /\ ~transactionFailed /\ transactionDepth = 1
      BY <1>1, <2>7 DEF Inv, KeepInv, UpdateInv, CallInv, CommitUpdate
    <3>2. PICK result \in ResultCode : CommitTransaction(result)
      BY <2>7, <3>1 DEF CommitUpdate, GuardCommit
    <3>3. disk' \in {disk, work}
      BY <3>1, <3>2, OuterCommit DEF engine
    <3>4. disk # Empty
      BY <3>1 DEF Empty, NoConfig
    <3> QED
      BY <2>1, <3>1, <3>3, <3>4
  <2>8. CASE Unwind
    <3>1. CASE \E result \in ResultCode : RollbackTransaction(result)
      BY <3>1, <2>1 DEF RollbackTransaction, ExecuteRollback, ExecRollback, engine
    <3>2. CASE UNCHANGED backend
      BY <3>2, <2>1 DEF backend, engine
    <3> QED
      BY <2>8, <3>1, <3>2 DEF Unwind, GuardRollback
  <2>9. CASE OtherProcess
    <3>1. \A db : ~OtherCommits(db)
      BY <1>1 DEF OtherCommits
    <3> QED
      BY <1>1, <2>1, <2>9, <3>1, OtherMakes
  <2>10. CASE UNCHANGED vars
    BY <2>1, <2>10 DEF vars, backend, engine
  <2>11. /\ ~\E createTables \in BOOLEAN : CallOpenDatabase(createTables)
         /\ ~CloseDatabase /\ ~(\E r \in Rows : StoreRow(r))
         /\ ~\E v \in Versions \cup {NotANumber} : SetVersion(v)
    BY <1>1 DEF CallOpenDatabase, CloseDatabase, StoreRow, SetVersion
  <2> QED
    BY <1>1, <2>2, <2>3, <2>4, <2>5, <2>6, <2>7, <2>8, <2>9, <2>10, <2>11 DEF Next, Step
<1>2. Inv /\ [Next]_vars => [pc # "idle" /\ ~create /\ other' = other => Kept]_vars
  BY <1>1
<1> QED
  BY <1>2, Invariance, PTL DEF Spec, KeptWithoutCreate
==============================================================================
