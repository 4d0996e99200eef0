----------------------- MODULE TransactionGuardProofs -----------------------
(***************************************************************************)
(* Proofs about TransactionGuard, for any number of guards, any writes and *)
(* any locks of the other process.                                         *)
(***************************************************************************)
EXTENDS TransactionGuard, FiniteSetTheorems, TLAPS

----------------------------------------------------------------------------
\* The Backend: what the engine's return codes become

\* The codes that statements end with, by name (result.cc:7-43); a full disk
\* has no name of its own.
LEMMA NamedResults ==
    /\ Sqlite3ToResult(SQLITE_OK) = "OK"
    /\ Sqlite3ToResult(SQLITE_ERROR) = "DatabaseError"
    /\ Sqlite3ToResult(SQLITE_FULL) = "DatabaseError"
    /\ Sqlite3ToResult(SQLITE_BUSY) = "DatabaseLocked"
    /\ Sqlite3ToResult(SQLITE_CONSTRAINT_FOREIGNKEY) = "DatabaseFKeyViolation"
    /\ Sqlite3ToResult(SQLITE_CONSTRAINT_UNIQUE) = "AlreadyExists"
<1>1. Sqlite3ToResult(0) = "OK" /\ Sqlite3ToResult(1) = "DatabaseError"
      /\ Sqlite3ToResult(5) = "DatabaseLocked"
      /\ Sqlite3ToResult(787) = "DatabaseFKeyViolation"
      /\ Sqlite3ToResult(2067) = "AlreadyExists"
  BY DEF Sqlite3ToResult, NamedCode
<1>2. Sqlite3ToResult(13) = "DatabaseError"
  BY DEF Sqlite3ToResult, NamedCode
<1> QED
  BY <1>1, <1>2 DEF SQLITE_OK, SQLITE_ERROR, SQLITE_BUSY, SQLITE_FULL,
                    SQLITE_CONSTRAINT_FOREIGNKEY, SQLITE_CONSTRAINT_UNIQUE

\* Success is "OK", and everything a statement can fail with is an error
\* (result.cc:7-43, result.hh:48-51).
LEMMA Translation ==
    /\ Sqlite3ToResult(SQLITE_OK) = "OK"
    /\ \A rc \in SqliteCodes : /\ Sqlite3ToResult(rc) \in ResultCode
                               /\ ResultIsError(Sqlite3ToResult(rc)) <=> rc # SQLITE_OK
<1>1. "OK" \in ResultCode /\ ~ResultIsError("OK")
  BY DEF ResultIsError, ResultCode, Errors, Successes
<1>2. \A r \in {"DatabaseError", "DatabaseLocked", "DatabaseFKeyViolation", "AlreadyExists"} :
         r \in ResultCode /\ ResultIsError(r)
  BY DEF ResultIsError, ResultCode, Errors
<1> QED
  BY <1>1, <1>2, NamedResults
     DEF SqliteCodes, SQLITE_OK, SQLITE_ERROR, SQLITE_BUSY, SQLITE_FULL,
         SQLITE_CONSTRAINT_FOREIGNKEY, SQLITE_CONSTRAINT_UNIQUE

----------------------------------------------------------------------------
\* Types and locks

\* A step of the engine that does not make contents of its own.
EngineStep ==
    \/ \E rc : \/ Read(rc) \/ WriteRejected(SQLITE_CONSTRAINT_UNIQUE, rc)
               \/ WriteRejected(SQLITE_CONSTRAINT_FOREIGNKEY, rc)
               \/ WriteRejected(SQLITE_ERROR, rc) \/ Fault(rc)
               \/ ExecBegin(rc) \/ ExecCommit(rc) \/ ExecRollback(rc)
    \/ CloseHandle \/ OtherAcquires \/ OtherReleases
    \/ UNCHANGED engine

\* A step that turns the contents into db.
EngineStepTo(db) == (\E rc : Write(db, rc)) \/ OtherCommits(db)

\* No step of the engine leaves its types; what is on disk or seen by this
\* connection was so before or is db.
LEMMA EngineTypes ==
    ASSUME EngineTypeOK, NEW db, EngineStep \/ EngineStepTo(db)
    PROVE  /\ EngineTypeOK'
           /\ disk' \in {disk, work, db} /\ work' \in {disk, work, db}
           /\ EngineStep => disk' \in {disk, work} /\ work' \in {disk, work}
<1> USE DEF engine, Abandon, ExecBegin, ExecCommit, ExecRollback, Read,
            WriteRejected, Fault, CloseHandle, OtherAcquires, OtherReleases,
            Write, OtherCommits, EngineStep, EngineStepTo
<1>1. sqlTx' \in BOOLEAN
  BY Zenon DEF EngineTypeOK
<1>2. lock' \in {"none", "shared", "reserved", "pending"}
  BY DEF EngineTypeOK
<1>3. other' \in {"none"} \cup OtherLocks
  BY DEF EngineTypeOK
<1>4. faults' \in 0..MaxFaults
  BY MaxFaultsAssumption DEF EngineTypeOK
<1>5. disk' \in {disk, work, db} /\ work' \in {disk, work, db}
  OBVIOUS
<1>6. EngineStep => disk' \in {disk, work} /\ work' \in {disk, work}
  OBVIOUS
<1> QED
  BY <1>1, <1>2, <1>3, <1>4, <1>5, <1>6 DEF EngineTypeOK

\* A lock is held inside a transaction only, uncommitted work exists only
\* under a writing lock, and no lock beside the other process's exclusive one.
LockInv ==
    /\ lock # "none" => sqlTx
    /\ ~Writing => work = disk
    /\ other = "exclusive" => lock = "none"

\* Every step of either process respects the locks.
LEMMA LockStep ==
    ASSUME LockInv, NEW db, EngineStep \/ EngineStepTo(db)
    PROVE  LockInv'
<1> USE DEF LockInv, Writing, WriteRefused, engine, Abandon
<1>1. CASE EngineStep
  <2>1. ASSUME NEW rc, \/ Read(rc) \/ WriteRejected(SQLITE_CONSTRAINT_UNIQUE, rc)
                       \/ WriteRejected(SQLITE_CONSTRAINT_FOREIGNKEY, rc)
                       \/ WriteRejected(SQLITE_ERROR, rc) \/ Fault(rc)
        PROVE  LockInv'
    BY <2>1 DEF Read, WriteRejected, Fault
  <2>2. ASSUME NEW rc, ExecBegin(rc) \/ ExecCommit(rc) \/ ExecRollback(rc)
        PROVE  LockInv'
    BY <2>2 DEF ExecBegin, ExecCommit, ExecRollback, Fault
  <2>3. CASE CloseHandle \/ OtherAcquires \/ OtherReleases \/ UNCHANGED engine
    BY <2>3 DEF CloseHandle, OtherAcquires, OtherReleases
  <2> QED
    BY <1>1, <2>1, <2>2, <2>3 DEF EngineStep
<1>2. CASE EngineStepTo(db)
  BY <1>2 DEF EngineStepTo, Write, OtherCommits
<1> QED
  BY <1>1, <1>2

\* The calls of the Backend are steps of its engine.
LEMMA BackendSteps ==
    ASSUME \/ \E result : \/ BeginTransaction(result) \/ CommitTransaction(result)
                          \/ RollbackTransaction(result)
           \/ RollbackAll \/ DestroyBackend \/ UNCHANGED backend
    PROVE  EngineStep
  BY DEF BeginTransaction, CommitTransaction, RollbackTransaction, RollbackAll,
         DestroyBackend, backend, ExecuteBegin, ExecuteCommit, ExecuteRollback, EngineStep

----------------------------------------------------------------------------
\* Live guards: finitely many, one more with every valid new guard, one
\* fewer whenever one of them is committed, rolled back or destroyed.

\* Live guards are finitely many, and leave one at a time.
LEMMA LiveFinite ==
    ASSUME guards \in Seq(Guard)
    PROVE  /\ IsFiniteSet(Live)
           /\ Cardinality(Live) \in Nat
           /\ Cardinality(Live) = 0 <=> Live = {}
           /\ \A i \in Live : Cardinality(Live \ {i}) = Cardinality(Live) - 1
           /\ \A i \in Live : Cardinality(Live) = 1 <=> Live = {i}
<1>1. Len(guards) \in Nat /\ DOMAIN guards = 1..Len(guards)
  OBVIOUS
<1>2. IsFiniteSet(1..Len(guards))
  BY <1>1, FS_Interval
<1>3. Live \subseteq 1..Len(guards)
  BY <1>1 DEF Live
<1>4. IsFiniteSet(Live)
  BY <1>2, <1>3, FS_Subset
<1>5. Cardinality(Live) \in Nat
  BY <1>4, FS_CardinalityType
<1>6. Cardinality(Live) = 0 <=> Live = {}
  BY <1>4, FS_EmptySet
<1>7. \A i \in Live : Cardinality(Live \ {i}) = Cardinality(Live) - 1
  BY <1>4, FS_RemoveElement
<1>8. \A i \in Live : Cardinality(Live) = 1 <=> Live = {i}
  BY <1>4, FS_Singleton
<1> QED
  BY <1>4, <1>5, <1>6, <1>7, <1>8

\* A valid new guard is live, an invalid one is not.
LEMMA LiveAfterNew ==
    ASSUME guards \in Seq(Guard), NEW v \in BOOLEAN,
           guards' = Append(guards, [valid |-> v, commited |-> FALSE])
    PROVE  /\ guards' \in Seq(Guard)
           /\ Len(guards') = Len(guards) + 1
           /\ v  => Cardinality(Live') = Cardinality(Live) + 1
           /\ ~v => Live' = Live
<1> DEFINE n == Len(guards)
           g == [valid |-> v, commited |-> FALSE]
<1>1. g \in Guard
  BY DEF Guard
<1>2. /\ guards' \in Seq(Guard)
      /\ Len(guards') = n + 1
      /\ DOMAIN guards = 1..n
      /\ DOMAIN guards' = 1..(n + 1)
      /\ \A i \in 1..n : guards'[i] = guards[i]
      /\ guards'[n + 1] = g
      /\ n \in Nat
  BY <1>1
<1>3. Live' = {i \in 1..(n + 1) : guards'[i].valid /\ ~guards'[i].commited}
  BY <1>2 DEF Live
<1>4. Live = {i \in 1..n : guards[i].valid /\ ~guards[i].commited}
  BY <1>2 DEF Live
<1>5. CASE v
  <2>1. Live' = Live \cup {n + 1} /\ n + 1 \notin Live
    BY <1>2, <1>3, <1>4, <1>5
  <2> QED
    BY <2>1, <1>2, <1>5, LiveFinite, FS_AddElement
<1>6. CASE ~v
  BY <1>2, <1>3, <1>4, <1>6
<1> QED
  BY <1>2, <1>5, <1>6

\* A guard that is committed or rolled back is no longer live.
LEMMA LiveAfterLeave ==
    ASSUME guards \in Seq(Guard), NEW i \in Live,
           guards' = [guards EXCEPT ![i].commited = TRUE]
    PROVE  /\ guards' \in Seq(Guard)
           /\ Len(guards') = Len(guards)
           /\ Live' = Live \ {i}
<1>1. i \in DOMAIN guards /\ guards[i] \in Guard
  BY DEF Live
<1>2. [guards[i] EXCEPT !.commited = TRUE] \in Guard
  BY <1>1 DEF Guard
<1>3. guards' = [guards EXCEPT ![i] = [guards[i] EXCEPT !.commited = TRUE]]
  BY <1>1
<1>4. /\ guards' \in Seq(Guard)
      /\ Len(guards') = Len(guards)
      /\ DOMAIN guards' = DOMAIN guards
      /\ \A j \in DOMAIN guards : j # i => guards'[j] = guards[j]
      /\ guards'[i].commited
  BY <1>1, <1>2, <1>3 DEF Guard
<1> QED
  BY <1>1, <1>4 DEF Live

\* Nor is the youngest guard once it is destroyed.
LEMMA LiveAfterDestroy ==
    ASSUME guards \in Seq(Guard), guards # <<>>,
           guards' = SubSeq(guards, 1, Len(guards) - 1)
    PROVE  /\ guards' \in Seq(Guard)
           /\ Len(guards') = Len(guards) - 1
           /\ Live' = Live \ {Len(guards)}
<1> DEFINE n == Len(guards)
<1>1. n \in Nat /\ n > 0 /\ DOMAIN guards = 1..n
  OBVIOUS
<1>2. /\ guards' \in Seq(Guard)
      /\ Len(guards') = n - 1
      /\ DOMAIN guards' = 1..(n - 1)
      /\ \A j \in 1..(n - 1) : guards'[j] = guards[j]
  BY <1>1
<1>3. \A j : j \in 1..(n - 1) <=> j \in 1..n /\ j # n
  BY <1>1
<1> QED
  BY <1>1, <1>2, <1>3 DEF Live

----------------------------------------------------------------------------
\* Type correctness

\* TypeOK but for the bound on the depth, which the invariants below give.
Types ==
    /\ EngineTypeOK
    /\ disk \subseteq Writes /\ work \subseteq Writes
    /\ transactionDepth \in Int
    /\ transactionFailed \in BOOLEAN
    /\ guards \in Seq(Guard) /\ Len(guards) <= MaxGuards
    /\ closed \in BOOLEAN
    /\ scope \subseteq Writes /\ undone \subseteq Writes /\ acked \subseteq Writes
    /\ doomed \in BOOLEAN

\* The part of it the engine's statements can touch.
StoreTypeOK == EngineTypeOK /\ disk \subseteq Writes /\ work \subseteq Writes

\* No step of the engine leaves its types, whatever it returns.
LEMMA StoreTypes ==
    ASSUME StoreTypeOK, NEW rc,
           \/ ExecBegin(rc) \/ ExecCommit(rc) \/ ExecRollback(rc)
           \/ Read(rc) \/ WriteRejected(SQLITE_CONSTRAINT_UNIQUE, rc) \/ Fault(rc)
           \/ CloseHandle \/ OtherAcquires \/ OtherReleases
           \/ \E w \in Writes : Write(work \cup {w}, rc) \/ OtherCommits(disk \cup {w})
           \/ UNCHANGED engine
    PROVE  StoreTypeOK'
<1>1. ASSUME NEW db \in {disk, work} \cup {work \cup {w} : w \in Writes} \cup {disk \cup {w} : w \in Writes},
             EngineStep \/ EngineStepTo(db)
      PROVE  StoreTypeOK'
  BY <1>1, EngineTypes DEF StoreTypeOK
<1> QED
  BY <1>1 DEF EngineStep, EngineStepTo

\* What a call of the Backend does to its types, whatever it returns.
LEMMA BackendTypes ==
    ASSUME StoreTypeOK, transactionDepth \in Int, transactionFailed \in BOOLEAN,
           \/ \E result \in ResultCode : \/ BeginTransaction(result)
                                         \/ CommitTransaction(result)
                                         \/ RollbackTransaction(result)
           \/ RollbackAll \/ DestroyBackend \/ UNCHANGED backend
    PROVE  /\ StoreTypeOK' /\ transactionDepth' \in Int
           /\ transactionFailed' \in BOOLEAN
<1>1. transactionDepth' \in Int
  BY DEF BeginTransaction, CommitTransaction, RollbackTransaction, RollbackAll,
         DestroyBackend, backend
<1>2. transactionFailed' \in BOOLEAN
  BY Zenon DEF BeginTransaction, CommitTransaction, RollbackTransaction,
               RollbackAll, DestroyBackend, backend
<1>3. \/ \E rc \in SqliteCodes : ExecBegin(rc) \/ ExecCommit(rc) \/ ExecRollback(rc)
      \/ CloseHandle \/ UNCHANGED engine
  BY DEF BeginTransaction, CommitTransaction, RollbackTransaction, RollbackAll,
         DestroyBackend, backend, ExecuteBegin, ExecuteCommit, ExecuteRollback
<1>4. StoreTypeOK'
  BY <1>3, StoreTypes
<1> QED
  BY <1>1, <1>2, <1>4

\* The types hold initially.
LEMMA TypeInit == Init => Types
<1> SUFFICES ASSUME Init PROVE Types
  OBVIOUS
<1> USE DEF Init, BackendInit, EngineInit
<1>1. guards \in Seq(Guard) /\ Len(guards) <= MaxGuards
  BY MaxGuardsAssumption
<1>2. faults \in 0..MaxFaults /\ transactionDepth \in Int
  BY MaxFaultsAssumption
<1>3. /\ sqlTx \in BOOLEAN /\ transactionFailed \in BOOLEAN
      /\ closed \in BOOLEAN /\ doomed \in BOOLEAN
  BY Zenon
<1> QED
  BY <1>1, <1>2, <1>3 DEF Types, EngineTypeOK

\* The history keeps its types when a guard leaves.
LEMMA LeavesTypes ==
    ASSUME Types, NEW i, NEW r \in BOOLEAN, Leaves(i, r)
    PROVE  /\ scope' \subseteq Writes /\ undone' \subseteq Writes
           /\ acked' \subseteq Writes /\ doomed' \in BOOLEAN
  BY DEF Leaves, Types

\* No step leaves the types.
LEMMA TypeStep == Types /\ [Next]_vars => Types'
<1> SUFFICES ASSUME Types, [Next]_vars PROVE Types'
  OBVIOUS
<1>0. /\ StoreTypeOK /\ transactionDepth \in Int /\ transactionFailed \in BOOLEAN
      /\ guards \in Seq(Guard) /\ Len(guards) <= MaxGuards /\ Len(guards) \in Nat
      /\ Fresh \subseteq Writes
  BY DEF Types, StoreTypeOK, Fresh
<1>r. SUFFICES /\ StoreTypeOK' /\ transactionDepth' \in Int
               /\ transactionFailed' \in BOOLEAN
               /\ guards' \in Seq(Guard) /\ Len(guards') <= MaxGuards
               /\ closed' \in BOOLEAN
               /\ scope' \subseteq Writes /\ undone' \subseteq Writes
               /\ acked' \subseteq Writes /\ doomed' \in BOOLEAN
  BY DEF Types, StoreTypeOK
<1> USE DEF history
<1>1. CASE NewGuard
  <2>1. PICK result \in ResultCode :
           /\ BeginTransaction(result)
           /\ guards' = Append(guards, [valid    |-> ~ResultIsError(result),
                                        commited |-> FALSE])
    BY <1>1 DEF NewGuard
  <2>2. (~ResultIsError(result)) \in BOOLEAN
    OBVIOUS
  <2>3. guards' \in Seq(Guard) /\ Len(guards') = Len(guards) + 1
    BY <2>1, <2>2, <1>0, LiveAfterNew
  <2> QED
    BY <1>0, <1>1, <2>1, <2>3, BackendTypes, MaxGuardsAssumption DEF NewGuard, Types
<1>2. ASSUME NEW i \in DOMAIN guards, GuardCommit(i) \/ GuardRollback(i)
      PROVE  Types'
  <2>1. guards' \in Seq(Guard) /\ Len(guards') = Len(guards)
    BY <1>0, <1>2, LiveAfterLeave DEF GuardCommit, GuardRollback
  <2> QED
    BY <1>0, <1>2, <2>1, BackendTypes, LeavesTypes
    DEF GuardCommit, GuardRollback, Types, StoreTypeOK
<1>3. CASE DestroyGuard
  <2>1. guards' \in Seq(Guard) /\ Len(guards') = Len(guards) - 1
    BY <1>0, <1>3, LiveAfterDestroy DEF DestroyGuard
  <2>2. /\ StoreTypeOK' /\ transactionDepth' \in Int
        /\ transactionFailed' \in BOOLEAN
    BY <1>0, <1>3, BackendTypes DEF DestroyGuard
  <2>3. /\ scope' \subseteq Writes /\ undone' \subseteq Writes
        /\ acked' \subseteq Writes /\ doomed' \in BOOLEAN
    <3>1. CASE Len(guards) \in Live
      BY <1>3, <3>1, LeavesTypes DEF DestroyGuard
    <3>2. CASE Len(guards) \notin Live
      BY <1>3, <3>2 DEF DestroyGuard, Types
    <3> QED
      BY <3>1, <3>2
  <2> QED
    BY <1>0, <1>3, <2>1, <2>2, <2>3, MaxGuardsAssumption DEF DestroyGuard, Types
<1>4. ASSUME NEW w \in Fresh, WriteOK(w)
      PROVE  Types'
  BY <1>0, <1>4, StoreTypes DEF WriteOK, Types, StoreTypeOK
<1>5. CASE StatementWithoutEffect
  BY <1>0, <1>5, StoreTypes DEF StatementWithoutEffect, Types
<1>6. CASE CloseDatabase
  BY <1>0, <1>6, BackendTypes DEF CloseDatabase, Types
<1>7. CASE ReopenDatabase
  BY <1>0, <1>7, BackendTypes DEF ReopenDatabase, Types
<1>8. CASE OtherProcess
  BY <1>0, <1>8, StoreTypes DEF OtherProcess, Types
<1>9. CASE UNCHANGED vars
  BY <1>0, <1>9, BackendTypes DEF vars, Types
<1> QED
  BY <1>1, <1>2, <1>3, <1>4, <1>5, <1>6, <1>7, <1>8, <1>9 DEF Next, Types, StoreTypeOK

\* The types hold in every state.
LEMMA TypesHold == Spec => []Types
  BY TypeInit, TypeStep, PTL DEF Spec

----------------------------------------------------------------------------
(***************************************************************************)
(* The inductive invariant: LockInv and four more parts.                   *)
(***************************************************************************)

\* The history knows every write there is.
AccountInv == disk \cup work \subseteq scope \cup undone \cup acked

\* One level per live guard, and at most one leaked.
DepthInv ==
    /\ ~closed => transactionDepth \in {Cardinality(Live), Cardinality(Live) + 1}
    /\ closed => transactionDepth <= 0
    /\ closed /\ guards = <<>> => transactionDepth = 0 /\ ~sqlTx

\* Until a fault, and while no level has leaked, m_TransactionFailed remembers
\* every rollback of the scope, and what was undone before is no part of the
\* open transaction.
ScopeFacts ==
    /\ ~closed /\ transactionDepth > 0 => sqlTx
    /\ Live = {} => ~doomed
    /\ ~closed /\ transactionDepth = Cardinality(Live) =>
          (doomed => transactionFailed) /\ undone \cap work = {}
    /\ Isolated

ScopeInv == faults = 0 => ScopeFacts

\* Without readers in the other process an SQLite transaction is open exactly
\* while a level is entered, no level ever leaks, and m_TransactionFailed is
\* set for no other reason than a rollback of the scope.
NoReaderInv ==
    /\ sqlTx <=> transactionDepth > 0
    /\ ~closed => transactionDepth = Cardinality(Live)
    /\ disk \subseteq work
    /\ scope \subseteq work
    /\ Live = {} \/ closed => scope = {}
    /\ transactionDepth > 0 /\ transactionFailed => doomed
    /\ CommittedIsDurable

----------------------------------------------------------------------------
\* LockInv: a matter of the engine alone.

\* Every step of either process respects the locks.
LEMMA LocksStep == Types /\ LockInv /\ [Next]_vars => LockInv'
<1> SUFFICES ASSUME Types, LockInv, [Next]_vars PROVE LockInv'
  OBVIOUS
<1>1. CASE NewGuard
  BY <1>1, BackendSteps, LockStep DEF NewGuard
<1>2. CASE \E i \in DOMAIN guards : GuardCommit(i) \/ GuardRollback(i)
  BY <1>2, BackendSteps, LockStep DEF GuardCommit, GuardRollback
<1>3. CASE DestroyGuard
  BY <1>3, BackendSteps, LockStep DEF DestroyGuard
<1>4. CASE CloseDatabase \/ ReopenDatabase \/ UNCHANGED vars
  BY <1>4, BackendSteps, LockStep DEF CloseDatabase, ReopenDatabase, vars
<1>5. CASE (\E w \in Fresh : WriteOK(w)) \/ StatementWithoutEffect \/ OtherProcess
  BY <1>5, LockStep DEF WriteOK, StatementWithoutEffect, OtherProcess, EngineStep, EngineStepTo
<1> QED
  BY <1>1, <1>2, <1>3, <1>4, <1>5 DEF Next

----------------------------------------------------------------------------
\* AccountInv: the history only grows, and every write enters it.

\* No write reaches the contents without being accounted for.
LEMMA AccountStep == Types /\ LockInv /\ AccountInv /\ [Next]_vars => AccountInv'
<1> SUFFICES ASSUME Types, LockInv, AccountInv, [Next]_vars PROVE AccountInv'
  OBVIOUS
<1> DEFINE Made == scope \cup undone \cup acked
<1>l. \A i, r : Leaves(i, r) => Made' = Made
  BY DEF Leaves
<1>b. ASSUME \/ \E result \in ResultCode : \/ BeginTransaction(result)
                                           \/ CommitTransaction(result)
                                           \/ RollbackTransaction(result)
             \/ RollbackAll \/ DestroyBackend \/ UNCHANGED backend
      PROVE  disk' \cup work' \subseteq disk \cup work
  BY <1>b DEF BeginTransaction, CommitTransaction, RollbackTransaction, RollbackAll,
     DestroyBackend, ExecuteBegin, ExecuteCommit, ExecuteRollback, ExecBegin,
     ExecCommit, ExecRollback, Fault, Abandon, CloseHandle, backend, engine
<1>1. CASE NewGuard \/ CloseDatabase \/ ReopenDatabase
  <2>1. Made' = Made
    BY <1>1 DEF NewGuard, CloseDatabase, ReopenDatabase, history
  <2>2. disk' \cup work' \subseteq disk \cup work
    BY <1>1, <1>b DEF NewGuard, CloseDatabase, ReopenDatabase
  <2> QED
    BY <2>1, <2>2 DEF AccountInv
<1>2. CASE DestroyGuard \/ \E i \in DOMAIN guards : GuardCommit(i) \/ GuardRollback(i)
  <2>1. Made' = Made
    BY <1>2, <1>l DEF DestroyGuard, GuardCommit, GuardRollback, history
  <2>2. disk' \cup work' \subseteq disk \cup work
    BY <1>2, <1>b DEF DestroyGuard, GuardCommit, GuardRollback
  <2> QED
    BY <2>1, <2>2 DEF AccountInv
<1>3. ASSUME NEW w \in Fresh, WriteOK(w)
      PROVE  AccountInv'
  <2>1. /\ Made' = Made \cup {w}
        /\ disk' \cup work' \subseteq disk \cup work \cup {w}
    BY <1>3 DEF WriteOK, Write, engine
  <2> QED
    BY <2>1 DEF AccountInv
<1>4. CASE StatementWithoutEffect
  BY <1>4 DEF StatementWithoutEffect, Read, WriteRejected, Fault, Abandon,
              engine, history, AccountInv
<1>5. CASE OtherProcess
  BY <1>5 DEF OtherProcess, OtherAcquires, OtherReleases, OtherCommits, AccountInv
<1>6. CASE UNCHANGED vars
  BY <1>6 DEF vars, backend, engine, history, AccountInv
<1> QED
  BY <1>1, <1>2, <1>3, <1>4, <1>5, <1>6 DEF Next

----------------------------------------------------------------------------
\* DepthInv: counting levels against live guards.

\* A step that touches neither guards nor depth keeps the count.
LEMMA LiveUnchanged == UNCHANGED guards => Live' = Live
  BY DEF Live

\* Every step keeps the levels in line with the live guards.
LEMMA DepthStep == Types /\ DepthInv /\ [Next]_vars => DepthInv'
<1> SUFFICES ASSUME Types, DepthInv, [Next]_vars PROVE DepthInv'
  OBVIOUS
<1>0. /\ guards \in Seq(Guard) /\ Len(guards) \in Nat
      /\ transactionDepth \in Int /\ Cardinality(Live) \in Nat
  BY LiveFinite DEF Types
<1>1. CASE NewGuard
  <2>1. PICK result \in ResultCode :
           /\ BeginTransaction(result)
           /\ guards' = Append(guards, [valid    |-> ~ResultIsError(result),
                                        commited |-> FALSE])
    BY <1>1 DEF NewGuard
  <2>2. (~ResultIsError(result)) \in BOOLEAN
    OBVIOUS
  <2>3. /\ ~closed' /\ ~closed
        /\ transactionDepth' = transactionDepth + 1
        /\ Cardinality(Live') = IF ~ResultIsError(result)
              THEN Cardinality(Live) + 1 ELSE Cardinality(Live)
    BY <1>0, <1>1, <2>1, <2>2, LiveAfterNew DEF NewGuard, BeginTransaction
  <2>4. transactionDepth # 0 => ~ResultIsError(result)
    BY <2>1 DEF BeginTransaction, ResultIsError, Errors
  <2> QED
    BY <1>0, <2>3, <2>4 DEF DepthInv
<1>2. ASSUME NEW i \in DOMAIN guards, GuardCommit(i) \/ GuardRollback(i)
      PROVE  DepthInv'
  <2>1. /\ i \in Live /\ closed' = closed
        /\ transactionDepth' = transactionDepth - 1
        /\ guards' = [guards EXCEPT ![i].commited = TRUE]
    BY <1>2 DEF GuardCommit, GuardRollback, CommitTransaction, RollbackTransaction
  <2>2. Cardinality(Live') = Cardinality(Live) - 1
    BY <1>0, <2>1, LiveAfterLeave, LiveFinite
  <2>3. Len(guards') = Len(guards) /\ Len(guards) > 0
    BY <1>0, <2>1, LiveAfterLeave
  <2>4. guards' # <<>>
    BY <2>3
  <2> QED
    BY <1>0, <2>1, <2>2, <2>4 DEF DepthInv
<1>3. CASE DestroyGuard
  <2>1. /\ guards # <<>> /\ closed' = closed
        /\ guards' = SubSeq(guards, 1, Len(guards) - 1)
    BY <1>3 DEF DestroyGuard
  <2>2. /\ Live' = Live \ {Len(guards)}
        /\ Len(guards') = Len(guards) - 1 /\ Len(guards) > 0
    BY <1>0, <2>1, LiveAfterDestroy
  <2>3. CASE closed /\ Len(guards) = 1
    BY <1>3, <2>1, <2>3
    DEF DestroyGuard, DestroyBackend, CloseHandle, Abandon, DepthInv
  <2>4. CASE ~(closed /\ Len(guards) = 1) /\ Len(guards) \in Live
    <3>1. transactionDepth' = transactionDepth - 1
      BY <1>3, <2>4 DEF DestroyGuard, RollbackTransaction
    <3>2. Cardinality(Live') = Cardinality(Live) - 1
      BY <1>0, <2>2, <2>4, LiveFinite
    <3>3. closed => Len(guards') > 0
      BY <1>0, <2>2, <2>4
    <3>4. closed => guards' # <<>>
      BY <3>3
    <3> QED
      BY <1>0, <2>1, <3>1, <3>2, <3>4 DEF DepthInv
  <2>5. CASE ~(closed /\ Len(guards) = 1) /\ Len(guards) \notin Live
    <3>1. transactionDepth' = transactionDepth /\ Live' = Live
      BY <1>3, <2>2, <2>5 DEF DestroyGuard, backend
    <3>2. closed => Len(guards') > 0
      BY <1>0, <2>2, <2>5
    <3>3. closed => guards' # <<>>
      BY <3>2
    <3> QED
      BY <2>1, <3>1, <3>3 DEF DepthInv
  <2> QED
    BY <2>3, <2>4, <2>5
<1>4. CASE CloseDatabase
  <2>1. /\ closed' = TRUE /\ UNCHANGED guards
        /\ transactionDepth' <= 0
    BY <1>0, <1>4 DEF CloseDatabase, DestroyBackend, RollbackAll, IsInTransaction, backend
  <2>2. guards = <<>> => transactionDepth' = 0 /\ sqlTx' = FALSE
    BY <1>4 DEF CloseDatabase, DestroyBackend, CloseHandle, Abandon
  <2> QED
    BY <2>1, <2>2 DEF DepthInv
<1>5. CASE ReopenDatabase
  <2>1. Live' = {}
    BY <1>5 DEF ReopenDatabase, Live
  <2>2. Cardinality(Live') = 0
    BY <2>1, FS_EmptySet
  <2>3. ~closed' /\ transactionDepth' = 0
    BY <1>5 DEF ReopenDatabase, backend, DepthInv
  <2> QED
    BY <2>2, <2>3 DEF DepthInv
<1>6. CASE \/ \E w \in Fresh : WriteOK(w)
           \/ StatementWithoutEffect \/ OtherProcess \/ UNCHANGED vars
  <2>1. /\ UNCHANGED <<guards, closed, transactionDepth>>
        /\ Live' = Live
    BY <1>6, LiveUnchanged
    DEF WriteOK, StatementWithoutEffect, OtherProcess, vars, backend
  <2>2. sqlTx' => sqlTx \/ ~closed
    BY <1>6 DEF WriteOK, StatementWithoutEffect, OtherProcess, OtherAcquires,
                OtherReleases, OtherCommits, vars, backend, engine
  <2> QED
    BY <2>1, <2>2 DEF DepthInv
<1> QED
  BY <1>1, <1>2, <1>3, <1>4, <1>5, <1>6 DEF Next

\* The invariants hold initially.
LEMMA InitInvs == Init => LockInv /\ AccountInv /\ DepthInv /\ ScopeInv
<1> SUFFICES ASSUME Init PROVE LockInv /\ AccountInv /\ DepthInv /\ ScopeInv
  OBVIOUS
<1>1. Live = {} /\ Cardinality(Live) = 0
  BY FS_EmptySet DEF Init, Live
<1> QED
  BY <1>1 DEF Init, BackendInit, EngineInit, LockInv, Writing, AccountInv, DepthInv,
              ScopeInv, ScopeFacts, Isolated

\* Every valid guard accounts for one level and at most one level leaks, in
\* every order of guards, faults and locks (db.cc:83-129).
THEOREM DepthMatchesGuardsAlways == Spec => []DepthMatchesGuards
<1>1. Types /\ DepthInv => DepthMatchesGuards
  <2> SUFFICES ASSUME Types, DepthInv, ~closed PROVE Leaked \in {0, 1}
    BY DEF DepthMatchesGuards
  <2>1. transactionDepth \in Int /\ Cardinality(Live) \in Nat
    BY LiveFinite DEF Types
  <2> QED
    BY <2>1 DEF Leaked, DepthInv
<1> QED
  BY <1>1, TypesHold, InitInvs, DepthStep, PTL DEF Spec

\* There are no more live guards than guards.
LEMMA LiveBound ==
    ASSUME guards \in Seq(Guard) PROVE Cardinality(Live) <= Len(guards)
<1>1. Len(guards) \in Nat /\ Live \subseteq 1..Len(guards)
  BY DEF Live
<1>2. IsFiniteSet(1..Len(guards)) /\ Cardinality(1..Len(guards)) = Len(guards)
  <2> DEFINE n == Len(guards)
  <2>1. n \in Nat /\ 1 \in Int /\ n \in Int
    BY <1>1
  <2> HIDE DEF n
  <2>2. IsFiniteSet(1..n) /\ Cardinality(1..n) = IF 1 > n THEN 0 ELSE n - 1 + 1
    BY <2>1, FS_Interval
  <2>3. Cardinality(1..n) = n
    BY <2>1, <2>2
  <2> QED
    BY <2>2, <2>3 DEF n
<1>3. Cardinality(Live) <= Cardinality(1..Len(guards))
  BY <1>1, <1>2, FS_Subset
<1> QED
  BY <1>2, <1>3, Zenon

\* Type correctness of the guards, the Backend and the engine they share; in
\* particular no sequence of calls takes the depth further than one level
\* above the number of guards there can be (db.cc:83-129).
THEOREM TypeCorrect == Spec => []TypeOK
<1>1. Types /\ DepthInv => TypeOK
  <2> SUFFICES ASSUME Types, DepthInv PROVE transactionDepth <= MaxGuards + 1
    BY DEF Types, TypeOK
  <2>1. /\ transactionDepth \in Int /\ Cardinality(Live) \in Nat
        /\ Len(guards) \in Nat /\ Cardinality(Live) <= Len(guards)
        /\ Len(guards) <= MaxGuards /\ MaxGuards \in Nat /\ closed \in BOOLEAN
    BY LiveFinite, LiveBound, MaxGuardsAssumption DEF Types
  <2>2. CASE closed
    BY <2>1, <2>2 DEF DepthInv
  <2>3. CASE ~closed
    BY <2>1, <2>3 DEF DepthInv
  <2> QED
    BY <2>2, <2>3
<1> QED
  BY <1>1, TypesHold, InitInvs, DepthStep, PTL DEF Spec

----------------------------------------------------------------------------
\* ScopeInv: until the disk runs full, a scope reaches the disk
\* only through the COMMIT of its outermost guard.

\* Faults are only ever added, and none is added in a step that ends with none.
LEMMA NoFault ==
    ASSUME Types, faults' = 0
    PROVE  \A rc : ~Fault(rc)
  BY DEF Types, EngineTypeOK, Fault

\* A step that ends without faults began without them.
LEMMA FaultFree == Types /\ [Next]_vars /\ faults' = 0 => faults = 0
<1> SUFFICES ASSUME Types, [Next]_vars, faults' = 0 PROVE UNCHANGED faults
  OBVIOUS
<1>1. \A rc : ~Fault(rc)
  BY NoFault
<1> USE <1>1 DEF backend, engine, Abandon, ExecuteBegin, ExecuteCommit,
        ExecuteRollback, ExecBegin, ExecCommit, ExecRollback, CloseHandle
<1>2. CASE NewGuard \/ CloseDatabase \/ ReopenDatabase
  BY <1>2 DEF NewGuard, BeginTransaction, CloseDatabase, DestroyBackend, RollbackAll,
              ReopenDatabase
<1>3. CASE DestroyGuard \/ \E i \in DOMAIN guards : GuardCommit(i) \/ GuardRollback(i)
  BY <1>3 DEF DestroyGuard, DestroyBackend, GuardCommit, GuardRollback,
              CommitTransaction, RollbackTransaction
<1>4. CASE (\E w \in Fresh : WriteOK(w)) \/ StatementWithoutEffect
  BY <1>4 DEF WriteOK, Write, StatementWithoutEffect, Read, WriteRejected
<1>5. CASE OtherProcess \/ UNCHANGED vars
  BY <1>5 DEF OtherProcess, OtherAcquires, OtherReleases, OtherCommits, vars
<1> QED
  BY <1>2, <1>3, <1>4, <1>5 DEF Next

\* A guard leaves, by Commit, Rollback or its destructor.
LEMMA ScopeLeaves ==
    ASSUME Types, DepthInv, ScopeFacts, faults' = 0,
           NEW i \in Live, NEW rolledBack \in BOOLEAN, NEW result,
           \/ CommitTransaction(result) /\ rolledBack = FALSE
           \/ RollbackTransaction(result) /\ rolledBack = TRUE,
           Leaves(i, rolledBack), Live' = Live \ {i}, closed' = closed
    PROVE  ScopeFacts'
<1>0. /\ transactionDepth \in Int /\ Cardinality(Live) \in Nat
      /\ Cardinality(Live') = Cardinality(Live) - 1
      /\ Cardinality(Live) = 1 <=> Live = {i}
      /\ Cardinality(Live) # 0
      /\ transactionDepth' = transactionDepth - 1
      /\ \A rc : ~Fault(rc)
  BY LiveFinite, NoFault DEF Types, CommitTransaction, RollbackTransaction
<1>1. Live' = {} <=> Live = {i}
  OBVIOUS
<1>2. CASE transactionDepth # 1
  <2>1. UNCHANGED engine /\ (transactionFailed' <=> transactionFailed \/ rolledBack)
    BY <1>2 DEF CommitTransaction, RollbackTransaction, Types
  <2>2. Isolated'
    BY <2>1 DEF ScopeFacts, Isolated, Leaves, engine
  <2>3. ~closed /\ transactionDepth' > 0 => sqlTx'
    BY <1>0, <2>1 DEF ScopeFacts, engine
  <2>4. Live' = {} => ~doomed'
    BY <1>1 DEF Leaves
  <2>5. ASSUME ~closed, transactionDepth' = Cardinality(Live')
        PROVE  (doomed' => transactionFailed') /\ undone' \cap work' = {}
    <3>1. transactionDepth = Cardinality(Live) /\ Live # {i}
      BY <1>0, <1>2, <2>5
    <3> QED
      BY <2>1, <2>5, <3>1 DEF ScopeFacts, Leaves, engine
  <2> QED
    BY <2>2, <2>3, <2>4, <2>5 DEF ScopeFacts
<1>3. CASE transactionDepth = 1
  <2>1. ~closed /\ Live = {i} /\ Cardinality(Live) = 1
    BY <1>0, <1>3 DEF DepthInv
  <2>2. sqlTx /\ (doomed => transactionFailed) /\ undone \cap work = {}
    BY <1>3, <2>1 DEF ScopeFacts
  <2>3. scope' = {} /\ doomed' = FALSE
    BY <2>1 DEF Leaves
  <2>4. CASE transactionFailed \/ rolledBack
    <3>1. work' = disk /\ disk' = disk
      BY <1>3, <2>2, <2>4
      DEF CommitTransaction, RollbackTransaction, ExecuteRollback, ExecRollback, Abandon
    <3>2. undone' \subseteq undone \cup scope
      BY DEF Leaves
    <3> QED
      BY <1>0, <1>1, <1>3, <2>1, <2>3, <3>1, <3>2 DEF ScopeFacts, Isolated
  <2>5. CASE ~transactionFailed /\ ~rolledBack
    <3>1. undone' = undone
      BY <2>1, <2>2, <2>5 DEF Leaves
    <3>2. work' = work /\ disk' \in {disk, work}
      BY <1>0, <1>3, <2>2, <2>5 DEF CommitTransaction, ExecuteCommit, ExecCommit
    <3> QED
      BY <1>0, <1>1, <1>3, <2>1, <2>2, <2>3, <3>1, <3>2 DEF ScopeFacts, Isolated
  <2> QED
    BY <2>4, <2>5
<1> QED
  BY <1>2, <1>3

\* No step lets a part of an open or undone scope reach the disk.
LEMMA ScopeStep ==
    Types /\ LockInv /\ AccountInv /\ DepthInv /\ ScopeInv /\ [Next]_vars => ScopeInv'
<1> SUFFICES ASSUME Types, LockInv, AccountInv, DepthInv, ScopeInv, [Next]_vars,
                    faults' = 0
             PROVE  ScopeFacts'
  BY DEF ScopeInv
<1>f. ScopeFacts
  BY NoFault, FaultFree DEF ScopeInv
<1>0. /\ guards \in Seq(Guard) /\ Len(guards) \in Nat
      /\ transactionDepth \in Int /\ Cardinality(Live) \in Nat
      /\ Cardinality(Live) = 0 <=> Live = {}
      /\ \A rc : ~Fault(rc)
  BY LiveFinite, NoFault DEF Types
<1>1. CASE NewGuard
  <2>1. PICK result \in ResultCode :
           /\ BeginTransaction(result)
           /\ guards' = Append(guards, [valid    |-> ~ResultIsError(result),
                                        commited |-> FALSE])
    BY <1>1 DEF NewGuard
  <2>2. (~ResultIsError(result)) \in BOOLEAN
    OBVIOUS
  <2>3. /\ ~closed' /\ ~closed
        /\ UNCHANGED <<scope, doomed, undone, disk, work>>
        /\ transactionDepth' = transactionDepth + 1
        /\ ~ResultIsError(result) => Cardinality(Live') = Cardinality(Live) + 1
        /\ ResultIsError(result) => Live' = Live
    BY <1>0, <1>1, <2>1, <2>2, LiveAfterNew
    DEF NewGuard, BeginTransaction, ExecuteBegin, ExecBegin, history, engine
  <2>4. Isolated'
    BY <1>f, <2>3 DEF ScopeFacts, Isolated
  <2>5. CASE transactionDepth = 0
    <3>1. Live = {} /\ Cardinality(Live) = 0
      BY <1>0, <2>3, <2>5 DEF DepthInv
    <3>2. ~doomed /\ undone \cap work = {}
      BY <1>f, <2>3, <2>5, <3>1 DEF ScopeFacts
    <3>3. sqlTx'
      BY <2>1, <2>5 DEF BeginTransaction, ExecuteBegin, ExecBegin, engine
    <3> QED
      BY <1>f, <2>3, <2>4, <3>2, <3>3 DEF ScopeFacts
  <2>6. CASE transactionDepth # 0
    <3>1. ~ResultIsError(result) /\ UNCHANGED <<engine, transactionFailed>>
      BY <2>1, <2>6 DEF BeginTransaction, ResultIsError, Errors
    <3>2. transactionDepth > 0 /\ sqlTx
      BY <1>f, <1>0, <2>3, <2>6 DEF DepthInv, ScopeFacts
    <3>3. Cardinality(Live') # 0
      BY <1>0, <2>3, <3>1
    <3>4. Live' # {}
      BY <3>3, FS_EmptySet
    <3>5. transactionDepth' = Cardinality(Live') => transactionDepth = Cardinality(Live)
      BY <1>0, <2>3, <3>1
    <3> QED
      BY <1>f, <2>3, <2>4, <3>1, <3>2, <3>4, <3>5 DEF ScopeFacts, engine
  <2> QED
    BY <2>5, <2>6
<1>2. ASSUME NEW i \in DOMAIN guards, GuardCommit(i) \/ GuardRollback(i)
      PROVE  ScopeFacts'
  <2>1. /\ i \in Live /\ closed' = closed /\ Live' = Live \ {i}
    BY <1>0, <1>2, LiveAfterLeave DEF GuardCommit, GuardRollback
  <2>2. PICK result : \/ CommitTransaction(result) /\ Leaves(i, FALSE)
                      \/ RollbackTransaction(result) /\ Leaves(i, TRUE)
    BY <1>2 DEF GuardCommit, GuardRollback
  <2> QED
    BY <1>f, <2>1, <2>2, ScopeLeaves
<1>3. CASE DestroyGuard
  <2>1. /\ Live' = Live \ {Len(guards)} /\ closed' = closed
        /\ disk' = disk \/ Len(guards) \in Live
    BY <1>0, <1>3, LiveAfterDestroy
    DEF DestroyGuard, DestroyBackend, CloseHandle, backend, engine
  <2>2. CASE closed /\ Len(guards) = 1
    <3>1. disk' = disk /\ transactionDepth' = 0
      BY <1>3, <2>2 DEF DestroyGuard, DestroyBackend, CloseHandle
    <3>2. Live' = {}
      BY <1>0, <2>1, <2>2 DEF Live
    <3>3. ~doomed' /\ scope' \cup undone' \subseteq scope \cup undone
      <4>1. CASE Len(guards) \in Live
        <5>1. Live = {Len(guards)}
          BY <2>1, <3>2, <4>1
        <5> QED
          BY <1>3, <4>1, <5>1 DEF DestroyGuard, Leaves
      <4>2. CASE Len(guards) \notin Live
        BY <1>f, <1>3, <2>1, <3>2, <4>2 DEF DestroyGuard, history, ScopeFacts
      <4> QED
        BY <4>1, <4>2
    <3> QED
      BY <1>f, <2>1, <2>2, <3>1, <3>3 DEF ScopeFacts, Isolated
  <2>3. CASE ~(closed /\ Len(guards) = 1) /\ Len(guards) \in Live
    <3>1. PICK result : RollbackTransaction(result) /\ Leaves(Len(guards), TRUE)
      BY <1>3, <2>3 DEF DestroyGuard
    <3> QED
      BY <1>f, <2>1, <2>3, <3>1, ScopeLeaves
  <2>4. CASE ~(closed /\ Len(guards) = 1) /\ Len(guards) \notin Live
    <3>1. UNCHANGED <<backend, history, closed>> /\ Live' = Live
      BY <1>3, <2>1, <2>4 DEF DestroyGuard
    <3> QED
      BY <1>f, <3>1 DEF ScopeFacts, Isolated, backend, engine, history
  <2> QED
    BY <2>2, <2>3, <2>4
<1>4. ASSUME NEW w \in Fresh, WriteOK(w)
      PROVE  ScopeFacts'
  <2>1. /\ ~closed /\ Live' = Live
        /\ UNCHANGED <<closed, transactionDepth, transactionFailed, sqlTx, undone, doomed>>
        /\ work' = work \cup {w}
        /\ disk' = IF sqlTx THEN disk ELSE work \cup {w}
        /\ scope' = IF Live = {} THEN scope ELSE scope \cup {w}
    BY <1>4, LiveUnchanged DEF WriteOK, Write, SQLITE_OK, SQLITE_BUSY
  <2>2. w \notin scope /\ w \notin undone /\ w \notin disk
    BY DEF Fresh, AccountInv
  <2>3. Live # {} => transactionDepth > 0 /\ sqlTx
    BY <1>f, <1>0, <2>1 DEF DepthInv, ScopeFacts
  <2>4. ~sqlTx => work = disk
    BY DEF LockInv, Writing
  <2>5. Isolated'
    <3>1. CASE sqlTx
      BY <1>f, <2>1, <2>2, <3>1 DEF ScopeFacts, Isolated
    <3>2. CASE ~sqlTx
      BY <1>f, <2>1, <2>2, <2>3, <2>4, <3>2 DEF ScopeFacts, Isolated
    <3> QED
      BY <3>1, <3>2
  <2> QED
    BY <1>f, <2>1, <2>2, <2>5 DEF ScopeFacts
<1>5. CASE StatementWithoutEffect
  <2>1. /\ Live' = Live
        /\ UNCHANGED <<closed, transactionDepth, transactionFailed, sqlTx,
                       disk, work, scope, doomed, undone>>
    BY <1>0, <1>5, LiveUnchanged
    DEF StatementWithoutEffect, Read, WriteRejected, history, engine
  <2> QED
    BY <1>f, <2>1 DEF ScopeFacts, Isolated
<1>6. CASE CloseDatabase
  <2>1. /\ closed' = TRUE /\ Live' = Live /\ disk' = disk /\ scope' = {}
        /\ doomed' = FALSE /\ undone' = undone \cup scope
    BY <1>6, LiveUnchanged
    DEF CloseDatabase, DestroyBackend, CloseHandle, RollbackAll, ExecuteRollback,
        ExecRollback, backend, engine
  <2> QED
    BY <1>f, <2>1 DEF ScopeFacts, Isolated
<1>7. CASE ReopenDatabase
  <2>1. /\ Live' = Live /\ Live = {} /\ transactionDepth = 0 /\ ~sqlTx
        /\ UNCHANGED <<backend, history>>
    BY <1>7, LiveUnchanged DEF ReopenDatabase, DepthInv, Live
  <2>2. work = disk
    BY <2>1 DEF LockInv, Writing
  <2> QED
    BY <1>f, <2>1, <2>2 DEF ScopeFacts, Isolated, backend, engine, history
<1>8. CASE OtherProcess
  <2>1. Live' = Live /\ UNCHANGED <<closed, transactionDepth, transactionFailed,
                                    sqlTx, scope, doomed, undone>>
    BY <1>8, LiveUnchanged
    DEF OtherProcess, OtherAcquires, OtherReleases, OtherCommits
  <2>2. \/ UNCHANGED <<disk, work>>
        \/ \E w \in Fresh : disk' = disk \cup {w} /\ work' = disk \cup {w}
    BY <1>8 DEF OtherProcess, OtherAcquires, OtherReleases, OtherCommits
  <2> QED
    BY <1>f, <2>1, <2>2 DEF ScopeFacts, Isolated, Fresh
<1>9. CASE UNCHANGED vars
  BY <1>f, <1>9, LiveUnchanged DEF vars, backend, engine, history, ScopeFacts, Isolated
<1> QED
  BY <1>1, <1>2, <1>3, <1>4, <1>5, <1>6, <1>7, <1>8, <1>9 DEF Next

\* Until the disk runs full, nothing written under a guard is on disk before
\* the outermost guard commits, nor ever when one guard of the nest was
\* rolled back, whatever locks the other process holds (db.cc:98-129).
THEOREM NoPartialCommitAlways == Spec => []NoPartialCommit
<1>1. ScopeInv => NoPartialCommit
  BY DEF ScopeInv, ScopeFacts, NoPartialCommit
<1> QED
  BY <1>1, TypesHold, InitInvs, LocksStep, AccountStep, DepthStep, ScopeStep, PTL
  DEF Spec

\* One step of a connection that lost a level leaves the disk alone: no guard
\* brings the depth back to one, and every write joins the open transaction.
LEMMA WedgedStep ==
    ASSUME Types, DepthInv, ScopeInv, [Next]_vars,
           ~closed, Leaked = 1, other' = other, faults' = 0
    PROVE  disk' = disk
<1>0. /\ guards \in Seq(Guard) /\ Len(guards) \in Nat
      /\ transactionDepth = Cardinality(Live) + 1 /\ Cardinality(Live) \in Nat
      /\ \A i \in Live : Cardinality(Live) # 0
  BY LiveFinite DEF Types, Leaked
<1>1. sqlTx
  <2>1. ScopeFacts
    BY FaultFree DEF ScopeInv
  <2> QED
    BY <1>0, <2>1 DEF ScopeFacts
<1>2. ASSUME NEW i \in Live, NEW result,
             CommitTransaction(result) \/ RollbackTransaction(result)
      PROVE  disk' = disk
  <2>1. transactionDepth # 1
    BY <1>0
  <2> QED
    BY <1>2, <2>1 DEF CommitTransaction, RollbackTransaction, engine
<1>3. CASE NewGuard
  BY <1>3 DEF NewGuard, BeginTransaction, ExecuteBegin, ExecBegin, engine
<1>4. CASE \E i \in DOMAIN guards : GuardCommit(i) \/ GuardRollback(i)
  BY <1>2, <1>4 DEF GuardCommit, GuardRollback
<1>5. CASE DestroyGuard
  BY <1>2, <1>5 DEF DestroyGuard, backend, engine
<1>6. CASE (\E w \in Fresh : WriteOK(w)) \/ StatementWithoutEffect
  BY <1>1, <1>6 DEF WriteOK, Write, StatementWithoutEffect, Read, WriteRejected,
                    Fault, engine
<1>7. CASE CloseDatabase
  BY <1>7 DEF CloseDatabase, DestroyBackend, CloseHandle, RollbackAll, ExecuteRollback,
              ExecRollback, backend, engine
<1>8. CASE OtherProcess
  BY <1>8 DEF OtherProcess, OtherAcquires, OtherReleases, OtherCommits
<1>9. CASE ReopenDatabase \/ UNCHANGED vars
  BY <1>9 DEF ReopenDatabase, vars, backend, engine
<1> QED
  BY <1>3, <1>4, <1>5, <1>6, <1>7, <1>8, <1>9 DEF Next

\* After a COMMIT was refused and the next BEGIN failed, nothing the
\* connection does reaches the disk any more until it is closed (db.cc:85-90).
THEOREM WedgedNeverCommitsAlways == Spec => WedgedNeverCommits
<1>1. Types /\ DepthInv /\ ScopeInv /\ [Next]_vars
        => [~closed /\ Leaked = 1 /\ other' = other /\ faults' = 0
              => disk' = disk]_vars
  BY WedgedStep
<1> QED
  BY <1>1, TypesHold, InitInvs, LocksStep, AccountStep, DepthStep, ScopeStep, PTL
  DEF Spec, WedgedNeverCommits

----------------------------------------------------------------------------
\* OrphanOnlyAfterRefusedCommit is inductive as it stands.

\* No call of the Backend brings the depth down to zero and leaves an SQLite
\* transaction open, but a COMMIT that was refused.
LEMMA OrphanCalls ==
    ASSUME Types, OrphanOnlyAfterRefusedCommit,
           \/ \E result : \/ BeginTransaction(result) \/ CommitTransaction(result)
                          \/ RollbackTransaction(result)
           \/ RollbackAll \/ DestroyBackend \/ UNCHANGED backend
    PROVE  OrphanOnlyAfterRefusedCommit'
<1> USE DEF OrphanOnlyAfterRefusedCommit
<1>0. transactionDepth \in Int
  BY DEF Types
<1>1. CASE \E result : BeginTransaction(result)
  <2>1. /\ transactionDepth' = transactionDepth + 1
        /\ transactionDepth # 0 => UNCHANGED engine
    BY Zenon, <1>1 DEF BeginTransaction
  <2>2. transactionDepth' <= 0 => transactionDepth <= 0 /\ transactionDepth # 0
    BY <1>0, <2>1
  <2>3. transactionDepth # 0 => sqlTx' = sqlTx /\ lock' = lock
    BY <2>1 DEF engine
  <2> QED
    BY Zenon, <2>2, <2>3
<1>e. ASSUME NEW rc, ExecCommit(rc) \/ ExecRollback(rc)
      PROVE  sqlTx' => lock' = "pending"
  <2>1. CASE ExecCommit(rc)
    BY Zenon, <2>1 DEF ExecCommit, Fault, Abandon, engine
  <2>2. CASE ExecRollback(rc)
    BY Zenon, <2>2 DEF ExecRollback, Abandon, engine
  <2> QED
    BY <1>e, <2>1, <2>2
<1>2. CASE \E result : CommitTransaction(result) \/ RollbackTransaction(result)
  <2>1. /\ transactionDepth' = transactionDepth - 1
        /\ \/ transactionDepth # 1 /\ UNCHANGED engine
           \/ \E rc : ExecCommit(rc) \/ ExecRollback(rc)
    BY Zenon, <1>2 DEF CommitTransaction, RollbackTransaction, ExecuteCommit,
                       ExecuteRollback
  <2>2. CASE \E rc : ExecCommit(rc) \/ ExecRollback(rc)
    BY Zenon, <1>e, <2>2
  <2>3. CASE transactionDepth # 1 /\ UNCHANGED engine
    <3>1. transactionDepth' <= 0 => transactionDepth <= 0
      BY <1>0, <2>1, <2>3
    <3>2. sqlTx' = sqlTx /\ lock' = lock
      BY <2>3 DEF engine
    <3> QED
      BY Zenon, <3>1, <3>2
  <2> QED
    BY <2>1, <2>2, <2>3
<1>3. CASE RollbackAll
  BY <1>3, <1>e DEF RollbackAll, ExecuteRollback, backend, engine
<1>4. CASE DestroyBackend
  BY Zenon, <1>4 DEF DestroyBackend, CloseHandle, Abandon
<1>5. CASE UNCHANGED backend
  BY <1>5 DEF backend, engine
<1> QED
  BY <1>1, <1>2, <1>3, <1>4, <1>5

\* Nor does any other step.
LEMMA OrphanStep ==
    Types /\ OrphanOnlyAfterRefusedCommit /\ [Next]_vars => OrphanOnlyAfterRefusedCommit'
<1> SUFFICES ASSUME Types, OrphanOnlyAfterRefusedCommit, [Next]_vars
             PROVE  OrphanOnlyAfterRefusedCommit'
  OBVIOUS
<1>1. CASE NewGuard
  BY <1>1, OrphanCalls DEF NewGuard
<1>2. CASE \E i \in DOMAIN guards : GuardCommit(i) \/ GuardRollback(i)
  BY <1>2, OrphanCalls DEF GuardCommit, GuardRollback
<1>3. CASE DestroyGuard
  BY <1>3, OrphanCalls DEF DestroyGuard
<1>4. CASE (\E w \in Fresh : WriteOK(w)) \/ StatementWithoutEffect
  BY <1>4 DEF WriteOK, Write, StatementWithoutEffect, Read, WriteRejected, Fault,
              Abandon, Writing, engine, OrphanOnlyAfterRefusedCommit
<1>5. CASE CloseDatabase \/ ReopenDatabase \/ UNCHANGED vars
  BY <1>5, OrphanCalls DEF CloseDatabase, ReopenDatabase, vars
<1>6. CASE OtherProcess
  BY <1>6 DEF OtherProcess, OtherAcquires, OtherReleases, OtherCommits,
              OrphanOnlyAfterRefusedCommit
<1> QED
  BY <1>1, <1>2, <1>3, <1>4, <1>5, <1>6 DEF Next

\* In every order of guards, closings, faults and locks, an SQLite transaction
\* stays open at depth zero only behind a COMMIT that found a reader
\* (db.cc:98-129, db.hh:57-86).
THEOREM OrphanOnlyAfterRefusedCommitAlways == Spec => []OrphanOnlyAfterRefusedCommit
<1>1. Init => OrphanOnlyAfterRefusedCommit
  BY DEF Init, BackendInit, EngineInit, OrphanOnlyAfterRefusedCommit
<1> QED
  BY <1>1, TypesHold, OrphanStep, PTL DEF Spec

----------------------------------------------------------------------------
\* NoReaderInv: nothing can refuse a COMMIT.

NoReaderAssumption == MaxFaults = 0 /\ "shared" \notin OtherLocks

\* Without readers no COMMIT is refused.
LEMMA NothingRefused ==
    ASSUME NoReaderAssumption, Types
    PROVE  other # "shared" /\ \A rc : ~Fault(rc)
  BY DEF NoReaderAssumption, Types, EngineTypeOK, Fault

\* NoReaderInv outlives the commit or rollback of a guard.
LEMMA NoReaderLeaves ==
    ASSUME NoReaderAssumption, Types, DepthInv, NoReaderInv,
           NEW i \in Live, NEW rolledBack \in BOOLEAN, NEW result,
           \/ CommitTransaction(result) /\ rolledBack = FALSE
           \/ RollbackTransaction(result) /\ rolledBack = TRUE,
           Leaves(i, rolledBack), Live' = Live \ {i}, closed' = closed
    PROVE  NoReaderInv'
<1>0. /\ transactionDepth \in Int /\ Cardinality(Live) \in Nat
      /\ Cardinality(Live') = Cardinality(Live) - 1
      /\ Cardinality(Live) = 1 <=> Live = {i}
      /\ Cardinality(Live) # 0
      /\ transactionDepth' = transactionDepth - 1
      /\ Live' = {} <=> Live = {i}
  BY LiveFinite DEF Types, CommitTransaction, RollbackTransaction
<1>1. CASE transactionDepth # 1
  <2>1. UNCHANGED engine /\ (transactionFailed' => transactionFailed \/ rolledBack)
    BY <1>1 DEF CommitTransaction, RollbackTransaction, Types
  <2>2. CASE closed
    <3>1. ~(transactionDepth > 0) /\ ~(transactionDepth' > 0) /\ scope = {}
      BY <1>0, <2>2 DEF NoReaderInv, DepthInv
    <3>2. scope' = {} /\ acked' = acked
      BY <3>1 DEF Leaves
    <3>3. UNCHANGED <<sqlTx, disk, work, closed>>
      BY <2>1 DEF engine
    <3> QED
      BY <2>2, <3>1, <3>2, <3>3 DEF NoReaderInv, CommittedIsDurable
  <2>3. CASE ~closed
    <3>1. Live # {i} /\ transactionDepth > 1
      BY <1>0, <1>1, <2>3 DEF NoReaderInv
    <3>2. UNCHANGED <<scope, acked>> /\ (doomed \/ rolledBack => doomed')
      BY <3>1 DEF Leaves
    <3> QED
      BY <1>0, <2>1, <2>3, <3>1, <3>2 DEF NoReaderInv, CommittedIsDurable, engine
  <2> QED
    BY <2>2, <2>3
<1>2. CASE transactionDepth = 1
  <2>1. ~closed /\ Live = {i}
    BY <1>0, <1>2 DEF DepthInv, NoReaderInv
  <2>2. scope' = {} /\ sqlTx
    BY <1>2, <2>1 DEF Leaves, NoReaderInv
  <2>3. CASE transactionFailed \/ rolledBack
    <3>1. work' = disk /\ disk' = disk /\ sqlTx' = FALSE
      BY <1>2, <2>2, <2>3
      DEF CommitTransaction, RollbackTransaction, ExecuteRollback, ExecRollback, Abandon
    <3>2. acked' = acked
      BY <1>2, <2>1, <2>3 DEF Leaves, NoReaderInv
    <3> QED
      BY <1>0, <1>2, <2>1, <2>2, <3>1, <3>2 DEF NoReaderInv, CommittedIsDurable
  <2>4. CASE ~transactionFailed /\ ~rolledBack
    <3>1. work' = work /\ disk' = work /\ sqlTx' = FALSE
      BY <1>2, <2>2, <2>4, NothingRefused
      DEF CommitTransaction, ExecuteCommit, ExecCommit
    <3>2. acked' \subseteq acked \cup scope
      BY DEF Leaves
    <3> QED
      BY <1>0, <1>2, <2>1, <2>2, <3>1, <3>2 DEF NoReaderInv, CommittedIsDurable
  <2> QED
    BY <2>3, <2>4
<1> QED
  BY <1>1, <1>2

\* NoReaderInv outlives every step.
LEMMA NoReaderStep ==
    ASSUME NoReaderAssumption
    PROVE  Types /\ LockInv /\ DepthInv /\ NoReaderInv /\ [Next]_vars => NoReaderInv'
<1> SUFFICES ASSUME Types, LockInv, DepthInv, NoReaderInv, [Next]_vars
             PROVE  NoReaderInv'
  OBVIOUS
<1>0. /\ guards \in Seq(Guard) /\ Len(guards) \in Nat
      /\ transactionDepth \in Int /\ Cardinality(Live) \in Nat
      /\ Cardinality(Live) = 0 <=> Live = {}
      /\ \A rc : ~Fault(rc)
  BY LiveFinite, NothingRefused DEF Types
<1>1. CASE NewGuard
  <2>1. PICK result \in ResultCode :
           /\ BeginTransaction(result)
           /\ guards' = Append(guards, [valid    |-> ~ResultIsError(result),
                                        commited |-> FALSE])
    BY <1>1 DEF NewGuard
  <2>2. (~ResultIsError(result)) \in BOOLEAN
    OBVIOUS
  <2>3. transactionDepth = Cardinality(Live) /\ ~closed
    BY <1>1 DEF NewGuard, NoReaderInv
  <2>4. /\ ~ResultIsError(result)
        /\ sqlTx' = TRUE \/ (sqlTx' = sqlTx /\ transactionDepth > 0)
        /\ transactionDepth > 0 => transactionFailed' = transactionFailed
        /\ transactionDepth = 0 => transactionFailed' = FALSE
    <3>1. CASE transactionDepth = 0
      <4>1. ~sqlTx
        BY <3>1 DEF NoReaderInv
      <4>2. result = "OK" /\ sqlTx' = TRUE /\ transactionFailed' = FALSE
        BY <2>1, <3>1, <4>1, Translation DEF BeginTransaction, ExecuteBegin, ExecBegin
      <4> QED
        BY <3>1, <4>2 DEF ResultIsError, Errors
    <3>2. CASE transactionDepth # 0
      BY <1>0, <2>1, <2>3, <3>2 DEF BeginTransaction, ResultIsError, Errors, engine
    <3> QED
      BY <3>1, <3>2
  <2>5. /\ UNCHANGED <<closed, scope, doomed, acked, disk, work>>
        /\ transactionDepth' = transactionDepth + 1
        /\ Cardinality(Live') = Cardinality(Live) + 1
    BY <1>0, <1>1, <2>1, <2>2, <2>4, LiveAfterNew
    DEF NewGuard, BeginTransaction, ExecuteBegin, ExecBegin, history, engine
  <2>6. Cardinality(Live') # 0
    BY <1>0, <2>5
  <2>7. Live' # {}
    BY <2>6, FS_EmptySet
  <2> QED
    BY <1>0, <2>3, <2>4, <2>5, <2>7 DEF NoReaderInv, CommittedIsDurable
<1>2. ASSUME NEW i \in DOMAIN guards, GuardCommit(i) \/ GuardRollback(i)
      PROVE  NoReaderInv'
  <2>1. i \in Live /\ closed' = closed /\ Live' = Live \ {i}
    BY <1>0, <1>2, LiveAfterLeave DEF GuardCommit, GuardRollback
  <2>2. PICK result : \/ CommitTransaction(result) /\ Leaves(i, FALSE)
                      \/ RollbackTransaction(result) /\ Leaves(i, TRUE)
    BY <1>2 DEF GuardCommit, GuardRollback
  <2> QED
    BY <2>1, <2>2, NoReaderLeaves
<1>3. CASE DestroyGuard
  <2>1. Live' = Live \ {Len(guards)} /\ closed' = closed
    BY <1>0, <1>3, LiveAfterDestroy DEF DestroyGuard
  <2>2. CASE closed /\ Len(guards) = 1
    <3>1. /\ disk' = disk /\ work' = disk /\ sqlTx' = FALSE /\ transactionDepth' = 0
          /\ scope' = {} /\ acked' = acked
      BY <1>3, <2>2 DEF DestroyGuard, DestroyBackend, CloseHandle, Abandon, Leaves,
                        history, NoReaderInv
    <3> QED
      BY <2>1, <2>2, <3>1 DEF NoReaderInv, CommittedIsDurable
  <2>3. CASE ~(closed /\ Len(guards) = 1) /\ Len(guards) \in Live
    <3>1. PICK result : RollbackTransaction(result) /\ Leaves(Len(guards), TRUE)
      BY <1>3, <2>3 DEF DestroyGuard
    <3> QED
      BY <2>1, <2>3, <3>1, NoReaderLeaves
  <2>4. CASE ~(closed /\ Len(guards) = 1) /\ Len(guards) \notin Live
    <3>1. UNCHANGED <<backend, history, closed>> /\ Live' = Live
      BY <1>3, <2>1, <2>4 DEF DestroyGuard
    <3> QED
      BY <3>1 DEF NoReaderInv, CommittedIsDurable, backend, engine, history
  <2> QED
    BY <2>2, <2>3, <2>4
<1>4. ASSUME NEW w \in Fresh, WriteOK(w)
      PROVE  NoReaderInv'
  <2>1. /\ ~closed /\ Live' = Live
        /\ UNCHANGED <<closed, transactionDepth, transactionFailed, sqlTx, doomed>>
        /\ work' = work \cup {w}
        /\ disk' = IF sqlTx THEN disk ELSE work \cup {w}
        /\ scope' = IF Live = {} THEN scope ELSE scope \cup {w}
        /\ acked' = IF Live = {} THEN acked \cup {w} ELSE acked
    BY <1>4, LiveUnchanged DEF WriteOK, Write, SQLITE_OK, SQLITE_BUSY
  <2>2. sqlTx <=> Live # {}
    BY <1>0, <2>1 DEF NoReaderInv
  <2> QED
    BY <2>1, <2>2 DEF NoReaderInv, CommittedIsDurable
<1>5. CASE StatementWithoutEffect
  <2>1. /\ Live' = Live
        /\ UNCHANGED <<closed, transactionDepth, transactionFailed, sqlTx,
                       disk, work, scope, doomed, acked>>
    BY <1>0, <1>5, LiveUnchanged
    DEF StatementWithoutEffect, Read, WriteRejected, history, engine
  <2> QED
    BY <2>1 DEF NoReaderInv, CommittedIsDurable
<1>6. CASE CloseDatabase
  <2>1. /\ closed' = TRUE /\ Live' = Live /\ disk' = disk /\ scope' = {}
        /\ acked' = acked
    BY <1>6, LiveUnchanged
    DEF CloseDatabase, DestroyBackend, CloseHandle, RollbackAll, ExecuteRollback,
        ExecRollback, backend, engine
  <2>2. /\ ~sqlTx' /\ transactionDepth' <= 0 /\ transactionDepth' \in Int
        /\ work' \in {work, disk}
    BY <1>0, <1>6 DEF CloseDatabase, DestroyBackend, CloseHandle, Abandon, RollbackAll,
       IsInTransaction, ExecuteRollback, ExecRollback, backend, engine, NoReaderInv
  <2> QED
    BY <1>0, <2>1, <2>2 DEF NoReaderInv, CommittedIsDurable, DepthInv
<1>7. CASE ReopenDatabase
  <2>1. /\ Live' = Live /\ Live = {} /\ transactionDepth = 0
        /\ UNCHANGED <<backend, history>>
    BY <1>7, LiveUnchanged DEF ReopenDatabase, DepthInv, Live
  <2> QED
    BY <1>0, <2>1 DEF NoReaderInv, CommittedIsDurable, backend, engine, history
<1>8. CASE OtherProcess
  <2>1. Live' = Live /\ UNCHANGED <<closed, transactionDepth, transactionFailed,
                                    sqlTx, scope, doomed>>
    BY <1>8, LiveUnchanged
    DEF OtherProcess, OtherAcquires, OtherReleases, OtherCommits
  <2>2. \/ UNCHANGED <<disk, work, acked>>
        \/ \E w : /\ disk' = disk \cup {w} /\ work' = disk \cup {w}
                  /\ acked' = acked \cup {w} /\ lock = "none"
    BY <1>8 DEF OtherProcess, OtherAcquires, OtherReleases, OtherCommits, LockInv
  <2>3. lock = "none" => work = disk
    BY DEF LockInv, Writing
  <2> QED
    BY <2>1, <2>2, <2>3 DEF NoReaderInv, CommittedIsDurable
<1>9. CASE UNCHANGED vars
  BY <1>9, LiveUnchanged
  DEF vars, backend, engine, history, NoReaderInv, CommittedIsDurable
<1> QED
  BY <1>1, <1>2, <1>3, <1>4, <1>5, <1>6, <1>7, <1>8, <1>9 DEF Next

\* NoReaderInv holds initially.
LEMMA NoReaderInit == Init => NoReaderInv
<1> SUFFICES ASSUME Init PROVE NoReaderInv
  OBVIOUS
<1>1. Cardinality(Live) = 0
  BY FS_EmptySet DEF Init, Live
<1> QED
  BY <1>1 DEF Init, BackendInit, EngineInit, NoReaderInv, CommittedIsDurable

\* When no reader can be in the way of a COMMIT and the disk has room, what
\* the application was told is done is on disk, by whichever guards in
\* whichever order it was committed (db.hh:67-75, db.cc:98-116).
THEOREM DurableWithoutReaders ==
    ASSUME NoReaderAssumption
    PROVE  Spec => []CommittedIsDurable
<1>1. NoReaderInv => CommittedIsDurable
  BY DEF NoReaderInv
<1> QED
  BY <1>1, TypesHold, InitInvs, NoReaderInit, LocksStep, DepthStep, NoReaderStep, PTL
  DEF Spec

----------------------------------------------------------------------------
\* Refinement: every step of the guards is a step of AtomicScopes or none.

RefInv == Types /\ LockInv /\ AccountInv /\ DepthInv /\ NoReaderInv

\* A guard that leaves is a step of the abstract scopes.
LEMMA RefineLeaves ==
    ASSUME NoReaderAssumption, RefInv,
           NEW i \in Live, NEW rolledBack \in BOOLEAN, NEW result,
           \/ CommitTransaction(result) /\ rolledBack = FALSE
           \/ RollbackTransaction(result) /\ rolledBack = TRUE,
           closed' = closed
    PROVE  [Abstract!Next]_(Abstract!vars)
<1> USE DEF RefInv
<1>0. /\ transactionDepth \in Int /\ Cardinality(Live) \in Nat
      /\ Cardinality(Live) # 0
      /\ transactionDepth' = transactionDepth - 1
  BY LiveFinite DEF Types, CommitTransaction, RollbackTransaction
<1>1. CASE closed
  <2>1. transactionDepth # 1 /\ closed'
    BY <1>0, <1>1 DEF DepthInv
  <2>2. UNCHANGED <<disk, work>>
    BY <2>1 DEF CommitTransaction, RollbackTransaction, engine
  <2> QED
    BY <1>1, <2>1, <2>2 DEF Abstract!vars
<1>2. CASE ~closed /\ transactionDepth # 1
  <2>1. transactionDepth > 1 /\ ~closed'
    BY <1>0, <1>2 DEF NoReaderInv
  <2>2. UNCHANGED <<disk, work>>
    BY <1>2 DEF CommitTransaction, RollbackTransaction, engine
  <2>3. CASE rolledBack
    <3>1. transactionFailed' = TRUE
      BY <1>2, <2>3 DEF RollbackTransaction
    <3>2. Abstract!LeaveNested(FALSE)
      BY <1>0, <1>2, <2>1, <2>2, <3>1 DEF Abstract!LeaveNested
    <3> QED
      BY <3>2 DEF Abstract!Next
  <2>4. CASE ~rolledBack
    <3>1. transactionFailed' = transactionFailed
      BY <2>4 DEF CommitTransaction
    <3>2. Abstract!LeaveNested(TRUE)
      BY <1>0, <1>2, <2>1, <2>2, <3>1 DEF Abstract!LeaveNested
    <3> QED
      BY <3>2 DEF Abstract!Next
  <2> QED
    BY <2>3, <2>4
<1>3. CASE ~closed /\ transactionDepth = 1
  <2>1. sqlTx /\ transactionDepth' = 0 /\ disk \subseteq work
    BY <1>0, <1>3 DEF NoReaderInv
  <2>2. CASE transactionFailed \/ rolledBack
    <3>1. work' = disk /\ disk' = disk
      BY <1>3, <2>1, <2>2
      DEF CommitTransaction, RollbackTransaction, ExecuteRollback, ExecRollback, Abandon
    <3>2. CASE transactionFailed
      <4>1. Abstract!LeaveOutermost(TRUE)
        BY <1>3, <2>1, <3>1, <3>2 DEF Abstract!LeaveOutermost
      <4> QED
        BY <4>1 DEF Abstract!Next
    <3>3. CASE ~transactionFailed
      <4>1. Abstract!LeaveOutermost(FALSE)
        BY <1>3, <2>1, <3>1, <3>3 DEF Abstract!LeaveOutermost
      <4> QED
        BY <4>1 DEF Abstract!Next
    <3> QED
      BY <3>2, <3>3
  <2>3. CASE ~transactionFailed /\ ~rolledBack
    <3>1. work' = work /\ disk' = work
      BY <1>3, <2>1, <2>3, NothingRefused
      DEF CommitTransaction, ExecuteCommit, ExecCommit
    <3>2. Abstract!LeaveOutermost(TRUE)
      BY <1>3, <2>1, <2>3, <3>1 DEF Abstract!LeaveOutermost
    <3> QED
      BY <3>2 DEF Abstract!Next
  <2> QED
    BY <2>2, <2>3
<1> QED
  BY <1>1, <1>2, <1>3

\* Every step is one of the abstract scopes, or stutters there.
LEMMA RefineStep ==
    ASSUME NoReaderAssumption
    PROVE  RefInv /\ [Next]_vars => [Abstract!Next]_(Abstract!vars)
<1> SUFFICES ASSUME RefInv, [Next]_vars PROVE [Abstract!Next]_(Abstract!vars)
  OBVIOUS
<1> USE DEF RefInv
<1>0. /\ transactionDepth \in Int /\ \A rc : ~Fault(rc)
      /\ guards \in Seq(Guard) /\ Cardinality(Live) \in Nat
      /\ Cardinality(Live) = 0 <=> Live = {}
  BY LiveFinite, NothingRefused DEF Types
<1>1. CASE NewGuard
  <2>1. PICK result : BeginTransaction(result)
    BY <1>1 DEF NewGuard
  <2>2. /\ ~closed /\ ~closed' /\ transactionDepth >= 0
        /\ transactionDepth' = transactionDepth + 1
    BY <1>0, <1>1, <2>1 DEF NewGuard, BeginTransaction, NoReaderInv
  <2>3. UNCHANGED <<disk, work>>
    BY <2>1 DEF BeginTransaction, ExecuteBegin, ExecBegin, engine
  <2>4. \/ transactionDepth = 0 /\ transactionFailed' = FALSE
        \/ transactionDepth > 0 /\ transactionFailed' = transactionFailed
    BY <1>0, <2>1, <2>2 DEF BeginTransaction
  <2>5. Abstract!Enter
    BY <1>0, <2>2, <2>3, <2>4 DEF Abstract!Enter
  <2> QED
    BY <2>5 DEF Abstract!Next
<1>2. ASSUME NEW i \in DOMAIN guards, GuardCommit(i) \/ GuardRollback(i)
      PROVE  [Abstract!Next]_(Abstract!vars)
  <2>1. /\ i \in Live /\ closed' = closed
        /\ \E result : CommitTransaction(result) \/ RollbackTransaction(result)
    BY <1>2 DEF GuardCommit, GuardRollback
  <2> QED
    BY <2>1, RefineLeaves
<1>3. CASE DestroyGuard
  <2>1. closed' = closed
    BY <1>3 DEF DestroyGuard
  <2>2. CASE closed /\ Len(guards) = 1
    <3>1. disk' = disk /\ work' = disk
      BY <1>3, <2>2 DEF DestroyGuard, DestroyBackend, CloseHandle, Abandon
    <3>2. work = disk
      BY <1>0, <2>2 DEF NoReaderInv, DepthInv, LockInv, Writing
    <3> QED
      BY <2>1, <2>2, <3>1, <3>2 DEF Abstract!vars
  <2>3. CASE ~(closed /\ Len(guards) = 1) /\ Len(guards) \in Live
    <3>1. \E result : RollbackTransaction(result)
      BY <1>3, <2>3 DEF DestroyGuard
    <3> QED
      BY <2>1, <2>3, <3>1, RefineLeaves
  <2>4. CASE ~(closed /\ Len(guards) = 1) /\ Len(guards) \notin Live
    <3>1. UNCHANGED <<disk, work, transactionDepth, transactionFailed, closed>>
      BY <1>3, <2>1, <2>4 DEF DestroyGuard, backend, engine
    <3> QED
      BY <3>1 DEF Abstract!vars
  <2> QED
    BY <2>2, <2>3, <2>4
<1>4. ASSUME NEW w \in Fresh, WriteOK(w)
      PROVE  [Abstract!Next]_(Abstract!vars)
  <2>1. /\ ~closed /\ ~closed'
        /\ UNCHANGED <<transactionDepth, transactionFailed>>
        /\ work' = work \cup {w}
        /\ disk' = IF sqlTx THEN disk ELSE work \cup {w}
    BY <1>4 DEF WriteOK, Write, SQLITE_OK, SQLITE_BUSY
  <2>2. /\ w \in Writes /\ w \notin disk
        /\ transactionDepth >= 0 /\ (sqlTx <=> transactionDepth # 0)
    BY <1>0, <2>1 DEF Fresh, AccountInv, NoReaderInv
  <2>3. ~sqlTx => work = disk
    BY DEF LockInv, Writing
  <2>4. Abstract!Write(w)
    <3>1. CASE sqlTx
      <4>1. work' \ disk' = (work \ disk) \cup {w} /\ disk' = disk
        BY <2>1, <2>2, <3>1
      <4> QED
        BY <2>1, <2>2, <3>1, <4>1 DEF Abstract!Write
    <3>2. CASE ~sqlTx
      BY <2>1, <2>2, <2>3, <3>2 DEF Abstract!Write
    <3> QED
      BY <3>1, <3>2
  <2> QED
    BY <2>2, <2>4 DEF Abstract!Next
<1>5. CASE StatementWithoutEffect
  BY <1>0, <1>5 DEF StatementWithoutEffect, Read, WriteRejected, engine, Abstract!vars
<1>6. CASE CloseDatabase
  <2>1. closed' = TRUE /\ disk' = disk
    BY <1>6
    DEF CloseDatabase, DestroyBackend, CloseHandle, RollbackAll, ExecuteRollback,
        ExecRollback, backend, engine
  <2>2. work' = disk
    <3>1. CASE transactionDepth > 0 \/ guards = <<>>
      BY <1>6, <3>1
      DEF CloseDatabase, DestroyBackend, CloseHandle, RollbackAll, IsInTransaction,
          ExecuteRollback, ExecRollback, Abandon, NoReaderInv, backend, engine
    <3>2. CASE ~(transactionDepth > 0) /\ guards # <<>>
      <4>1. work = disk
        BY <3>2 DEF NoReaderInv, LockInv, Writing
      <4> QED
        BY <1>6, <3>2, <4>1
        DEF CloseDatabase, RollbackAll, IsInTransaction, backend, engine
    <3> QED
      BY <3>1, <3>2
  <2>3. Abstract!Kill
    BY <2>1, <2>2 DEF Abstract!Kill
  <2> QED
    BY <2>3 DEF Abstract!Next
<1>7. CASE ReopenDatabase
  <2>1. transactionDepth = 0 /\ UNCHANGED <<disk, work, transactionDepth>>
    BY <1>7 DEF ReopenDatabase, DepthInv, backend, engine
  <2> QED
    BY <1>7, <2>1 DEF ReopenDatabase, Abstract!vars
<1>8. CASE OtherProcess
  <2>1. UNCHANGED <<transactionDepth, transactionFailed, closed>>
    BY <1>8 DEF OtherProcess
  <2>2. CASE UNCHANGED <<disk, work>>
    BY <2>1, <2>2 DEF Abstract!vars
  <2>3. CASE \E w \in Fresh : OtherCommits(disk \cup {w})
    <3>1. PICK w \in Fresh : OtherCommits(disk \cup {w})
      BY <2>3
    <3>2. /\ w \in Writes /\ work = disk
          /\ disk' = disk \cup {w} /\ work' = disk \cup {w}
      BY <3>1 DEF OtherCommits, LockInv, Writing, Fresh
    <3>3. Abstract!External(w)
      BY <2>1, <3>2 DEF Abstract!External
    <3> QED
      BY <3>2, <3>3 DEF Abstract!Next
  <2> QED
    BY <1>8, <2>2, <2>3 DEF OtherProcess, OtherAcquires, OtherReleases
<1>9. CASE UNCHANGED vars
  BY <1>9 DEF vars, backend, engine, Abstract!vars
<1> QED
  BY <1>1, <1>2, <1>3, <1>4, <1>5, <1>6, <1>7, <1>8, <1>9 DEF Next

\* The initial states are initial states of the abstract scopes.
LEMMA RefineInit == Init => Abstract!Init
  BY DEF Init, BackendInit, EngineInit, Abstract!Init

\* Nested guards over SQLite's flat transactions implement the promise of
\* IBackend (db.hh:28-39): all or nothing, for the outermost scope, as long
\* as no reader can be in the way of a COMMIT and the disk has room.
THEOREM Refinement ==
    ASSUME NoReaderAssumption
    PROVE  Spec => ImplementsAtomicScopes
<1>1. RefInv /\ [Next]_vars => RefInv'
  BY TypeStep, LocksStep, AccountStep, DepthStep, NoReaderStep DEF RefInv
<1>2. Init => RefInv
  BY TypeInit, InitInvs, NoReaderInit DEF RefInv
<1> QED
  BY <1>1, <1>2, RefineInit, RefineStep, PTL DEF Spec, ImplementsAtomicScopes, Abstract!Spec
=============================================================================
