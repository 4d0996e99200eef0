------------------------------- MODULE Backend -------------------------------
(***************************************************************************)
(* DB::Sqlite3::Backend (db/sqlite3/db.cc): nested transactions counted    *)
(* over SQLite's flat ones.                                                *)
(*                                                                         *)
(* An operator F(result) is a call that returns the ResultCode result.     *)
(***************************************************************************)
EXTENDS Sqlite3

VARIABLES transactionDepth,    \* m_TransactionDepth
          transactionFailed    \* m_TransactionFailed

backend == <<engine, transactionDepth, transactionFailed>>

BackendInit(contents) ==
    /\ EngineInit(contents)
    /\ transactionDepth = 0
    /\ transactionFailed = FALSE

\* ExecuteSQL of the three control statements.
ExecuteBegin(result) ==
    \E rc \in SqliteCodes : ExecBegin(rc) /\ result = Sqlite3ToResult(rc)
ExecuteCommit(result) ==
    \E rc \in SqliteCodes : ExecCommit(rc) /\ result = Sqlite3ToResult(rc)
ExecuteRollback(result) ==
    \E rc \in SqliteCodes : ExecRollback(rc) /\ result = Sqlite3ToResult(rc)

IsInTransaction == transactionDepth > 0

\* Mutant: m_TransactionFailed is never reset.
BeginTransactionKeepsFailed(result) ==
    /\ transactionDepth' = transactionDepth + 1
    /\ UNCHANGED transactionFailed
    /\ IF transactionDepth = 0 THEN ExecuteBegin(result)
                               ELSE result = "OK" /\ UNCHANGED engine

\* The depth counts the call even when BEGIN fails.
BeginTransaction(result) ==
    /\ transactionDepth' = transactionDepth + 1
    /\ \/ /\ transactionDepth = 0
          /\ transactionFailed' = FALSE
          /\ ExecuteBegin(result)
       \/ /\ transactionDepth # 0
          /\ result = "OK"
          /\ UNCHANGED <<engine, transactionFailed>>

\* Mutant: COMMIT, failed or not.
CommitTransactionIgnoresFailed(result) ==
    /\ transactionDepth' = transactionDepth - 1
    /\ UNCHANGED transactionFailed
    /\ IF transactionDepth = 1 THEN ExecuteCommit(result)
                               ELSE result = "OK" /\ UNCHANGED engine

\* Mutant: a failed transaction is left without ROLLBACK.
CommitTransactionForgetsRollback(result) ==
    /\ transactionDepth' = transactionDepth - 1
    /\ UNCHANGED transactionFailed
    /\ IF transactionDepth = 1 /\ ~transactionFailed
       THEN ExecuteCommit(result)
       ELSE result = "OK" /\ UNCHANGED engine

\* Mutant: COMMIT at every level.
CommitTransactionAtEveryLevel(result) ==
    /\ transactionDepth' = transactionDepth - 1
    /\ UNCHANGED transactionFailed
    /\ IF transactionFailed THEN ExecuteRollback(result) ELSE ExecuteCommit(result)

CommitTransaction(result) ==
    /\ transactionDepth' = transactionDepth - 1
    /\ UNCHANGED transactionFailed
    /\ \/ /\ transactionDepth = 1
          /\ IF transactionFailed THEN ExecuteRollback(result)
                                  ELSE ExecuteCommit(result)
       \/ /\ transactionDepth # 1
          /\ result = "OK"
          /\ UNCHANGED engine

\* Mutant: a nested rollback stays on its level.
RollbackTransactionKeepsLevel(result) ==
    \/ /\ transactionDepth = 1
       /\ transactionDepth' = 0
       /\ ExecuteRollback(result)
       /\ UNCHANGED transactionFailed
    \/ /\ transactionDepth # 1
       /\ result = "OK"
       /\ transactionFailed' = TRUE
       /\ UNCHANGED <<engine, transactionDepth>>

RollbackTransaction(result) ==
    /\ transactionDepth' = transactionDepth - 1
    /\ \/ /\ transactionDepth = 1
          /\ ExecuteRollback(result)
          /\ UNCHANGED transactionFailed
       \/ /\ transactionDepth # 1
          /\ result = "OK"
          /\ transactionFailed' = TRUE
          /\ UNCHANGED engine

\* Booru::CloseDatabase: RollbackTransaction while IsInTransaction.  Every
\* round but the last marks the transaction failed; the last one rolls back.
RollbackAll ==
    \/ /\ IsInTransaction
       /\ transactionDepth' = 0
       /\ transactionFailed' = (transactionFailed \/ transactionDepth > 1)
       /\ \E result \in ResultCode : ExecuteRollback(result)
    \/ /\ ~IsInTransaction
       /\ UNCHANGED backend

\* ~Backend, and the Backend made by the next OpenDatabase: the members live
\* and die with the handle.
DestroyBackend ==
    /\ CloseHandle
    /\ transactionDepth' = 0
    /\ transactionFailed' = FALSE
==============================================================================
