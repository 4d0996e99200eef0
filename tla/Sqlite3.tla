------------------------------- MODULE Sqlite3 -------------------------------
(***************************************************************************)
(* The SQLite engine as db/sqlite3/db.cc uses it: one connection of this   *)
(* process to one database file in rollback-journal mode, and the locks    *)
(* one other process may hold on the same file.  The engine is not part of *)
(* the repository; each operator is what a call from db.cc can observe.    *)
(*                                                                         *)
(* An operator F(.., rc) is a step of the engine that returns rc.          *)
(***************************************************************************)
EXTENDS Results

CONSTANTS OtherLocks,   \* kinds of lock the other process may take
          MaxFaults     \* bound on I/O faults (disk full) over a behaviour

ASSUME OtherLocksAssumption == OtherLocks \subseteq {"shared", "reserved", "exclusive"}
ASSUME MaxFaultsAssumption  == MaxFaults \in Nat

VARIABLES
    disk,    \* what is committed: what every other reader sees
    work,    \* what a statement of this connection sees
    sqlTx,   \* this connection is inside BEGIN .. COMMIT (autocommit is off)
    lock,    \* the lock this connection holds on the file
    other,   \* the lock the other process holds on it
    faults   \* I/O faults so far

engine == <<disk, work, sqlTx, lock, other, faults>>

Writing == lock \in {"reserved", "pending"}

EngineTypeOK ==
    /\ sqlTx \in BOOLEAN
    /\ lock \in {"none", "shared", "reserved", "pending"}
    /\ other \in {"none"} \cup OtherLocks
    /\ faults \in 0..MaxFaults

EngineInit(contents) ==
    /\ disk = contents
    /\ work = contents
    /\ sqlTx = FALSE
    /\ lock = "none"
    /\ other = "none"
    /\ faults = 0

----------------------------------------------------------------------------
\* Statements of this connection

\* A SELECT: refused while the other process holds the exclusive lock,
\* unless this connection holds a lock itself (then nobody is exclusive).
Read(rc) ==
    \/ /\ rc = SQLITE_BUSY
       /\ lock = "none" /\ other = "exclusive"
       /\ UNCHANGED engine
    \/ /\ rc = SQLITE_OK
       /\ ~ (lock = "none" /\ other = "exclusive")
       /\ lock' = IF sqlTx /\ lock = "none" THEN "shared" ELSE lock
       /\ UNCHANGED <<disk, work, sqlTx, other, faults>>

\* An INSERT, UPDATE, DELETE or DROP needs the reserved lock, and when it is
\* a transaction of its own it must also get past the other's readers.
WriteRefused ==
    ~Writing /\ (other \in {"reserved", "exclusive"} \/ (~sqlTx /\ other = "shared"))

\* The statement turns the contents into db.
Write(db, rc) ==
    \/ /\ rc = SQLITE_BUSY
       /\ WriteRefused
       /\ UNCHANGED engine
    \/ /\ rc = SQLITE_OK
       /\ ~WriteRefused
       /\ work' = db
       /\ disk' = IF sqlTx THEN disk ELSE db
       /\ lock' = IF sqlTx /\ ~Writing THEN "reserved" ELSE lock
       /\ UNCHANGED <<sqlTx, other, faults>>

\* The statement violates a constraint: it has no effect, but inside a
\* transaction it took the reserved lock.
WriteRejected(violation, rc) ==
    \/ /\ rc = SQLITE_BUSY
       /\ WriteRefused
       /\ UNCHANGED engine
    \/ /\ rc = violation
       /\ ~WriteRefused
       /\ lock' = IF sqlTx /\ ~Writing THEN "reserved" ELSE lock
       /\ UNCHANGED <<disk, work, sqlTx, other, faults>>

Abandon ==
    /\ work' = disk
    /\ sqlTx' = FALSE
    /\ lock' = "none"

\* The disk is full: SQLite rolls the whole transaction back by itself.
Fault(rc) ==
    /\ rc = SQLITE_FULL
    /\ faults < MaxFaults
    /\ faults' = faults + 1
    /\ Abandon
    /\ UNCHANGED <<disk, other>>

----------------------------------------------------------------------------
\* Transaction control

ExecBegin(rc) ==
    \/ /\ rc = SQLITE_ERROR       \* cannot start a transaction within a transaction
       /\ sqlTx
       /\ UNCHANGED engine
    \/ /\ rc = SQLITE_OK
       /\ ~sqlTx
       /\ sqlTx' = TRUE           \* deferred: no lock yet
       /\ UNCHANGED <<disk, work, lock, other, faults>>

\* A writer needs every reader gone.  When it is refused it keeps the
\* transaction open, and the pending lock keeps new readers out.
ExecCommit(rc) ==
    \/ /\ rc = SQLITE_ERROR       \* no transaction is active
       /\ ~sqlTx
       /\ UNCHANGED engine
    \/ /\ rc = SQLITE_BUSY
       /\ sqlTx /\ Writing /\ other = "shared"
       /\ lock' = "pending"
       /\ UNCHANGED <<disk, work, sqlTx, other, faults>>
    \/ /\ rc = SQLITE_OK
       /\ sqlTx /\ ~(Writing /\ other = "shared")
       /\ disk' = work
       /\ sqlTx' = FALSE
       /\ lock' = "none"
       /\ UNCHANGED <<work, other, faults>>
    \/ sqlTx /\ Fault(rc)

ExecRollback(rc) ==
    \/ /\ rc = SQLITE_ERROR       \* no transaction is active
       /\ ~sqlTx
       /\ UNCHANGED engine
    \/ /\ rc = SQLITE_OK
       /\ sqlTx
       /\ Abandon
       /\ UNCHANGED <<disk, other, faults>>

\* sqlite3_close, or the death of the process: an open transaction is lost.
CloseHandle ==
    /\ Abandon
    /\ UNCHANGED <<disk, other, faults>>

----------------------------------------------------------------------------
\* The other process

OtherAcquires ==
    \E wanted \in OtherLocks \ {other} :
        /\ wanted = "shared"    => other = "none" /\ lock # "pending"
        /\ wanted = "reserved"  => other # "exclusive" /\ ~Writing
        /\ wanted = "exclusive" => lock = "none"
        /\ other' = wanted
        /\ UNCHANGED <<disk, work, sqlTx, lock, faults>>

OtherReleases ==
    /\ other # "none"
    /\ other' = "none"
    /\ UNCHANGED <<disk, work, sqlTx, lock, faults>>

\* Its transaction turns the contents into db.
OtherCommits(db) ==
    /\ other = "exclusive"
    /\ other' = "none"
    /\ disk' = db
    /\ work' = db
    /\ UNCHANGED <<sqlTx, lock, faults>>
==============================================================================
