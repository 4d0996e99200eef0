-------------------------- MODULE TransactionGuard --------------------------
(***************************************************************************)
(* An application that nests DB::TransactionGuard objects                  *)
(* (include/booru/db.hh) over one Backend, writes inside and outside them, *)
(* and closes and reopens the database, while another process takes locks  *)
(* on the same file and commits to it.                                     *)
(*                                                                         *)
(* The contents of the database are a set of writes, each made once.       *)
(***************************************************************************)
EXTENDS Backend, Sequences, FiniteSets

CONSTANTS Writes,      \* the writes this process and the other may make
          MaxGuards    \* bound on guards alive at once

ASSUME MaxGuardsAssumption == MaxGuards \in Nat

VARIABLES
    guards,    \* the TransactionGuard objects alive, oldest first
    closed,    \* m_DB is null
    \* History: what the application was told about its writes.
    scope,     \* written since the outermost live guard was made
    doomed,    \* some guard of that scope was rolled back
    undone,    \* writes of scopes that were rolled back
    acked      \* writes reported done, by either process

history == <<scope, doomed, undone, acked>>
vars == <<backend, guards, closed, history>>

Guard == [valid : BOOLEAN, commited : BOOLEAN]

\* Guards whose Commit, Rollback or destructor still does something.
Live == {i \in DOMAIN guards : guards[i].valid /\ ~guards[i].commited}

\* Writes that nobody made yet.
Fresh == Writes \ (scope \cup undone \cup acked)

TypeOK ==
    /\ EngineTypeOK
    /\ disk \subseteq Writes /\ work \subseteq Writes
    /\ transactionDepth \in Int /\ transactionDepth <= MaxGuards + 1
    /\ transactionFailed \in BOOLEAN
    /\ guards \in Seq(Guard) /\ Len(guards) <= MaxGuards
    /\ closed \in BOOLEAN
    /\ scope \subseteq Writes /\ undone \subseteq Writes /\ acked \subseteq Writes
    /\ doomed \in BOOLEAN

Init ==
    /\ BackendInit({})
    /\ guards = <<>>
    /\ closed = FALSE
    /\ scope = {} /\ doomed = FALSE /\ undone = {} /\ acked = {}

----------------------------------------------------------------------------
NewGuard ==
    /\ ~closed /\ Len(guards) < MaxGuards
    /\ \E result \in ResultCode :
        /\ BeginTransaction(result)
        /\ guards' = Append(guards, [valid    |-> ~ResultIsError(result),
                                     commited |-> FALSE])
    /\ UNCHANGED <<closed, history>>

\* History of guard i leaving its scope.
Leaves(i, rolledBack) ==
    IF Live = {i}
    THEN /\ IF doomed \/ rolledBack
            THEN undone' = undone \cup scope /\ UNCHANGED acked
            ELSE acked' = acked \cup scope /\ UNCHANGED undone
         /\ scope' = {}
         /\ doomed' = FALSE
    ELSE /\ doomed' = (doomed \/ rolledBack)
         /\ UNCHANGED <<scope, undone, acked>>

\* The result of CommitTransaction is logged and dropped.
GuardCommit(i) ==
    /\ i \in Live
    /\ \E result \in ResultCode : CommitTransaction(result)
    /\ guards' = [guards EXCEPT ![i].commited = TRUE]
    /\ Leaves(i, FALSE)
    /\ UNCHANGED closed

GuardRollback(i) ==
    /\ i \in Live
    /\ \E result \in ResultCode : RollbackTransaction(result)
    /\ guards' = [guards EXCEPT ![i].commited = TRUE]
    /\ Leaves(i, TRUE)
    /\ UNCHANGED closed

\* The youngest guard goes out of scope.  After CloseDatabase the guards hold
\* the last references to the Backend, which goes with the last of them.
DestroyGuard ==
    /\ guards # <<>>
    /\ guards' = SubSeq(guards, 1, Len(guards) - 1)
    /\ \/ /\ closed /\ Len(guards) = 1
          /\ DestroyBackend
       \/ /\ ~(closed /\ Len(guards) = 1) /\ Len(guards) \in Live
          /\ \E result \in ResultCode : RollbackTransaction(result)
       \/ /\ ~(closed /\ Len(guards) = 1) /\ Len(guards) \notin Live
          /\ UNCHANGED backend
    /\ IF Len(guards) \in Live THEN Leaves(Len(guards), TRUE)
                               ELSE UNCHANGED history
    /\ UNCHANGED closed

\* One writing statement.
WriteOK(w) ==
    /\ ~closed
    /\ Write(work \cup {w}, SQLITE_OK)
    /\ IF Live = {} THEN acked' = acked \cup {w} /\ UNCHANGED scope
                    ELSE scope' = scope \cup {w} /\ UNCHANGED acked
    /\ UNCHANGED <<transactionDepth, transactionFailed, guards, closed, doomed, undone>>

\* A statement that changes no row of this model: a query, or a writing
\* statement that fails.
StatementWithoutEffect ==
    /\ ~closed
    /\ \E rc \in SqliteCodes :
          Read(rc) \/ WriteRejected(SQLITE_CONSTRAINT_UNIQUE, rc) \/ Fault(rc)
    /\ UNCHANGED <<transactionDepth, transactionFailed, guards, closed, history>>

CloseDatabase ==
    /\ ~closed
    /\ closed' = TRUE
    /\ IF guards = <<>> THEN DestroyBackend ELSE RollbackAll
    /\ undone' = undone \cup scope
    /\ scope' = {}
    /\ doomed' = FALSE
    /\ UNCHANGED <<guards, acked>>

\* OpenDatabase of a database that exists; its Backend is a new one.  Guards
\* of the previous connection are gone by then.
ReopenDatabase ==
    /\ closed /\ guards = <<>>
    /\ closed' = FALSE
    /\ UNCHANGED <<backend, guards, history>>

OtherProcess ==
    /\ \/ (OtherAcquires \/ OtherReleases) /\ UNCHANGED acked
       \/ \E w \in Fresh : OtherCommits(disk \cup {w}) /\ acked' = acked \cup {w}
    /\ UNCHANGED <<transactionDepth, transactionFailed, guards, closed,
                   scope, doomed, undone>>

Next ==
    \/ NewGuard
    \/ \E i \in DOMAIN guards : GuardCommit(i) \/ GuardRollback(i)
    \/ DestroyGuard
    \/ \E w \in Fresh : WriteOK(w)
    \/ StatementWithoutEffect
    \/ CloseDatabase
    \/ ReopenDatabase
    \/ OtherProcess

Spec == Init /\ [][Next]_vars

----------------------------------------------------------------------------
\* Transaction levels that no guard accounts for.
Leaked == transactionDepth - Cardinality(Live)

\* Every valid guard accounts for one transaction level while the database is
\* open, in whatever order guards are committed, rolled back and destroyed.
\* At most one level is ever lost: that of a BEGIN that failed (db.cc:85-90).
DepthMatchesGuards == ~closed => Leaked \in {0, 1}

\* Nothing of a scope that is open or undone is on disk.
Isolated == (scope \cup undone) \cap disk = {}

\* Until the disk runs full: what was written under a guard is on disk only
\* after the outermost guard committed, and never when one guard of the nest
\* was rolled back, whichever it was and whatever locks the other process
\* held (db.cc:98-129).
NoPartialCommit == faults = 0 => Isolated

\* Depth zero and an SQLite transaction still open: only a COMMIT that found
\* a reader leaves this state behind (db.cc:112, db.hh:72).
OrphanOnlyAfterRefusedCommit ==
    transactionDepth <= 0 /\ sqlTx => lock = "pending"

\* What the application was told is done is on disk, and stays there.
CommittedIsDurable == acked \subseteq disk

\* Once a level has leaked, nothing this connection does reaches the disk any
\* more, whatever guards commit, until the database is closed.
WedgedNeverCommits ==
    [][~closed /\ Leaked = 1 /\ other' = other /\ faults' = 0
         => disk' = disk]_vars

\* The guards implement IBackend's promise, as long as no reader can be in
\* the way of a COMMIT and the disk has room.
Abstract == INSTANCE AtomicScopes WITH
    store   <- disk,
    pending <- work \ disk,
    open    <- IF closed THEN 0 ELSE transactionDepth,
    doomed  <- ~closed /\ transactionDepth > 0 /\ transactionFailed

ImplementsAtomicScopes == Abstract!Spec
=============================================================================
