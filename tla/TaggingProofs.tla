---------------------------- MODULE TaggingProofs ----------------------------
(***************************************************************************)
(* Proofs about Tagging, for any tags, redirections and implications, any  *)
(* bound on redirections and on the depth of the stack, and whatever the   *)
(* other process locks, deletes, redirects and implies: no call leaves a   *)
(* transaction open; and until the disk is full a call commits once,       *)
(* errors of nested calls do not doom the outer one, no implied tag that   *)
(* redirects is put on the post, tags come on disk with the tags they      *)
(* imply, and without cycles the calls nest no deeper than there are tags. *)
(***************************************************************************)
EXTENDS Tagging, DataInduction, SequenceTheorems

----------------------------------------------------------------------------
\* The Backend: what the engine's return codes become

\* The codes that statements end with, by name (result.cc:7-43); a full disk
\* has no name of its own.
LEMMA NamedResults ==
    /\ Sqlite3ToResult(SQLITE_OK) = "OK"
    /\ Sqlite3ToResult(SQLITE_ERROR) = "DatabaseError"
    /\ Sqlite3ToResult(SQLITE_FULL) = "DatabaseError"
    /\ Sqlite3ToResult(SQLITE_BUSY) = "DatabaseLocked"
    /\ Sqlite3ToResult(SQLITE_CONSTRAINT_FOREIGNKEY) = "DatabaseFKeyViolation"
    /\ Sqlite3ToResult(SQLITE_CONSTRAINT_UNIQUE) = "AlreadyExists"
<1>1. Sqlite3ToResult(0) = "OK" /\ Sqlite3ToResult(1) = "DatabaseError"
      /\ Sqlite3ToResult(5) = "DatabaseLocked"
      /\ Sqlite3ToResult(787) = "DatabaseFKeyViolation"
      /\ Sqlite3ToResult(2067) = "AlreadyExists"
  BY DEF Sqlite3ToResult, NamedCode
<1>2. Sqlite3ToResult(13) = "DatabaseError"
  BY DEF Sqlite3ToResult, NamedCode
<1> QED
  BY <1>1, <1>2 DEF SQLITE_OK, SQLITE_ERROR, SQLITE_BUSY, SQLITE_FULL,
                    SQLITE_CONSTRAINT_FOREIGNKEY, SQLITE_CONSTRAINT_UNIQUE

\* Success is "OK", and everything a statement can fail with is an error
\* (result.cc:7-43, result.hh:48-51).
LEMMA Translation ==
    /\ Sqlite3ToResult(SQLITE_OK) = "OK"
    /\ \A rc \in SqliteCodes : /\ Sqlite3ToResult(rc) \in ResultCode
                               /\ ResultIsError(Sqlite3ToResult(rc)) <=> rc # SQLITE_OK
<1>1. "OK" \in ResultCode /\ ~ResultIsError("OK")
  BY DEF ResultIsError, ResultCode, Errors, Successes
<1>2. \A r \in {"DatabaseError", "DatabaseLocked", "DatabaseFKeyViolation", "AlreadyExists"} :
         r \in ResultCode /\ ResultIsError(r)
  BY DEF ResultIsError, ResultCode, Errors
<1> QED
  BY <1>1, <1>2, NamedResults
     DEF SqliteCodes, SQLITE_OK, SQLITE_ERROR, SQLITE_BUSY, SQLITE_FULL,
         SQLITE_CONSTRAINT_FOREIGNKEY, SQLITE_CONSTRAINT_UNIQUE

\* The codes are different numbers.
LEMMA Codes ==
    /\ {SQLITE_ERROR, SQLITE_BUSY, SQLITE_FULL} \subseteq SqliteCodes \ {SQLITE_OK}
    /\ {SQLITE_CONSTRAINT_UNIQUE, SQLITE_CONSTRAINT_FOREIGNKEY} \subseteq SqliteCodes \ {SQLITE_OK}
    /\ SQLITE_OK \in SqliteCodes
  BY DEF SqliteCodes, SQLITE_OK, SQLITE_ERROR, SQLITE_BUSY, SQLITE_FULL,
         SQLITE_CONSTRAINT_FOREIGNKEY, SQLITE_CONSTRAINT_UNIQUE

----------------------------------------------------------------------------
\* Types and locks

\* A step of the engine that does not make contents of its own.
EngineStep ==
    \/ \E rc : \/ Read(rc) \/ WriteRejected(SQLITE_CONSTRAINT_UNIQUE, rc)
               \/ WriteRejected(SQLITE_CONSTRAINT_FOREIGNKEY, rc)
               \/ WriteRejected(SQLITE_ERROR, rc) \/ Fault(rc)
               \/ ExecBegin(rc) \/ ExecCommit(rc) \/ ExecRollback(rc)
    \/ CloseHandle \/ OtherAcquires \/ OtherReleases
    \/ UNCHANGED engine

\* A step that turns the contents into db.
EngineStepTo(db) == (\E rc : Write(db, rc)) \/ OtherCommits(db)

\* No step of the engine leaves its types; what is on disk or seen by this
\* connection was so before or is db.
LEMMA EngineTypes ==
    ASSUME EngineTypeOK, NEW db, EngineStep \/ EngineStepTo(db)
    PROVE  /\ EngineTypeOK'
           /\ disk' \in {disk, work, db} /\ work' \in {disk, work, db}
           /\ EngineStep => disk' \in {disk, work} /\ work' \in {disk, work}
<1> USE DEF engine, Abandon, ExecBegin, ExecCommit, ExecRollback, Read,
            WriteRejected, Fault, CloseHandle, OtherAcquires, OtherReleases,
            Write, OtherCommits, EngineStep, EngineStepTo
<1>1. sqlTx' \in BOOLEAN
  BY Zenon DEF EngineTypeOK
<1>2. lock' \in {"none", "shared", "reserved", "pending"}
  BY DEF EngineTypeOK
<1>3. other' \in {"none"} \cup OtherLocks
  BY DEF EngineTypeOK
<1>4. faults' \in 0..MaxFaults
  BY MaxFaultsAssumption DEF EngineTypeOK
<1>5. disk' \in {disk, work, db} /\ work' \in {disk, work, db}
  OBVIOUS
<1>6. EngineStep => disk' \in {disk, work} /\ work' \in {disk, work}
  OBVIOUS
<1> QED
  BY <1>1, <1>2, <1>3, <1>4, <1>5, <1>6 DEF EngineTypeOK

\* A lock is held inside a transaction only, uncommitted work exists only
\* under a writing lock, and no lock beside the other process's exclusive one.
LockInv ==
    /\ lock # "none" => sqlTx
    /\ ~Writing => work = disk
    /\ other = "exclusive" => lock = "none"

\* Every step of either process respects the locks.
LEMMA LockStep ==
    ASSUME LockInv, NEW db, EngineStep \/ EngineStepTo(db)
    PROVE  LockInv'
<1> USE DEF LockInv, Writing, WriteRefused, engine, Abandon
<1>1. CASE EngineStep
  <2>1. ASSUME NEW rc, \/ Read(rc) \/ WriteRejected(SQLITE_CONSTRAINT_UNIQUE, rc)
                       \/ WriteRejected(SQLITE_CONSTRAINT_FOREIGNKEY, rc)
                       \/ WriteRejected(SQLITE_ERROR, rc) \/ Fault(rc)
        PROVE  LockInv'
    BY <2>1 DEF Read, WriteRejected, Fault
  <2>2. ASSUME NEW rc, ExecBegin(rc) \/ ExecCommit(rc) \/ ExecRollback(rc)
        PROVE  LockInv'
    BY <2>2 DEF ExecBegin, ExecCommit, ExecRollback, Fault
  <2>3. CASE CloseHandle \/ OtherAcquires \/ OtherReleases \/ UNCHANGED engine
    BY <2>3 DEF CloseHandle, OtherAcquires, OtherReleases
  <2> QED
    BY <1>1, <2>1, <2>2, <2>3 DEF EngineStep
<1>2. CASE EngineStepTo(db)
  BY <1>2 DEF EngineStepTo, Write, OtherCommits
<1> QED
  BY <1>1, <1>2

\* The locks are free initially.
LEMMA LockInit == ASSUME NEW db, EngineInit(db) PROVE LockInv
  BY DEF EngineInit, LockInv, Writing

----------------------------------------------------------------------------
\* The outermost transaction calls

\* BEGIN fails inside a transaction only, and does nothing then.
LEMMA OuterBegin ==
    ASSUME NEW result, BeginTransaction(result), transactionDepth = 0
    PROVE  /\ transactionDepth' = 1 /\ transactionFailed' = FALSE
           /\ UNCHANGED <<disk, work, lock, other, faults>>
           /\ sqlTx' /\ (ResultIsError(result) <=> sqlTx)
<1>1. PICK rc \in SqliteCodes : ExecBegin(rc) /\ result = Sqlite3ToResult(rc)
  BY DEF BeginTransaction, ExecuteBegin
<1>2. ResultIsError(result) <=> rc # SQLITE_OK
  BY <1>1, Translation
<1>3. transactionDepth' = 1 /\ transactionFailed' = FALSE
  BY DEF BeginTransaction
<1> QED
  BY <1>1, <1>2, <1>3, Codes DEF ExecBegin, engine

\* The four ends of an outermost COMMIT: nothing to commit, refused because of
\* a reader, done, or rolled back because the disk is full.
LEMMA OuterCommit ==
    ASSUME NEW result, CommitTransaction(result), transactionDepth = 1, ~transactionFailed
    PROVE  /\ transactionDepth' = 0 /\ UNCHANGED <<transactionFailed, other>>
           /\ \/ ~sqlTx /\ UNCHANGED engine
              \/ /\ sqlTx /\ Writing /\ lock' = "pending"
                 /\ UNCHANGED <<disk, work, sqlTx, faults>>
              \/ /\ sqlTx /\ disk' = work /\ sqlTx' = FALSE /\ lock' = "none"
                 /\ UNCHANGED <<work, faults>>
              \/ /\ sqlTx /\ work' = disk /\ sqlTx' = FALSE /\ lock' = "none"
                 /\ faults' = faults + 1 /\ UNCHANGED disk
<1>1. transactionDepth' = 0 /\ UNCHANGED transactionFailed
  BY DEF CommitTransaction
<1>2. PICK rc \in SqliteCodes : ExecCommit(rc)
  BY DEF CommitTransaction, ExecuteCommit
<1> QED
  BY <1>1, <1>2 DEF ExecCommit, Fault, Abandon, engine

\* An outermost ROLLBACK, in a transaction and outside.
LEMMA OuterRollback ==
    ASSUME NEW result, RollbackTransaction(result), transactionDepth = 1
    PROVE  /\ transactionDepth' = 0
           /\ UNCHANGED <<transactionFailed, disk, other, faults>>
           /\ \/ ~sqlTx /\ UNCHANGED engine
              \/ sqlTx /\ work' = disk /\ sqlTx' = FALSE /\ lock' = "none"
<1>1. transactionDepth' = 0 /\ UNCHANGED transactionFailed
  BY DEF RollbackTransaction
<1>2. PICK rc \in SqliteCodes : ExecRollback(rc)
  BY DEF RollbackTransaction, ExecuteRollback
<1> QED
  BY <1>1, <1>2 DEF ExecRollback, Abandon, engine

\* The calls of the Backend are steps of its engine.
LEMMA BackendSteps ==
    ASSUME \/ \E result : \/ BeginTransaction(result) \/ CommitTransaction(result)
                          \/ RollbackTransaction(result)
           \/ RollbackAll \/ DestroyBackend \/ UNCHANGED backend
    PROVE  EngineStep
  BY DEF BeginTransaction, CommitTransaction, RollbackTransaction, RollbackAll,
         DestroyBackend, backend, ExecuteBegin, ExecuteCommit, ExecuteRollback, EngineStep

----------------------------------------------------------------------------
(***************************************************************************)
(* The inductive invariant, in two parts: what holds whatever happens, and *)
(* what holds until the disk is full for the first time.  Both say how the *)
(* stack of calls, the depth of the Backend and SQLite's transaction       *)
(* belong together.                                                        *)
(***************************************************************************)

\* Where a call of AddTagToPost has its guard in scope.
InGuard == {"insert", "implications", "each", "unwind"}

\* Guards in scope: one for each call, but for an innermost one that has not
\* made its own.
Guards ==
    IF stack = <<>> THEN 0
    ELSE IF Top.pc \in InGuard THEN Len(stack) ELSE Len(stack) - 1

\* The foreign keys of PostTags hold.
Sound(db) == db.on \subseteq db.tags /\ (db.on # {} => db.post)

\* Contents that differ at most in the tags on the post.
AlikeBut(db1, db2) ==
    /\ db1.tags = db2.tags /\ db1.post = db2.post /\ db1.redirect = db2.redirect
    /\ db1.adds = db2.adds /\ db1.removes = db2.removes

\* This connection writes nothing but the tags on the post.
StoreInv == AlikeBut(work, disk) /\ Sound(disk) /\ Sound(work)

\* Every call but the innermost is in the loop over its implications.
NestInv == \A i \in 1 .. Len(stack) : i < Len(stack) => stack[i].pc = "each"

\* SQLite has no transaction, or the one that a refused COMMIT left open.
Loose == ~sqlTx \/ lock = "pending"

\* The depth counts the guards, and one more from the call on whose BEGIN
\* failed.  That call's guard alone is not valid.
GuardInv ==
    /\ transactionDepth \in {Guards, Guards + 1}
    /\ transactionDepth = Guards + 1 => Loose
    /\ \A i \in 1 .. Guards : stack[i].valid \/ (i = 1 /\ Loose /\ transactionDepth = Guards)
    /\ Guards = 0 => Loose

Always == TypeOK /\ LockInv /\ StoreInv /\ NestInv /\ GuardInv

\* A call reads its implications under a lock, or gives up without one.
StackInv ==
    /\ \A i \in 1 .. Len(stack) : stack[i].pc = "each" => lock # "none"
    /\ At("unwind") => lock = "none"

\* Under the guards there is a transaction, and it will be committed.
DepthInv ==
    /\ transactionDepth = Guards + 1 => lock = "pending"
    /\ \A i \in 1 .. Guards : stack[i].valid \/ (i = 1 /\ lock = "pending" /\ transactionDepth = Guards)
    /\ Guards > 0 => sqlTx
    /\ ~transactionFailed

\* The copy that a nested call has of its tag is like the row, and so is what
\* is left of the implications in a loop.
CopiesInv ==
    /\ At("insert") => Top.redirect = NoTag
    /\ \A i \in 1 .. Len(stack) :
          i # 1 /\ stack[i].pc \in {"follow", "insert"}
             => stack[i].redirect = work.redirect[stack[i].tag]
    /\ \A i \in 1 .. Len(stack) : \A u \in stack[i].todo :
          /\ stack[i].pc = "each"
          /\ <<stack[i].tag, u>> \in IF u \in stack[i].removing THEN work.removes ELSE work.adds

Inv == Always /\ StackInv /\ DepthInv /\ CopiesInv

----------------------------------------------------------------------------
\* The stack

\* The innermost call is the last frame.
LEMMA TopFrame ==
    ASSUME stack \in Seq(Frame), stack # <<>>
    PROVE  /\ Len(stack) \in Nat \ {0} /\ Top \in Frame /\ Top = stack[Len(stack)]
           /\ Top.tag \in Tags /\ Top.hops \in 0 .. MaxRedirects + 1 /\ Top.todo \subseteq Tags
           /\ Top.valid \in BOOLEAN /\ Top.redirect \in Tags \cup {NoTag} /\ Top.removing \subseteq Tags
<1>1. Len(stack) \in Nat \ {0}
  BY EmptySeq
<1>2. Top \in Frame
  BY <1>1, ElementOfSeq DEF Top
<1> QED
  BY <1>1, <1>2 DEF Top, Frame

\* Of two or more calls, the outermost is not the innermost.
LEMMA FirstOfMany ==
    ASSUME NEW n \in Nat \ {0}, n # 1
    PROVE  /\ 1 \in 1 .. n /\ 1 < n
           /\ n - 1 \in 1 .. n /\ n - 1 < n /\ n \in 2 .. n
  OBVIOUS

\* A call that goes on keeps the calls around it.
LEMMA ContinueStack ==
    ASSUME stack \in Seq(Frame), stack # <<>>, NEW frame \in Frame, Continue(frame)
    PROVE  /\ stack' \in Seq(Frame) /\ stack' # <<>> /\ Len(stack') = Len(stack)
           /\ Top' = frame /\ stack'[Len(stack)] = frame
           /\ \A i \in 1 .. Len(stack) : i < Len(stack) => stack'[i] = stack[i]
           /\ UNCHANGED returned
<1>1. Len(stack) \in Nat \ {0} /\ Len(stack) \in 1 .. Len(stack)
  BY TopFrame
<1>2. stack' = [stack EXCEPT ![Len(stack)] = frame]
  BY DEF Continue
<1>3. /\ stack' \in Seq(Frame) /\ Len(stack') = Len(stack)
      /\ \A j \in 1 .. Len(stack) : stack'[j] = IF j = Len(stack) THEN frame ELSE stack[j]
  BY <1>1, <1>2, ExceptSeq
<1>4. stack' # <<>>
  BY <1>1, <1>3, EmptySeq
<1>5. UNCHANGED returned
  BY DEF Continue
<1> QED
  BY <1>1, <1>3, <1>4, <1>5 DEF Top

\* A call that returns leaves the ones around it.
LEMMA ReturnStack ==
    ASSUME stack \in Seq(Frame), stack # <<>>, NEW result, Return(result)
    PROVE  /\ stack' \in Seq(Frame) /\ Len(stack') = Len(stack) - 1
           /\ stack' = <<>> <=> Len(stack) = 1
           /\ stack' # <<>> => Top' = stack[Len(stack) - 1]
           /\ \A i \in 1 .. Len(stack') : stack'[i] = stack[i]
           /\ returned' \in {returned, result}
<1>1. Len(stack) \in Nat \ {0}
  BY TopFrame
<1>2. /\ stack' = SubSeq(stack, 1, Len(stack) - 1) /\ returned' \in {returned, result}
  BY DEF Return
<1>3. \A i \in 1 .. Len(stack) - 1 : stack[i] \in Frame
  BY <1>1, ElementOfSeq
<1>4. /\ stack' \in Seq(Frame) /\ Len(stack') = Len(stack) - 1
      /\ \A i \in 1 .. Len(stack) - 1 : stack'[i] = stack[i]
  <2> DEFINE n == Len(stack) - 1
  <2>1. n \in Int /\ 1 \in Int /\ \A i \in 1 .. n : stack[i] \in Frame
    BY <1>1, <1>3
  <2>2. stack' = SubSeq(stack, 1, n)
    BY <1>2
  <2>3. n = Len(stack) - 1 /\ n \in Nat
    BY <1>1
  <2> HIDE DEF n
  <2>4. /\ SubSeq(stack, 1, n) \in Seq(Frame)
        /\ Len(SubSeq(stack, 1, n)) = IF 1 <= n THEN n - 1 + 1 ELSE 0
        /\ \A i \in 1 .. n - 1 + 1 : SubSeq(stack, 1, n)[i] = stack[1 + i - 1]
    BY <2>1, SubSeqProperties
  <2> QED
    BY <2>2, <2>3, <2>4
<1>5. stack' = <<>> <=> Len(stack) = 1
  BY <1>1, <1>4, EmptySeq
<1> QED
  BY <1>1, <1>2, <1>4, <1>5 DEF Top

\* A nested call is a new frame on top of its caller's.
LEMMA CallStack ==
    ASSUME stack \in Seq(Frame), stack # <<>>, NEW frame \in Frame, NEW callee \in Frame,
           stack' = [stack EXCEPT ![Len(stack)] = frame] \o <<callee>>
    PROVE  /\ stack' \in Seq(Frame) /\ stack' # <<>> /\ Len(stack') = Len(stack) + 1
           /\ Top' = callee /\ stack'[Len(stack)] = frame /\ stack'[Len(stack) + 1] = callee
           /\ \A i \in 1 .. Len(stack) : i < Len(stack) => stack'[i] = stack[i]
<1> DEFINE s == [stack EXCEPT ![Len(stack)] = frame]
<1>1. Len(stack) \in Nat \ {0} /\ Len(stack) \in 1 .. Len(stack)
  BY TopFrame
<1>2. /\ s \in Seq(Frame) /\ Len(s) = Len(stack)
      /\ \A j \in 1 .. Len(stack) : s[j] = IF j = Len(stack) THEN frame ELSE stack[j]
  BY <1>1, ExceptSeq
<1>3. <<callee>> \in Seq(Frame) /\ Len(<<callee>>) = 1 /\ <<callee>>[1] = callee
  OBVIOUS
<1> HIDE DEF s
<1>4. /\ s \o <<callee>> \in Seq(Frame) /\ Len(s \o <<callee>>) = Len(s) + 1
      /\ \A i \in 1 .. Len(s) + 1 :
            (s \o <<callee>>)[i] = IF i <= Len(s) THEN s[i] ELSE <<callee>>[i - Len(s)]
  BY <1>2, <1>3, ConcatProperties
<1>5. stack' = s \o <<callee>>
  BY DEF s
<1>6. stack' # <<>>
  BY <1>1, <1>2, <1>4, <1>5, EmptySeq
<1>7. \A i \in 1 .. Len(stack) : stack'[i] = s[i]
  BY <1>1, <1>2, <1>4, <1>5
<1>8. stack'[Len(stack) + 1] = callee
  BY <1>1, <1>2, <1>3, <1>4, <1>5
<1> QED
  BY <1>1, <1>2, <1>4, <1>5, <1>6, <1>7, <1>8 DEF Top

----------------------------------------------------------------------------
\* The statements

\* What a statement of a call leaves as it is, whether it succeeds or not: it
\* opens no transaction, and a COMMIT that was refused stays so until the
\* transaction is gone.
StatementKept ==
    /\ EngineTypeOK' /\ LockInv' /\ StoreInv' /\ AlikeBut(work', work)
    /\ disk' \in Contents /\ work' \in Contents
    /\ sqlTx' => sqlTx /\ (lock = "pending" => lock' = "pending")
    /\ UNCHANGED <<transactionDepth, transactionFailed, other>>

\* What it does besides as long as the disk is not full.
LockKept ==
    /\ sqlTx' = sqlTx
    /\ lock # "none" => lock' # "none"
    /\ lock = "pending" => lock' = "pending"

\* A statement that makes contents which differ in the tags on the post, and
\* satisfies the foreign keys, is one of those.
LEMMA WriteStep ==
    ASSUME TypeOK, LockInv, StoreInv, NEW db \in Contents, AlikeBut(db, work), Sound(db),
           NEW rc, \/ Read(rc) \/ Write(db, rc) \/ Fault(rc)
                   \/ WriteRejected(SQLITE_CONSTRAINT_UNIQUE, rc)
                   \/ WriteRejected(SQLITE_CONSTRAINT_FOREIGNKEY, rc),
           UNCHANGED Levels
    PROVE  StatementKept
<1>0. EngineTypeOK /\ disk \in Contents /\ work \in Contents
  BY DEF TypeOK
<1>1. EngineStep \/ EngineStepTo(db)
  BY DEF EngineStep, EngineStepTo
<1>2. EngineTypeOK' /\ LockInv' /\ disk' \in Contents /\ work' \in Contents
  BY <1>0, <1>1, EngineTypes, LockStep
<1>3. /\ sqlTx' => sqlTx /\ (lock = "pending" => lock' = "pending")
      /\ other' = other
      /\ \/ disk' = disk /\ work' \in {disk, work, db}
         \/ disk' = db /\ work' = db
  <2>1. CASE Read(rc)
    BY <2>1 DEF Read, engine
  <2>2. CASE Write(db, rc)
    BY <2>2 DEF Write, engine, Writing
  <2>3. CASE Fault(rc)
    BY <2>3 DEF Fault, Abandon
  <2>4. CASE \/ WriteRejected(SQLITE_CONSTRAINT_UNIQUE, rc)
             \/ WriteRejected(SQLITE_CONSTRAINT_FOREIGNKEY, rc)
    BY <2>4 DEF WriteRejected, engine, Writing
  <2> QED
    BY <2>1, <2>2, <2>3, <2>4
<1>4. StoreInv' /\ AlikeBut(work', work)
  BY <1>3 DEF StoreInv, AlikeBut
<1>5. UNCHANGED <<transactionDepth, transactionFailed>>
  BY DEF Levels
<1> QED
  BY <1>2, <1>3, <1>4, <1>5 DEF StatementKept

\* Taking a tag off the post, and putting one on it that there is, makes
\* contents.
LEMMA ContentsType ==
    ASSUME TypeOK, StoreInv, NEW t \in Tags
    PROVE  /\ [work EXCEPT !.on = @ \ {t}] \in Contents
           /\ [work EXCEPT !.on = @ \ {t}].on = work.on \ {t}
           /\ AlikeBut([work EXCEPT !.on = @ \ {t}], work)
           /\ Sound([work EXCEPT !.on = @ \ {t}])
           /\ [work EXCEPT !.on = @ \cup {t}] \in Contents
           /\ [work EXCEPT !.on = @ \cup {t}].on = work.on \cup {t}
           /\ AlikeBut([work EXCEPT !.on = @ \cup {t}], work)
           /\ work.post /\ t \in work.tags => Sound([work EXCEPT !.on = @ \cup {t}])
<1>0. work \in Contents /\ Sound(work)
  BY DEF TypeOK, StoreInv
<1>1. /\ [work EXCEPT !.on = @ \ {t}] \in Contents
      /\ [work EXCEPT !.on = @ \ {t}].on = work.on \ {t}
      /\ AlikeBut([work EXCEPT !.on = @ \ {t}], work)
  BY <1>0 DEF Contents, AlikeBut
<1>2. /\ [work EXCEPT !.on = @ \cup {t}] \in Contents
      /\ [work EXCEPT !.on = @ \cup {t}].on = work.on \cup {t}
      /\ AlikeBut([work EXCEPT !.on = @ \cup {t}], work)
  BY <1>0 DEF Contents, AlikeBut
<1>3. /\ Sound([work EXCEPT !.on = @ \ {t}])
      /\ work.post /\ t \in work.tags => Sound([work EXCEPT !.on = @ \cup {t}])
  BY <1>0, <1>1, <1>2 DEF Sound, AlikeBut
<1> QED
  BY <1>1, <1>2, <1>3

\* A SELECT changes nothing but the lock; of one whose row is there, only the
\* other process's exclusive lock keeps the row.
LEMMA LookupStep ==
    ASSUME TypeOK, LockInv, StoreInv, NEW found, NEW result, Lookup(found, result)
    PROVE  /\ StatementKept /\ LockKept /\ UNCHANGED <<disk, work, faults>>
           /\ ~ResultIsError(result) /\ sqlTx => lock' # "none"
           /\ found /\ ResultIsError(result) => lock' = "none"
           /\ ~ResultIsError(result) => found
<1>1. PICK rc \in SqliteCodes :
         /\ Read(rc)
         /\ result = IF rc # SQLITE_OK THEN Sqlite3ToResult(rc)
                     ELSE IF found THEN "OK" ELSE "NotFound"
  BY DEF Lookup
<1>2. work \in Contents /\ AlikeBut(work, work) /\ Sound(work) /\ UNCHANGED Levels
  BY DEF TypeOK, StoreInv, AlikeBut, Lookup
<1>3. StatementKept
  BY <1>1, <1>2, WriteStep
<1>4. UNCHANGED <<disk, work, faults>>
  BY <1>1 DEF Read, engine
<1>5. rc # SQLITE_OK => ResultIsError(Sqlite3ToResult(rc)) /\ lock' = "none"
  BY <1>1, Translation DEF Read, engine
<1>6. rc = SQLITE_OK => (sqlTx => lock' # "none")
  BY <1>1, Codes DEF Read, engine
<1>7. LockKept
  BY <1>1 DEF Read, LockKept, engine
<1>8. ~ResultIsError("OK") /\ ResultIsError("NotFound")
  BY DEF ResultIsError, Errors
<1> QED
  BY <1>1, <1>3, <1>4, <1>5, <1>6, <1>7, <1>8

\* An INSERT, and until the disk is full it changes what this connection sees,
\* at most, inside a transaction: it adds its tag, finds it there under the
\* writing lock, or could not; where this connection writes, only if the tag
\* or the post is missing.
LEMMA CreateStep ==
    ASSUME TypeOK, LockInv, StoreInv, NEW t \in Tags, NEW result, CreatePostTag(t, result)
    PROVE  /\ StatementKept
           /\ faults' = faults /\ sqlTx =>
                /\ LockKept /\ disk' = disk
                /\ work.on \subseteq work'.on /\ work'.on \subseteq work.on \cup {t}
                /\ result = "AlreadyExists" => lock' # "none" /\ t \in work.on /\ work'.on = work.on
                /\ Writing' /\ work.post /\ t \in work.tags => t \in work'.on
<1> DEFINE db == [work EXCEPT !.on = @ \cup {t}]
<1>0. /\ work \in Contents /\ AlikeBut(work, work) /\ Sound(work) /\ faults \in Nat
      /\ UNCHANGED Levels
  BY MaxFaultsAssumption DEF TypeOK, EngineTypeOK, StoreInv, AlikeBut, CreatePostTag
<1>1. PICK rc \in SqliteCodes :
         /\ \/ /\ t \in work.on
               /\ WriteRejected(SQLITE_CONSTRAINT_UNIQUE, rc)
            \/ /\ t \notin work.on /\ ~(work.post /\ t \in work.tags)
               /\ WriteRejected(SQLITE_CONSTRAINT_FOREIGNKEY, rc)
            \/ /\ t \notin work.on /\ work.post /\ t \in work.tags
               /\ Write(db, rc)
            \/ Fault(rc)
         /\ result = IF rc = SQLITE_OK THEN "CreatedOK" ELSE Sqlite3ToResult(rc)
  BY DEF CreatePostTag
<1>2. /\ db \in Contents /\ db.on = work.on \cup {t} /\ AlikeBut(db, work)
      /\ work.post /\ t \in work.tags => Sound(db)
  BY ContentsType
<1> HIDE DEF db
<1>3. CASE t \in work.on /\ WriteRejected(SQLITE_CONSTRAINT_UNIQUE, rc)
  <2>1. StatementKept
    BY <1>0, <1>3, WriteStep
  <2>2. disk' = disk /\ work' = work /\ LockKept
    BY <1>3 DEF WriteRejected, engine, LockKept, Writing
  <2>3. result = "AlreadyExists" /\ sqlTx => lock' # "none"
    <3>1. result = "AlreadyExists" => rc # SQLITE_BUSY
      BY <1>1, NamedResults, Codes
    <3> QED
      BY <1>3, <3>1 DEF WriteRejected, Writing, engine
  <2> QED
    BY <1>3, <2>1, <2>2, <2>3
<1>4. CASE /\ t \notin work.on /\ ~(work.post /\ t \in work.tags)
           /\ WriteRejected(SQLITE_CONSTRAINT_FOREIGNKEY, rc)
  <2>1. StatementKept
    BY <1>0, <1>4, WriteStep
  <2>2. /\ disk' = disk /\ work' = work /\ LockKept
        /\ rc \in {SQLITE_BUSY, SQLITE_CONSTRAINT_FOREIGNKEY}
    BY <1>4 DEF WriteRejected, engine, LockKept, Writing
  <2>3. result # "AlreadyExists"
    BY <1>1, <2>2, NamedResults, Codes
  <2> QED
    BY <1>4, <2>1, <2>2, <2>3
<1>5. CASE t \notin work.on /\ work.post /\ t \in work.tags /\ Write(db, rc)
  <2>0. db \in Contents /\ AlikeBut(db, work) /\ Sound(db) /\ Write(db, rc) /\ UNCHANGED Levels
    BY <1>0, <1>2, <1>5
  <2>1. StatementKept
    BY <2>0, WriteStep
  <2>2. /\ LockKept /\ (sqlTx => disk' = disk)
        /\ \/ rc = SQLITE_BUSY /\ work' = work /\ ~Writing'
           \/ rc = SQLITE_OK /\ work' = db
    BY <1>5 DEF Write, WriteRefused, Writing, engine, LockKept
  <2>3. result # "AlreadyExists"
    BY <1>1, <2>2, NamedResults, Codes
  <2> QED
    BY <1>2, <1>5, <2>1, <2>2, <2>3
<1>6. CASE Fault(rc)
  <2>1. StatementKept
    BY <1>0, <1>6, WriteStep
  <2>2. faults' # faults
    BY <1>0, <1>6 DEF Fault
  <2> QED
    BY <2>1, <2>2
<1> QED
  BY <1>1, <1>3, <1>4, <1>5, <1>6

\* A DELETE takes away, and changes the disk only where it is a transaction of
\* its own.
LEMMA DeleteStep ==
    ASSUME TypeOK, LockInv, StoreInv, NEW t \in Tags, NEW result, DeletePostTag(t, result)
    PROVE  /\ StatementKept
           /\ disk'.on \subseteq disk.on
           /\ faults' = faults =>
                LockKept /\ work'.on \subseteq work.on /\ (sqlTx => disk' = disk)
<1> DEFINE db == [work EXCEPT !.on = @ \ {t}]
<1>0. UNCHANGED Levels /\ faults \in Nat
  BY MaxFaultsAssumption DEF DeletePostTag, TypeOK, EngineTypeOK
<1>1. PICK rc \in SqliteCodes : Write(db, rc) \/ Fault(rc)
  BY DEF DeletePostTag
<1>2. db \in Contents /\ db.on = work.on \ {t} /\ AlikeBut(db, work) /\ Sound(db)
  BY ContentsType
<1> HIDE DEF db
<1>3. StatementKept
  BY <1>0, <1>1, <1>2, WriteStep
<1>4. CASE Write(db, rc)
  <2>1. LockKept /\ work' \in {work, db} /\ (disk' = disk \/ (~sqlTx /\ disk' = db))
    BY <1>4 DEF Write, WriteRefused, Writing, LockKept, engine
  <2>2. ~sqlTx => work = disk
    BY DEF LockInv, Writing
  <2> QED
    BY <1>2, <1>3, <2>1, <2>2
<1>5. CASE Fault(rc)
  BY <1>0, <1>3, <1>5 DEF Fault
<1> QED
  BY <1>1, <1>4, <1>5

----------------------------------------------------------------------------
\* How calls and returns keep the stack and the depth together.

\* A call goes on after a statement, on the same side of its guard.
LEMMA ContinueAlways ==
    ASSUME Always, stack # <<>>, NEW frame \in Frame, Continue(frame), StatementKept,
           frame.pc \in InGuard <=> Top.pc \in InGuard, frame.valid = Top.valid
    PROVE  Always'
<1>0. TypeOK /\ stack \in Seq(Frame) /\ NestInv /\ GuardInv
  BY DEF Always, TypeOK
<1>1. Len(stack) \in Nat \ {0} /\ Top = stack[Len(stack)]
  BY <1>0, TopFrame
<1>2. /\ stack' \in Seq(Frame) /\ stack' # <<>> /\ Len(stack') = Len(stack)
      /\ Top' = frame /\ stack'[Len(stack)] = frame
      /\ \A i \in 1 .. Len(stack) : i < Len(stack) => stack'[i] = stack[i]
      /\ UNCHANGED returned
  BY <1>0, ContinueStack
<1>3. Guards' = Guards /\ Guards \in 0 .. Len(stack)
  BY <1>1, <1>2 DEF Guards
<1>4. \A i \in 1 .. Len(stack) : stack'[i].valid = stack[i].valid
  BY <1>1, <1>2
<1>5. NestInv'
  BY <1>0, <1>1, <1>2 DEF NestInv
<1>6. Loose => Loose'
  BY DEF Loose, StatementKept
<1>7. GuardInv'
  BY <1>0, <1>1, <1>3, <1>4, <1>6 DEF GuardInv, StatementKept
<1>8. TypeOK'
  BY <1>0, <1>2 DEF TypeOK, StatementKept
<1> QED
  BY <1>5, <1>7, <1>8 DEF Always, StatementKept

\* What is left when a call returned.
LEMMA AfterReturn ==
    ASSUME Always, stack # <<>>, NEW result \in ResultCode, Return(result)
    PROVE  /\ stack' \in Seq(Frame) /\ Len(stack') = Len(stack) - 1 /\ Len(stack') <= MaxCalls
           /\ \A i \in 1 .. Len(stack') : stack'[i] = stack[i]
           /\ stack' # <<>> => Top'.pc = "each"
           /\ Guards' = Len(stack) - 1 /\ NestInv'
           /\ returned' \in ResultCode \cup {"none"}
<1>0. TypeOK /\ stack \in Seq(Frame) /\ NestInv /\ Len(stack) <= MaxCalls
  BY DEF Always, TypeOK
<1>1. Len(stack) \in Nat \ {0} /\ Top = stack[Len(stack)]
  BY <1>0, TopFrame
<1>2. /\ stack' \in Seq(Frame) /\ Len(stack') = Len(stack) - 1
      /\ (stack' = <<>> <=> Len(stack) = 1)
      /\ stack' # <<>> => Top' = stack[Len(stack) - 1]
      /\ \A i \in 1 .. Len(stack') : stack'[i] = stack[i]
      /\ returned' \in {returned, result}
  BY <1>0, ReturnStack
<1>3. stack' # <<>> => Top'.pc = "each"
  <2>1. Len(stack) # 1 => Len(stack) - 1 \in 1 .. Len(stack) /\ Len(stack) - 1 < Len(stack)
    BY <1>1, FirstOfMany, Zenon
  <2> QED
    BY <1>0, <1>2, <2>1 DEF NestInv
<1>4. Guards' = Len(stack) - 1
  BY <1>1, <1>2, <1>3 DEF Guards, InGuard
<1>5. NestInv'
  BY <1>0, <1>1, <1>2 DEF NestInv
<1>6. Len(stack') <= MaxCalls
  BY <1>0, <1>1, <1>2, CallsAssumption
<1>7. returned' \in ResultCode \cup {"none"}
  BY <1>0, <1>2 DEF TypeOK
<1> QED
  BY <1>2, <1>3, <1>4, <1>5, <1>6, <1>7

\* A call without a guard returns after a statement.
LEMMA ReturnAlways ==
    ASSUME Always, stack # <<>>, NEW result \in ResultCode, Return(result), StatementKept,
           Top.pc \notin InGuard
    PROVE  Always'
<1>0. TypeOK /\ GuardInv /\ Len(stack) \in Nat \ {0}
  BY TopFrame DEF Always, TypeOK
<1>1. /\ stack' \in Seq(Frame) /\ Len(stack') <= MaxCalls /\ Len(stack') = Len(stack) - 1
      /\ \A i \in 1 .. Len(stack') : stack'[i] = stack[i]
      /\ Guards' = Len(stack) - 1 /\ NestInv' /\ returned' \in ResultCode \cup {"none"}
  BY AfterReturn
<1>2. Guards' = Guards /\ Guards \in Nat /\ \A i \in 1 .. Guards : stack'[i] = stack[i]
  BY <1>0, <1>1 DEF Guards
<1>3. Loose => Loose'
  BY DEF Loose, StatementKept
<1>4. GuardInv'
  BY <1>0, <1>2, <1>3 DEF GuardInv, StatementKept
<1>5. TypeOK'
  BY <1>0, <1>1 DEF TypeOK, StatementKept
<1> QED
  BY <1>1, <1>4, <1>5 DEF Always, StatementKept

\* The loop over the implications calls.
LEMMA CallAlways ==
    ASSUME Always, stack # <<>>, NEW frame \in Frame, NEW callee \in Frame,
           stack' = [stack EXCEPT ![Len(stack)] = frame] \o <<callee>>,
           Top.pc = "each", frame.pc = "each", frame.valid = Top.valid,
           callee.pc \notin InGuard, Len(stack) < MaxCalls, UNCHANGED returned, StatementKept
    PROVE  Always'
<1>0. TypeOK /\ stack \in Seq(Frame) /\ NestInv /\ GuardInv
  BY DEF Always, TypeOK
<1>1. Len(stack) \in Nat \ {0} /\ Top = stack[Len(stack)]
  BY <1>0, TopFrame
<1>2. /\ stack' \in Seq(Frame) /\ stack' # <<>> /\ Len(stack') = Len(stack) + 1
      /\ Top' = callee /\ stack'[Len(stack)] = frame /\ stack'[Len(stack) + 1] = callee
      /\ \A i \in 1 .. Len(stack) : i < Len(stack) => stack'[i] = stack[i]
  BY <1>0, CallStack
<1>3. Guards' = Guards /\ Guards = Len(stack)
  BY <1>1, <1>2 DEF Guards, InGuard
<1>4. \A i \in 1 .. Len(stack) : stack'[i].valid = stack[i].valid /\ stack'[i].pc = "each"
  BY <1>0, <1>1, <1>2 DEF NestInv
<1>5. NestInv'
  BY <1>1, <1>2, <1>4 DEF NestInv
<1>6. Loose => Loose'
  BY DEF Loose, StatementKept
<1>7. GuardInv'
  BY <1>0, <1>1, <1>3, <1>4, <1>6 DEF GuardInv, StatementKept
<1>8. TypeOK'
  <2>1. Len(stack') <= MaxCalls
    BY <1>1, <1>2, CallsAssumption
  <2> QED
    BY <1>0, <1>2, <2>1 DEF TypeOK, StatementKept
<1> QED
  BY <1>5, <1>7, <1>8 DEF Always, StatementKept

----------------------------------------------------------------------------
\* Every step keeps what always holds.

\* Between its statements, a call knows its frame and how many guards there are.
LEMMA AtTop ==
    ASSUME Always, NEW p \in {"follow", "insert", "implications", "each", "unwind", "find", "delete"},
           At(p)
    PROVE  /\ stack \in Seq(Frame) /\ stack # <<>> /\ Top.pc = p
           /\ Len(stack) \in Nat \ {0} /\ Len(stack) <= MaxCalls /\ Top = stack[Len(stack)]
           /\ Top \in Frame /\ Top.tag \in Tags /\ Top.hops \in 0 .. MaxRedirects + 1
           /\ Top.redirect \in Tags \cup {NoTag} /\ Top.removing \subseteq Tags
           /\ Top.todo \subseteq Tags /\ Top.valid \in BOOLEAN
           /\ Guards = IF p \in InGuard THEN Len(stack) ELSE Len(stack) - 1
<1>1. stack \in Seq(Frame) /\ stack # <<>> /\ Top.pc = p /\ Len(stack) <= MaxCalls
  BY DEF Always, TypeOK, At
<1>2. Guards = IF p \in InGuard THEN Len(stack) ELSE Len(stack) - 1
  BY <1>1 DEF Guards
<1> QED
  BY <1>1, <1>2, TopFrame

\* A redirection is followed, the chain ends, or it is too long
\* (booru.cc:446).
LEMMA FollowRedirectionAlways ==
    ASSUME Always, FollowRedirection PROVE Always' /\ AlikeBut(work', work)
<1> DEFINE next == Top.redirect
<1>0. At("follow") /\ next # NoTag /\ TypeOK /\ LockInv /\ StoreInv
  BY DEF FollowRedirection, Always
<1>1. /\ stack \in Seq(Frame) /\ stack # <<>> /\ Top.pc = "follow"
      /\ Top \in Frame /\ Top.tag \in Tags /\ next \in Tags /\ Top.hops \in 0 .. MaxRedirects + 1
      /\ "follow" \notin InGuard
  BY <1>0, AtTop DEF InGuard
<1>2. work.redirect[next] \in Tags \cup {NoTag}
  BY <1>0, <1>1 DEF TypeOK, Contents
<1> HIDE DEF next
<1>3. CASE Return("RecursionExceeded") /\ UNCHANGED backend
  <2>1. StatementKept
    BY <1>0, <1>3 DEF backend, engine, StatementKept, TypeOK, EngineTypeOK, LockInv, Writing,
                      StoreInv, AlikeBut
  <2>2. "RecursionExceeded" \in ResultCode
    BY DEF ResultCode, Errors
  <2> QED
    BY <1>1, <1>3, <2>1, <2>2, ReturnAlways DEF StatementKept
<1>4. ASSUME NEW result \in ResultCode, GetTag(next, result) PROVE StatementKept
  BY <1>0, <1>4, LookupStep DEF GetTag
<1>5. ASSUME NEW result \in ResultCode, GetTag(next, result), Return(result)
      PROVE  Always' /\ AlikeBut(work', work)
  BY <1>1, <1>4, <1>5, ReturnAlways DEF StatementKept
<1>6. ASSUME NEW result \in ResultCode, GetTag(next, result), Top.hops <= MaxRedirects,
             Continue([Top EXCEPT !.tag = next, !.redirect = work.redirect[next], !.hops = @ + 1])
      PROVE  Always' /\ AlikeBut(work', work)
  <2> DEFINE frame == [Top EXCEPT !.tag = next, !.redirect = work.redirect[next], !.hops = @ + 1]
  <2>1. StatementKept
    BY <1>4, <1>6
  <2>2. frame \in Frame /\ frame.pc = "follow" /\ frame.valid = Top.valid
    <3>1. Top.hops + 1 \in 0 .. MaxRedirects + 1
      BY <1>1, <1>6, RedirectsAssumption
    <3> QED
      BY <1>1, <1>2, <3>1 DEF Frame
  <2> HIDE DEF frame
  <2>3. Continue(frame)
    BY <1>6 DEF frame
  <2> QED
    BY <1>1, <2>1, <2>2, <2>3, ContinueAlways DEF StatementKept
<1> QED
  BY <1>3, <1>5, <1>6 DEF FollowRedirection, next

\* What BEGIN does: the outermost one fails inside a transaction only, the
\* others do nothing.
LEMMA BeginStep ==
    ASSUME Always, NEW result, BeginTransaction(result)
    PROVE  /\ EngineTypeOK' /\ LockInv'
           /\ UNCHANGED <<disk, work, lock, other, faults>>
           /\ transactionDepth' = transactionDepth + 1
           /\ transactionFailed' \in {FALSE, transactionFailed}
           /\ transactionFailed' \in BOOLEAN
           /\ transactionDepth = 0 => sqlTx' /\ (ResultIsError(result) <=> sqlTx)
           /\ transactionDepth # 0 => UNCHANGED sqlTx /\ ~ResultIsError(result)
<1>0. TypeOK /\ LockInv
  BY DEF Always
<1>1. EngineTypeOK' /\ LockInv'
  <2>1. EngineStep
    BY BackendSteps
  <2> QED
    BY <1>0, <2>1, EngineTypes, LockStep DEF TypeOK
<1>2. CASE transactionDepth = 0
  <2>1. /\ UNCHANGED <<disk, work, lock, other, faults>> /\ sqlTx'
        /\ transactionDepth' = 1 /\ transactionFailed' = FALSE
        /\ ResultIsError(result) <=> sqlTx
    BY <1>2, OuterBegin
  <2>2. transactionFailed' \in {FALSE, transactionFailed} /\ transactionFailed' \in BOOLEAN
    BY <2>1, Zenon
  <2>3. transactionDepth' = transactionDepth + 1
    BY <1>2, <2>1
  <2> QED
    BY <1>1, <1>2, <2>1, <2>2, <2>3, Zenon
<1>3. CASE transactionDepth # 0
  <2>1. /\ transactionDepth' = transactionDepth + 1 /\ result = "OK"
        /\ UNCHANGED <<disk, work, sqlTx, lock, other, faults, transactionFailed>>
    BY <1>3 DEF BeginTransaction, engine
  <2>2. ~ResultIsError(result)
    BY <2>1 DEF ResultIsError, Errors
  <2>3. transactionFailed' \in {FALSE, transactionFailed} /\ transactionFailed' \in BOOLEAN
    BY <1>0, <2>1, Zenon DEF TypeOK
  <2> QED
    BY <1>1, <1>3, <2>1, <2>2, <2>3, Zenon
<1> QED
  BY <1>2, <1>3

\* The frame of a call that made its guard.
LEMMA OpenedFrame ==
    ASSUME NEW top \in Frame, NEW result
    PROVE  LET frame == [top EXCEPT !.pc = "insert", !.hops = 0, !.valid = ~ResultIsError(result)]
           IN  /\ frame \in Frame /\ frame.pc = "insert" /\ frame.tag = top.tag
               /\ frame.redirect = top.redirect /\ frame.todo = top.todo
               /\ frame.valid <=> ~ResultIsError(result)
<1>1. 0 \in 0 .. MaxRedirects + 1
  BY RedirectsAssumption
<1>2. (~ResultIsError(result)) \in BOOLEAN
  OBVIOUS
<1> DEFINE hops == 0 .. MaxRedirects + 1
           valid == ~ResultIsError(result)
<1>3. top \in [pc      : {"follow", "insert", "implications", "each", "unwind", "find", "delete"},
               tag     : Tags, redirect: Tags \cup {NoTag}, hops    : hops, valid   : BOOLEAN,
               todo    : SUBSET Tags, removing: SUBSET Tags]
  BY DEF Frame
<1>4. Frame = [pc      : {"follow", "insert", "implications", "each", "unwind", "find", "delete"},
               tag     : Tags, redirect: Tags \cup {NoTag}, hops    : hops, valid   : BOOLEAN,
               todo    : SUBSET Tags, removing: SUBSET Tags]
  BY DEF Frame
<1>5. 0 \in hops /\ valid \in BOOLEAN /\ (valid <=> ~ResultIsError(result))
  BY <1>1, <1>2
<1> HIDE DEF hops, valid
<1> DEFINE frame == [top EXCEPT !.pc = "insert", !.hops = 0, !.valid = valid]
<1>6. /\ frame \in Frame /\ frame.pc = "insert" /\ frame.tag = top.tag
      /\ frame.redirect = top.redirect /\ frame.todo = top.todo /\ frame.valid = valid
  BY <1>3, <1>4, <1>5
<1> QED
  BY <1>5, <1>6 DEF valid

\* BEGIN in a transaction of its own, nested in the caller's, or refused by the
\* transaction that a COMMIT left open.
LEMMA OpenGuardAlways ==
    ASSUME Always, OpenGuard PROVE Always' /\ AlikeBut(work', work)
<1>0. At("follow") /\ TypeOK /\ LockInv /\ StoreInv /\ NestInv /\ GuardInv
  BY DEF OpenGuard, Always
<1>1. /\ stack \in Seq(Frame) /\ stack # <<>>
      /\ Len(stack) \in Nat \ {0} /\ Top = stack[Len(stack)] /\ Top \in Frame
      /\ "insert" \in InGuard /\ Guards = Len(stack) - 1
  BY <1>0, AtTop DEF InGuard
<1>2. PICK result \in ResultCode :
         /\ BeginTransaction(result)
         /\ Continue([Top EXCEPT !.pc = "insert", !.hops = 0, !.valid = ~ResultIsError(result)])
  BY DEF OpenGuard
<1> DEFINE frame == [Top EXCEPT !.pc = "insert", !.hops = 0, !.valid = ~ResultIsError(result)]
<1>3. frame \in Frame /\ frame.pc = "insert"
  BY <1>1, OpenedFrame
<1>v. frame.valid <=> ~ResultIsError(result)
  BY <1>1, OpenedFrame
<1> HIDE DEF frame
<1>4. Continue(frame)
  BY <1>2 DEF frame
<1>5. /\ stack' \in Seq(Frame) /\ stack' # <<>> /\ Len(stack') = Len(stack)
      /\ Top' = frame /\ stack'[Len(stack)] = frame
      /\ \A i \in 1 .. Len(stack) : i < Len(stack) => stack'[i] = stack[i]
      /\ UNCHANGED returned
  BY <1>1, <1>3, <1>4, ContinueStack
<1>6. Guards' = Guards + 1 /\ Guards' = Len(stack)
  <2>1. Top'.pc \in InGuard /\ stack' # <<>> /\ Len(stack') = Len(stack)
    BY <1>1, <1>3, <1>5
  <2>2. Guards' = Len(stack)
    BY <2>1 DEF Guards
  <2> QED
    BY <1>1, <2>2
<1>7. /\ EngineTypeOK' /\ LockInv' /\ transactionFailed' \in BOOLEAN
      /\ UNCHANGED <<disk, work, lock>>
      /\ transactionDepth' = transactionDepth + 1
      /\ transactionDepth = 0 => (ResultIsError(result) <=> sqlTx)
      /\ transactionDepth # 0 => UNCHANGED sqlTx /\ ~ResultIsError(result)
  BY <1>2, BeginStep
<1>8. /\ transactionDepth \in {Guards, Guards + 1}
      /\ transactionDepth = Guards + 1 => Loose
      /\ \A i \in 1 .. Guards : stack[i].valid \/ (i = 1 /\ Loose /\ transactionDepth = Guards)
      /\ Guards = 0 => Loose
  BY <1>0 DEF GuardInv
<1>9. /\ transactionDepth # 0 => (Loose' <=> Loose)
      /\ transactionDepth = 0 /\ ~frame.valid => Loose'
  <2>1. transactionDepth # 0 => (Loose' <=> Loose)
    BY <1>7, Zenon DEF Loose
  <2>2. transactionDepth = 0 => Loose
    BY <1>1, <1>8
  <2>3. transactionDepth = 0 /\ ~frame.valid => sqlTx
    BY <1>7, <1>v, Zenon
  <2>4. transactionDepth = 0 /\ ~frame.valid => lock' = "pending"
    BY <1>7, <2>2, <2>3, Zenon DEF Loose
  <2> QED
    BY <2>1, <2>4, Zenon DEF Loose
<1>10. GuardInv'
  <2>1. \A i \in 1 .. Guards : stack'[i] = stack[i]
    BY <1>1, <1>5
  <2>2. transactionDepth # 0 => frame.valid
    BY <1>7, <1>v, Zenon
  <2>3. CASE transactionDepth = 0
    <3>1. Guards = 0 /\ Guards' = 1 /\ transactionDepth' = 1 /\ Len(stack) = 1
      BY <1>1, <1>6, <1>7, <1>8, <2>3
    <3>2. \A i \in 1 .. 1 : stack'[i] = frame
      BY <1>5, <3>1
    <3>3. frame.valid \/ Loose'
      BY <1>9, <2>3
    <3> QED
      BY <3>1, <3>2, <3>3 DEF GuardInv
  <2>4. CASE transactionDepth # 0
    <3>1. \A i \in 1 .. Guards' :
             stack'[i].valid \/ (i = 1 /\ Loose' /\ transactionDepth' = Guards')
      BY <1>1, <1>5, <1>6, <1>7, <1>8, <1>9, <2>1, <2>2, <2>4
    <3>2. transactionDepth' \in {Guards', Guards' + 1} /\ (transactionDepth' = Guards' + 1 => Loose')
      BY <1>1, <1>6, <1>7, <1>8, <1>9, <2>4
    <3> QED
      BY <1>1, <1>6, <3>1, <3>2 DEF GuardInv
  <2> QED
    BY <2>3, <2>4
<1>11. NestInv'
  BY <1>0, <1>1, <1>5 DEF NestInv
<1>12. StoreInv' /\ AlikeBut(work', work)
  BY <1>0, <1>7 DEF StoreInv, AlikeBut
<1>13. TypeOK'
  BY <1>0, <1>5, <1>7 DEF TypeOK
<1> QED
  BY <1>7, <1>10, <1>11, <1>12, <1>13 DEF Always

\* The association is inserted, exists already, or cannot be inserted
\* (booru.cc:192).
LEMMA CreateTagAlways ==
    ASSUME Always, CreateTag PROVE Always' /\ AlikeBut(work', work)
<1>0. At("insert") /\ TypeOK /\ LockInv /\ StoreInv
  BY DEF CreateTag, Always
<1>1. /\ stack # <<>> /\ Top.pc = "insert" /\ Top \in Frame /\ Top.tag \in Tags
      /\ {"insert", "each", "implications"} \subseteq InGuard
  BY <1>0, AtTop DEF InGuard
<1>2. PICK result \in ResultCode :
         /\ CreatePostTag(Top.tag, result)
         /\ \E p \in {"each", "implications"} : Continue([Top EXCEPT !.pc = p])
  BY DEF CreateTag
<1>3. PICK p \in {"each", "implications"} : Continue([Top EXCEPT !.pc = p])
  BY <1>2
<1>4. StatementKept
  BY <1>0, <1>1, <1>2, CreateStep
<1> DEFINE frame == [Top EXCEPT !.pc = p]
<1>5. frame \in Frame /\ frame.pc = p /\ frame.valid = Top.valid
  BY <1>1 DEF Frame
<1> HIDE DEF frame
<1>6. Continue(frame)
  BY <1>3 DEF frame
<1> QED
  BY <1>1, <1>4, <1>5, <1>6, ContinueAlways DEF StatementKept

\* The implications of the tag are read, or the call gives up
\* (booru.cc:201).
LEMMA GetTagImplicationsForTagAlways ==
    ASSUME Always, GetTagImplicationsForTag PROVE Always' /\ AlikeBut(work', work)
<1>0. At("implications") /\ TypeOK /\ LockInv /\ StoreInv
  BY DEF GetTagImplicationsForTag, Always
<1>1. /\ stack # <<>> /\ Top.pc = "implications" /\ Top \in Frame
      /\ {"implications", "each", "unwind"} \subseteq InGuard
  BY <1>0, AtTop DEF InGuard
<1> DEFINE todo == {t \in Tags : <<Top.tag, t>> \in work.adds \cup work.removes}
           removing == {t \in Tags : <<Top.tag, t>> \in work.removes}
<1>2. PICK result \in ResultCode :
         /\ Lookup(TRUE, result)
         /\ Continue(IF ResultIsError(result) THEN [Top EXCEPT !.pc = "unwind"]
                     ELSE [Top EXCEPT !.pc = "each", !.todo = todo, !.removing = removing])
  BY DEF GetTagImplicationsForTag
<1>3. todo \subseteq Tags /\ removing \subseteq Tags
  OBVIOUS
<1>4. StatementKept
  BY <1>0, <1>2, LookupStep
<1> HIDE DEF todo, removing
<1>5. PICK frame \in Frame : Continue(frame) /\ frame.valid = Top.valid /\ frame.pc \in {"unwind", "each"}
  <2>1. CASE ResultIsError(result)
    <3> DEFINE f == [Top EXCEPT !.pc = "unwind"]
    <3>1. f \in Frame /\ f.pc = "unwind" /\ f.valid = Top.valid
      BY <1>1 DEF Frame
    <3>2. Continue(f)
      BY <1>2, <2>1
    <3> HIDE DEF f
    <3> QED
      BY <3>1, <3>2
  <2>2. CASE ~ResultIsError(result)
    <3> DEFINE f == [Top EXCEPT !.pc = "each", !.todo = todo, !.removing = removing]
    <3>2. Continue(f)
      BY <1>2, <2>2
    <3>1. f \in Frame /\ f.pc = "each" /\ f.valid = Top.valid
      BY <1>1, <1>3 DEF Frame
    <3> HIDE DEF f
    <3> QED
      BY <3>1, <3>2
  <2> QED
    BY <2>1, <2>2
<1> QED
  BY <1>1, <1>4, <1>5, ContinueAlways DEF StatementKept

\* The end of a guard: COMMIT or ROLLBACK where it is the outermost one and
\* began the transaction; a level less, or nothing, elsewhere.
LEMMA GuardStep ==
    ASSUME Always, stack # <<>>, Top.pc \in InGuard, GuardCommit \/ GuardRollback
    PROVE  /\ EngineTypeOK' /\ LockInv' /\ transactionFailed' \in BOOLEAN /\ UNCHANGED other
           /\ \/ /\ Len(stack) = 1 /\ Top.valid /\ transactionDepth = 1 /\ transactionDepth' = 0
                 /\ disk' \in {disk, work} /\ work' \in {disk, work} /\ Loose'
              \/ /\ Top.valid /\ transactionDepth > 1 /\ transactionDepth' = transactionDepth - 1
                 /\ UNCHANGED <<disk, work, sqlTx, lock>>
              \/ /\ ~Top.valid /\ UNCHANGED transactionDepth
                 /\ UNCHANGED <<disk, work, sqlTx, lock, transactionFailed>>
<1>0. TypeOK /\ LockInv /\ GuardInv
  BY DEF Always
<1>1. /\ Len(stack) \in Nat \ {0} /\ Top = stack[Len(stack)] /\ Guards = Len(stack)
  BY <1>0, TopFrame DEF TypeOK, Guards
<1>a. ASSUME EngineStep PROVE EngineTypeOK' /\ LockInv'
  BY <1>0, <1>a, EngineTypes, LockStep DEF TypeOK
<1>2. CASE Top.valid
  <2>1. PICK result \in ResultCode : CommitTransaction(result) \/ RollbackTransaction(result)
    BY <1>2 DEF GuardCommit, GuardRollback
  <2>2. EngineTypeOK' /\ LockInv'
    BY <1>a, <2>1, BackendSteps
  <2>3. transactionDepth \in Nat /\ transactionDepth >= Len(stack)
    BY <1>0, <1>1 DEF GuardInv, TypeOK
  <2>4. transactionFailed' \in BOOLEAN
    <3>1. transactionFailed' \in {transactionFailed, TRUE}
      BY <2>1, Zenon DEF CommitTransaction, RollbackTransaction
    <3> QED
      BY <1>0, <3>1, Zenon DEF TypeOK
  <2>5. CASE transactionDepth = 1
    <3>1. Len(stack) = 1
      BY <1>1, <2>3, <2>5
    <3>2. PICK rc : ExecCommit(rc) \/ ExecRollback(rc)
      BY <2>1, <2>5 DEF CommitTransaction, RollbackTransaction, ExecuteCommit, ExecuteRollback
    <3>3. transactionDepth' = 0
      BY <2>1, <2>5 DEF CommitTransaction, RollbackTransaction
    <3>4. /\ disk' \in {disk, work} /\ work' \in {disk, work} /\ Loose' /\ UNCHANGED other
      BY <3>2 DEF ExecCommit, ExecRollback, Fault, Abandon, engine, Loose
    <3> QED
      BY <1>2, <2>2, <2>4, <2>5, <3>1, <3>3, <3>4
  <2>6. CASE transactionDepth # 1
    <3>1. UNCHANGED engine /\ transactionDepth' = transactionDepth - 1
      BY <2>1, <2>6 DEF CommitTransaction, RollbackTransaction
    <3>2. transactionDepth > 1
      BY <1>1, <2>3, <2>6
    <3> QED
      BY <1>2, <2>2, <2>4, <3>1, <3>2 DEF engine
  <2> QED
    BY <2>5, <2>6
<1>3. CASE ~Top.valid
  <2>1. UNCHANGED backend
    BY <1>3 DEF GuardCommit, GuardRollback
  <2>2. EngineTypeOK' /\ LockInv'
    BY <1>a, <2>1, BackendSteps
  <2>3. UNCHANGED <<disk, work, sqlTx, lock, other, transactionDepth, transactionFailed>>
    BY <2>1 DEF backend, engine
  <2> QED
    BY <1>0, <1>3, <2>2, <2>3 DEF TypeOK
<1> QED
  BY <1>2, <1>3

\* A call under a guard returns: the guard commits at the end of AddTagToPost,
\* with whatever COMMIT returns, or its destructor rolls back.
LEMMA GuardReturnAlways ==
    ASSUME Always, stack # <<>>, Top.pc \in InGuard, GuardCommit \/ GuardRollback,
           NEW result \in ResultCode, Return(result)
    PROVE  Always' /\ AlikeBut(work', work)
<1>0. TypeOK /\ GuardInv /\ StoreInv
  BY DEF Always
<1>1. /\ Len(stack) \in Nat \ {0} /\ Top = stack[Len(stack)] /\ Guards = Len(stack)
  BY <1>0, TopFrame DEF TypeOK, Guards
<1>2. /\ stack' \in Seq(Frame) /\ Len(stack') <= MaxCalls /\ Len(stack') = Len(stack) - 1
      /\ \A i \in 1 .. Len(stack') : stack'[i] = stack[i]
      /\ Guards' = Len(stack) - 1 /\ NestInv' /\ returned' \in ResultCode \cup {"none"}
  BY AfterReturn
<1>3. EngineTypeOK' /\ LockInv' /\ transactionFailed' \in BOOLEAN
  BY GuardStep
<1>4. disk' \in {disk, work} /\ work' \in {disk, work} /\ transactionDepth' \in Nat
  BY <1>0, GuardStep DEF TypeOK
<1>5. TypeOK'
  BY <1>0, <1>2, <1>3, <1>4 DEF TypeOK
<1>6. StoreInv' /\ AlikeBut(work', work)
  <2>1. (disk' = disk \/ disk' = work) /\ (work' = disk \/ work' = work)
    BY <1>4
  <2> QED
    BY <1>0, <2>1 DEF StoreInv, AlikeBut
<1>a. ASSUME Len(stack) = 1, transactionDepth' = 0, Loose'
      PROVE  GuardInv'
  BY <1>2, <1>a DEF GuardInv
<1>b. ASSUME Top.valid, transactionDepth > 1, transactionDepth' = transactionDepth - 1,
             UNCHANGED <<disk, work, sqlTx, lock>>
      PROVE  GuardInv'
  <2>1. Loose' <=> Loose
    BY <1>b, Zenon DEF Loose
  <2>2. /\ transactionDepth \in {Guards, Guards + 1}
        /\ transactionDepth = Guards + 1 => Loose
        /\ \A i \in 1 .. Guards : stack[i].valid \/ (i = 1 /\ Loose /\ transactionDepth = Guards)
    BY <1>0 DEF GuardInv
  <2>3. \A i \in 1 .. Guards' :
           stack'[i].valid \/ (i = 1 /\ Loose' /\ transactionDepth' = Guards')
    BY <1>1, <1>2, <1>b, <2>1, <2>2
  <2>4. transactionDepth' \in {Guards', Guards' + 1} /\ (transactionDepth' = Guards' + 1 => Loose')
    BY <1>1, <1>2, <1>b, <2>1, <2>2
  <2>5. Guards' = 0 => Loose'
    BY <1>1, <1>2, <1>b, <2>1, <2>2
  <2> QED
    BY <2>3, <2>4, <2>5 DEF GuardInv
<1>c. ASSUME ~Top.valid, UNCHANGED transactionDepth, UNCHANGED <<disk, work, sqlTx, lock>>
      PROVE  GuardInv'
  <2>1. Len(stack) = 1 /\ Loose /\ transactionDepth = 1
    BY <1>0, <1>1, <1>c DEF GuardInv
  <2>2. Loose'
    BY <1>c, <2>1, Zenon DEF Loose
  <2> QED
    BY <1>2, <1>c, <2>1, <2>2 DEF GuardInv
<1>7. GuardInv'
  BY <1>a, <1>b, <1>c, GuardStep
<1> QED
  BY <1>2, <1>3, <1>5, <1>6, <1>7 DEF Always

\* A round of the loop: the implied tag is gone, or its call starts.
LEMMA NextImplicationAlways ==
    ASSUME Always, NEW t \in Tags, NextImplication(t) PROVE Always' /\ AlikeBut(work', work)
<1> DEFINE rest == [Top EXCEPT !.todo = @ \ {t}, !.removing = @ \ {t}]
           p == IF t \in Top.removing THEN "find" ELSE "follow"
           callee == Called(p, t, work.redirect[t])
<1>0. At("each") /\ TypeOK /\ LockInv /\ StoreInv /\ Len(stack) < MaxCalls
  BY DEF NextImplication, Always
<1>1. /\ stack \in Seq(Frame) /\ stack # <<>> /\ Top.pc = "each" /\ Top \in Frame
      /\ Len(stack) \in Nat \ {0} /\ "each" \in InGuard
  BY <1>0, AtTop DEF InGuard
<1>2. PICK result \in ResultCode :
         /\ GetTag(t, result)
         /\ stack' = [stack EXCEPT ![Len(stack)] = rest]
                     \o (IF ResultIsError(result) THEN <<>> ELSE <<callee>>)
  BY DEF NextImplication
<1>3. rest \in Frame /\ rest.pc = "each" /\ rest.valid = Top.valid
  BY <1>1 DEF Frame
<1>4. callee \in Frame /\ callee.pc \notin InGuard
  <2>1. work.redirect[t] \in Tags \cup {NoTag}
    BY <1>0 DEF TypeOK, Contents
  <2>2. \A q \in {"follow", "find"}, next \in Tags \cup {NoTag} :
           Called(q, t, next) \in Frame /\ Called(q, t, next).pc \notin InGuard
    BY RedirectsAssumption DEF Called, Frame, InGuard
  <2>3. p \in {"follow", "find"}
    OBVIOUS
  <2> HIDE DEF p
  <2> QED
    BY <2>1, <2>2, <2>3
<1> HIDE DEF rest, callee
<1>5. UNCHANGED returned
  BY DEF NextImplication
<1>6. StatementKept
  BY <1>0, <1>2, LookupStep DEF GetTag
<1>7. CASE ResultIsError(result)
  <2>1. [stack EXCEPT ![Len(stack)] = rest] \in Seq(Frame)
    BY <1>1, <1>3, ExceptSeq
  <2>2. stack' = [stack EXCEPT ![Len(stack)] = rest]
    BY <1>2, <1>7, <2>1, ConcatEmptySeq
  <2>3. Continue(rest)
    BY <1>5, <2>2 DEF Continue
  <2> QED
    BY <1>1, <1>3, <1>6, <2>3, ContinueAlways DEF StatementKept
<1>8. CASE ~ResultIsError(result)
  <2>1. stack' = [stack EXCEPT ![Len(stack)] = rest] \o <<callee>>
    BY <1>2, <1>8
  <2> QED
    BY <1>0, <1>1, <1>3, <1>4, <1>5, <1>6, <2>1, CallAlways DEF StatementKept
<1> QED
  BY <1>7, <1>8

\* RemoveTagFromPost looks the association up (booru.cc:233).
LEMMA FindTagAlways ==
    ASSUME Always, FindTag PROVE Always' /\ AlikeBut(work', work)
<1>0. At("find") /\ TypeOK /\ LockInv /\ StoreInv
  BY DEF FindTag, Always
<1>1. /\ stack # <<>> /\ Top.pc = "find" /\ Top \in Frame /\ {"find", "delete"} \cap InGuard = {}
  BY <1>0, AtTop DEF InGuard
<1>2. PICK result \in ResultCode :
         /\ FindPostTag(Top.tag, result)
         /\ Return(result) \/ Continue([Top EXCEPT !.pc = "delete"])
  BY DEF FindTag
<1>3. StatementKept
  BY <1>0, <1>2, LookupStep DEF FindPostTag
<1>4. CASE Return(result)
  BY <1>1, <1>3, <1>4, ReturnAlways DEF StatementKept
<1>5. CASE Continue([Top EXCEPT !.pc = "delete"])
  <2> DEFINE frame == [Top EXCEPT !.pc = "delete"]
  <2>1. frame \in Frame /\ frame.pc = "delete" /\ frame.valid = Top.valid
    BY <1>1 DEF Frame
  <2>2. Continue(frame)
    BY <1>5
  <2> HIDE DEF frame
  <2> QED
    BY <1>1, <1>3, <2>1, <2>2, ContinueAlways DEF StatementKept
<1> QED
  BY <1>2, <1>4, <1>5

\* RemoveTagFromPost deletes the association it found (booru.cc:234).
LEMMA DeleteTagAlways ==
    ASSUME Always, DeleteTag PROVE Always' /\ AlikeBut(work', work)
<1>0. At("delete") /\ TypeOK /\ LockInv /\ StoreInv
  BY DEF DeleteTag, Always
<1>1. stack # <<>> /\ Top.pc = "delete" /\ Top.tag \in Tags /\ "delete" \notin InGuard
  BY <1>0, AtTop DEF InGuard
<1>2. PICK result \in ResultCode : DeletePostTag(Top.tag, result) /\ Return(result)
  BY DEF DeleteTag
<1>3. StatementKept
  BY <1>0, <1>1, <1>2, DeleteStep
<1> QED
  BY <1>1, <1>2, <1>3, ReturnAlways DEF StatementKept

\* An outermost call starts where none is in progress.
LEMMA StartStep ==
    ASSUME NEW t \in Tags, NEW next \in Tags \cup {NoTag},
           CallAddTagToPost(t, next) \/ CallRemoveTagFromPost(t, next)
    PROVE  /\ stack = <<>> /\ UNCHANGED backend /\ returned' = "none"
           /\ stack' \in Seq(Frame) /\ Len(stack') = 1 /\ stack' # <<>> /\ Top' = stack'[1]
           /\ stack'[1].pc \in {"follow", "find"} /\ stack'[1].todo = {}
           /\ Guards' = 0
<1>1. PICK p \in {"follow", "find"} : stack' = <<Called(p, t, next)>>
  BY DEF CallAddTagToPost, CallRemoveTagFromPost
<1> DEFINE frame == Called(p, t, next)
<1>2. frame \in Frame /\ frame.pc = p /\ frame.todo = {} /\ p \notin InGuard
  <2>1. \A q \in {"follow", "find"} :
           /\ Called(q, t, next) \in Frame /\ Called(q, t, next).pc = q
           /\ Called(q, t, next).todo = {} /\ q \notin InGuard
    BY RedirectsAssumption DEF Called, Frame, InGuard
  <2> QED
    BY <2>1
<1>3. stack' = <<frame>>
  BY <1>1
<1> HIDE DEF frame
<1>4. stack' \in Seq(Frame) /\ Len(stack') = 1 /\ stack'[1] = frame /\ Top' = frame /\ stack' # <<>>
  BY <1>2, <1>3 DEF Top
<1>5. Guards' = 0
  BY <1>2, <1>4 DEF Guards
<1>6. stack = <<>> /\ UNCHANGED backend /\ returned' = "none"
  BY DEF CallAddTagToPost, CallRemoveTagFromPost
<1> QED
  BY <1>2, <1>4, <1>5, <1>6

LEMMA StartAlways ==
    ASSUME Always, NEW t \in Tags, NEW next \in Tags \cup {NoTag},
           CallAddTagToPost(t, next) \/ CallRemoveTagFromPost(t, next)
    PROVE  Always' /\ AlikeBut(work', work)
<1>0. TypeOK /\ LockInv /\ GuardInv /\ StoreInv
  BY DEF Always
<1>1. /\ stack = <<>> /\ returned' = "none" /\ stack' \in Seq(Frame) /\ Len(stack') = 1
      /\ UNCHANGED <<disk, work, sqlTx, lock, other, faults, transactionDepth, transactionFailed>>
  BY StartStep DEF backend, engine
<1>2. Guards = 0 /\ Guards' = 0
  BY <1>1, StartStep DEF Guards
<1>3. TypeOK' /\ LockInv' /\ StoreInv' /\ AlikeBut(work', work)
  BY <1>0, <1>1, CallsAssumption
     DEF TypeOK, EngineTypeOK, LockInv, Writing, StoreInv, AlikeBut
<1>4. NestInv'
  BY <1>1 DEF NestInv
<1>5. GuardInv'
  BY <1>0, <1>1, <1>2 DEF GuardInv, Loose
<1> QED
  BY <1>3, <1>4, <1>5 DEF Always

\* The process dies, and with it whatever was not committed.
LEMMA RestartAlways ==
    ASSUME Always, Restart PROVE Always' /\ AlikeBut(work', work)
<1>0. TypeOK /\ LockInv /\ StoreInv
  BY DEF Always
<1>1. /\ disk' = disk /\ work' = disk /\ ~sqlTx' /\ lock' = "none"
      /\ transactionDepth' = 0 /\ transactionFailed' = FALSE
      /\ stack' = <<>> /\ returned' = "none"
  BY DEF Restart, DestroyBackend, CloseHandle, Abandon
<1>2. EngineTypeOK' /\ LockInv'
  <2>1. EngineStep
    BY BackendSteps DEF Restart
  <2> QED
    BY <1>0, <2>1, EngineTypes, LockStep DEF TypeOK
<1>3. transactionFailed' \in BOOLEAN
  BY <1>1, Zenon
<1>4. stack' \in Seq(Frame) /\ Len(stack') = 0
  BY <1>1
<1>5. TypeOK'
  BY <1>0, <1>1, <1>2, <1>3, <1>4, CallsAssumption DEF TypeOK
<1>6. Guards' = 0
  BY <1>1 DEF Guards
<1>7. NestInv'
  BY <1>4 DEF NestInv
<1>8. GuardInv'
  BY <1>1, <1>6 DEF GuardInv, Loose
<1>9. StoreInv' /\ AlikeBut(work', work)
  BY <1>0, <1>1 DEF StoreInv, AlikeBut
<1> QED
  BY <1>2, <1>5, <1>7, <1>8, <1>9 DEF Always

\* What the other process commits to are contents whose foreign keys hold, and
\* it puts nothing on the post.
LEMMA OtherMakes ==
    ASSUME TypeOK, StoreInv, OtherProcess
    PROVE  \/ OtherAcquires \/ OtherReleases
           \/ \E db \in Contents : OtherCommits(db) /\ Sound(db) /\ db.on \subseteq disk.on
<1>0. disk \in Contents /\ Sound(disk)
  BY DEF TypeOK, StoreInv
<1>1. ASSUME NEW t \in Tags, OtherDeletesTag(t)
      PROVE  \E db \in Contents : OtherCommits(db) /\ Sound(db) /\ db.on \subseteq disk.on
  <2> DEFINE adds == {i \in disk.adds : t \notin {i[1], i[2]}}
             removes == {i \in disk.removes : t \notin {i[1], i[2]}}
             db == [disk EXCEPT !.tags = @ \ {t}, !.on = @ \ {t}, !.adds = adds, !.removes = removes]
  <2>1. OtherCommits(db)
    BY <1>1 DEF OtherDeletesTag
  <2>2. adds \subseteq disk.adds /\ removes \subseteq disk.removes
    OBVIOUS
  <2> HIDE DEF adds, removes
  <2>3. db \in Contents
    BY <1>0, <2>2 DEF Contents
  <2>4. db.on = disk.on \ {t} /\ db.tags = disk.tags \ {t} /\ db.post = disk.post
    BY <1>0 DEF Contents
  <2> HIDE DEF db
  <2> QED
    BY <1>0, <2>1, <2>3, <2>4 DEF Sound
<1>2. ASSUME OtherDeletesPost
      PROVE  \E db \in Contents : OtherCommits(db) /\ Sound(db) /\ db.on \subseteq disk.on
  <2> DEFINE db == [disk EXCEPT !.post = FALSE, !.on = {}]
  <2>1. OtherCommits(db)
    BY <1>2 DEF OtherDeletesPost
  <2>2. db \in Contents /\ db.on = {}
    BY <1>0 DEF Contents
  <2> HIDE DEF db
  <2> QED
    BY <2>1, <2>2 DEF Sound
<1>3. ASSUME NEW r \in OtherRedirects, OtherRedirectsTag(r[1], r[2])
      PROVE  \E db \in Contents : OtherCommits(db) /\ Sound(db) /\ db.on \subseteq disk.on
  <2> DEFINE redirect == [disk.redirect EXCEPT ![r[1]] = r[2]]
             db == [disk EXCEPT !.redirect = redirect]
  <2>1. OtherCommits(db)
    BY <1>3 DEF OtherRedirectsTag
  <2>2. redirect \in [Tags -> Tags \cup {NoTag}]
    BY <1>0, OtherAssumption DEF Contents
  <2> HIDE DEF redirect
  <2>3. db \in Contents /\ db.on = disk.on /\ db.tags = disk.tags /\ db.post = disk.post
    BY <1>0, <2>2 DEF Contents
  <2> HIDE DEF db
  <2> QED
    BY <1>0, <2>1, <2>3 DEF Sound
<1>4. ASSUME NEW i \in OtherImplies, OtherChangesImplication(i)
      PROVE  \E db \in Contents : OtherCommits(db) /\ Sound(db) /\ db.on \subseteq disk.on
  <2>1. PICK flag \in {"add", "remove", "none"} :
           OtherCommits([disk EXCEPT
             !.adds    = IF flag = "add" THEN @ \cup {i} ELSE @ \ {i},
             !.removes = IF flag = "remove" THEN @ \cup {i} ELSE @ \ {i}])
    BY <1>4 DEF OtherChangesImplication
  <2> DEFINE adds == IF flag = "add" THEN disk.adds \cup {i} ELSE disk.adds \ {i}
             removes == IF flag = "remove" THEN disk.removes \cup {i} ELSE disk.removes \ {i}
             db == [disk EXCEPT !.adds = adds, !.removes = removes]
  <2>2. OtherCommits(db)
    BY <2>1
  <2>3. adds \subseteq Tags \X Tags /\ removes \subseteq Tags \X Tags
    <3>1. i \in Tags \X Tags
      BY OtherAssumption
    <3>2. disk.adds \subseteq Tags \X Tags /\ disk.removes \subseteq Tags \X Tags
      BY <1>0 DEF Contents
    <3> QED
      BY <3>1, <3>2
  <2> HIDE DEF adds, removes
  <2>4. db \in Contents /\ db.on = disk.on /\ db.tags = disk.tags /\ db.post = disk.post
    BY <1>0, <2>3 DEF Contents
  <2> HIDE DEF db
  <2> QED
    BY <1>0, <2>2, <2>4 DEF Sound
<1> QED
  BY <1>1, <1>2, <1>3, <1>4 DEF OtherProcess

\* The other process changes nothing but the disk, and that only where this
\* connection holds no lock.
LEMMA OtherProcessStep ==
    ASSUME TypeOK, LockInv, StoreInv, OtherProcess
    PROVE  /\ UNCHANGED <<sqlTx, lock, faults, transactionDepth, transactionFailed, stack, returned>>
           /\ EngineTypeOK' /\ LockInv' /\ StoreInv' /\ disk' \in Contents /\ work' \in Contents
           /\ disk'.on \subseteq disk.on
           /\ \/ UNCHANGED <<disk, work>>
              \/ lock = "none" /\ work' = disk' /\ other' # other
<1>0. disk \in Contents /\ work \in Contents /\ EngineTypeOK
  BY DEF TypeOK
<1>1. UNCHANGED <<transactionDepth, transactionFailed, stack, returned>>
  BY DEF OtherProcess, Levels
<1>2. CASE OtherAcquires \/ OtherReleases
  <2>1. UNCHANGED <<disk, work, sqlTx, lock, faults>>
    BY <1>2 DEF OtherAcquires, OtherReleases
  <2>2. EngineStep
    BY <1>2 DEF EngineStep
  <2>3. EngineTypeOK' /\ LockInv'
    BY <1>0, <2>2, EngineTypes, LockStep
  <2> QED
    BY <1>0, <1>1, <2>1, <2>3 DEF StoreInv
<1>3. ASSUME NEW db \in Contents, OtherCommits(db), Sound(db), db.on \subseteq disk.on
      PROVE  /\ UNCHANGED <<sqlTx, lock, faults>>
             /\ EngineTypeOK' /\ LockInv' /\ StoreInv' /\ disk' \in Contents /\ work' \in Contents
             /\ disk'.on \subseteq disk.on /\ lock = "none" /\ work' = disk' /\ other' # other
  <2>1. /\ disk' = db /\ work' = db /\ UNCHANGED <<sqlTx, lock, faults>> /\ lock = "none"
        /\ other' # other
    BY <1>3 DEF OtherCommits, LockInv
  <2>2. EngineStepTo(db)
    BY <1>3 DEF EngineStepTo
  <2>3. EngineTypeOK' /\ LockInv'
    BY <1>0, <2>2, EngineTypes, LockStep
  <2>4. StoreInv'
    BY <1>3, <2>1 DEF StoreInv, AlikeBut
  <2> QED
    BY <1>3, <2>1, <2>3, <2>4
<1> QED
  BY <1>1, <1>2, <1>3, OtherMakes

LEMMA OtherProcessAlways ==
    ASSUME Always, OtherProcess PROVE Always'
<1>0. TypeOK /\ LockInv /\ StoreInv /\ NestInv /\ GuardInv
  BY DEF Always
<1>1. /\ UNCHANGED <<sqlTx, lock, faults, transactionDepth, transactionFailed, stack, returned>>
      /\ EngineTypeOK' /\ LockInv' /\ StoreInv' /\ disk' \in Contents /\ work' \in Contents
  BY <1>0, OtherProcessStep
<1>2. Guards' = Guards
  BY <1>1 DEF Guards, Top
<1>3. TypeOK' /\ NestInv'
  BY <1>0, <1>1 DEF TypeOK, NestInv
<1>4. GuardInv'
  BY <1>0, <1>1, <1>2 DEF GuardInv, Loose
<1> QED
  BY <1>1, <1>3, <1>4 DEF Always

\* Initially nothing is locked and no call is in progress.
LEMMA InitAlways == Init => Always
<1> SUFFICES ASSUME Init PROVE Always
  OBVIOUS
<1>1. PICK contents \in Catalogs : BackendInit(contents)
  BY DEF Init
<1>2. contents \in Contents /\ Sound(contents)
  BY CatalogsAssumption DEF Sound
<1>3. /\ disk = contents /\ work = contents /\ sqlTx = FALSE /\ lock = "none"
      /\ other = "none" /\ faults = 0 /\ transactionDepth = 0 /\ transactionFailed = FALSE
  BY <1>1 DEF BackendInit, EngineInit
<1>4. stack = <<>> /\ returned = "none"
  BY DEF Init
<1>5. EngineTypeOK /\ LockInv
  <2>1. sqlTx \in BOOLEAN /\ ~sqlTx
    BY <1>3, Zenon
  <2>2. EngineTypeOK
    BY <1>3, <2>1, MaxFaultsAssumption DEF EngineTypeOK
  <2> QED
    BY <1>3, <2>1, <2>2 DEF LockInv, Writing
<1>6. transactionFailed \in BOOLEAN
  BY <1>3, Zenon
<1>7. stack \in Seq(Frame) /\ Len(stack) = 0 /\ 0 <= MaxCalls
  BY <1>4, CallsAssumption
<1>8. TypeOK /\ StoreInv
  BY <1>2, <1>3, <1>4, <1>5, <1>6, <1>7 DEF TypeOK, StoreInv, AlikeBut
<1>9. Guards = 0
  BY <1>4 DEF Guards
<1>10. NestInv /\ GuardInv
  BY <1>3, <1>7, <1>9 DEF NestInv, GuardInv, Loose
<1> QED
  BY <1>5, <1>8, <1>10 DEF Always

\* The steps of the system, one by one.
LEMMA StepCases ==
    ASSUME Next
    PROVE  \/ \E t \in Tags, next \in Tags \cup {NoTag} :
                CallAddTagToPost(t, next) \/ CallRemoveTagFromPost(t, next)
           \/ FollowRedirection \/ OpenGuard \/ CreateTag \/ GetTagImplicationsForTag \/ Unwind
           \/ \E t \in Tags : NextImplication(t)
           \/ CommitAndReturn \/ FindTag \/ DeleteTag \/ Restart \/ OtherProcess
  BY DEF Next, Step, StackOverflow, Crash

\* Every step keeps what always holds; only the other process changes more
\* than the tags on the post.
LEMMA AlwaysStep ==
    ASSUME Always, Next PROVE Always' /\ (AlikeBut(work', work) \/ OtherProcess)
<1>1. ASSUME Unwind PROVE Always' /\ AlikeBut(work', work)
  <2>1. stack # <<>> /\ Top.pc \in InGuard /\ GuardRollback /\ Return("DatabaseLocked")
    BY <1>1 DEF Unwind, At, InGuard
  <2>2. "DatabaseLocked" \in ResultCode
    BY DEF ResultCode, Errors
  <2> QED
    BY <2>1, <2>2, GuardReturnAlways
<1>2. ASSUME CommitAndReturn PROVE Always' /\ AlikeBut(work', work)
  <2>1. stack # <<>> /\ Top.pc \in InGuard /\ GuardCommit /\ Return("OK")
    BY <1>2 DEF CommitAndReturn, At, InGuard
  <2>2. "OK" \in ResultCode
    BY DEF ResultCode, Successes
  <2> QED
    BY <2>1, <2>2, GuardReturnAlways
<1> QED
  BY <1>1, <1>2, StepCases, StartAlways, FollowRedirectionAlways, OpenGuardAlways, CreateTagAlways,
     GetTagImplicationsForTagAlways, NextImplicationAlways, FindTagAlways, DeleteTagAlways,
     RestartAlways, OtherProcessAlways

LEMMA AlwaysStutter == ASSUME Always, UNCHANGED vars PROVE Always'
<1>1. /\ UNCHANGED <<disk, work, sqlTx, lock, other, faults, transactionDepth, transactionFailed>>
      /\ UNCHANGED <<stack, returned>>
  BY DEF vars, backend, engine
<1>2. Guards' = Guards
  BY <1>1 DEF Guards, Top
<1>3. TypeOK' /\ LockInv' /\ StoreInv' /\ NestInv'
  BY <1>1 DEF Always, TypeOK, EngineTypeOK, LockInv, Writing, StoreInv, NestInv
<1>4. GuardInv'
  BY <1>1, <1>2 DEF Always, GuardInv, Loose
<1> QED
  BY <1>3, <1>4 DEF Always

----------------------------------------------------------------------------
(***************************************************************************)
(* How calls and returns keep the locks, the depth and the copies together *)
(* as long as the disk is not full.                                        *)
(***************************************************************************)

\* A call goes on after a statement, on the same side of its guard.
LEMMA ContinueDepth ==
    ASSUME Inv, stack # <<>>, NEW frame \in Frame, Continue(frame),
           frame.pc \in InGuard <=> Top.pc \in InGuard, frame.valid = Top.valid,
           frame.pc = "each" => lock' # "none",
           frame.pc = "unwind" => lock' = "none",
           LockKept, UNCHANGED <<transactionDepth, transactionFailed>>
    PROVE  StackInv' /\ DepthInv'
<1>0. stack \in Seq(Frame) /\ StackInv /\ DepthInv
  BY DEF Inv, Always, TypeOK
<1>1. Len(stack) \in Nat \ {0} /\ Top = stack[Len(stack)]
  BY <1>0, TopFrame
<1>2. /\ stack' # <<>> /\ Len(stack') = Len(stack)
      /\ Top' = frame /\ stack'[Len(stack)] = frame
      /\ \A i \in 1 .. Len(stack) : i < Len(stack) => stack'[i] = stack[i]
  BY <1>0, ContinueStack
<1>3. Guards' = Guards /\ Guards \in 0 .. Len(stack)
  BY <1>1, <1>2 DEF Guards
<1>4. \A i \in 1 .. Len(stack) : stack'[i].valid = stack[i].valid
  BY <1>1, <1>2
<1>5. StackInv'
  BY <1>0, <1>1, <1>2 DEF StackInv, At, LockKept
<1>6. DepthInv'
  BY <1>0, <1>1, <1>3, <1>4 DEF DepthInv, LockKept
<1> QED
  BY <1>5, <1>6

\* A call without a guard returns after a statement.
LEMMA ReturnDepth ==
    ASSUME Inv, stack # <<>>, NEW result \in ResultCode, Return(result), Top.pc \notin InGuard,
           LockKept, UNCHANGED <<transactionDepth, transactionFailed>>
    PROVE  StackInv' /\ DepthInv'
<1>0. Always /\ StackInv /\ DepthInv /\ Len(stack) \in Nat \ {0}
  BY TopFrame DEF Inv, Always, TypeOK
<1>1. /\ Len(stack') = Len(stack) - 1 /\ (stack' # <<>> => Top'.pc = "each")
      /\ \A i \in 1 .. Len(stack') : stack'[i] = stack[i]
      /\ Guards' = Len(stack) - 1
  BY <1>0, AfterReturn
<1>2. Guards' = Guards /\ Guards = Len(stack) - 1
  BY <1>0, <1>1 DEF Guards
<1>3. StackInv'
  BY <1>0, <1>1 DEF StackInv, At, LockKept
<1>4. DepthInv'
  BY <1>0, <1>1, <1>2 DEF DepthInv, LockKept
<1> QED
  BY <1>3, <1>4

\* The loop over the implications calls.
LEMMA CallDepth ==
    ASSUME Inv, stack # <<>>, NEW frame \in Frame, NEW callee \in Frame,
           stack' = [stack EXCEPT ![Len(stack)] = frame] \o <<callee>>,
           Top.pc = "each", frame.pc = "each", frame.valid = Top.valid,
           callee.pc \notin InGuard, LockKept, UNCHANGED <<transactionDepth, transactionFailed>>
    PROVE  StackInv' /\ DepthInv'
<1>0. stack \in Seq(Frame) /\ NestInv /\ StackInv /\ DepthInv
  BY DEF Inv, Always, TypeOK
<1>1. Len(stack) \in Nat \ {0} /\ Top = stack[Len(stack)]
  BY <1>0, TopFrame
<1>2. /\ stack' # <<>> /\ Len(stack') = Len(stack) + 1
      /\ Top' = callee /\ stack'[Len(stack)] = frame /\ stack'[Len(stack) + 1] = callee
      /\ \A i \in 1 .. Len(stack) : i < Len(stack) => stack'[i] = stack[i]
  BY <1>0, CallStack
<1>3. "each" \in InGuard /\ "unwind" \in InGuard
  BY DEF InGuard
<1>4. Guards' = Guards /\ Guards = Len(stack)
  BY <1>1, <1>2, <1>3 DEF Guards
<1>5. \A i \in 1 .. Len(stack) : stack'[i].valid = stack[i].valid /\ stack'[i].pc = "each"
  BY <1>0, <1>1, <1>2 DEF NestInv
<1>6. StackInv'
  BY <1>0, <1>1, <1>2, <1>3, <1>5 DEF StackInv, At, LockKept
<1>7. DepthInv'
  BY <1>0, <1>1, <1>4, <1>5 DEF DepthInv, LockKept
<1> QED
  BY <1>6, <1>7

\* What a frame knows of the rows that it has copies of; the outermost call
\* was made with a copy of the application's.
Faithful(frame, i) ==
    /\ i # 1 /\ frame.pc \in {"follow", "insert"} => frame.redirect = work.redirect[frame.tag]
    /\ \A u \in frame.todo :
          /\ frame.pc = "each"
          /\ <<frame.tag, u>> \in IF u \in frame.removing THEN work.removes ELSE work.adds

LEMMA CopiesInvFaithful ==
    CopiesInv <=> /\ At("insert") => Top.redirect = NoTag
                  /\ \A i \in 1 .. Len(stack) : Faithful(stack[i], i)
  BY DEF CopiesInv, Faithful

\* Copies stay faithful in a step that changes no tag and no implication: of a
\* call that goes on,
LEMMA ContinueCopies ==
    ASSUME Inv, stack # <<>>, NEW frame \in Frame, Continue(frame), AlikeBut(work', work),
           frame.pc = "insert" => frame.redirect = NoTag, Faithful(frame, Len(stack))
    PROVE  CopiesInv'
<1>0. stack \in Seq(Frame) /\ CopiesInv
  BY DEF Inv, Always, TypeOK
<1>1. Len(stack) \in Nat \ {0}
  BY <1>0, TopFrame
<1>2. /\ stack' # <<>> /\ Len(stack') = Len(stack)
      /\ Top' = frame /\ stack'[Len(stack)] = frame
      /\ \A i \in 1 .. Len(stack) : i < Len(stack) => stack'[i] = stack[i]
  BY <1>0, ContinueStack
<1>3. \A i \in 1 .. Len(stack) : Faithful(stack'[i], i)
  BY <1>0, <1>1, <1>2, CopiesInvFaithful
<1>4. \A i \in 1 .. Len(stack') : Faithful(stack[i], i)'
  BY <1>2, <1>3 DEF AlikeBut, Faithful
<1>5. (At("insert") => Top.redirect = NoTag)'
  BY <1>2 DEF At
<1> QED
  BY <1>4, <1>5 DEF CopiesInv, Faithful

\* of one that returns,
LEMMA ReturnCopies ==
    ASSUME Inv, stack # <<>>, NEW result \in ResultCode, Return(result), AlikeBut(work', work)
    PROVE  CopiesInv'
<1>0. Always /\ CopiesInv /\ Len(stack) \in Nat \ {0}
  BY TopFrame DEF Inv, Always, TypeOK
<1>1. /\ Len(stack') = Len(stack) - 1 /\ (stack' # <<>> => Top'.pc = "each")
      /\ \A i \in 1 .. Len(stack') : stack'[i] = stack[i]
  BY <1>0, AfterReturn
<1>2. \A i \in 1 .. Len(stack') : Faithful(stack'[i], i)
  BY <1>0, <1>1, CopiesInvFaithful
<1>3. \A i \in 1 .. Len(stack') : Faithful(stack[i], i)'
  BY <1>2 DEF AlikeBut, Faithful
<1>4. ~At("insert")'
  BY <1>1 DEF At
<1> QED
  BY <1>3, <1>4 DEF CopiesInv, Faithful

\* and of one that calls.
LEMMA CallCopies ==
    ASSUME Inv, stack # <<>>, NEW frame \in Frame, NEW callee \in Frame,
           stack' = [stack EXCEPT ![Len(stack)] = frame] \o <<callee>>, AlikeBut(work', work),
           callee.pc # "insert", Faithful(frame, Len(stack)), Faithful(callee, Len(stack) + 1)
    PROVE  CopiesInv'
<1>0. stack \in Seq(Frame) /\ CopiesInv
  BY DEF Inv, Always, TypeOK
<1>1. Len(stack) \in Nat \ {0}
  BY <1>0, TopFrame
<1>2. /\ Len(stack') = Len(stack) + 1
      /\ Top' = callee /\ stack'[Len(stack)] = frame /\ stack'[Len(stack) + 1] = callee
      /\ \A i \in 1 .. Len(stack) : i < Len(stack) => stack'[i] = stack[i]
  BY <1>0, CallStack
<1>3. \A i \in 1 .. Len(stack') : Faithful(stack'[i], i)
  BY <1>0, <1>1, <1>2, CopiesInvFaithful
<1>4. \A i \in 1 .. Len(stack') : Faithful(stack[i], i)'
  BY <1>3 DEF AlikeBut, Faithful
<1>5. ~At("insert")'
  BY <1>2 DEF At
<1> QED
  BY <1>4, <1>5 DEF CopiesInv, Faithful

----------------------------------------------------------------------------
\* Every step but a full disk keeps the invariant.

\* Under a guard, and in every nested call, there is a transaction; what is
\* left to do is left in loops only.
LEMMA InTransaction ==
    ASSUME Inv, NEW p \in {"follow", "insert", "implications", "each", "unwind", "find", "delete"},
           At(p)
    PROVE  /\ p \in InGuard => sqlTx
           /\ Len(stack) > 1 => sqlTx
           /\ p # "each" => Top.todo = {}
           /\ Faithful(Top, Len(stack))
<1>0. Always /\ DepthInv /\ CopiesInv
  BY DEF Inv
<1>1. /\ Len(stack) \in Nat \ {0} /\ Top = stack[Len(stack)] /\ Top.pc = p
      /\ Guards = IF p \in InGuard THEN Len(stack) ELSE Len(stack) - 1
  BY <1>0, AtTop
<1>2. (p \in InGuard => sqlTx) /\ (Len(stack) > 1 => sqlTx)
  BY <1>0, <1>1 DEF DepthInv
<1>3. Faithful(Top, Len(stack))
  BY <1>0, <1>1, CopiesInvFaithful
<1>4. p # "each" => Top.todo = {}
  BY <1>1, <1>3 DEF Faithful
<1> QED
  BY <1>2, <1>3, <1>4

LEMMA FollowRedirectionInv ==
    ASSUME Inv, Always', AlikeBut(work', work), FollowRedirection PROVE Inv'
<1> DEFINE next == Top.redirect
<1>0. At("follow") /\ next # NoTag /\ Always /\ TypeOK /\ LockInv /\ StoreInv
  BY DEF FollowRedirection, Inv, Always
<1>1. /\ stack # <<>> /\ Top.pc = "follow" /\ Top \in Frame /\ next \in Tags
      /\ Top.hops \in 0 .. MaxRedirects + 1 /\ "follow" \notin InGuard /\ Top.todo = {}
  BY <1>0, AtTop, InTransaction DEF InGuard
<1>2. work.redirect[next] \in Tags \cup {NoTag}
  BY <1>0, <1>1 DEF TypeOK, Contents
<1> HIDE DEF next
<1>3. CASE Return("RecursionExceeded") /\ UNCHANGED backend
  <2>1. LockKept /\ UNCHANGED <<transactionDepth, transactionFailed>>
    BY <1>3 DEF backend, engine, LockKept
  <2>2. "RecursionExceeded" \in ResultCode
    BY DEF ResultCode, Errors
  <2> QED
    BY <1>1, <1>3, <2>1, <2>2, ReturnDepth, ReturnCopies DEF Inv
<1>4. ASSUME NEW result \in ResultCode, GetTag(next, result)
      PROVE  LockKept /\ UNCHANGED <<transactionDepth, transactionFailed>>
  BY <1>0, <1>4, LookupStep DEF GetTag, StatementKept
<1>5. ASSUME NEW result \in ResultCode, GetTag(next, result), Return(result)
      PROVE  Inv'
  BY <1>1, <1>4, <1>5, ReturnDepth, ReturnCopies DEF Inv
<1>6. ASSUME NEW result \in ResultCode, GetTag(next, result), Top.hops <= MaxRedirects,
             Continue([Top EXCEPT !.tag = next, !.redirect = work.redirect[next], !.hops = @ + 1])
      PROVE  Inv'
  <2> DEFINE frame == [Top EXCEPT !.tag = next, !.redirect = work.redirect[next], !.hops = @ + 1]
  <2>1. LockKept /\ UNCHANGED <<transactionDepth, transactionFailed>>
    BY <1>4, <1>6
  <2>2. /\ frame \in Frame /\ frame.pc = "follow" /\ frame.valid = Top.valid
        /\ frame.tag = next /\ frame.redirect = work.redirect[next] /\ frame.todo = {}
    <3>1. Top.hops + 1 \in 0 .. MaxRedirects + 1
      BY <1>1, <1>6, RedirectsAssumption
    <3> QED
      BY <1>1, <1>2, <3>1 DEF Frame
  <2> HIDE DEF frame
  <2>3. Continue(frame)
    BY <1>6 DEF frame
  <2>4. Faithful(frame, Len(stack))
    BY <2>2 DEF Faithful
  <2> QED
    BY <1>1, <2>1, <2>2, <2>3, <2>4, ContinueDepth, ContinueCopies DEF Inv
<1> QED
  BY <1>3, <1>5, <1>6 DEF FollowRedirection, next

LEMMA OpenGuardInv ==
    ASSUME Inv, Always', AlikeBut(work', work), OpenGuard PROVE Inv'
<1>0. At("follow") /\ Top.redirect = NoTag /\ Always /\ LockInv /\ GuardInv /\ StackInv /\ DepthInv
  BY DEF OpenGuard, Inv, Always
<1>1. /\ stack \in Seq(Frame) /\ stack # <<>>
      /\ Len(stack) \in Nat \ {0} /\ Top = stack[Len(stack)] /\ Top \in Frame
      /\ "insert" \in InGuard /\ Guards = Len(stack) - 1 /\ Top.pc = "follow"
      /\ Len(stack) > 1 => sqlTx
      /\ Top.todo = {} /\ Faithful(Top, Len(stack))
  BY <1>0, AtTop, InTransaction DEF InGuard
<1>2. PICK result \in ResultCode :
         /\ BeginTransaction(result)
         /\ Continue([Top EXCEPT !.pc = "insert", !.hops = 0, !.valid = ~ResultIsError(result)])
  BY DEF OpenGuard
<1> DEFINE frame == [Top EXCEPT !.pc = "insert", !.hops = 0, !.valid = ~ResultIsError(result)]
<1>3. /\ frame \in Frame /\ frame.pc = "insert" /\ frame.tag = Top.tag
      /\ frame.redirect = Top.redirect /\ frame.todo = Top.todo
  BY <1>1, OpenedFrame
<1>v. frame.valid <=> ~ResultIsError(result)
  BY <1>1, OpenedFrame
<1> HIDE DEF frame
<1>4. Continue(frame)
  BY <1>2 DEF frame
<1>5. /\ stack' # <<>> /\ Len(stack') = Len(stack)
      /\ Top' = frame /\ stack'[Len(stack)] = frame
      /\ \A i \in 1 .. Len(stack) : i < Len(stack) => stack'[i] = stack[i]
  BY <1>1, <1>3, <1>4, ContinueStack
<1>6. Guards' = Guards + 1 /\ Guards' = Len(stack)
  <2>1. Top'.pc \in InGuard /\ stack' # <<>> /\ Len(stack') = Len(stack)
    BY <1>1, <1>3, <1>5
  <2>2. Guards' = Len(stack)
    BY <2>1 DEF Guards
  <2> QED
    BY <1>1, <2>2
<1>7. /\ UNCHANGED <<disk, work, lock>>
      /\ transactionDepth' = transactionDepth + 1
      /\ transactionFailed' \in {FALSE, transactionFailed}
      /\ transactionDepth = 0 => sqlTx' /\ (ResultIsError(result) <=> sqlTx)
      /\ transactionDepth # 0 => UNCHANGED sqlTx /\ ~ResultIsError(result)
  BY <1>0, <1>2, BeginStep
<1>8. /\ transactionDepth \in {Guards, Guards + 1}
      /\ transactionDepth = Guards + 1 => lock = "pending"
      /\ \A i \in 1 .. Guards : stack'[i].valid \/ (i = 1 /\ lock = "pending" /\ transactionDepth = Guards)
      /\ Guards = 0 => Loose
  BY <1>0, <1>1, <1>5 DEF DepthInv, GuardInv
<1>9. sqlTx'
  <2>1. transactionDepth # 0 /\ Len(stack) = 1 => lock = "pending"
    BY <1>1, <1>8
  <2>2. lock = "pending" => sqlTx
    BY <1>0 DEF LockInv
  <2>3. Len(stack) = 1 \/ Len(stack) > 1
    BY <1>1
  <2>4. transactionDepth # 0 => sqlTx
    BY <1>1, <2>1, <2>2, <2>3, Zenon
  <2>5. CASE transactionDepth = 0
    BY <1>7, <2>5, Zenon
  <2>6. CASE transactionDepth # 0
    <3>1. sqlTx /\ sqlTx' = sqlTx
      BY <1>7, <2>4, <2>6, Zenon
    <3> QED
      BY <3>1, Zenon
  <2> QED
    BY <2>5, <2>6
<1>10. ~transactionFailed'
  BY <1>0, <1>7, Zenon DEF DepthInv
<1>11. ~frame.valid => Len(stack) = 1 /\ lock = "pending" /\ transactionDepth = Guards
  <2>1. ~frame.valid => transactionDepth = 0 /\ sqlTx
    BY <1>v, <1>7, Zenon
  <2>2. transactionDepth = 0 => Guards = 0 /\ Len(stack) = 1
    BY <1>1, <1>8
  <2>3. Guards = 0 /\ sqlTx => lock = "pending"
    BY <1>8, Zenon DEF Loose
  <2> QED
    BY <2>1, <2>2, <2>3
<1>12. DepthInv'
  <2>1. \A i \in 1 .. Guards' :
           stack'[i].valid \/ (i = 1 /\ lock = "pending" /\ transactionDepth' = Guards')
    BY <1>1, <1>5, <1>6, <1>7, <1>8, <1>11
  <2>2. transactionDepth' = Guards' + 1 => lock' = "pending"
    BY <1>1, <1>6, <1>7, <1>8
  <2> QED
    BY <1>7, <1>9, <1>10, <2>1, <2>2 DEF DepthInv
<1>13. StackInv'
  BY <1>0, <1>1, <1>3, <1>5, <1>7 DEF StackInv, At
<1>14. CopiesInv'
  <2>1. Faithful(frame, Len(stack))
    BY <1>1, <1>3 DEF Faithful
  <2> QED
    BY <1>0, <1>1, <1>3, <1>4, <2>1, ContinueCopies
<1> QED
  BY <1>12, <1>13, <1>14 DEF Inv

LEMMA CreateTagInv ==
    ASSUME Inv, Always', AlikeBut(work', work), faults' = faults, CreateTag PROVE Inv'
<1>0. At("insert") /\ Always /\ TypeOK /\ LockInv /\ StoreInv
  BY DEF CreateTag, Inv, Always
<1>1. /\ stack # <<>> /\ Top.pc = "insert" /\ Top \in Frame /\ Top.tag \in Tags
      /\ {"insert", "each", "implications"} \subseteq InGuard /\ sqlTx /\ Top.todo = {}
  BY <1>0, AtTop, InTransaction DEF InGuard
<1>2. PICK result \in ResultCode :
         /\ CreatePostTag(Top.tag, result)
         /\ Continue([Top EXCEPT !.pc = IF result = "AlreadyExists" THEN "each" ELSE "implications"])
  BY DEF CreateTag
<1> DEFINE p == IF result = "AlreadyExists" THEN "each" ELSE "implications"
<1>3. Continue([Top EXCEPT !.pc = p])
  BY <1>2
<1>4. p \in {"each", "implications"} /\ (p = "each" => result = "AlreadyExists")
  OBVIOUS
<1> HIDE DEF p
<1>5. /\ LockKept /\ UNCHANGED <<transactionDepth, transactionFailed>>
      /\ result = "AlreadyExists" => lock' # "none"
  BY <1>0, <1>1, <1>2, CreateStep DEF StatementKept
<1> DEFINE frame == [Top EXCEPT !.pc = p]
<1>6. frame \in Frame /\ frame.pc = p /\ frame.valid = Top.valid /\ frame.todo = {}
  BY <1>1, <1>4 DEF Frame
<1> HIDE DEF frame
<1>7. Continue(frame)
  BY <1>3 DEF frame
<1>8. Faithful(frame, Len(stack))
  BY <1>4, <1>6 DEF Faithful
<1> QED
  BY <1>1, <1>4, <1>5, <1>6, <1>7, <1>8, ContinueDepth, ContinueCopies DEF Inv

LEMMA GetTagImplicationsForTagInv ==
    ASSUME Inv, Always', AlikeBut(work', work), GetTagImplicationsForTag PROVE Inv'
<1>0. At("implications") /\ Always /\ TypeOK /\ LockInv /\ StoreInv
  BY DEF GetTagImplicationsForTag, Inv, Always
<1>1. /\ stack # <<>> /\ Top.pc = "implications" /\ Top \in Frame
      /\ {"implications", "each", "unwind"} \subseteq InGuard /\ sqlTx /\ Top.todo = {}
  BY <1>0, AtTop, InTransaction DEF InGuard
<1> DEFINE todo == {t \in Tags : <<Top.tag, t>> \in work.adds \cup work.removes}
           removing == {t \in Tags : <<Top.tag, t>> \in work.removes}
<1>2. PICK result \in ResultCode :
         /\ Lookup(TRUE, result)
         /\ Continue(IF ResultIsError(result) THEN [Top EXCEPT !.pc = "unwind"]
                     ELSE [Top EXCEPT !.pc = "each", !.todo = todo, !.removing = removing])
  BY DEF GetTagImplicationsForTag
<1>3. todo \subseteq Tags /\ removing \subseteq Tags
  OBVIOUS
<1>4. \A u \in todo : <<Top.tag, u>> \in IF u \in removing THEN work.removes ELSE work.adds
  OBVIOUS
<1>5. /\ LockKept /\ UNCHANGED <<transactionDepth, transactionFailed>>
      /\ IF ResultIsError(result) THEN lock' = "none" ELSE lock' # "none"
  BY <1>0, <1>1, <1>2, LookupStep DEF StatementKept
<1> HIDE DEF todo, removing
<1>6. CASE ResultIsError(result)
  <2> DEFINE frame == [Top EXCEPT !.pc = "unwind"]
  <2>1. frame \in Frame /\ frame.pc = "unwind" /\ frame.valid = Top.valid /\ frame.todo = {}
    BY <1>1 DEF Frame
  <2>2. Continue(frame)
    BY <1>2, <1>6
  <2> HIDE DEF frame
  <2>3. Faithful(frame, Len(stack))
    BY <2>1 DEF Faithful
  <2> QED
    BY <1>1, <1>5, <1>6, <2>1, <2>2, <2>3, ContinueDepth, ContinueCopies DEF Inv
<1>7. CASE ~ResultIsError(result)
  <2> DEFINE frame == [Top EXCEPT !.pc = "each", !.todo = todo, !.removing = removing]
  <2>1. /\ frame \in Frame /\ frame.pc = "each" /\ frame.valid = Top.valid
        /\ frame.tag = Top.tag /\ frame.todo = todo /\ frame.removing = removing
    BY <1>1, <1>3 DEF Frame
  <2>2. Continue(frame)
    BY <1>2, <1>7
  <2> HIDE DEF frame
  <2>3. Faithful(frame, Len(stack))
    BY <1>4, <2>1 DEF Faithful
  <2> QED
    BY <1>1, <1>5, <1>7, <2>1, <2>2, <2>3, ContinueDepth, ContinueCopies DEF Inv
<1> QED
  BY <1>6, <1>7

LEMMA UnwindInv ==
    ASSUME Inv, Always', AlikeBut(work', work), Unwind PROVE Inv'
<1>0. /\ At("unwind") /\ GuardRollback /\ Return("DatabaseLocked") /\ Always /\ TypeOK
      /\ NestInv /\ GuardInv /\ StackInv /\ DepthInv
  BY DEF Unwind, Inv, Always
<1>1. /\ stack # <<>> /\ Len(stack) \in Nat \ {0} /\ Top = stack[Len(stack)]
      /\ Guards = Len(stack) /\ lock = "none"
  BY <1>0, AtTop DEF InGuard, StackInv
<1>2. "DatabaseLocked" \in ResultCode
  BY DEF ResultCode, Errors
<1>3. Len(stack) = 1
  <2>1. Len(stack) # 1 => 1 \in 1 .. Len(stack) /\ 1 < Len(stack)
    BY <1>1, FirstOfMany, Zenon
  <2> QED
    BY <1>0, <1>1, <2>1 DEF NestInv, StackInv
<1>4. transactionDepth = 1 /\ Top.valid
  BY <1>0, <1>1, <1>3 DEF DepthInv, GuardInv
<1>5. transactionDepth' = 0 /\ UNCHANGED transactionFailed
  BY <1>0, <1>4, OuterRollback DEF GuardRollback
<1>6. Len(stack') = 0 /\ Guards' = 0 /\ (stack' # <<>> => Top'.pc = "each")
  BY <1>0, <1>1, <1>2, <1>3, AfterReturn
<1>7. StackInv'
  BY <1>6 DEF StackInv, At
<1>8. DepthInv'
  BY <1>0, <1>5, <1>6 DEF DepthInv
<1> QED
  BY <1>0, <1>1, <1>2, <1>7, <1>8, ReturnCopies DEF Inv

LEMMA CommitAndReturnInv ==
    ASSUME Inv, Always', AlikeBut(work', work), CommitAndReturn PROVE Inv'
<1>0. /\ At("each") /\ GuardCommit /\ Return("OK") /\ Always /\ NestInv /\ GuardInv /\ TypeOK
      /\ StackInv /\ DepthInv
  BY DEF CommitAndReturn, Inv, Always
<1>1. /\ stack # <<>> /\ Len(stack) \in Nat \ {0} /\ Top = stack[Len(stack)]
      /\ Guards = Len(stack) /\ Top.pc \in InGuard /\ sqlTx
  BY <1>0, AtTop, InTransaction DEF InGuard
<1>2. "OK" \in ResultCode
  BY DEF ResultCode, Successes
<1>3. /\ Len(stack') = Len(stack) - 1 /\ (stack' # <<>> => Top'.pc = "each")
      /\ \A i \in 1 .. Len(stack') : stack'[i] = stack[i]
      /\ Guards' = Len(stack) - 1
  BY <1>0, <1>1, <1>2, AfterReturn
<1>4. ~transactionFailed'
  <2>1. UNCHANGED transactionFailed
    BY <1>0, Zenon DEF GuardCommit, CommitTransaction, backend
  <2> QED
    BY <1>0, <2>1 DEF DepthInv
<1>5. CopiesInv'
  BY <1>0, <1>1, <1>2, ReturnCopies
<1>a. ASSUME Len(stack) = 1, transactionDepth' = 0 PROVE Inv'
  <2>1. StackInv'
    BY <1>3, <1>a DEF StackInv, At
  <2>2. DepthInv'
    BY <1>3, <1>4, <1>a DEF DepthInv
  <2> QED
    BY <1>5, <2>1, <2>2 DEF Inv
<1>b. ASSUME Top.valid, transactionDepth > 1, transactionDepth' = transactionDepth - 1,
             UNCHANGED <<disk, work, sqlTx, lock>>
      PROVE  Inv'
  <2>1. StackInv'
    BY <1>0, <1>1, <1>3, <1>b DEF StackInv, At
  <2>2. /\ transactionDepth = Guards + 1 => lock = "pending"
        /\ \A i \in 1 .. Guards : stack[i].valid \/ (i = 1 /\ lock = "pending" /\ transactionDepth = Guards)
    BY <1>0 DEF DepthInv
  <2>3. \A i \in 1 .. Guards' :
           stack'[i].valid \/ (i = 1 /\ lock' = "pending" /\ transactionDepth' = Guards')
    BY <1>1, <1>3, <1>b, <2>2
  <2>4. transactionDepth \in {Guards, Guards + 1}
    BY <1>0 DEF GuardInv
  <2>5. transactionDepth' = Guards' + 1 => lock' = "pending"
    BY <1>1, <1>3, <1>b, <2>2, <2>4
  <2>6. sqlTx'
    BY <1>1, <1>b, Zenon
  <2>7. DepthInv'
    BY <1>4, <2>3, <2>5, <2>6 DEF DepthInv
  <2> QED
    BY <1>5, <2>1, <2>7 DEF Inv
<1>c. ASSUME ~Top.valid, UNCHANGED transactionDepth, UNCHANGED <<disk, work, sqlTx, lock>>
      PROVE  Inv'
  <2>1. Len(stack) = 1 /\ lock = "pending" /\ transactionDepth = 1
    BY <1>0, <1>1, <1>c DEF DepthInv
  <2>2. StackInv'
    BY <1>3, <2>1 DEF StackInv, At
  <2>3. DepthInv'
    BY <1>3, <1>4, <1>c, <2>1 DEF DepthInv
  <2> QED
    BY <1>5, <2>2, <2>3 DEF Inv
<1> QED
  BY <1>0, <1>1, <1>a, <1>b, <1>c, GuardStep

LEMMA NextImplicationInv ==
    ASSUME Inv, Always', AlikeBut(work', work), NEW t \in Tags, NextImplication(t) PROVE Inv'
<1> DEFINE rest == [Top EXCEPT !.todo = @ \ {t}, !.removing = @ \ {t}]
           p == IF t \in Top.removing THEN "find" ELSE "follow"
           callee == Called(p, t, work.redirect[t])
<1>0. At("each") /\ Always /\ TypeOK /\ LockInv /\ StoreInv /\ StackInv
  BY DEF NextImplication, Inv, Always
<1>1. /\ stack \in Seq(Frame) /\ stack # <<>> /\ Top.pc = "each" /\ Top \in Frame
      /\ Len(stack) \in Nat \ {0} /\ "each" \in InGuard
      /\ Top = stack[Len(stack)] /\ Faithful(Top, Len(stack)) /\ sqlTx
  BY <1>0, AtTop, InTransaction DEF InGuard
<1>2. PICK result \in ResultCode :
         /\ GetTag(t, result)
         /\ stack' = [stack EXCEPT ![Len(stack)] = rest]
                     \o (IF ResultIsError(result) THEN <<>> ELSE <<callee>>)
  BY DEF NextImplication
<1>3. /\ rest \in Frame /\ rest.pc = "each" /\ rest.valid = Top.valid /\ rest.tag = Top.tag
      /\ rest.todo = Top.todo \ {t} /\ rest.removing = Top.removing \ {t}
  BY <1>1 DEF Frame
<1>4. /\ callee \in Frame /\ callee.pc \in {"find", "follow"} /\ callee.todo = {}
      /\ callee.tag = t /\ callee.redirect = work.redirect[t]
  <2>1. work.redirect[t] \in Tags \cup {NoTag}
    BY <1>0 DEF TypeOK, Contents
  <2>2. p \in {"follow", "find"}
    OBVIOUS
  <2> HIDE DEF p
  <2> QED
    BY <2>1, <2>2, RedirectsAssumption DEF Called, Frame
<1> HIDE DEF rest, callee
<1>5. UNCHANGED returned
  BY DEF NextImplication
<1>6. /\ LockKept /\ UNCHANGED <<transactionDepth, transactionFailed>> /\ lock' # "none"
  <2>1. lock # "none"
    BY <1>0, <1>1 DEF StackInv
  <2> QED
    BY <1>0, <1>2, <2>1, LookupStep DEF GetTag, StatementKept, LockKept
<1>7. Faithful(rest, Len(stack))
  BY <1>1, <1>3 DEF Faithful
<1>8. Faithful(callee, Len(stack) + 1)
  BY <1>4 DEF Faithful
<1>9. CASE ResultIsError(result)
  <2>1. [stack EXCEPT ![Len(stack)] = rest] \in Seq(Frame)
    BY <1>1, <1>3, ExceptSeq
  <2>2. stack' = [stack EXCEPT ![Len(stack)] = rest]
    BY <1>2, <1>9, <2>1, ConcatEmptySeq
  <2>3. Continue(rest)
    BY <1>5, <2>2 DEF Continue
  <2> QED
    BY <1>1, <1>3, <1>6, <1>7, <2>3, ContinueDepth, ContinueCopies DEF Inv
<1>10. CASE ~ResultIsError(result)
  <2>1. stack' = [stack EXCEPT ![Len(stack)] = rest] \o <<callee>>
    BY <1>2, <1>10
  <2>2. callee.pc \notin InGuard /\ callee.pc # "insert"
    BY <1>4 DEF InGuard
  <2> QED
    BY <1>1, <1>3, <1>4, <1>6, <1>7, <1>8, <2>1, <2>2, CallDepth, CallCopies DEF Inv
<1> QED
  BY <1>9, <1>10

LEMMA FindTagInv ==
    ASSUME Inv, Always', AlikeBut(work', work), FindTag PROVE Inv'
<1>0. At("find") /\ Always /\ TypeOK /\ LockInv /\ StoreInv
  BY DEF FindTag, Inv, Always
<1>1. /\ stack # <<>> /\ Top.pc = "find" /\ Top \in Frame /\ {"find", "delete"} \cap InGuard = {}
      /\ Top.todo = {}
  BY <1>0, AtTop, InTransaction DEF InGuard
<1>2. PICK result \in ResultCode :
         /\ FindPostTag(Top.tag, result)
         /\ Return(result) \/ Continue([Top EXCEPT !.pc = "delete"])
  BY DEF FindTag
<1>3. LockKept /\ UNCHANGED <<transactionDepth, transactionFailed>>
  BY <1>0, <1>2, LookupStep DEF FindPostTag, StatementKept
<1>4. CASE Return(result)
  BY <1>1, <1>3, <1>4, ReturnDepth, ReturnCopies DEF Inv
<1>5. CASE Continue([Top EXCEPT !.pc = "delete"])
  <2> DEFINE frame == [Top EXCEPT !.pc = "delete"]
  <2>1. frame \in Frame /\ frame.pc = "delete" /\ frame.valid = Top.valid /\ frame.todo = {}
    BY <1>1 DEF Frame
  <2>2. Continue(frame)
    BY <1>5
  <2> HIDE DEF frame
  <2>3. Faithful(frame, Len(stack))
    BY <2>1 DEF Faithful
  <2> QED
    BY <1>1, <1>3, <2>1, <2>2, <2>3, ContinueDepth, ContinueCopies DEF Inv
<1> QED
  BY <1>2, <1>4, <1>5

LEMMA DeleteTagInv ==
    ASSUME Inv, Always', AlikeBut(work', work), faults' = faults, DeleteTag PROVE Inv'
<1>0. At("delete") /\ Always /\ TypeOK /\ LockInv /\ StoreInv
  BY DEF DeleteTag, Inv, Always
<1>1. stack # <<>> /\ Top.pc = "delete" /\ Top.tag \in Tags /\ "delete" \notin InGuard
  BY <1>0, AtTop DEF InGuard
<1>2. PICK result \in ResultCode : DeletePostTag(Top.tag, result) /\ Return(result)
  BY DEF DeleteTag
<1>3. LockKept /\ UNCHANGED <<transactionDepth, transactionFailed>>
  BY <1>0, <1>1, <1>2, DeleteStep DEF StatementKept
<1> QED
  BY <1>1, <1>2, <1>3, ReturnDepth, ReturnCopies DEF Inv

LEMMA StartInv ==
    ASSUME Inv, Always', NEW t \in Tags, NEW next \in Tags \cup {NoTag},
           CallAddTagToPost(t, next) \/ CallRemoveTagFromPost(t, next)
    PROVE  Inv'
<1>0. DepthInv
  BY DEF Inv
<1>1. /\ stack = <<>> /\ Len(stack') = 1 /\ Top' = stack'[1]
      /\ stack'[1].pc \in {"follow", "find"} /\ stack'[1].todo = {} /\ Guards' = 0
      /\ UNCHANGED <<lock, sqlTx, transactionDepth, transactionFailed>>
  BY StartStep DEF backend, engine
<1>2. Guards = 0
  BY <1>1 DEF Guards
<1>3. StackInv' /\ CopiesInv'
  BY <1>1 DEF StackInv, CopiesInv, At
<1>4. DepthInv'
  BY <1>0, <1>1, <1>2 DEF DepthInv
<1> QED
  BY <1>3, <1>4 DEF Inv

LEMMA RestartInv == ASSUME Inv, Always', Restart PROVE Inv'
<1>1. /\ lock' = "none" /\ transactionDepth' = 0 /\ transactionFailed' = FALSE /\ stack' = <<>>
  BY DEF Restart, DestroyBackend, CloseHandle, Abandon
<1>2. Len(stack') = 0 /\ Guards' = 0
  BY <1>1 DEF Guards
<1>3. ~transactionFailed'
  BY <1>1, Zenon
<1>4. StackInv' /\ CopiesInv'
  BY <1>1, <1>2 DEF StackInv, CopiesInv, At
<1>5. DepthInv'
  BY <1>1, <1>2, <1>3 DEF DepthInv
<1> QED
  BY <1>4, <1>5 DEF Inv

\* Where no lock is held, no call is in a loop, and no copies are relied on.
LEMMA UnlockedCopies ==
    ASSUME Inv, lock = "none"
    PROVE  \A i \in 1 .. Len(stack) : i = 1 /\ stack[i].todo = {}
<1>0. stack \in Seq(Frame) /\ NestInv /\ StackInv /\ CopiesInv
  BY DEF Inv, Always, TypeOK
<1>1. Len(stack) \in Nat
  BY <1>0
<1>2. \A i \in 1 .. Len(stack) : stack[i].pc # "each"
  BY <1>0 DEF StackInv
<1>3. \A i \in 1 .. Len(stack) : stack[i].todo = {}
  BY <1>0, <1>2 DEF CopiesInv
<1>4. Len(stack) <= 1
  BY <1>0, <1>1, <1>2 DEF NestInv
<1> QED
  BY <1>1, <1>3, <1>4

LEMMA OtherProcessInv == ASSUME Inv, Always', OtherProcess PROVE Inv'
<1>0. TypeOK /\ LockInv /\ StoreInv /\ StackInv /\ DepthInv /\ CopiesInv
  BY DEF Inv, Always
<1>1. /\ UNCHANGED <<sqlTx, lock, transactionDepth, transactionFailed, stack>>
      /\ work' = work \/ lock = "none"
  BY <1>0, OtherProcessStep
<1>2. Guards' = Guards /\ Top' = Top
  BY <1>1 DEF Guards, Top
<1>3. StackInv'
  BY <1>0, <1>1, <1>2 DEF StackInv, At
<1>4. DepthInv'
  BY <1>0, <1>1, <1>2 DEF DepthInv
<1>5. CopiesInv'
  <2>1. CASE work' = work
    BY <1>0, <1>1, <1>2, <2>1 DEF CopiesInv, At
  <2>2. CASE lock = "none"
    <3>1. \A i \in 1 .. Len(stack) : i = 1 /\ stack[i].todo = {}
      BY <2>2, UnlockedCopies
    <3> QED
      BY <1>0, <1>1, <1>2, <3>1 DEF CopiesInv, At
  <2> QED
    BY <1>1, <2>1, <2>2
<1> QED
  BY <1>3, <1>4, <1>5 DEF Inv

\* Initially nothing is locked and no call is in progress.
LEMMA InitInv == Init => Inv
<1> SUFFICES ASSUME Init PROVE Inv
  OBVIOUS
<1>1. stack = <<>> /\ lock = "none" /\ transactionDepth = 0 /\ transactionFailed = FALSE
  BY DEF Init, BackendInit, EngineInit
<1>2. Len(stack) = 0 /\ Guards = 0
  BY <1>1 DEF Guards
<1>3. ~transactionFailed
  BY <1>1, Zenon
<1>4. StackInv /\ CopiesInv
  BY <1>1, <1>2 DEF StackInv, CopiesInv, At
<1>5. DepthInv
  BY <1>1, <1>2, <1>3 DEF DepthInv
<1> QED
  BY <1>4, <1>5, InitAlways DEF Inv

\* Every step keeps the invariant until the disk is full.
LEMMA InvStep == ASSUME Inv, Next, faults' = faults PROVE Inv'
<1>1. Always' /\ (AlikeBut(work', work) \/ OtherProcess)
  BY AlwaysStep DEF Inv
<1>2. CASE OtherProcess
  BY <1>1, <1>2, OtherProcessInv
<1>3. CASE AlikeBut(work', work)
  BY <1>1, <1>3, StepCases, StartInv, FollowRedirectionInv, OpenGuardInv, CreateTagInv,
     GetTagImplicationsForTagInv, UnwindInv, NextImplicationInv, CommitAndReturnInv, FindTagInv,
     DeleteTagInv, RestartInv, OtherProcessInv
<1> QED
  BY <1>1, <1>2, <1>3

LEMMA InvStutter == ASSUME Inv, UNCHANGED vars PROVE Inv'
<1>1. /\ UNCHANGED <<work, sqlTx, lock, transactionDepth, transactionFailed, stack>>
  BY DEF vars, backend, engine
<1>2. Guards' = Guards /\ Top' = Top
  BY <1>1 DEF Guards, Top
<1>3. StackInv' /\ CopiesInv'
  BY <1>1, <1>2 DEF Inv, StackInv, CopiesInv, At
<1>4. DepthInv'
  BY <1>1, <1>2 DEF Inv, DepthInv
<1> QED
  BY <1>3, <1>4, AlwaysStutter DEF Inv

----------------------------------------------------------------------------
\* What holds in every state, and what follows from it.

\* No step takes a full disk back.
LEMMA FaultsStay ==
    ASSUME Always, Next, faults' = 0 PROVE faults = 0
<1>0. faults \in Nat
  BY MaxFaultsAssumption DEF Always, TypeOK, EngineTypeOK
<1>1. ASSUME NEW db, EngineStep \/ EngineStepTo(db) PROVE faults' = faults \/ faults' = faults + 1
  BY <1>1 DEF EngineStep, EngineStepTo, engine, Abandon, ExecBegin, ExecCommit, ExecRollback, Read,
              WriteRejected, Fault, CloseHandle, OtherAcquires, OtherReleases, Write, OtherCommits
<1>2. ASSUME NEW found, NEW result, Lookup(found, result) PROVE EngineStep
  BY <1>2 DEF Lookup, EngineStep
<1>3. ASSUME NEW t, NEW result, CreatePostTag(t, result) \/ DeletePostTag(t, result)
      PROVE  \E db : EngineStep \/ EngineStepTo(db)
  BY <1>3 DEF CreatePostTag, DeletePostTag, EngineStep, EngineStepTo
<1>4. CASE \E result : \/ BeginTransaction(result) \/ CommitTransaction(result)
                       \/ RollbackTransaction(result)
  BY <1>0, <1>1, <1>4, BackendSteps
<1>5. CASE UNCHANGED backend
  BY <1>5 DEF backend, engine
<1>6. CASE Restart
  BY <1>0, <1>1, <1>6, BackendSteps DEF Restart
<1>7. CASE OtherProcess
  BY <1>7, OtherProcessStep DEF Always
<1>8. CASE FollowRedirection \/ GetTagImplicationsForTag \/ (\E t \in Tags : NextImplication(t)) \/ FindTag
  <2>1. CASE \E found, result : Lookup(found, result)
    BY <1>0, <1>1, <1>2, <2>1
  <2> QED
    BY <1>5, <1>8, <2>1 DEF FollowRedirection, GetTagImplicationsForTag, NextImplication, FindTag,
                            GetTag, FindPostTag
<1>9. CASE CreateTag \/ DeleteTag
  <2>1. \E t, result : CreatePostTag(t, result) \/ DeletePostTag(t, result)
    BY <1>9 DEF CreateTag, DeleteTag
  <2> QED
    BY <1>0, <1>1, <1>3, <2>1
<1>10. CASE OpenGuard \/ Unwind \/ CommitAndReturn
  BY <1>4, <1>5, <1>10 DEF OpenGuard, Unwind, CommitAndReturn, GuardRollback, GuardCommit
<1>11. CASE \E t \in Tags, next \in Tags \cup {NoTag} :
              CallAddTagToPost(t, next) \/ CallRemoveTagFromPost(t, next)
  BY <1>5, <1>11 DEF CallAddTagToPost, CallRemoveTagFromPost
<1> QED
  BY <1>6, <1>7, <1>8, <1>9, <1>10, <1>11, StepCases

\* What a step does to the disk: a nested call writes nothing to it, and only
\* the COMMIT of the outermost call puts tags on the post.
LEMMA DiskStep ==
    ASSUME Inv, Next
    PROVE  /\ disk' = disk \/ Len(stack) = 1 \/ other' # other
           /\ \/ disk'.on \subseteq disk.on
              \/ /\ CommitAndReturn /\ Len(stack) = 1 /\ Top.valid /\ transactionDepth = 1
                 /\ disk' = work
<1> DEFINE Kept == disk' = disk
<1>0. Always /\ TypeOK /\ LockInv /\ StoreInv
  BY DEF Inv, Always
<1>1. ASSUME NEW found, NEW result, Lookup(found, result) PROVE Kept
  BY <1>1 DEF Lookup, Read, engine
<1>2. ASSUME UNCHANGED backend PROVE Kept
  BY <1>2 DEF backend, engine
<1>3. CASE FollowRedirection \/ GetTagImplicationsForTag \/ (\E t \in Tags : NextImplication(t)) \/ FindTag
  BY <1>1, <1>2, <1>3 DEF FollowRedirection, GetTagImplicationsForTag, NextImplication, FindTag,
                          GetTag, FindPostTag
<1>4. CASE \E t \in Tags, next \in Tags \cup {NoTag} :
             CallAddTagToPost(t, next) \/ CallRemoveTagFromPost(t, next)
  BY <1>2, <1>4 DEF CallAddTagToPost, CallRemoveTagFromPost
<1>5. CASE OpenGuard
  <2>1. PICK result : BeginTransaction(result)
    BY <1>5 DEF OpenGuard
  <2> QED
    BY <2>1 DEF BeginTransaction, ExecuteBegin, ExecBegin, engine
<1>6. CASE CreateTag
  <2>1. sqlTx
    BY <1>0, <1>6, InTransaction DEF CreateTag, InGuard
  <2>2. PICK result : CreatePostTag(Top.tag, result)
    BY <1>6 DEF CreateTag
  <2> QED
    BY <2>1, <2>2 DEF CreatePostTag, WriteRejected, Write, Fault, engine
<1>7. CASE DeleteTag
  <2>1. Top.tag \in Tags /\ (Len(stack) > 1 => sqlTx)
    BY <1>0, <1>7, AtTop, InTransaction DEF DeleteTag
  <2>2. PICK result : DeletePostTag(Top.tag, result)
    BY <1>7 DEF DeleteTag
  <2>3. disk'.on \subseteq disk.on
    BY <1>0, <2>1, <2>2, DeleteStep
  <2>4. sqlTx => disk' = disk
    BY <2>2 DEF DeletePostTag, Write, Fault, engine
  <2>5. Len(stack) # 1 => Len(stack) > 1
    <3>1. Len(stack) \in Nat \ {0}
      BY <1>0, <1>7, AtTop DEF DeleteTag
    <3> QED
      BY <3>1, FirstOfMany, Zenon
  <2> QED
    BY <2>1, <2>3, <2>4, <2>5, Zenon
<1>8. CASE Unwind
  <2>1. CASE \E result : RollbackTransaction(result)
    BY <2>1 DEF RollbackTransaction, ExecuteRollback, ExecRollback, Abandon, engine
  <2> QED
    BY <1>2, <1>8, <2>1 DEF Unwind, GuardRollback
<1>9. CASE CommitAndReturn
  <2>1. stack # <<>> /\ Top.pc \in InGuard /\ GuardCommit
    BY <1>9 DEF CommitAndReturn, At, InGuard
  <2> QED
    BY <1>0, <1>9, <2>1, GuardStep
<1>10. CASE Restart
  BY <1>10 DEF Restart, DestroyBackend, CloseHandle, Abandon
<1>11. CASE OtherProcess
  BY <1>0, <1>11, OtherProcessStep
<1> QED
  BY <1>3, <1>4, <1>5, <1>6, <1>7, <1>8, <1>9, <1>10, <1>11, StepCases

\* Init establishes what always holds, and every step keeps it.
THEOREM AlwaysHolds == Spec => []Always
<1>1. Always /\ [Next]_vars => Always'
  BY AlwaysStep, AlwaysStutter
<1> QED
  BY <1>1, InitAlways, PTL DEF Spec

\* So it is with the invariant, until the disk is full.
THEOREM Invariance == Spec => [](faults = 0 => Inv)
<1> DEFINE I == Always /\ (faults = 0 => Inv)
<1>1. Init => I
  BY InitAlways, InitInv
<1>2. I /\ [Next]_vars => I'
  <2>1. ASSUME I, Next PROVE I'
    <3>1. Always'
      BY <2>1, AlwaysStep
    <3>2. ASSUME faults' = 0 PROVE Inv'
      BY <2>1, <3>2, FaultsStay, InvStep
    <3> QED
      BY <3>1, <3>2
  <2>2. ASSUME I, UNCHANGED vars PROVE I'
    <3>1. faults' = faults
      BY <2>2 DEF vars, backend, engine
    <3> QED
      BY <2>2, <3>1, AlwaysStutter, InvStutter
  <2> QED
    BY <2>1, <2>2
<1>3. I => (faults = 0 => Inv)
  OBVIOUS
<1> HIDE DEF I
<1> QED
  BY <1>1, <1>2, <1>3, PTL DEF Spec

\* Types are kept: redirections are counted within their bound, and the stack
\* within its own.
THEOREM TypeCorrect == Spec => []TypeOK
<1>1. Always => TypeOK
  BY DEF Always
<1> QED
  BY <1>1, AlwaysHolds, PTL

\* No call leaves a transaction open behind it, whichever way it returned and
\* whatever failed; a COMMIT that found a reader is the one exception
\* (booru.cc:185,224, db.hh:72).
THEOREM NoTransactionLeftOpenAlways == Spec => []NoTransactionLeftOpen
<1>1. Always => NoTransactionLeftOpen
  BY DEF Always, GuardInv, Guards, Loose, NoTransactionLeftOpen
<1> QED
  BY <1>1, AlwaysHolds, PTL

\* No error of a nested call marks the transaction of the outer call failed
\* (booru.cc:200), until the disk is full.
THEOREM NestedErrorsNeverDoom == Spec => []NestedErrorsDoNotDoom
<1>1. (faults = 0 => Inv) => NestedErrorsDoNotDoom
  BY DEF Inv, DepthInv, NestedErrorsDoNotDoom
<1> QED
  BY <1>1, Invariance, PTL

\* No step of a nested call changes the disk, until it is full: what a call
\* does is committed at once.
THEOREM OneCommitPerCallAlways == Spec => OneCommitPerCall
<1>1. ASSUME faults = 0 => Inv, [Next]_vars
      PROVE  [faults = 0 /\ other' = other /\ disk' # disk => Len(stack) = 1]_vars
  BY <1>1, DiskStep
<1> QED
  BY <1>1, Invariance, PTL DEF Spec, OneCommitPerCall

----------------------------------------------------------------------------
(***************************************************************************)
(* Implied tags.                                                           *)
(***************************************************************************)

\* Where each tag leads to in one more redirection than f says.
OneMore(f, hops, tags, redirect) ==
    [t \in Tags \cup {NoTag} |->
       IF t \notin tags THEN NoTag
       ELSE IF redirect[t] = NoTag THEN t
       ELSE IF hops = 0 THEN NoTag
       ELSE f[hops - 1][redirect[t]]]

\* There is a function as Follow says, for any number of redirections.
LEMMA FollowExists ==
    ASSUME NEW N \in Nat, NEW tags \in SUBSET Tags, NEW redirect \in [Tags -> Tags \cup {NoTag}]
    PROVE  \E f \in [0 .. N -> [Tags \cup {NoTag} -> Tags \cup {NoTag}]] :
              \A h \in 0 .. N : f[h] = OneMore(f, h, tags, redirect)
<1> DEFINE X == Tags \cup {NoTag}
           Follows(f, n) == \A h \in 0 .. n : f[h] = OneMore(f, h, tags, redirect)
           S == {n \in 0 .. N : \E f \in [0 .. n -> [X -> X]] : Follows(f, n)}
<1>1. \A f, h : (h # 0 => f[h - 1] \in [X -> X]) => OneMore(f, h, tags, redirect) \in [X -> X]
  BY DEF OneMore
<1>2. \A f, g, h : (h # 0 => f[h - 1] = g[h - 1])
                      => OneMore(f, h, tags, redirect) = OneMore(g, h, tags, redirect)
  BY DEF OneMore
<1> HIDE DEF X
<1>3. 0 \in S
  <2> DEFINE f == [h \in 0 .. 0 |-> OneMore(<<>>, 0, tags, redirect)]
  <2>1. OneMore(<<>>, 0, tags, redirect) \in [X -> X]
    BY <1>1
  <2>2. f \in [0 .. 0 -> [X -> X]]
    BY <2>1
  <2>3. \A h \in 0 .. 0 : f[h] = OneMore(<<>>, 0, tags, redirect) /\ h = 0
    OBVIOUS
  <2> HIDE DEF f
  <2>4. Follows(f, 0)
    BY <1>2, <2>3
  <2> QED
    BY <2>2, <2>4
<1>4. ASSUME NEW n \in 0 .. N - 1, n \in S
      PROVE  n + 1 \in S
  <2>1. PICK f \in [0 .. n -> [X -> X]] : Follows(f, n)
    BY <1>4
  <2> DEFINE g == [h \in 0 .. n + 1 |-> IF h = n + 1 THEN OneMore(f, n + 1, tags, redirect) ELSE f[h]]
  <2>2. (n + 1) - 1 = n /\ n \in 0 .. n /\ n + 1 # 0
    OBVIOUS
  <2>3. OneMore(f, n + 1, tags, redirect) \in [X -> X]
    BY <1>1, <2>1, <2>2
  <2>4. g \in [0 .. n + 1 -> [X -> X]]
    BY <2>3
  <2>5. g[n + 1] = OneMore(f, n + 1, tags, redirect) /\ \A h \in 0 .. n : g[h] = f[h]
    OBVIOUS
  <2> HIDE DEF g
  <2>6. \A h \in 0 .. n + 1 : h # 0 => f[h - 1] = g[h - 1]
    BY <2>5
  <2>7. \A h \in 0 .. n + 1 : OneMore(g, h, tags, redirect) = OneMore(f, h, tags, redirect)
    BY <1>2, <2>6
  <2>8. \A h \in 0 .. n + 1 : g[h] = OneMore(f, h, tags, redirect)
    BY <2>1, <2>5
  <2>9. Follows(g, n + 1)
    BY <2>7, <2>8
  <2>10. n + 1 \in 0 .. N
    OBVIOUS
  <2> QED
    BY <2>4, <2>9, <2>10
<1>5. 0 .. N \subseteq S
  <2> HIDE DEF S
  <2> QED
    BY <1>3, <1>4, UpTo
<1>6. N \in 0 .. N
  OBVIOUS
<1>7. N \in S
  <2> HIDE DEF S
  <2> QED
    BY <1>5, <1>6
<1> QED
  BY <1>7 DEF X

\* So Follow is one, and leads to a tag that redirects no further, or to none.
LEMMA FollowRecurs ==
    ASSUME NEW db \in Contents, NEW t \in Tags \cup {NoTag}, NEW h \in 0 .. MaxRedirects + 1
    PROVE  Follow(db.tags, db.redirect)[h][t] =
             IF t \notin db.tags THEN NoTag
             ELSE IF db.redirect[t] = NoTag THEN t
             ELSE IF h = 0 THEN NoTag
             ELSE Follow(db.tags, db.redirect)[h - 1][db.redirect[t]]
<1> DEFINE X == Tags \cup {NoTag}
           M == MaxRedirects + 1
           tags == db.tags
           redirect == db.redirect
<1>1. M \in Nat /\ tags \in SUBSET Tags /\ redirect \in [Tags -> Tags \cup {NoTag}]
  BY RedirectsAssumption DEF Contents
<1> HIDE DEF tags, redirect, M
<1>2. PICK f \in [0 .. M -> [X -> X]] : \A n \in 0 .. M : f[n] = OneMore(f, n, tags, redirect)
  BY <1>1, FollowExists
<1>3. f = [n \in 0 .. M |-> OneMore(f, n, tags, redirect)]
  BY <1>2
<1>4. Follow(tags, redirect) = CHOOSE g : g = [n \in 0 .. M |-> OneMore(g, n, tags, redirect)]
  BY DEF Follow, OneMore, M
<1>5. Follow(tags, redirect) = [n \in 0 .. M |-> OneMore(Follow(tags, redirect), n, tags, redirect)]
  BY <1>3, <1>4
<1>6. Follow(tags, redirect)[h] = OneMore(Follow(tags, redirect), h, tags, redirect)
  BY <1>5 DEF M
<1> QED
  BY <1>6 DEF OneMore, tags, redirect

\* Where a tag leads to is a tag that there is, if it leads anywhere.
LEMMA ResolvedTags ==
    ASSUME NEW db \in Contents, NEW u \in Tags
    PROVE  Resolved(db, u) \in db.tags \cup {NoTag}
<1> DEFINE X == Tags \cup {NoTag}
           M == MaxRedirects + 1
           Ends(h) == \A t \in X : Follow(db.tags, db.redirect)[h][t] \in db.tags \cup {NoTag}
           S == {h \in 0 .. M : Ends(h)}
<1>1. M \in Nat /\ M \in 0 .. M /\ db.redirect \in [Tags -> X] /\ db.tags \subseteq Tags
  BY RedirectsAssumption DEF Contents
<1>2. \A h \in 0 .. M : (h # 0 => Ends(h - 1)) => Ends(h)
  <2> SUFFICES ASSUME NEW h \in 0 .. M, h # 0 => Ends(h - 1), NEW t \in X
               PROVE  Follow(db.tags, db.redirect)[h][t] \in db.tags \cup {NoTag}
    OBVIOUS
  <2>1. Follow(db.tags, db.redirect)[h][t] =
             IF t \notin db.tags THEN NoTag
             ELSE IF db.redirect[t] = NoTag THEN t
             ELSE IF h = 0 THEN NoTag
             ELSE Follow(db.tags, db.redirect)[h - 1][db.redirect[t]]
    BY FollowRecurs
  <2>2. t \in db.tags => db.redirect[t] \in X
    BY <1>1
  <2> QED
    BY <2>1, <2>2
<1> HIDE DEF Ends, M
<1>3. 0 \in S
  BY <1>1, <1>2
<1>4. \A n \in 0 .. M - 1 : n \in S => n + 1 \in S
  BY <1>1, <1>2
<1>5. 0 .. M \subseteq S
  <2> HIDE DEF S
  <2> QED
    BY <1>1, <1>3, <1>4, UpTo
<1>6. Ends(M)
  BY <1>1, <1>5
<1> QED
  BY <1>6 DEF Ends, M, Resolved

----------------------------------------------------------------------------
\* Where no implication removes tags, nested calls add them.
NestedInv ==
    disk.removes = {} => \A i \in 2 .. Len(stack) : stack[i].pc \notin {"find", "delete"}

\* A frame has implications of its tag to go through: all, or those that are
\* left.
Expects(frame, u) ==
    \/ frame.pc = "implications"
    \/ frame.pc = "each" /\ u \in frame.todo

\* A frame is about to add tag x, if it finds it.
Awaits(db, frame, x) ==
    \/ /\ frame.pc = "follow"
       /\ Follow(db.tags, db.redirect)[(MaxRedirects + 1) - frame.hops][frame.tag] = x
    \/ frame.pc = "insert" /\ frame.tag = x

\* A call for t is going to add what u leads to, or the call it made is.
Due(s, db, t, u) ==
    \E i \in 1 .. Len(s) :
        /\ s[i].tag = t
        /\ \/ Expects(s[i], u)
           \/ i < Len(s) /\ Awaits(db, s[i + 1], Resolved(db, u))

\* The implied tags of what is not committed yet are there, or due.
Covered ==
    \A t \in work.on \ disk.on, u \in Tags :
        <<t, u>> \in work.adds =>
            Resolved(work, u) \in work.on \cup {NoTag} \/ Due(stack, work, t, u)

\* The transaction is the one that the outermost call began, and its guard
\* will commit it.
Owned == Guards > 0 /\ stack[1].valid /\ transactionDepth = Guards

\* What it put on the post redirects nowhere, but for the tag that it is for.
Settled == \A t \in work.on \ disk.on : work.redirect[t] = NoTag \/ t = stack[1].tag

ImpliedInv ==
    /\ NestedInv
    /\ Owned => Settled
    /\ Owned /\ disk.removes = {} => Covered

\* The end of a call that has nothing to add any more.
LEMMA ReturnCovered ==
    ASSUME Inv, stack # <<>>, NEW result, Return(result), Covered,
           UNCHANGED <<disk, work>>,
           \A u \in Tags : ~Expects(Top, u),
           \A x \in work.tags : ~Awaits(work, Top, x)
    PROVE  Covered'
<1>0. stack \in Seq(Frame) /\ work \in Contents
  BY DEF Inv, Always, TypeOK
<1>1. Len(stack) \in Nat \ {0} /\ Top = stack[Len(stack)]
  BY <1>0, TopFrame
<1>2. Len(stack') = Len(stack) - 1 /\ \A i \in 1 .. Len(stack') : stack'[i] = stack[i]
  BY <1>0, ReturnStack
<1> SUFFICES ASSUME NEW t \in work.on \ disk.on, NEW u \in Tags, <<t, u>> \in work.adds,
                    Resolved(work, u) \notin work.on \cup {NoTag}
             PROVE  Due(stack', work, t, u)
  BY DEF Covered
<1>3. PICK i \in 1 .. Len(stack) :
         /\ stack[i].tag = t
         /\ \/ Expects(stack[i], u)
            \/ i < Len(stack) /\ Awaits(work, stack[i + 1], Resolved(work, u))
  BY DEF Covered, Due
<1>4. i # Len(stack) /\ i \in 1 .. Len(stack')
  BY <1>1, <1>2, <1>3
<1>r. Resolved(work, u) \in work.tags
  BY <1>0, ResolvedTags
<1>5. CASE Expects(stack[i], u)
  BY <1>2, <1>3, <1>4, <1>5 DEF Due
<1>6. CASE i < Len(stack) /\ Awaits(work, stack[i + 1], Resolved(work, u))
  <2>1. i + 1 # Len(stack)
    BY <1>1, <1>6, <1>r
  <2>2. i + 1 \in 1 .. Len(stack') /\ i < Len(stack')
    BY <1>1, <1>2, <1>6, <2>1
  <2>3. Awaits(work, stack'[i + 1], Resolved(work, u)) /\ stack'[i].tag = t
    BY <1>2, <1>3, <1>4, <1>6, <2>2
  <2> QED
    BY <1>4, <2>2, <2>3 DEF Due
<1> QED
  BY <1>3, <1>5, <1>6

\* A step that goes on to frame: what the innermost call adds has all of its
\* implications ahead of it, and what was due is still due, or there.
Harmless(frame) ==
    /\ work.on \subseteq work'.on
    /\ \A t \in work'.on \ work.on : t = frame.tag /\ frame.pc = "implications"
    /\ \A u \in Tags : <<Top.tag, u>> \in work.adds /\ Expects(Top, u) =>
          \/ frame.tag = Top.tag /\ Expects(frame, u)
          \/ Resolved(work, u) \in work'.on \cup {NoTag}
    /\ \A x \in work.tags : Awaits(work, Top, x) => Awaits(work, frame, x) \/ x \in work'.on

\* A call that goes on is still going to add what it was going to add, or did.
LEMMA ContinueCovered ==
    ASSUME Inv, stack # <<>>, NEW frame \in Frame, Continue(frame), Covered, Harmless(frame),
           disk' = disk, work'.tags = work.tags, work'.redirect = work.redirect,
           work'.adds = work.adds
    PROVE  Covered'
<1>0. stack \in Seq(Frame) /\ work \in Contents
  BY DEF Inv, Always, TypeOK
<1>1. Len(stack) \in Nat \ {0} /\ Top = stack[Len(stack)]
  BY <1>0, TopFrame
<1>2. /\ Len(stack') = Len(stack) /\ stack'[Len(stack)] = frame
      /\ \A i \in 1 .. Len(stack) : i < Len(stack) => stack'[i] = stack[i]
  BY <1>0, ContinueStack
<1>3. \A u : Resolved(work', u) = Resolved(work, u)
  BY DEF Resolved
<1>4. \A f, x : Awaits(work', f, x) <=> Awaits(work, f, x)
  BY DEF Awaits
<1> SUFFICES ASSUME NEW t \in work'.on \ disk.on, NEW u \in Tags, <<t, u>> \in work.adds,
                    Resolved(work, u) \notin work'.on \cup {NoTag}
             PROVE  Due(stack', work', t, u)
  BY <1>3 DEF Covered
<1>h. <<Top.tag, u>> \in work.adds /\ Expects(Top, u) => frame.tag = Top.tag /\ Expects(frame, u)
  BY DEF Harmless
<1> DEFINE Here(i) == /\ stack'[i].tag = t
                      /\ \/ Expects(stack'[i], u)
                         \/ i < Len(stack') /\ Awaits(work', stack'[i + 1], Resolved(work', u))
<1>5. ASSUME NEW i \in 1 .. Len(stack), Here(i)
      PROVE  Due(stack', work', t, u)
  BY <1>2, <1>5 DEF Due
<1> HIDE DEF Here
<1>6. CASE t \in work.on
  <2>1. PICK i \in 1 .. Len(stack) :
           /\ stack[i].tag = t
           /\ \/ Expects(stack[i], u)
              \/ i < Len(stack) /\ Awaits(work, stack[i + 1], Resolved(work, u))
    BY <1>6 DEF Covered, Due, Harmless
  <2>2. CASE i = Len(stack)
    <3>1. t = Top.tag /\ Expects(Top, u)
      BY <1>1, <2>1, <2>2
    <3>2. stack'[i].tag = t /\ Expects(stack'[i], u)
      BY <1>2, <1>h, <2>2, <3>1
    <3> QED
      BY <1>5, <3>2 DEF Here
  <2>3. CASE i < Len(stack) /\ Expects(stack[i], u)
    BY <1>2, <1>5, <2>1, <2>3 DEF Here
  <2>4. CASE i < Len(stack) /\ Awaits(work, stack[i + 1], Resolved(work, u))
    <3>1. Awaits(work, stack'[i + 1], Resolved(work, u))
      <4>1. CASE i + 1 = Len(stack)
        <5>1. Resolved(work, u) \in work.tags
          BY <1>0, ResolvedTags
        <5> QED
          BY <1>1, <1>2, <2>4, <4>1, <5>1 DEF Harmless
      <4>2. CASE i + 1 # Len(stack)
        <5>1. i + 1 \in 1 .. Len(stack) /\ i + 1 < Len(stack)
          BY <1>1, <2>4, <4>2
        <5> QED
          BY <1>2, <2>4, <5>1
      <4> QED
        BY <4>1, <4>2
    <3> QED
      BY <1>2, <1>3, <1>4, <1>5, <2>1, <2>4, <3>1 DEF Here
  <2> QED
    BY <1>1, <2>1, <2>2, <2>3, <2>4
<1>7. CASE t \notin work.on
  <2>1. t = frame.tag /\ Expects(frame, u)
    BY <1>7 DEF Expects, Harmless
  <2> QED
    BY <1>1, <1>2, <1>5, <2>1 DEF Here
<1> QED
  BY <1>6, <1>7

\* A call for one of the implications, which is then due.
LEMMA CallCovered ==
    ASSUME Inv, stack # <<>>, Covered, NEW v \in Tags, UNCHANGED <<disk, work>>, Top.pc = "each",
           NEW rest \in Frame, NEW callee \in Frame,
           stack' = [stack EXCEPT ![Len(stack)] = rest] \o <<callee>>,
           rest.tag = Top.tag, rest.pc = "each", rest.todo = Top.todo \ {v},
           callee.pc = "follow", callee.hops = 0, callee.tag = v
    PROVE  Covered'
<1>0. stack \in Seq(Frame)
  BY DEF Inv, Always, TypeOK
<1>1. Len(stack) \in Nat \ {0} /\ Top = stack[Len(stack)] /\ Top \in Frame
  BY <1>0, TopFrame
<1>5. /\ Len(stack') = Len(stack) + 1 /\ stack'[Len(stack)] = rest /\ stack'[Len(stack) + 1] = callee
      /\ \A i \in 1 .. Len(stack) : i < Len(stack) => stack'[i] = stack[i]
  BY <1>0, CallStack
<1>6. Awaits(work, callee, Resolved(work, v))
  BY RedirectsAssumption DEF Awaits, Resolved
<1> SUFFICES ASSUME NEW t \in work.on \ disk.on, NEW u \in Tags, <<t, u>> \in work.adds,
                    Resolved(work, u) \notin work.on \cup {NoTag}
             PROVE  Due(stack', work, t, u)
  BY DEF Covered
<1> DEFINE Here(i) == /\ stack'[i].tag = t
                      /\ \/ Expects(stack'[i], u)
                         \/ i < Len(stack') /\ Awaits(work, stack'[i + 1], Resolved(work, u))
<1>7. ASSUME NEW i \in 1 .. Len(stack), Here(i)
      PROVE  Due(stack', work, t, u)
  BY <1>1, <1>5, <1>7 DEF Due
<1> HIDE DEF Here
<1>8. PICK i \in 1 .. Len(stack) :
         /\ stack[i].tag = t
         /\ \/ Expects(stack[i], u)
            \/ i < Len(stack) /\ Awaits(work, stack[i + 1], Resolved(work, u))
  BY DEF Covered, Due
<1>9. CASE i = Len(stack)
  <2>1. t = Top.tag /\ u \in Top.todo
    BY <1>1, <1>8, <1>9 DEF Expects
  <2>2. CASE u = v
    <3>1. stack'[i].tag = t
      BY <1>5, <1>9, <2>1
    <3>2. i < Len(stack') /\ stack'[i + 1] = callee
      BY <1>1, <1>5, <1>9
    <3>3. Here(i)
      BY <1>6, <2>2, <3>1, <3>2 DEF Here
    <3> QED
      BY <1>7, <3>3
  <2>3. CASE u # v
    <3>1. Expects(rest, u)
      BY <2>1, <2>3 DEF Expects
    <3> QED
      BY <1>1, <1>5, <1>7, <1>9, <2>1, <3>1 DEF Here
  <2> QED
    BY <2>2, <2>3
<1>10. CASE i < Len(stack) /\ Expects(stack[i], u)
  BY <1>5, <1>7, <1>8, <1>10 DEF Here
<1>11. CASE i < Len(stack) /\ Awaits(work, stack[i + 1], Resolved(work, u))
  <2>1. CASE i + 1 = Len(stack)
    BY <1>1, <1>11, <2>1 DEF Awaits
  <2>2. CASE i + 1 # Len(stack)
    <3>1. i + 1 \in 1 .. Len(stack) /\ i + 1 < Len(stack)
      BY <1>1, <1>11, <2>2
    <3>2. stack'[i].tag = t /\ i < Len(stack')
      BY <1>1, <1>5, <1>8, <1>11
    <3>3. stack'[i + 1] = stack[i + 1]
      BY <1>5, <3>1
    <3>4. Here(i)
      BY <1>11, <3>2, <3>3 DEF Here
    <3> QED
      BY <1>7, <3>4
  <2> QED
    BY <2>1, <2>2
<1> QED
  BY <1>1, <1>8, <1>9, <1>10, <1>11

----------------------------------------------------------------------------
\* How calls and returns keep the implied tags due.

\* A call that goes on does not turn into one that removes a tag.
LEMMA NestedGoesOn ==
    ASSUME stack \in Seq(Frame), stack # <<>>, NestedInv, NEW frame \in Frame, Continue(frame),
           disk'.removes = disk.removes,
           frame.pc \in {"find", "delete"} => Top.pc \in {"find", "delete"}
    PROVE  NestedInv'
<1>1. Len(stack) \in Nat \ {0} /\ Top = stack[Len(stack)]
  BY TopFrame
<1>2. /\ Len(stack') = Len(stack) /\ stack'[Len(stack)] = frame
      /\ \A i \in 1 .. Len(stack) : i < Len(stack) => stack'[i] = stack[i]
  BY ContinueStack
<1> SUFFICES ASSUME disk.removes = {}, NEW i \in 2 .. Len(stack)
             PROVE  stack'[i].pc \notin {"find", "delete"}
  BY <1>2 DEF NestedInv
<1>3. stack[i].pc \notin {"find", "delete"}
  BY DEF NestedInv
<1>4. CASE i = Len(stack)
  BY <1>1, <1>2, <1>3, <1>4
<1>5. CASE i # Len(stack)
  <2>1. i \in 1 .. Len(stack) /\ i < Len(stack)
    BY <1>1, <1>5
  <2> QED
    BY <1>2, <1>3, <2>1
<1> QED
  BY <1>4, <1>5

\* A call that returns leaves calls that add tags, if they did.
LEMMA NestedReturns ==
    ASSUME stack \in Seq(Frame), stack # <<>>, NestedInv, NEW result, Return(result),
           disk'.removes = disk.removes
    PROVE  NestedInv'
<1>1. Len(stack) \in Nat \ {0}
  BY TopFrame
<1>2. Len(stack') = Len(stack) - 1 /\ \A i \in 1 .. Len(stack') : stack'[i] = stack[i]
  BY ReturnStack
<1> SUFFICES ASSUME disk.removes = {}, NEW i \in 2 .. Len(stack')
             PROVE  stack'[i].pc \notin {"find", "delete"}
  BY DEF NestedInv
<1>3. i \in 1 .. Len(stack') /\ i \in 2 .. Len(stack)
  BY <1>1, <1>2
<1> QED
  BY <1>2, <1>3 DEF NestedInv

\* A call goes on, on the same side of its guard.
LEMMA GoesOn ==
    ASSUME Inv, ImpliedInv, stack # <<>>, NEW frame \in Frame, Continue(frame),
           AlikeBut(work', work), UNCHANGED <<disk, transactionDepth>>,
           frame.pc \in InGuard <=> Top.pc \in InGuard, frame.valid = Top.valid,
           frame.pc \in {"find", "delete"} => Top.pc \in {"find", "delete"},
           Top.pc \in InGuard => frame.tag = Top.tag,
           \A t \in work'.on \ work.on : work.redirect[t] = NoTag \/ (Len(stack) = 1 /\ t = frame.tag),
           work'.on \ disk.on # {} /\ Owned /\ disk.removes = {} => Harmless(frame)
    PROVE  ImpliedInv'
<1>0. /\ stack \in Seq(Frame) /\ NestedInv
      /\ (Owned => Settled) /\ (Owned /\ disk.removes = {} => Covered)
      /\ work'.redirect = work.redirect /\ work'.tags = work.tags /\ work'.adds = work.adds
  BY DEF Inv, Always, TypeOK, ImpliedInv, AlikeBut
<1>1. Len(stack) \in Nat \ {0} /\ Top = stack[Len(stack)]
  BY <1>0, TopFrame
<1>2. /\ stack' # <<>> /\ Len(stack') = Len(stack) /\ Top' = frame /\ stack'[Len(stack)] = frame
      /\ \A i \in 1 .. Len(stack) : i < Len(stack) => stack'[i] = stack[i]
  BY <1>0, ContinueStack
<1>3. NestedInv'
  BY <1>0, NestedGoesOn
<1>4. Guards' = Guards
  BY <1>1, <1>2 DEF Guards
<1>5. stack'[1].valid = stack[1].valid /\ (Guards > 0 => stack'[1].tag = stack[1].tag)
  <2>1. CASE Len(stack) = 1
    <3>1. Guards > 0 => Top.pc \in InGuard
      BY <1>1, <2>1 DEF Guards
    <3> QED
      BY <1>1, <1>2, <2>1, <3>1
  <2>2. CASE Len(stack) # 1
    <3>1. 1 \in 1 .. Len(stack) /\ 1 < Len(stack)
      BY <1>1, <2>2, FirstOfMany, Zenon
    <3> QED
      BY <1>2, <3>1
  <2> QED
    BY <2>1, <2>2
<1>6. Owned' => Owned /\ Guards > 0
  BY <1>4, <1>5 DEF Owned
<1>7. ASSUME Owned' PROVE Settled'
  <2>1. Settled /\ stack'[1].tag = stack[1].tag
    BY <1>0, <1>5, <1>6, <1>7
  <2>2. Len(stack) = 1 => stack'[1] = frame
    BY <1>2
  <2> QED
    BY <1>0, <2>1, <2>2 DEF Settled
<1>8. ASSUME Owned', disk'.removes = {} PROVE Covered'
  <2>1. CASE work'.on \ disk.on = {}
    BY <2>1 DEF Covered
  <2>2. CASE work'.on \ disk.on # {}
    <3>1. Covered /\ Harmless(frame)
      BY <1>0, <1>6, <1>8, <2>2
    <3> QED
      BY <1>0, <3>1, ContinueCovered
  <2> QED
    BY <2>1, <2>2
<1> QED
  BY <1>3, <1>7, <1>8 DEF ImpliedInv

\* A call returns before it has a guard, or a nested one with its commit.
LEMMA Returns ==
    ASSUME Inv, ImpliedInv, stack # <<>>, NEW result \in ResultCode, Return(result),
           UNCHANGED disk, Len(stack) > 1 => work' = work,
           IF Top.pc \in InGuard THEN transactionDepth' = transactionDepth - 1
                                 ELSE UNCHANGED transactionDepth,
           work.on \ disk.on # {} /\ Owned /\ disk.removes = {} =>
              /\ \A u \in Tags : ~Expects(Top, u)
              /\ \A x \in work.tags : ~Awaits(work, Top, x)
    PROVE  ImpliedInv'
<1>0. /\ stack \in Seq(Frame) /\ NestedInv /\ Always
      /\ (Owned => Settled) /\ (Owned /\ disk.removes = {} => Covered)
      /\ transactionDepth \in Nat
  BY DEF Inv, Always, TypeOK, ImpliedInv
<1>1. Len(stack) \in Nat \ {0} /\ Top = stack[Len(stack)]
  BY <1>0, TopFrame
<1>2. /\ Len(stack') = Len(stack) - 1 /\ Guards' = Len(stack) - 1
      /\ \A i \in 1 .. Len(stack') : stack'[i] = stack[i]
  BY <1>0, AfterReturn
<1>3. NestedInv'
  BY <1>0, NestedReturns
<1>4. ASSUME Owned' PROVE Owned /\ Len(stack) > 1 /\ stack'[1] = stack[1]
  <2>1. Len(stack) > 1
    BY <1>1, <1>2, <1>4 DEF Owned
  <2>2. Guards = IF Top.pc \in InGuard THEN Len(stack) ELSE Len(stack) - 1
    BY DEF Guards
  <2>3. 1 \in 1 .. Len(stack')
    BY <1>1, <1>2, <2>1
  <2>4. stack'[1] = stack[1]
    BY <1>2, <2>3
  <2>5. transactionDepth' = Len(stack) - 1
    BY <1>2, <1>4 DEF Owned
  <2>6. transactionDepth = Guards /\ Guards > 0
    BY <1>0, <1>1, <2>1, <2>2, <2>5
  <2> QED
    BY <1>4, <2>1, <2>4, <2>6 DEF Owned
<1>5. ASSUME Owned' PROVE Settled'
  <2>1. Settled /\ work' = work /\ stack'[1] = stack[1]
    BY <1>0, <1>4, <1>5
  <2> QED
    BY <2>1 DEF Settled
<1>6. ASSUME Owned', disk'.removes = {} PROVE Covered'
  <2>1. work' = work /\ Covered /\ Owned
    BY <1>0, <1>4, <1>6
  <2>2. CASE work.on \ disk.on = {}
    BY <2>1, <2>2 DEF Covered
  <2>3. CASE work.on \ disk.on # {}
    <3>1. (\A u \in Tags : ~Expects(Top, u)) /\ (\A x \in work.tags : ~Awaits(work, Top, x))
      BY <1>6, <2>1, <2>3
    <3> QED
      BY <2>1, <3>1, ReturnCovered
  <2> QED
    BY <2>2, <2>3
<1> QED
  BY <1>3, <1>5, <1>6 DEF ImpliedInv

\* The loop over the implications calls.
LEMMA Calls ==
    ASSUME Inv, ImpliedInv, stack # <<>>, NEW v \in Tags, Top.pc = "each",
           NEW rest \in Frame, NEW callee \in Frame,
           stack' = [stack EXCEPT ![Len(stack)] = rest] \o <<callee>>,
           rest.tag = Top.tag, rest.pc = "each", rest.valid = Top.valid, rest.todo = Top.todo \ {v},
           callee.pc \in {"follow", "find"}, callee.hops = 0, callee.tag = v,
           callee.pc = "find" => disk.removes # {},
           UNCHANGED <<disk, work, transactionDepth>>
    PROVE  ImpliedInv'
<1>0. /\ stack \in Seq(Frame) /\ NestedInv
      /\ (Owned => Settled) /\ (Owned /\ disk.removes = {} => Covered)
  BY DEF Inv, Always, TypeOK, ImpliedInv
<1>1. Len(stack) \in Nat \ {0} /\ Top = stack[Len(stack)] /\ Top \in Frame
  BY <1>0, TopFrame
<1>4. /\ stack' # <<>> /\ Len(stack') = Len(stack) + 1 /\ Top' = callee
      /\ stack'[Len(stack)] = rest /\ stack'[Len(stack) + 1] = callee
      /\ \A i \in 1 .. Len(stack) : i < Len(stack) => stack'[i] = stack[i]
  BY <1>0, CallStack
<1>5. NestedInv'
  <2> SUFFICES ASSUME disk.removes = {}, NEW i \in 2 .. Len(stack')
               PROVE  stack'[i].pc \notin {"find", "delete"}
    BY DEF NestedInv
  <2>1. CASE i = Len(stack) + 1
    BY <1>4, <2>1
  <2>2. CASE i = Len(stack)
    BY <1>4, <2>2
  <2>3. CASE i < Len(stack)
    <3>1. i \in 1 .. Len(stack) /\ i \in 2 .. Len(stack)
      BY <1>1, <2>3
    <3> QED
      BY <1>0, <1>4, <2>3, <3>1 DEF NestedInv
  <2> QED
    BY <1>1, <1>4, <2>1, <2>2, <2>3
<1>6. Owned' => Owned
  <2>1. Guards' = Guards
    BY <1>1, <1>4 DEF Guards, InGuard
  <2>2. stack'[1].valid = stack[1].valid
    <3>1. CASE Len(stack) = 1
      BY <1>1, <1>4, <3>1
    <3>2. CASE Len(stack) # 1
      <4>1. 1 \in 1 .. Len(stack) /\ 1 < Len(stack)
        BY <1>1, <3>2, FirstOfMany, Zenon
      <4> QED
        BY <1>4, <4>1
    <3> QED
      BY <3>1, <3>2
  <2> QED
    BY <2>1, <2>2 DEF Owned
<1>7. stack'[1].tag = stack[1].tag
  <2>1. CASE Len(stack) = 1
    BY <1>1, <1>4, <2>1
  <2>2. CASE Len(stack) # 1
    <3>1. 1 \in 1 .. Len(stack) /\ 1 < Len(stack)
      BY <1>1, <2>2, FirstOfMany, Zenon
    <3> QED
      BY <1>4, <3>1
  <2> QED
    BY <2>1, <2>2
<1>8. Owned' => Settled'
  BY <1>0, <1>6, <1>7 DEF Settled
<1>9. ASSUME Owned', disk'.removes = {} PROVE Covered'
  <2>1. Covered /\ callee.pc = "follow"
    BY <1>0, <1>6, <1>9
  <2> QED
    BY <2>1, CallCovered
<1> QED
  BY <1>5, <1>8, <1>9 DEF ImpliedInv

----------------------------------------------------------------------------
\* The steps of a call keep the implied tags due.

\* Each redirection that is followed brings the call nearer to where the tag
\* leads (booru.cc:446-462); the copies of a nested call are like the rows.
LEMMA FollowRedirectionImplied ==
    ASSUME Inv, ImpliedInv, AlikeBut(work', work), FollowRedirection
    PROVE  ImpliedInv'
<1> DEFINE next == Top.redirect
           M == MaxRedirects + 1
           leads(h, t) == Follow(work.tags, work.redirect)[h][t]
<1>0. /\ At("follow") /\ next # NoTag /\ Always /\ TypeOK /\ LockInv /\ StoreInv
      /\ work \in Contents
  BY DEF FollowRedirection, Inv, Always, TypeOK
<1>1. /\ stack \in Seq(Frame) /\ stack # <<>> /\ Top.pc = "follow"
      /\ Len(stack) \in Nat \ {0} /\ Guards = Len(stack) - 1
      /\ Top \in Frame /\ Top.tag \in Tags /\ Top.hops \in 0 .. M /\ next \in Tags
      /\ "follow" \notin InGuard /\ Faithful(Top, Len(stack))
  BY <1>0, AtTop, InTransaction DEF InGuard
<1>r. Owned => next = work.redirect[Top.tag]
  BY <1>1 DEF Owned, Faithful
<1>2. work.tags \subseteq Tags /\ M \in Nat /\ work.redirect[next] \in Tags \cup {NoTag}
  BY <1>0, <1>1, RedirectsAssumption DEF Contents
<1>3. /\ \A u : ~Expects(Top, u)
      /\ \A x : Awaits(work, Top, x) <=> leads(M - Top.hops, Top.tag) = x
  BY <1>1 DEF Expects, Awaits
<1>4. M - Top.hops \in 0 .. M
  BY <1>1, <1>2
<1>5. Owned => leads(M - Top.hops, Top.tag) =
                  IF Top.tag \notin work.tags \/ M - Top.hops = 0 THEN NoTag
                  ELSE leads((M - Top.hops) - 1, next)
  BY <1>0, <1>1, <1>4, <1>r, FollowRecurs
<1> HIDE DEF next, leads
<1>6. CASE Top.hops > MaxRedirects /\ Return("RecursionExceeded") /\ UNCHANGED backend
  <2>1. UNCHANGED <<disk, work, transactionDepth>> /\ "RecursionExceeded" \in ResultCode
    BY <1>6 DEF backend, engine, ResultCode, Errors
  <2>2. M - Top.hops = 0
    BY <1>1, <1>6, RedirectsAssumption
  <2>3. Owned => \A x \in work.tags : ~Awaits(work, Top, x)
    BY <1>2, <1>3, <1>5, <2>2, NoTagAssumption
  <2> QED
    BY <1>1, <1>3, <1>6, <2>1, <2>3, Returns
<1>7. ASSUME NEW result \in ResultCode, GetTag(next, result), ResultIsError(result), Return(result)
      PROVE  ImpliedInv'
  <2>0. Lookup(next \in work.tags, result)
    BY <1>7 DEF GetTag
  <2>1. /\ UNCHANGED <<disk, work, transactionDepth>> /\ LockInv'
        /\ next \in work.tags => lock' = "none"
    BY <1>0, <1>7, <2>0, LookupStep DEF StatementKept
  <2>2. work.on \ disk.on # {} => next \notin work.tags
    BY <2>1 DEF LockInv, Writing
  <2>3. M - Top.hops # 0 /\ next \notin work.tags => leads((M - Top.hops) - 1, next) = NoTag
    <3>1. M - Top.hops # 0 => (M - Top.hops) - 1 \in 0 .. M
      BY <1>2, <1>4
    <3> QED
      BY <1>0, <1>1, <3>1, FollowRecurs DEF leads
  <2>4. work.on \ disk.on # {} /\ Owned => \A x \in work.tags : ~Awaits(work, Top, x)
    BY <1>2, <1>3, <1>5, <2>2, <2>3, NoTagAssumption
  <2> QED
    BY <1>1, <1>3, <1>7, <2>1, <2>4, Returns
<1>8. ASSUME NEW result \in ResultCode, GetTag(next, result), Top.hops <= MaxRedirects,
             Continue([Top EXCEPT !.tag = next, !.redirect = work.redirect[next], !.hops = @ + 1])
      PROVE  ImpliedInv'
  <2> DEFINE frame == [Top EXCEPT !.tag = next, !.redirect = work.redirect[next], !.hops = @ + 1]
  <2>0. Lookup(next \in work.tags, result)
    BY <1>8 DEF GetTag
  <2>1. UNCHANGED <<disk, work, transactionDepth>>
    BY <1>0, <2>0, LookupStep DEF StatementKept
  <2>2. /\ frame \in Frame /\ frame.pc = "follow" /\ frame.valid = Top.valid
        /\ frame.tag = next /\ frame.hops = Top.hops + 1
    <3>1. Top.hops + 1 \in 0 .. MaxRedirects + 1
      BY <1>1, <1>2, <1>8, RedirectsAssumption
    <3> QED
      BY <1>1, <1>2, <3>1 DEF Frame
  <2> HIDE DEF frame
  <2>3. Continue(frame)
    BY <1>8 DEF frame
  <2>4. (M - Top.hops) - 1 = M - frame.hops
    BY <1>1, <1>2, <2>2
  <2>5. Owned => \A x \in work.tags : Awaits(work, Top, x) => Awaits(work, frame, x)
    <3> SUFFICES ASSUME Owned, NEW x \in work.tags, leads(M - Top.hops, Top.tag) = x
                 PROVE  Awaits(work, frame, x)
      BY <1>3
    <3>1. leads(M - frame.hops, frame.tag) = x
      BY <1>2, <1>5, <2>2, <2>4, NoTagAssumption
    <3> QED
      BY <2>2, <3>1 DEF Awaits, leads
  <2>6. Owned => Harmless(frame)
    BY <1>3, <2>1, <2>5 DEF Harmless
  <2> QED
    BY <1>1, <2>1, <2>2, <2>3, <2>6, GoesOn
<1> QED
  BY <1>6, <1>7, <1>8 DEF FollowRedirection, next

\* The outermost call begins with nothing written; a nested one is still the
\* one that was due.
LEMMA OpenGuardImplied ==
    ASSUME Inv, ImpliedInv, AlikeBut(work', work), OpenGuard
    PROVE  ImpliedInv'
<1>0. /\ At("follow") /\ Top.redirect = NoTag /\ Always /\ TypeOK /\ LockInv
      /\ NestedInv /\ (Owned => Settled) /\ (Owned /\ disk.removes = {} => Covered)
      /\ work \in Contents
  BY DEF OpenGuard, Inv, Always, TypeOK, ImpliedInv
<1>1. /\ stack \in Seq(Frame) /\ stack # <<>> /\ Top.pc = "follow"
      /\ Len(stack) \in Nat \ {0} /\ Top = stack[Len(stack)] /\ Top \in Frame
      /\ Top.tag \in Tags /\ Top.hops \in 0 .. MaxRedirects + 1
      /\ "insert" \in InGuard /\ Guards = Len(stack) - 1
      /\ Faithful(Top, Len(stack))
  BY <1>0, AtTop, InTransaction DEF InGuard
<1>2. PICK result \in ResultCode :
         /\ BeginTransaction(result)
         /\ Continue([Top EXCEPT !.pc = "insert", !.hops = 0, !.valid = ~ResultIsError(result)])
  BY DEF OpenGuard
<1> DEFINE frame == [Top EXCEPT !.pc = "insert", !.hops = 0, !.valid = ~ResultIsError(result)]
<1>3. frame \in Frame /\ frame.pc = "insert" /\ frame.tag = Top.tag
  BY <1>1, OpenedFrame
<1>v. frame.valid <=> ~ResultIsError(result)
  BY <1>1, OpenedFrame
<1> HIDE DEF frame
<1>4. Continue(frame)
  BY <1>2 DEF frame
<1>5. /\ stack' # <<>> /\ Len(stack') = Len(stack)
      /\ Top' = frame /\ stack'[Len(stack)] = frame
      /\ \A i \in 1 .. Len(stack) : i < Len(stack) => stack'[i] = stack[i]
  BY <1>1, <1>3, <1>4, ContinueStack
<1>6. /\ UNCHANGED <<disk, work, lock>> /\ transactionDepth' = transactionDepth + 1
      /\ transactionDepth = 0 => (ResultIsError(result) <=> sqlTx)
  BY <1>0, <1>2, BeginStep
<1>7. NestedInv'
  BY <1>0, <1>1, <1>3, <1>4, <1>6, NestedGoesOn
<1>8. Guards' = Len(stack) /\ transactionDepth \in Nat
  BY <1>0, <1>1, <1>3, <1>5 DEF Guards, TypeOK
<1>9. CASE Len(stack) = 1
  <2>1. ASSUME Owned' PROVE work' = disk'
    <3>1. stack'[1].valid /\ transactionDepth = 0
      BY <1>6, <1>8, <1>9, <2>1 DEF Owned
    <3>2. ~ResultIsError(result)
      BY <1>5, <1>9, <1>v, <3>1
    <3>3. ~sqlTx
      BY <1>6, <3>1, <3>2
    <3> QED
      BY <1>0, <1>6, <3>3 DEF LockInv, Writing
  <2> QED
    BY <1>7, <2>1 DEF ImpliedInv, Settled, Covered
<1>10. CASE Len(stack) # 1
  <2>1. 1 \in 1 .. Len(stack) /\ 1 < Len(stack)
    BY <1>1, <1>10, FirstOfMany, Zenon
  <2>2. Owned' => Owned /\ stack'[1] = stack[1]
    BY <1>1, <1>5, <1>6, <1>8, <2>1 DEF Owned
  <2>3. Owned' => Settled'
    BY <1>0, <1>6, <2>2 DEF Settled
  <2>4. work.redirect[Top.tag] = NoTag
    BY <1>0, <1>1, <1>10 DEF Faithful
  <2>5. Harmless(frame)
    <3>1. \A u : ~Expects(Top, u)
      BY <1>1 DEF Expects
    <3>2. \A x \in work.tags : Awaits(work, Top, x) => Awaits(work, frame, x)
      <4> DEFINE h == (MaxRedirects + 1) - Top.hops
      <4>1. h \in 0 .. MaxRedirects + 1
        BY <1>1, RedirectsAssumption
      <4>2. Follow(work.tags, work.redirect)[h][Top.tag] \in {Top.tag, NoTag}
        BY <1>0, <1>1, <2>4, <4>1, FollowRecurs
      <4>3. \A x : Awaits(work, Top, x) => x \in {Top.tag, NoTag}
        BY <1>1, <4>2 DEF Awaits
      <4>4. NoTag \notin work.tags
        BY <1>0, NoTagAssumption DEF Contents
      <4> QED
        BY <1>3, <4>3, <4>4 DEF Awaits
    <3> QED
      BY <1>6, <3>1, <3>2 DEF Harmless
  <2>6. ASSUME Owned', disk'.removes = {} PROVE Covered'
    <3>1. Covered
      BY <1>0, <1>6, <2>2, <2>6
    <3> QED
      BY <1>1, <1>3, <1>4, <1>6, <2>5, <3>1, ContinueCovered
  <2> QED
    BY <1>7, <2>3, <2>6 DEF ImpliedInv
<1> QED
  BY <1>9, <1>10

\* The tag is on the post with all of its implications ahead; was there before,
\* and is none of this call's business (booru.cc:192-199).
LEMMA CreateTagImplied ==
    ASSUME Inv, ImpliedInv, Always', AlikeBut(work', work), faults' = faults, CreateTag
    PROVE  ImpliedInv'
<1>0. /\ At("insert") /\ Top.redirect = NoTag /\ Always /\ TypeOK /\ LockInv /\ StoreInv /\ LockInv'
      /\ StoreInv'
  BY DEF CreateTag, Inv, Always, CopiesInv
<1>1. /\ stack \in Seq(Frame) /\ stack # <<>> /\ Top.pc = "insert" /\ sqlTx
      /\ Len(stack) \in Nat \ {0} /\ Top \in Frame /\ Top.tag \in Tags
      /\ {"insert", "each", "implications"} \subseteq InGuard /\ Faithful(Top, Len(stack))
  BY <1>0, AtTop, InTransaction DEF InGuard
<1>2. PICK result \in ResultCode :
         /\ CreatePostTag(Top.tag, result)
         /\ Continue([Top EXCEPT !.pc = IF result = "AlreadyExists" THEN "each" ELSE "implications"])
  BY DEF CreateTag
<1> DEFINE p == IF result = "AlreadyExists" THEN "each" ELSE "implications"
<1> DEFINE frame == [Top EXCEPT !.pc = p]
<1>3. p \in {"each", "implications"} /\ (p = "each" => result = "AlreadyExists")
  OBVIOUS
<1>4. Continue([Top EXCEPT !.pc = p])
  BY <1>2
<1> HIDE DEF p
<1>5. frame \in Frame /\ frame.pc = p /\ frame.valid = Top.valid /\ frame.tag = Top.tag
  BY <1>1, <1>3 DEF Frame
<1>6. Continue(frame)
  BY <1>4
<1> HIDE DEF frame
<1>7. /\ disk' = disk
      /\ work.on \subseteq work'.on /\ work'.on \subseteq work.on \cup {Top.tag}
      /\ result = "AlreadyExists" => Top.tag \in work.on /\ work'.on = work.on
      /\ Writing' /\ work.post /\ Top.tag \in work.tags => Top.tag \in work'.on
  BY <1>0, <1>1, <1>2, CreateStep
<1>8. UNCHANGED transactionDepth
  BY <1>2 DEF CreatePostTag, Levels
<1>9. work'.on \ disk.on # {} => Harmless(frame)
  <2> SUFFICES ASSUME work'.on \ disk.on # {} PROVE Harmless(frame)
    OBVIOUS
  <2>1. Writing' /\ work.post
    <3>1. work' # disk'
      BY <1>7
    <3>2. Writing'
      BY <1>0, <3>1 DEF LockInv
    <3>3. work'.post = work.post /\ work'.post
      BY <1>0 DEF StoreInv, AlikeBut, Sound
    <3> QED
      BY <3>2, <3>3
  <2>2. \A u : ~Expects(Top, u)
    BY <1>1 DEF Expects
  <2>3. \A x \in work.tags : Awaits(work, Top, x) => x \in work'.on
    BY <1>1, <1>7, <2>1 DEF Awaits
  <2>4. \A t \in work'.on \ work.on : t = frame.tag /\ frame.pc = "implications"
    BY <1>3, <1>5, <1>7
  <2> QED
    BY <1>7, <2>2, <2>3, <2>4 DEF Harmless
<1>10. \A t \in work'.on \ work.on : work.redirect[t] = NoTag \/ (Len(stack) = 1 /\ t = frame.tag)
  BY <1>0, <1>1, <1>5, <1>7 DEF Faithful
<1> QED
  BY <1>1, <1>3, <1>5, <1>6, <1>7, <1>8, <1>9, <1>10, GoesOn

\* The implications of the tag become those of the loop.
LEMMA GetTagImplicationsForTagImplied ==
    ASSUME Inv, ImpliedInv, Always', AlikeBut(work', work), GetTagImplicationsForTag
    PROVE  ImpliedInv'
<1>0. At("implications") /\ Always /\ TypeOK /\ LockInv /\ StoreInv /\ LockInv'
  BY DEF GetTagImplicationsForTag, Inv, Always
<1>1. /\ stack \in Seq(Frame) /\ stack # <<>> /\ Top.pc = "implications"
      /\ Top \in Frame /\ {"implications", "each", "unwind"} \subseteq InGuard
  BY <1>0, AtTop DEF InGuard
<1> DEFINE todo == {t \in Tags : <<Top.tag, t>> \in work.adds \cup work.removes}
           removing == {t \in Tags : <<Top.tag, t>> \in work.removes}
<1>2. PICK result \in ResultCode :
         /\ Lookup(TRUE, result)
         /\ Continue(IF ResultIsError(result) THEN [Top EXCEPT !.pc = "unwind"]
                     ELSE [Top EXCEPT !.pc = "each", !.todo = todo, !.removing = removing])
  BY DEF GetTagImplicationsForTag
<1>3. todo \subseteq Tags /\ removing \subseteq Tags
  OBVIOUS
<1>t. \A u \in Tags : <<Top.tag, u>> \in work.adds => u \in todo
  OBVIOUS
<1>4. /\ UNCHANGED <<transactionDepth, disk, work>>
      /\ ResultIsError(result) => lock' = "none"
  BY <1>0, <1>2, LookupStep DEF StatementKept
<1> HIDE DEF todo, removing
<1>5. CASE ResultIsError(result)
  <2> DEFINE f == [Top EXCEPT !.pc = "unwind"]
  <2>1. f \in Frame /\ f.pc = "unwind" /\ f.valid = Top.valid /\ f.tag = Top.tag
    BY <1>1 DEF Frame
  <2>2. Continue(f)
    BY <1>2, <1>5
  <2> HIDE DEF f
  <2>3. work'.on \ disk.on = {}
    BY <1>0, <1>4, <1>5 DEF LockInv, Writing
  <2> QED
    BY <1>1, <1>4, <2>1, <2>2, <2>3, GoesOn
<1>6. CASE ~ResultIsError(result)
  <2> DEFINE f == [Top EXCEPT !.pc = "each", !.todo = todo, !.removing = removing]
  <2>1. f \in Frame /\ f.pc = "each" /\ f.valid = Top.valid /\ f.tag = Top.tag /\ f.todo = todo
    BY <1>1, <1>3 DEF Frame
  <2>2. Continue(f)
    BY <1>2, <1>6
  <2> HIDE DEF f
  <2>3. \A x : ~Awaits(work, Top, x)
    BY <1>1 DEF Awaits
  <2>4. \A u \in Tags : <<Top.tag, u>> \in work.adds => f.tag = Top.tag /\ Expects(f, u)
    BY <1>t, <2>1 DEF Expects
  <2>5. Harmless(f)
    BY <1>4, <2>3, <2>4 DEF Harmless
  <2> QED
    BY <1>1, <1>4, <2>1, <2>2, <2>5, GoesOn
<1> QED
  BY <1>5, <1>6

\* An implied tag is gone, or its call is due from now on (booru.cc:206-219).
LEMMA NextImplicationImplied ==
    ASSUME Inv, ImpliedInv, Always', AlikeBut(work', work), NEW t \in Tags, NextImplication(t)
    PROVE  ImpliedInv'
<1> DEFINE rest == [Top EXCEPT !.todo = @ \ {t}, !.removing = @ \ {t}]
           p == IF t \in Top.removing THEN "find" ELSE "follow"
           callee == Called(p, t, work.redirect[t])
<1>0. /\ At("each") /\ t \in Top.todo /\ Always /\ TypeOK /\ LockInv /\ StoreInv /\ LockInv'
      /\ work \in Contents
  BY DEF NextImplication, Inv, Always, TypeOK
<1>1. /\ stack \in Seq(Frame) /\ stack # <<>> /\ Top.pc = "each" /\ Top \in Frame
      /\ "each" \in InGuard /\ Faithful(Top, Len(stack))
  BY <1>0, AtTop, InTransaction DEF InGuard
<1>2. PICK result \in ResultCode :
         /\ GetTag(t, result)
         /\ stack' = [stack EXCEPT ![Len(stack)] = rest]
                     \o (IF ResultIsError(result) THEN <<>> ELSE <<callee>>)
  BY DEF NextImplication
<1>3. /\ rest \in Frame /\ rest.pc = "each" /\ rest.valid = Top.valid /\ rest.tag = Top.tag
      /\ rest.todo = Top.todo \ {t}
  BY <1>1 DEF Frame
<1>4. p \in {"follow", "find"} /\ (p = "find" => disk.removes # {})
  <2>1. t \in Top.removing => <<Top.tag, t>> \in work.removes
    BY <1>0, <1>1 DEF Faithful
  <2> QED
    BY <1>0, <2>1 DEF StoreInv, AlikeBut
<1>c. /\ callee \in Frame /\ callee.pc = p /\ callee.hops = 0 /\ callee.tag = t
  <2>1. work.redirect[t] \in Tags \cup {NoTag}
    BY <1>0 DEF TypeOK, Contents
  <2> HIDE DEF p
  <2> QED
    BY <1>4, <2>1, RedirectsAssumption DEF Called, Frame
<1> HIDE DEF rest, callee, p
<1>5. UNCHANGED returned
  BY DEF NextImplication
<1>6. /\ UNCHANGED <<disk, work, transactionDepth>>
      /\ t \in work.tags /\ ResultIsError(result) => lock' = "none"
  <2>1. Lookup(t \in work.tags, result)
    BY <1>2 DEF GetTag
  <2> QED
    BY <1>0, <2>1, LookupStep DEF StatementKept
<1>7. CASE ResultIsError(result)
  <2>1. [stack EXCEPT ![Len(stack)] = rest] \in Seq(Frame)
    BY <1>1, <1>3, ExceptSeq
  <2>2. stack' = [stack EXCEPT ![Len(stack)] = rest]
    BY <1>2, <1>7, <2>1, ConcatEmptySeq
  <2>3. Continue(rest)
    BY <1>5, <2>2 DEF Continue
  <2>4. work'.on \ disk.on # {} => Harmless(rest)
    <3> SUFFICES ASSUME work'.on \ disk.on # {} PROVE Harmless(rest)
      OBVIOUS
    <3>1. t \notin work.tags
      BY <1>0, <1>6, <1>7 DEF LockInv, Writing
    <3>2. Resolved(work, t) = NoTag
      <4>1. MaxRedirects + 1 \in 0 .. MaxRedirects + 1
        BY RedirectsAssumption
      <4> QED
        BY <1>0, <3>1, <4>1, FollowRecurs DEF Resolved
    <3>3. \A x : ~Awaits(work, Top, x)
      BY <1>1 DEF Awaits
    <3>4. \A u \in Tags : Expects(Top, u) => u = t \/ Expects(rest, u)
      BY <1>1, <1>3 DEF Expects
    <3> QED
      BY <1>3, <1>6, <3>2, <3>3, <3>4 DEF Harmless
  <2> QED
    BY <1>1, <1>3, <1>6, <2>3, <2>4, GoesOn
<1>8. CASE ~ResultIsError(result)
  <2>1. stack' = [stack EXCEPT ![Len(stack)] = rest] \o <<callee>>
    BY <1>2, <1>8
  <2> QED
    BY <1>1, <1>3, <1>4, <1>c, <1>6, <2>1, Calls
<1> QED
  BY <1>7, <1>8

\* Where the loop is done nothing is due of the call, and the outermost one
\* leaves no transaction that it began.
LEMMA CommitAndReturnImplied ==
    ASSUME Inv, ImpliedInv, Always', AlikeBut(work', work), CommitAndReturn
    PROVE  ImpliedInv'
<1>0. /\ At("each") /\ Top.todo = {} /\ GuardCommit /\ Return("OK") /\ Always /\ StoreInv
      /\ NestedInv /\ DepthInv /\ StoreInv'
  BY DEF CommitAndReturn, Inv, Always, ImpliedInv
<1>1. /\ stack \in Seq(Frame) /\ stack # <<>> /\ Top.pc = "each" /\ "each" \in InGuard
      /\ Len(stack) \in Nat \ {0} /\ Top = stack[Len(stack)] /\ Guards = Len(stack)
  BY <1>0, AtTop DEF InGuard
<1>2. "OK" \in ResultCode
  BY DEF ResultCode, Successes
<1>3. CASE Len(stack) = 1
  <2>1. Guards' = 0
    BY <1>0, <1>1, <1>2, <1>3, AfterReturn
  <2>2. ~Owned'
    BY <2>1 DEF Owned
  <2>3. disk'.removes = disk.removes
    BY <1>0 DEF StoreInv, AlikeBut
  <2>4. NestedInv'
    BY <1>0, <1>1, <2>3, NestedReturns
  <2> QED
    BY <2>2, <2>4 DEF ImpliedInv
<1>4. CASE Len(stack) # 1
  <2>1. Len(stack) \in 1 .. Guards
    BY <1>1
  <2>2. Top.valid
    BY <1>0, <1>1, <1>4, <2>1 DEF DepthInv
  <2>3. UNCHANGED <<disk, work>> /\ transactionDepth' = transactionDepth - 1
    BY <1>0, <1>1, <1>4, <2>2, GuardStep
  <2>4. (\A u \in Tags : ~Expects(Top, u)) /\ (\A x : ~Awaits(work, Top, x))
    BY <1>0, <1>1 DEF Expects, Awaits
  <2> QED
    BY <1>0, <1>1, <1>2, <2>3, <2>4, Returns
<1> QED
  BY <1>3, <1>4

\* Where no implication removes tags, only the application calls
\* RemoveTagFromPost.
LEMMA RemovesAlone ==
    ASSUME Always, NestedInv, disk.removes = {}, At("find") \/ At("delete")
    PROVE  Len(stack) = 1 /\ Guards = 0
<1>1. /\ stack # <<>> /\ Top.pc \in {"find", "delete"} /\ {"find", "delete"} \cap InGuard = {}
      /\ Len(stack) \in Nat \ {0} /\ Top = stack[Len(stack)]
  <2>1. CASE At("find")
    BY <2>1, AtTop DEF InGuard
  <2>2. CASE At("delete")
    BY <2>2, AtTop DEF InGuard
  <2> QED
    BY <2>1, <2>2
<1>2. Len(stack) # 1 => Len(stack) \in 2 .. Len(stack)
  BY <1>1, FirstOfMany, Zenon
<1>3. Len(stack) = 1
  BY <1>1, <1>2 DEF NestedInv
<1> QED
  BY <1>1, <1>3 DEF Guards

\* RemoveTagFromPost is under no guard of its own.
LEMMA FindTagImplied ==
    ASSUME Inv, ImpliedInv, AlikeBut(work', work), FindTag
    PROVE  ImpliedInv'
<1>0. At("find") /\ Always /\ TypeOK /\ LockInv /\ StoreInv /\ NestedInv
  BY DEF FindTag, Inv, Always, ImpliedInv
<1>1. /\ stack \in Seq(Frame) /\ stack # <<>> /\ Top.pc = "find" /\ Top \in Frame
      /\ {"find", "delete"} \cap InGuard = {}
  BY <1>0, AtTop DEF InGuard
<1>2. PICK result \in ResultCode :
         /\ FindPostTag(Top.tag, result)
         /\ \/ Return(result)
            \/ Continue([Top EXCEPT !.pc = "delete"])
  BY DEF FindTag
<1>3. UNCHANGED <<disk, work, transactionDepth>>
  <2>1. Lookup(Top.tag \in work.on, result)
    BY <1>2 DEF FindPostTag
  <2> QED
    BY <1>0, <2>1, LookupStep DEF StatementKept
<1>4. ~(Owned /\ disk.removes = {})
  BY <1>0, RemovesAlone DEF Owned
<1>5. CASE Return(result)
  BY <1>1, <1>3, <1>4, <1>5, Returns
<1>6. CASE Continue([Top EXCEPT !.pc = "delete"])
  <2> DEFINE frame == [Top EXCEPT !.pc = "delete"]
  <2>1. frame \in Frame /\ frame.pc = "delete" /\ frame.valid = Top.valid
    BY <1>1 DEF Frame
  <2>2. Continue(frame)
    BY <1>6
  <2> HIDE DEF frame
  <2> QED
    BY <1>1, <1>3, <1>4, <2>1, <2>2, GoesOn
<1> QED
  BY <1>2, <1>5, <1>6

\* So it is when it deletes.
LEMMA DeleteTagImplied ==
    ASSUME Inv, ImpliedInv, Always', AlikeBut(work', work), faults' = faults, DeleteTag
    PROVE  ImpliedInv'
<1>0. /\ At("delete") /\ Always /\ TypeOK /\ LockInv /\ StoreInv /\ StoreInv' /\ NestedInv
      /\ (Owned => Settled) /\ stack # <<>>
  BY DEF DeleteTag, Inv, Always, ImpliedInv, At
<1>1. /\ stack \in Seq(Frame) /\ Len(stack) \in Nat \ {0} /\ Top.tag \in Tags /\ "delete" \notin InGuard
      /\ Guards = Len(stack) - 1 /\ (Len(stack) > 1 => sqlTx)
  BY <1>0, AtTop, InTransaction DEF InGuard
<1>2. PICK result \in ResultCode : DeletePostTag(Top.tag, result) /\ Return(result)
  BY DEF DeleteTag
<1>3. /\ UNCHANGED transactionDepth /\ work'.on \subseteq work.on /\ (sqlTx => disk' = disk)
  BY <1>0, <1>1, <1>2, DeleteStep DEF StatementKept
<1>4. disk'.removes = disk.removes
  BY <1>0 DEF StoreInv, AlikeBut
<1>5. NestedInv'
  BY <1>0, <1>1, <1>2, <1>4, NestedReturns
<1>6. /\ Len(stack') = Len(stack) - 1 /\ Guards' = Len(stack) - 1
      /\ \A i \in 1 .. Len(stack') : stack'[i] = stack[i]
  BY <1>0, <1>2, AfterReturn
<1>7. ASSUME Owned' PROVE Owned /\ Len(stack) > 1 /\ stack'[1] = stack[1]
  <2>1. Len(stack) > 1
    BY <1>1, <1>6, <1>7 DEF Owned
  <2>2. 1 \in 1 .. Len(stack')
    BY <1>1, <1>6, <2>1
  <2>3. stack'[1] = stack[1]
    BY <1>6, <2>2
  <2>4. Guards > 0 /\ transactionDepth = Guards
    BY <1>1, <1>3, <1>6, <1>7, <2>1 DEF Owned
  <2> QED
    BY <1>7, <2>1, <2>3, <2>4 DEF Owned
<1>8. ASSUME Owned' PROVE Settled'
  <2>1. sqlTx
    BY <1>1, <1>7, <1>8, Zenon
  <2>2. Settled /\ disk' = disk /\ work'.on \subseteq work.on /\ stack'[1] = stack[1]
    BY <1>0, <1>3, <1>7, <1>8, <2>1
  <2> QED
    BY <2>2 DEF Settled, AlikeBut
<1>9. ASSUME disk.removes = {} PROVE ~Owned'
  <2>1. Len(stack) = 1
    BY <1>0, <1>9, RemovesAlone
  <2> QED
    BY <1>6, <2>1 DEF Owned
<1> QED
  BY <1>4, <1>5, <1>8, <1>9 DEF ImpliedInv

----------------------------------------------------------------------------
\* The invariant of the implied tags, and what follows from it.

\* Before the first guard there is nothing due.
LEMMA NothingDue ==
    ASSUME Len(stack') \in {0, 1}, Guards' = 0 PROVE ImpliedInv'
  BY DEF ImpliedInv, NestedInv, Owned

\* The other process writes only where nothing was added yet.
LEMMA OtherProcessImplied ==
    ASSUME Inv, ImpliedInv, OtherProcess PROVE ImpliedInv'
<1>0. TypeOK /\ LockInv /\ StoreInv /\ stack \in Seq(Frame)
  BY DEF Inv, Always, TypeOK
<1>1. /\ UNCHANGED <<transactionDepth, stack>>
      /\ UNCHANGED <<disk, work>> \/ (lock = "none" /\ work' = disk')
  BY <1>0, OtherProcessStep
<1>2. Guards' = Guards /\ Owned' = Owned
  BY <1>1 DEF Guards, Top, Owned
<1>3. CASE UNCHANGED <<disk, work>>
  BY <1>1, <1>2, <1>3 DEF ImpliedInv, NestedInv, Settled, Covered
<1>4. CASE lock = "none" /\ work' = disk'
  <2>1. \A i \in 1 .. Len(stack) : i = 1
    BY <1>4, UnlockedCopies
  <2>2. Len(stack) \in {0, 1}
    <3>1. Len(stack) \in Nat
      BY <1>0
    <3> QED
      BY <2>1, <3>1
  <2>3. NestedInv'
    BY <1>1, <2>2 DEF NestedInv
  <2>4. Settled' /\ Covered'
    BY <1>4 DEF Settled, Covered
  <2> QED
    BY <2>3, <2>4 DEF ImpliedInv
<1> QED
  BY <1>1, <1>3, <1>4

\* Every step keeps it until the disk is full.
LEMMA ImpliedStep ==
    ASSUME Inv, ImpliedInv, Next, faults' = faults PROVE ImpliedInv'
<1>0. Always' /\ (AlikeBut(work', work) \/ OtherProcess)
  BY AlwaysStep DEF Inv
<1>1. ASSUME NEW t \in Tags, NEW next \in Tags \cup {NoTag},
             CallAddTagToPost(t, next) \/ CallRemoveTagFromPost(t, next)
      PROVE  ImpliedInv'
  <2>1. Len(stack') = 1 /\ Guards' = 0
    BY <1>1, StartStep
  <2> QED
    BY <2>1, NothingDue
<1>2. CASE Restart
  <2>1. stack' = <<>>
    BY <1>2 DEF Restart
  <2>2. Len(stack') = 0 /\ Guards' = 0
    BY <2>1 DEF Guards
  <2> QED
    BY <2>2, NothingDue
<1>3. CASE Unwind
  <2>1. At("unwind") /\ Return("DatabaseLocked") /\ StackInv /\ Always /\ NestInv
    BY <1>3 DEF Unwind, Inv, Always
  <2>2. /\ stack \in Seq(Frame) /\ stack # <<>> /\ Len(stack) \in Nat \ {0}
    BY <2>1, AtTop
  <2>3. "DatabaseLocked" \in ResultCode
    BY DEF ResultCode, Errors
  <2>4. Len(stack) = 1
    <3>1. Len(stack) # 1 => 1 \in 1 .. Len(stack) /\ 1 < Len(stack)
      BY <2>2, FirstOfMany, Zenon
    <3> QED
      BY <2>1, <3>1 DEF StackInv, NestInv
  <2>5. Len(stack') = 0 /\ Guards' = 0
    BY <2>1, <2>2, <2>3, <2>4, AfterReturn
  <2> QED
    BY <2>5, NothingDue
<1>4. CASE OtherProcess
  BY <1>4, OtherProcessImplied
<1>5. CASE AlikeBut(work', work)
  BY <1>0, <1>1, <1>2, <1>3, <1>4, <1>5, StepCases, FollowRedirectionImplied, OpenGuardImplied,
     CreateTagImplied, GetTagImplicationsForTagImplied, NextImplicationImplied,
     CommitAndReturnImplied, FindTagImplied, DeleteTagImplied
<1> QED
  BY <1>0, <1>4, <1>5

LEMMA ImpliedStutter == ASSUME ImpliedInv, UNCHANGED vars PROVE ImpliedInv'
<1>1. UNCHANGED <<disk, work, transactionDepth, stack>>
  BY DEF vars, backend, engine
<1>2. Guards' = Guards /\ Owned' = Owned
  BY <1>1 DEF Guards, Top, Owned
<1> QED
  BY <1>1, <1>2 DEF ImpliedInv, NestedInv, Settled, Covered

\* So it holds until then.
LEMMA ImpliedInvariance == Spec => [](faults = 0 => Inv /\ ImpliedInv)
<1> DEFINE I == faults = 0 => Inv /\ ImpliedInv
<1>1. Init => I
  <2> SUFFICES ASSUME Init PROVE I
    OBVIOUS
  <2>1. stack = <<>>
    BY DEF Init
  <2>2. Len(stack) = 0 /\ Guards = 0
    BY <2>1 DEF Guards
  <2> QED
    BY <2>2, InitInv DEF ImpliedInv, NestedInv, Owned
<1>2. Always /\ I /\ [Next]_vars => I'
  <2>1. ASSUME Always, I, Next, faults' = 0 PROVE Inv' /\ ImpliedInv'
    <3>1. faults = 0
      BY <2>1, FaultsStay
    <3> QED
      BY <2>1, <3>1, InvStep, ImpliedStep
  <2>2. ASSUME I, UNCHANGED vars, faults' = 0 PROVE Inv' /\ ImpliedInv'
    <3>1. faults' = faults
      BY <2>2 DEF vars, backend, engine
    <3> QED
      BY <2>2, <3>1, InvStutter, ImpliedStutter
  <2> QED
    BY <2>1, <2>2
<1> HIDE DEF I
<1>3. Spec => []I
  BY <1>1, <1>2, AlwaysHolds, PTL DEF Spec
<1> QED
  BY <1>3 DEF I

\* What the outermost COMMIT puts on the post comes with its implied tags, and
\* redirects nowhere unless it is the tag that the call resolved to.
LEMMA Committed ==
    ASSUME Inv, ImpliedInv, CommitAndReturn, Len(stack) = 1, Top.valid, transactionDepth = 1
    PROVE  /\ \A t \in work.on \ disk.on : work.redirect[t] = NoTag \/ t = stack[1].tag
           /\ disk.removes = {} =>
                \A t \in work.on \ disk.on, u \in Tags :
                   <<t, u>> \in work.adds => Resolved(work, u) \in work.on \cup {NoTag}
<1>1. /\ stack # <<>> /\ Top = stack[1] /\ Guards = 1 /\ Top.pc = "each" /\ Top.todo = {}
  BY AtTop DEF CommitAndReturn, InGuard, Inv
<1>2. Owned
  BY <1>1 DEF Owned
<1>3. \A t, u : ~Due(stack, work, t, u)
  BY <1>1 DEF Due, Expects
<1> QED
  BY <1>2, <1>3 DEF ImpliedInv, Settled, Covered

\* A tag comes on disk with its implied tags, whatever the implications,
\* however deep they nest and whatever is locked, deleted, changed or dies in
\* between, until the disk is full, as long as no implication removes tags
\* (booru.cc:185-224).
THEOREM ImpliedTagsComeAlongAlways == Spec => ImpliedTagsComeAlong
<1>1. ASSUME faults = 0 => Inv /\ ImpliedInv, [Next]_vars
      PROVE  [faults = 0 /\ disk.removes = {} =>
                \A t \in disk'.on \ disk.on, u \in Tags :
                   <<t, u>> \in disk.adds => Resolved(disk', u) \in disk'.on \cup {NoTag}]_vars
  <2> SUFFICES ASSUME Next, Inv, ImpliedInv, disk.removes = {},
                      NEW t \in disk'.on \ disk.on, NEW u \in Tags, <<t, u>> \in disk.adds
               PROVE  Resolved(disk', u) \in disk'.on \cup {NoTag}
    BY <1>1
  <2>1. CommitAndReturn /\ Len(stack) = 1 /\ Top.valid /\ transactionDepth = 1 /\ disk' = work
    BY DiskStep
  <2>2. work.adds = disk.adds
    BY DEF Inv, Always, StoreInv, AlikeBut
  <2> QED
    BY <2>1, <2>2, Committed
<1> QED
  BY <1>1, ImpliedInvariance, PTL DEF Spec, ImpliedTagsComeAlong

\* No implied tag comes on disk that redirects then: only the tag of the
\* outermost call may, whose copy the other process may have overtaken
\* (booru.cc:181,206, 445-463).
THEOREM ImpliedTagsAreResolvedAlways == Spec => ImpliedTagsAreResolved
<1>1. ASSUME faults = 0 => Inv /\ ImpliedInv, [Next]_vars
      PROVE  [faults = 0 => \A t \in disk'.on \ disk.on :
                               disk.redirect[t] = NoTag \/ t = stack[1].tag]_vars
  <2> SUFFICES ASSUME Next, Inv, ImpliedInv, NEW t \in disk'.on \ disk.on
               PROVE  disk.redirect[t] = NoTag \/ t = stack[1].tag
    BY <1>1
  <2>1. CommitAndReturn /\ Len(stack) = 1 /\ Top.valid /\ transactionDepth = 1 /\ disk' = work
    BY DiskStep
  <2>2. work.redirect = disk.redirect
    BY DEF Inv, Always, StoreInv, AlikeBut
  <2> QED
    BY <2>1, <2>2, Committed
<1> QED
  BY <1>1, ImpliedInvariance, PTL DEF Spec, ImpliedTagsAreResolved

----------------------------------------------------------------------------
(***************************************************************************)
(* The depth of the calls.                                                 *)
(***************************************************************************)

\* Tag t implies what leads to tag x.
Implies(db, t, x) == \E u \in Tags : <<t, u>> \in db.adds /\ Resolved(db, u) = x

\* The call of a frame was made for an implication of tag t: it removes a tag,
\* is following redirections to an implied one, or is about that.
Leads(db, t, frame) ==
    \/ frame.pc \in {"find", "delete"}
    \/ /\ frame.pc = "follow" /\ frame.tag \in db.tags
       /\ Implies(db, t, Follow(db.tags, db.redirect)[(MaxRedirects + 1) - frame.hops][frame.tag])
    \/ frame.pc \in InGuard /\ Implies(db, t, frame.tag)

LinksInv == \A i \in 1 .. Len(stack) : i < Len(stack) => Leads(work, stack[i].tag, stack[i + 1])

\* What the links are about does not change with the tags on the post.
LEMMA SameLinks ==
    ASSUME AlikeBut(work', work)
    PROVE  \A t, frame : Leads(work', t, frame) <=> Leads(work, t, frame)
<1>1. \A u : Resolved(work', u) = Resolved(work, u)
  BY DEF AlikeBut, Resolved
<1>2. \A t, x : Implies(work', t, x) <=> Implies(work, t, x)
  BY <1>1 DEF Implies, AlikeBut
<1> QED
  BY <1>2 DEF Leads, AlikeBut

\* A call that goes on is still for the same implication.
LEMMA LinksGoOn ==
    ASSUME stack \in Seq(Frame), stack # <<>>, LinksInv, NEW frame \in Frame, Continue(frame),
           AlikeBut(work', work),
           \A t \in Tags : Len(stack) # 1 /\ Leads(work, t, Top) => Leads(work, t, frame)
    PROVE  LinksInv'
<1>1. Len(stack) \in Nat \ {0} /\ Top = stack[Len(stack)]
  BY TopFrame
<1>2. /\ Len(stack') = Len(stack) /\ stack'[Len(stack)] = frame
      /\ \A i \in 1 .. Len(stack) : i < Len(stack) => stack'[i] = stack[i]
  BY ContinueStack
<1>4. ASSUME NEW i \in 1 .. Len(stack), i < Len(stack) PROVE Leads(work, stack'[i].tag, stack'[i + 1])
  <2>1. Leads(work, stack[i].tag, stack[i + 1]) /\ stack'[i] = stack[i]
    BY <1>2, <1>4 DEF LinksInv
  <2>2. CASE i + 1 = Len(stack)
    <3>1. stack[i] \in Frame
      BY <1>1, <1>4, ElementOfSeq
    <3>2. stack[i].tag \in Tags
      BY <3>1 DEF Frame
    <3>3. Len(stack) # 1
      BY <1>1, <1>4
    <3> QED
      BY <1>1, <1>2, <2>1, <2>2, <3>2, <3>3
  <2>3. CASE i + 1 # Len(stack)
    <3>1. i + 1 \in 1 .. Len(stack) /\ i + 1 < Len(stack)
      BY <1>1, <1>4, <2>3
    <3> QED
      BY <1>2, <2>1, <3>1
  <2> QED
    BY <2>2, <2>3
<1> QED
  BY <1>2, <1>4, SameLinks DEF LinksInv

\* A call that returns leaves the links among the others.
LEMMA LinksReturn ==
    ASSUME stack \in Seq(Frame), stack # <<>>, LinksInv, NEW result, Return(result),
           AlikeBut(work', work)
    PROVE  LinksInv'
<1>1. Len(stack) \in Nat \ {0}
  BY TopFrame
<1>2. Len(stack') = Len(stack) - 1 /\ \A i \in 1 .. Len(stack') : stack'[i] = stack[i]
  BY ReturnStack
<1>4. ASSUME NEW i \in 1 .. Len(stack'), i < Len(stack')
      PROVE  Leads(work, stack'[i].tag, stack'[i + 1])
  <2>1. i \in 1 .. Len(stack) /\ i < Len(stack) /\ i + 1 \in 1 .. Len(stack')
    BY <1>1, <1>2, <1>4
  <2> QED
    BY <1>2, <1>4, <2>1 DEF LinksInv
<1> QED
  BY <1>4, SameLinks DEF LinksInv

\* A nested call is for an implication.
LEMMA LinksCall ==
    ASSUME stack \in Seq(Frame), stack # <<>>, LinksInv, NEW frame \in Frame, NEW callee \in Frame,
           stack' = [stack EXCEPT ![Len(stack)] = frame] \o <<callee>>,
           AlikeBut(work', work),
           Top.pc = "each", frame.pc = "each", frame.tag = Top.tag, Leads(work, Top.tag, callee)
    PROVE  LinksInv'
<1>1. Len(stack) \in Nat \ {0} /\ Top = stack[Len(stack)] /\ Len(stack) \in 1 .. Len(stack)
  BY TopFrame
<1>2. /\ Len(stack') = Len(stack) + 1 /\ stack'[Len(stack)] = frame /\ stack'[Len(stack) + 1] = callee
      /\ \A i \in 1 .. Len(stack) : i < Len(stack) => stack'[i] = stack[i]
  BY CallStack
<1>4. \A t : Leads(work, t, Top) => Leads(work, t, frame)
  BY DEF Leads, InGuard
<1>6. ASSUME NEW i \in 1 .. Len(stack'), i < Len(stack')
      PROVE  Leads(work, stack'[i].tag, stack'[i + 1])
  <2>1. CASE i = Len(stack)
    BY <1>2, <2>1
  <2>2. CASE i < Len(stack)
    <3>1. i \in 1 .. Len(stack) /\ stack'[i] = stack[i] /\ Leads(work, stack[i].tag, stack[i + 1])
      <4>1. i \in 1 .. Len(stack)
        BY <1>1, <2>2
      <4> QED
        BY <1>2, <2>2, <4>1 DEF LinksInv
    <3>2. CASE i + 1 = Len(stack)
      BY <1>1, <1>2, <1>4, <3>1, <3>2
    <3>3. CASE i + 1 # Len(stack)
      <4>1. i + 1 \in 1 .. Len(stack) /\ i + 1 < Len(stack)
        BY <1>1, <2>2, <3>3
      <4> QED
        BY <1>2, <3>1, <4>1
    <3> QED
      BY <3>2, <3>3
  <2> QED
    BY <1>1, <1>2, <1>6, <2>1, <2>2
<1> QED
  BY <1>6, SameLinks DEF LinksInv

----------------------------------------------------------------------------
\* The steps of a call keep the links.

\* A redirection more is a redirection less ahead: a nested call's copies are
\* like the rows.
LEMMA FollowRedirectionLinks ==
    ASSUME Inv, LinksInv, FollowRedirection, AlikeBut(work', work)
    PROVE  LinksInv'
<1> DEFINE next == Top.redirect
           M == MaxRedirects + 1
           leads(h, t) == Follow(work.tags, work.redirect)[h][t]
<1>0. At("follow") /\ next # NoTag /\ Always /\ TypeOK /\ LockInv /\ StoreInv /\ work \in Contents
  BY DEF FollowRedirection, Inv, Always, TypeOK
<1>1. /\ stack \in Seq(Frame) /\ stack # <<>> /\ Top.pc = "follow" /\ Len(stack) \in Nat \ {0}
      /\ Top \in Frame /\ Top.tag \in Tags /\ Top.hops \in 0 .. M /\ next \in Tags
      /\ "follow" \notin InGuard /\ Faithful(Top, Len(stack))
  BY <1>0, AtTop, InTransaction DEF InGuard
<1>r. Len(stack) # 1 => next = work.redirect[Top.tag]
  BY <1>1, Zenon DEF Faithful
<1>2. work.tags \subseteq Tags /\ M \in Nat /\ work.redirect[next] \in Tags \cup {NoTag}
  BY <1>0, <1>1, RedirectsAssumption DEF Contents
<1>3. M - Top.hops \in 0 .. M
  BY <1>1, <1>2
<1>4. Len(stack) # 1 /\ Top.tag \in work.tags /\ M - Top.hops # 0
         => leads(M - Top.hops, Top.tag) = leads((M - Top.hops) - 1, next)
  BY <1>0, <1>1, <1>3, <1>r, FollowRecurs
<1> HIDE DEF next, leads
<1>5. CASE \E result : Return(result)
  BY <1>1, <1>5, LinksReturn
<1>6. ASSUME NEW result \in ResultCode, GetTag(next, result), ~ResultIsError(result),
             Top.hops <= MaxRedirects,
             Continue([Top EXCEPT !.tag = next, !.redirect = work.redirect[next], !.hops = @ + 1])
      PROVE  LinksInv'
  <2> DEFINE frame == [Top EXCEPT !.tag = next, !.redirect = work.redirect[next], !.hops = @ + 1]
  <2>1. next \in work.tags
    <3>1. Lookup(next \in work.tags, result)
      BY <1>6 DEF GetTag
    <3> QED
      BY <1>0, <1>6, <3>1, LookupStep
  <2>2. /\ frame \in Frame /\ frame.pc = "follow"
        /\ frame.tag = next /\ frame.hops = Top.hops + 1
    <3>1. Top.hops + 1 \in 0 .. MaxRedirects + 1
      BY <1>1, <1>2, <1>6, RedirectsAssumption
    <3> QED
      BY <1>1, <1>2, <3>1 DEF Frame
  <2> HIDE DEF frame
  <2>3. Continue(frame)
    BY <1>6 DEF frame
  <2>4. (M - Top.hops) - 1 = M - frame.hops /\ M - Top.hops # 0
    BY <1>1, <1>2, <1>6, <2>2, RedirectsAssumption
  <2>5. ASSUME NEW t \in Tags, Len(stack) # 1, Leads(work, t, Top) PROVE Leads(work, t, frame)
    <3>1. Top.tag \in work.tags /\ Implies(work, t, leads(M - Top.hops, Top.tag))
      BY <1>1, <2>5 DEF Leads, leads
    <3>2. Implies(work, t, leads(M - frame.hops, frame.tag))
      BY <1>4, <2>2, <2>4, <2>5, <3>1
    <3> QED
      BY <2>1, <2>2, <3>2 DEF Leads, leads
  <2> QED
    BY <1>1, <2>2, <2>3, <2>5, LinksGoOn
<1> QED
  BY <1>5, <1>6 DEF FollowRedirection, next

\* The end of the redirections is where they lead to.
LEMMA OpenGuardLinks ==
    ASSUME Inv, LinksInv, OpenGuard, AlikeBut(work', work)
    PROVE  LinksInv'
<1>0. At("follow") /\ Top.redirect = NoTag /\ Always /\ work \in Contents
  BY DEF OpenGuard, Inv, Always, TypeOK
<1>1. /\ stack \in Seq(Frame) /\ stack # <<>> /\ Top.pc = "follow" /\ Top \in Frame
      /\ Len(stack) \in Nat \ {0} /\ Top.tag \in Tags /\ Top.hops \in 0 .. MaxRedirects + 1
      /\ "insert" \in InGuard /\ "follow" \notin InGuard /\ Faithful(Top, Len(stack))
  BY <1>0, AtTop, InTransaction DEF InGuard
<1>2. PICK result \in ResultCode :
         Continue([Top EXCEPT !.pc = "insert", !.hops = 0, !.valid = ~ResultIsError(result)])
  BY DEF OpenGuard
<1> DEFINE frame == [Top EXCEPT !.pc = "insert", !.hops = 0, !.valid = ~ResultIsError(result)]
           h == (MaxRedirects + 1) - Top.hops
<1>3. frame \in Frame /\ frame.pc = "insert" /\ frame.tag = Top.tag
  BY <1>1, OpenedFrame
<1> HIDE DEF frame
<1>4. Continue(frame)
  BY <1>2 DEF frame
<1>5. h \in 0 .. MaxRedirects + 1
  BY <1>1, RedirectsAssumption
<1>r. Len(stack) # 1 => work.redirect[Top.tag] = NoTag
  BY <1>0, <1>1, Zenon DEF Faithful
<1>6. Len(stack) # 1 /\ Top.tag \in work.tags
         => Follow(work.tags, work.redirect)[h][Top.tag] = Top.tag
  BY <1>0, <1>1, <1>5, <1>r, FollowRecurs
<1>7. ASSUME NEW t \in Tags, Len(stack) # 1, Leads(work, t, Top) PROVE Leads(work, t, frame)
  <2>1. Top.tag \in work.tags /\ Implies(work, t, Follow(work.tags, work.redirect)[h][Top.tag])
    BY <1>1, <1>7 DEF Leads
  <2> QED
    BY <1>1, <1>3, <1>6, <1>7, <2>1 DEF Leads
<1> QED
  BY <1>1, <1>3, <1>4, <1>7, LinksGoOn

\* Under its guard a call keeps its tag.
LEMMA InGuardLinks ==
    ASSUME stack \in Seq(Frame), stack # <<>>, LinksInv, NEW frame \in Frame, Continue(frame),
           AlikeBut(work', work), Top.pc \in InGuard, frame.pc \in InGuard, frame.tag = Top.tag
    PROVE  LinksInv'
<1>1. ASSUME NEW t, Leads(work, t, Top) PROVE Leads(work, t, frame)
  <2>1. Top.pc \notin {"follow", "find", "delete"}
    BY DEF InGuard
  <2> QED
    BY <1>1, <2>1 DEF Leads
<1> QED
  BY <1>1, LinksGoOn

LEMMA CreateTagLinks ==
    ASSUME Inv, LinksInv, CreateTag, AlikeBut(work', work)
    PROVE  LinksInv'
<1>1. /\ stack \in Seq(Frame) /\ stack # <<>> /\ Top.pc = "insert" /\ Top \in Frame
      /\ {"insert", "each", "implications"} \subseteq InGuard
  BY AtTop DEF CreateTag, InGuard, Inv
<1>2. PICK p \in {"each", "implications"} : Continue([Top EXCEPT !.pc = p])
  BY DEF CreateTag
<1> DEFINE frame == [Top EXCEPT !.pc = p]
<1>3. frame \in Frame /\ frame.pc = p /\ frame.tag = Top.tag
  BY <1>1 DEF Frame
<1> HIDE DEF frame
<1>4. Continue(frame)
  BY <1>2 DEF frame
<1> QED
  BY <1>1, <1>3, <1>4, InGuardLinks

LEMMA GetTagImplicationsForTagLinks ==
    ASSUME Inv, LinksInv, GetTagImplicationsForTag, AlikeBut(work', work)
    PROVE  LinksInv'
<1>1. /\ stack \in Seq(Frame) /\ stack # <<>> /\ Top.pc = "implications" /\ Top \in Frame
      /\ {"implications", "each", "unwind"} \subseteq InGuard
  BY AtTop DEF GetTagImplicationsForTag, InGuard, Inv
<1> DEFINE todo == {t \in Tags : <<Top.tag, t>> \in work.adds \cup work.removes}
           removing == {t \in Tags : <<Top.tag, t>> \in work.removes}
<1>2. PICK result \in ResultCode :
         Continue(IF ResultIsError(result) THEN [Top EXCEPT !.pc = "unwind"]
                  ELSE [Top EXCEPT !.pc = "each", !.todo = todo, !.removing = removing])
  BY DEF GetTagImplicationsForTag
<1>3. todo \subseteq Tags /\ removing \subseteq Tags
  OBVIOUS
<1> HIDE DEF todo, removing
<1>4. CASE ResultIsError(result)
  <2> DEFINE f == [Top EXCEPT !.pc = "unwind"]
  <2>1. f \in Frame /\ f.pc = "unwind" /\ f.tag = Top.tag
    BY <1>1 DEF Frame
  <2>2. Continue(f)
    BY <1>2, <1>4
  <2> HIDE DEF f
  <2> QED
    BY <1>1, <2>1, <2>2, InGuardLinks
<1>5. CASE ~ResultIsError(result)
  <2> DEFINE f == [Top EXCEPT !.pc = "each", !.todo = todo, !.removing = removing]
  <2>1. f \in Frame /\ f.pc = "each" /\ f.tag = Top.tag
    BY <1>1, <1>3 DEF Frame
  <2>2. Continue(f)
    BY <1>2, <1>5
  <2> HIDE DEF f
  <2> QED
    BY <1>1, <2>1, <2>2, InGuardLinks
<1> QED
  BY <1>4, <1>5

\* A call is made for an implication that the loop has left, with all
\* redirections ahead (booru.cc:206-219).
LEMMA NextImplicationLinks ==
    ASSUME Inv, LinksInv, NEW t \in Tags, NextImplication(t), AlikeBut(work', work)
    PROVE  LinksInv'
<1> DEFINE rest == [Top EXCEPT !.todo = @ \ {t}, !.removing = @ \ {t}]
           p == IF t \in Top.removing THEN "find" ELSE "follow"
           callee == Called(p, t, work.redirect[t])
<1>0. At("each") /\ t \in Top.todo /\ Always /\ TypeOK /\ LockInv /\ StoreInv
  BY DEF NextImplication, Inv, Always
<1>1. /\ stack \in Seq(Frame) /\ stack # <<>> /\ Top.pc = "each" /\ Top \in Frame
      /\ "each" \in InGuard /\ Faithful(Top, Len(stack))
  BY <1>0, AtTop, InTransaction DEF InGuard
<1>2. PICK result \in ResultCode :
         /\ GetTag(t, result)
         /\ stack' = [stack EXCEPT ![Len(stack)] = rest]
                     \o (IF ResultIsError(result) THEN <<>> ELSE <<callee>>)
  BY DEF NextImplication
<1>3. rest \in Frame /\ rest.pc = "each" /\ rest.tag = Top.tag
  BY <1>1 DEF Frame
<1>4. p \in {"follow", "find"} /\ (p = "follow" => <<Top.tag, t>> \in work.adds)
  <2>1. t \notin Top.removing => <<Top.tag, t>> \in work.adds
    BY <1>0, <1>1 DEF Faithful
  <2> QED
    BY <2>1
<1>c. callee \in Frame /\ callee.pc = p /\ callee.hops = 0 /\ callee.tag = t
  <2>1. work.redirect[t] \in Tags \cup {NoTag}
    BY <1>0 DEF TypeOK, Contents
  <2> HIDE DEF p
  <2> QED
    BY <1>4, <2>1, RedirectsAssumption DEF Called, Frame
<1> HIDE DEF rest, callee, p
<1>6. UNCHANGED returned
  BY DEF NextImplication
<1>7. ~ResultIsError(result) => t \in work.tags
  <2>1. Lookup(t \in work.tags, result)
    BY <1>2 DEF GetTag
  <2> QED
    BY <1>0, <2>1, LookupStep
<1>8. CASE ResultIsError(result)
  <2>1. [stack EXCEPT ![Len(stack)] = rest] \in Seq(Frame)
    BY <1>1, <1>3, ExceptSeq
  <2>2. stack' = [stack EXCEPT ![Len(stack)] = rest]
    BY <1>2, <1>8, <2>1, ConcatEmptySeq
  <2>3. Continue(rest)
    BY <1>6, <2>2 DEF Continue
  <2> QED
    BY <1>1, <1>3, <2>3, InGuardLinks
<1>9. CASE ~ResultIsError(result)
  <2>1. stack' = [stack EXCEPT ![Len(stack)] = rest] \o <<callee>>
    BY <1>2, <1>9
  <2>2. Leads(work, Top.tag, callee)
    <3>1. CASE p = "find"
      BY <1>c, <3>1 DEF Leads
    <3>2. CASE p = "follow"
      <4>1. (MaxRedirects + 1) - 0 = MaxRedirects + 1
        BY RedirectsAssumption
      <4>2. Implies(work, Top.tag, Follow(work.tags, work.redirect)[(MaxRedirects + 1) - 0][t])
        BY <1>4, <3>2, <4>1 DEF Implies, Resolved
      <4> QED
        BY <1>7, <1>9, <1>c, <3>2, <4>2 DEF Leads
    <3> QED
      BY <1>4, <3>1, <3>2
  <2> QED
    BY <1>1, <1>3, <1>c, <2>1, <2>2, LinksCall
<1> QED
  BY <1>8, <1>9

\* RemoveTagFromPost removes.
LEMMA FindTagLinks ==
    ASSUME Inv, LinksInv, FindTag, AlikeBut(work', work)
    PROVE  LinksInv'
<1>1. stack \in Seq(Frame) /\ stack # <<>> /\ Top.pc = "find" /\ Top \in Frame
  BY AtTop DEF FindTag, Inv
<1>2. CASE \E result : Return(result)
  BY <1>1, <1>2, LinksReturn
<1>3. CASE Continue([Top EXCEPT !.pc = "delete"])
  <2> DEFINE frame == [Top EXCEPT !.pc = "delete"]
  <2>1. frame \in Frame /\ frame.pc = "delete"
    BY <1>1 DEF Frame
  <2>2. Continue(frame)
    BY <1>3
  <2> HIDE DEF frame
  <2>3. \A t : Leads(work, t, frame)
    BY <2>1 DEF Leads
  <2> QED
    BY <1>1, <2>1, <2>2, <2>3, LinksGoOn
<1> QED
  BY <1>2, <1>3 DEF FindTag

\* Every step keeps the links; the other process cannot write while a nested
\* call is under way, until the disk is full.
LEMMA LinksStep ==
    ASSUME Inv, LinksInv, Next PROVE LinksInv'
<1>0. /\ AlikeBut(work', work) \/ OtherProcess
      /\ Always /\ TypeOK /\ LockInv /\ StoreInv /\ stack \in Seq(Frame)
  BY AlwaysStep DEF Inv, Always, TypeOK
<1>1. ASSUME NEW t \in Tags, NEW next \in Tags \cup {NoTag},
             CallAddTagToPost(t, next) \/ CallRemoveTagFromPost(t, next)
      PROVE  LinksInv'
  <2>1. Len(stack') = 1
    BY <1>1, StartStep
  <2> QED
    BY <2>1 DEF LinksInv
<1>2. CASE Restart
  <2>1. Len(stack') = 0
    BY <1>2 DEF Restart
  <2> QED
    BY <2>1 DEF LinksInv
<1>3. ASSUME AlikeBut(work', work), NEW pc, At(pc), NEW result, Return(result)
      PROVE  LinksInv'
  BY <1>0, <1>3, LinksReturn DEF At
<1>4. ASSUME AlikeBut(work', work), Unwind \/ CommitAndReturn \/ DeleteTag PROVE LinksInv'
  BY <1>3, <1>4 DEF Unwind, CommitAndReturn, DeleteTag
<1>5. CASE OtherProcess
  <2>1. UNCHANGED stack /\ (UNCHANGED work \/ lock = "none")
    BY <1>0, <1>5, OtherProcessStep
  <2>2. CASE UNCHANGED work
    BY <2>1, <2>2 DEF LinksInv
  <2>3. CASE lock = "none"
    <3>1. \A i \in 1 .. Len(stack) : i = 1
      BY <2>3, UnlockedCopies
    <3>2. Len(stack) \in Nat
      BY <1>0
    <3>3. \A i \in 1 .. Len(stack) : ~(i < Len(stack))
      BY <3>1, <3>2
    <3> QED
      BY <2>1, <3>3 DEF LinksInv
  <2> QED
    BY <2>1, <2>2, <2>3
<1>6. CASE AlikeBut(work', work)
  BY <1>1, <1>2, <1>4, <1>5, <1>6, StepCases, FollowRedirectionLinks, OpenGuardLinks,
     CreateTagLinks, GetTagImplicationsForTagLinks, NextImplicationLinks, FindTagLinks
<1> QED
  BY <1>0, <1>5, <1>6

\* Along nested calls the levels of the tags descend, but for a last one that
\* removes a tag.
LEMMA LevelsDescend ==
    ASSUME TypeOK, NestInv, LinksInv, Acyclic(work)
    PROVE  CallDepthBounded
<1> DEFINE C == Cardinality(Tags)
           n == Len(stack)
<1>0. C \in Nat /\ stack \in Seq(Frame) /\ n \in Nat
  BY TagsAssumption, FS_CardinalityType DEF TypeOK
<1>1. PICK level \in [Tags -> 1 .. C] :
         \A t, u \in Tags :
            <<t, u>> \in work.adds /\ Resolved(work, u) # NoTag
                => level[Resolved(work, u)] < level[t]
  BY DEF Acyclic
<1> HIDE DEF C
<1> DEFINE S == {i \in 0 .. n - 1 : i # 0 => level[stack[i].tag] + i <= C + 1}
<1>2. CASE n = 0
  BY <1>0, <1>2 DEF CallDepthBounded, C
<1>3. CASE n # 0
  <2>0. n - 1 \in Nat
    BY <1>0, <1>3
  <2>1. 0 \in S
    BY <2>0
  <2>2. ASSUME NEW i \in 0 .. (n - 1) - 1, i \in S PROVE i + 1 \in S
    <3>1. i + 1 \in 1 .. n /\ i + 1 < n
      BY <1>0, <2>0
    <3>2. /\ stack[i + 1] \in Frame /\ stack[i + 1].pc = "each"
      BY <1>0, <3>1, ElementOfSeq DEF NestInv
    <3>3. stack[i + 1].tag \in Tags /\ level[stack[i + 1].tag] \in 1 .. C
      BY <3>2 DEF Frame
    <3>4. CASE i = 0
      BY <1>0, <2>0, <3>1, <3>3, <3>4
    <3>5. CASE i # 0
      <4>1. i \in 1 .. n /\ i < n
        BY <1>0, <2>0, <3>5
      <4>2. stack[i] \in Frame
        BY <1>0, <4>1, ElementOfSeq
      <4>3. stack[i].tag \in Tags /\ level[stack[i].tag] \in 1 .. C
        BY <4>2 DEF Frame
      <4>4. Leads(work, stack[i].tag, stack[i + 1])
        BY <4>1 DEF LinksInv
      <4>5. Implies(work, stack[i].tag, stack[i + 1].tag)
        BY <3>2, <4>4 DEF Leads
      <4>6. level[stack[i + 1].tag] < level[stack[i].tag]
        BY <1>1, <3>3, <4>3, <4>5, NoTagAssumption DEF Implies
      <4>7. level[stack[i].tag] + i <= C + 1
        BY <2>2, <3>5
      <4>8. level[stack[i + 1].tag] + (i + 1) <= C + 1
        <5> DEFINE above == level[stack[i].tag]
                   below == level[stack[i + 1].tag]
        <5>1. above \in Int /\ below \in Int /\ below < above /\ above + i <= C + 1 /\ i \in Int
          BY <1>0, <3>3, <4>3, <4>6, <4>7
        <5> HIDE DEF above, below
        <5>2. below + (i + 1) <= C + 1
          BY <1>0, <5>1
        <5> QED
          BY <5>2 DEF below
      <4> QED
        BY <3>1, <4>8
    <3> QED
      BY <3>4, <3>5
  <2>3. 0 .. n - 1 \subseteq S
    <3> DEFINE N == n - 1
    <3> HIDE DEF S
    <3>1. N \in Nat /\ \A i \in 0 .. N - 1 : i \in S => i + 1 \in S
      BY <2>0, <2>2
    <3> HIDE DEF N
    <3>2. 0 .. N \subseteq S
      BY <2>1, <3>1, UpTo
    <3> QED
      BY <3>2 DEF N
  <2>4. CASE n = 1
    BY <1>0, <2>4 DEF CallDepthBounded, C
  <2>5. CASE n # 1
    <3>1. n - 1 \in 0 .. n - 1 /\ n - 1 # 0 /\ n - 1 \in 1 .. n
      <4>1. n \in Nat \ {0}
        BY <1>0, <1>3
      <4> HIDE DEF n
      <4> QED
        BY <2>5, <4>1
    <3>2. level[stack[n - 1].tag] + (n - 1) <= C + 1
      <4>1. n - 1 \in S
        BY <2>3, <3>1
      <4> HIDE DEF n
      <4> QED
        BY <3>1, <4>1
    <3>3. stack[n - 1] \in Frame
      BY <1>0, <3>1, ElementOfSeq
    <3>4. level[stack[n - 1].tag] \in 1 .. C
      BY <3>3 DEF Frame
    <3>5. n <= C + 1
      BY <1>0, <3>2, <3>4
    <3> QED
      BY <3>5 DEF CallDepthBounded, C
  <2> QED
    BY <2>4, <2>5
<1> QED
  BY <1>2, <1>3

\* While no tag implies itself, the calls are never deeper than there are tags,
\* and one more that removes a tag, until the disk is full (booru.cc:206-219).
THEOREM CallDepthBoundedAlways == Spec => []CallDepthBounded
<1> DEFINE I == faults = 0 => Inv /\ LinksInv
           J == faults = 0 => Inv
<1>1. Init => I
  <2> SUFFICES ASSUME Init PROVE I
    OBVIOUS
  <2>1. Len(stack) = 0
    BY DEF Init
  <2> QED
    BY <2>1, InitInv DEF LinksInv
<1>2. Always /\ J' /\ I /\ [Next]_vars => I'
  <2>1. ASSUME Always, I, Next, faults' = 0 PROVE LinksInv'
    <3>1. faults = 0
      BY <2>1, FaultsStay
    <3> QED
      BY <2>1, <3>1, LinksStep
  <2>2. ASSUME I, UNCHANGED vars, faults' = 0 PROVE LinksInv'
    <3>1. UNCHANGED <<faults, stack, work>>
      BY <2>2 DEF vars, backend, engine
    <3> QED
      BY <2>2, <3>1 DEF LinksInv
  <2> QED
    BY <2>1, <2>2
<1>3. I => CallDepthBounded
  <2> SUFFICES ASSUME Inv, LinksInv, faults = 0, Acyclic(disk) PROVE CallDepthBounded
    BY DEF CallDepthBounded
  <2>1. work.tags = disk.tags /\ work.adds = disk.adds /\ work.redirect = disk.redirect
    BY DEF Inv, Always, StoreInv, AlikeBut
  <2>2. Acyclic(work)
    BY <2>1 DEF Acyclic, Resolved
  <2> QED
    BY <2>2, LevelsDescend DEF Inv, Always
<1> HIDE DEF I
<1>4. Spec => []J
  BY Invariance
<1> HIDE DEF J
<1> QED
  BY <1>1, <1>2, <1>3, <1>4, AlwaysHolds, PTL DEF Spec
==============================================================================
