-------------------------- MODULE TransactionsProofs --------------------------
(***************************************************************************)
(* Theorems about Transactions, for any number of connections in any       *)
(* number of processes.  They assume that every operation performed is     *)
(* disciplined, that is, rolls back only while it holds the lock; for the  *)
(* two operations of the code that are not, the runs MCTransactionsFetch   *)
(* and MCTransactionsClear show what becomes of them.                      *)
(***************************************************************************)
EXTENDS Transactions, TLAPS

\* Every connection performs a disciplined operation.
AllDisciplined == \A c \in Connection : operation[c] \in Disciplined

\* What makes TypeOK inductive: a connection at the start of an error path
\* owes a rollback.
RollbackDue == \A c \in Connection : pc[c] = "rollback" => rollbacks[c] > 0

\* In a disciplined operation it owes exactly one, and nowhere else.
RollbackOwed ==
  \A c \in Connection : rollbacks[c] = IF pc[c] = "rollback" THEN 1 ELSE 0

\* The SQLite writer is the holder, between BEGIN and COMMIT or ROLLBACK.
WriterHolds ==
  writer # None => writer \in Connection /\ pc[writer] \in {"body", "rollback"}

\* The inductive invariant.
IInv ==
  /\ TypeOK
  /\ AllDisciplined
  /\ RollbackOwed
  /\ WriterHolds
  /\ LockExcludes
  /\ LockAccounted

\* Where the lock is held, once every operation is disciplined.
HeldLocations ==
  {"begin", "unbegin", "body", "committed", "unlockCommitted",
   "rollback", "rolledBack", "unlockRolledBack"}

(***************************************************************************)
(* What each step does to the set of holders.                              *)
(***************************************************************************)
LEMMA LockStep ==
  ASSUME IInv, NEW c \in Connection, Lock(c)
  PROVE  Holders = {} /\ Holders' = {c}
BY DEF IInv, TypeOK, LockAccounted, Lock, MutexLock, Goto, Locations, Holders, Holds

\* The steps that give the lock back.
Releases(c) == Unbegin(c) \/ UnlockCommitted(c) \/ UnlockRolledBack(c)

LEMMA ReleaseStep ==
  ASSUME IInv, NEW c \in Connection, Releases(c)
  PROVE  Holders = {c} /\ Holders' = {}
<1>1. c \in Holders
  BY DEF IInv, AllDisciplined, Releases, Unbegin, UnlockCommitted, UnlockRolledBack, Holders, Holds
<1>2. Holders = {c}
  BY <1>1 DEF IInv, LockExcludes, Holders
<1>3. pc' = [pc EXCEPT ![c] = "idle"] /\ operation' = operation
  BY DEF IInv, TypeOK, AllDisciplined, Disciplined, RollbackOwed, Write, FetchContactChanges, Releases,
         Unbegin, UnlockCommitted, UnlockRolledBack, NotBegun, AfterRollback, Goto
<1> QED BY <1>2, <1>3 DEF IInv, TypeOK, Holders, Holds

\* The steps a connection takes without touching the lock.
Keeps(c) ==
  \/ \E o \in Operations : Start(c, o)
  \/ LockFails(c) \/ Begin(c) \/ BeginFails(c)
  \/ BodyFails(c) \/ Commit(c) \/ CommitFails(c)
  \/ CheckCommitted(c) \/ Rollback(c) \/ CheckRolledBack(c)

LEMMA KeepStep ==
  ASSUME IInv, NEW c \in Connection, Keeps(c), Operations \subseteq Disciplined
  PROVE  Holders' = Holders /\ semaphore' = semaphore /\ undo' = undo
<1>1. semaphore' = semaphore /\ undo' = undo
  BY DEF Keeps, Start, LockFails, Begin, BeginFails, BodyFails, Commit, CommitFails,
         CheckCommitted, Rollback, CheckRolledBack
<1>2. \A d \in Connection : d # c => pc'[d] = pc[d] /\ operation'[d] = operation[d]
  BY DEF IInv, TypeOK, Keeps, Start, LockFails, NotBegun, Begin, BeginFails, BodyFails, Commit, CommitFails,
         CheckCommitted, Rollback, CheckRolledBack, Goto
<1>3. Holds(c)' <=> Holds(c)
  <2>1. ASSUME Holds(c) PROVE IsLocked
    BY <2>1 DEF IInv, LockAccounted, IsLocked, Holders
  <2>2. operation[c] = Write /\ operation'[c] = Write
    BY DEF IInv, TypeOK, AllDisciplined, Disciplined, Keeps, Start, LockFails, Begin, BeginFails, BodyFails,
           Commit, CommitFails, CheckCommitted, Rollback, CheckRolledBack
  <2> QED
    BY <2>1, <2>2 DEF IInv, TypeOK, Disciplined, Write, FetchContactChanges, Keeps, Start, LockFails, NotBegun,
         Begin, BeginFails, BodyFails, Commit, CommitFails, CheckCommitted, Rollback, CheckRolledBack, Goto, Holds
<1> QED BY <1>1, <1>2, <1>3 DEF Holders, Holds

LEMMA CrashStep ==
  ASSUME IInv, NEW p \in Process, Crash(p)
  PROVE  Holders' = {c \in Holders : processOf[c] # p}
BY DEF IInv, TypeOK, Crash, Holders, Holds

\* A step is one of these.
LEMMA StepKinds ==
  ASSUME Next
  PROVE  \/ \E c \in Connection : Lock(c) \/ Releases(c) \/ Keeps(c)
         \/ \E p \in Process : Crash(p)
BY DEF Next, Proceed, Releases, Keeps

(***************************************************************************)
(* IInv is inductive.                                                      *)
(***************************************************************************)
LEMMA Initially == Init => IInv
BY ProcessAssumption, NoneAssumption
   DEF Init, IInv, TypeOK, Locations, OperationKinds, AllDisciplined, Disciplined, RollbackOwed,
       WriterHolds, LockExcludes, LockAccounted, Holders, Holds

LEMMA TypeCorrect ==
  ASSUME TypeOK, RollbackDue, [Next]_vars
  PROVE  TypeOK' /\ RollbackDue'
<1> USE ProcessAssumption, OperationsAssumption DEF TypeOK, RollbackDue, Locations, Goto
<1>1. CASE UNCHANGED vars
  BY <1>1 DEF vars
<1>2. ASSUME NEW c \in Connection, NEW o \in Operations, Start(c, o) PROVE TypeOK' /\ RollbackDue'
  BY <1>2 DEF Start
<1>3. ASSUME NEW c \in Connection, Proceed(c) PROVE TypeOK' /\ RollbackDue'
  <2>1. CASE Lock(c)              BY <2>1 DEF Lock, MutexLock
  <2>2. CASE LockFails(c)         BY <2>2 DEF LockFails, NotBegun
  <2>3. CASE Begin(c)             BY <2>3 DEF Begin
  <2>4. CASE BeginFails(c)        BY <2>4 DEF BeginFails
  <2>5. CASE Unbegin(c)           BY <2>5 DEF Unbegin, MutexUnlock, NotBegun
  <2>6. CASE BodyFails(c)         BY <2>6 DEF BodyFails
  <2>7. CASE Commit(c)            BY <2>7 DEF Commit
  <2>8. CASE CommitFails(c)       BY <2>8 DEF CommitFails
  <2>9. CASE CheckCommitted(c)    BY <2>9 DEF CheckCommitted
  <2>10. CASE UnlockCommitted(c)  BY <2>10 DEF UnlockCommitted, MutexUnlock
  <2>11. CASE Rollback(c)         BY <2>11 DEF Rollback
  <2>12. CASE CheckRolledBack(c)  BY <2>12 DEF CheckRolledBack, AfterRollback
  <2>13. CASE UnlockRolledBack(c) BY <2>13 DEF UnlockRolledBack, MutexUnlock, AfterRollback
  <2> QED
    BY <1>3, <2>1, <2>2, <2>3, <2>4, <2>5, <2>6, <2>7, <2>8, <2>9, <2>10, <2>11, <2>12, <2>13 DEF Proceed
<1>4. ASSUME NEW p \in Process, Crash(p) PROVE TypeOK' /\ RollbackDue'
  BY <1>4 DEF Crash, SemUndo
<1> QED BY <1>1, <1>2, <1>3, <1>4 DEF Next

LEMMA LocalPartsPreserved ==
  ASSUME IInv, [Next]_vars, Operations \subseteq Disciplined
  PROVE  AllDisciplined' /\ RollbackOwed' /\ WriterHolds'
<1> USE NoneAssumption DEF IInv, TypeOK, AllDisciplined, RollbackOwed, WriterHolds, Goto
<1>1. CASE UNCHANGED vars
  BY <1>1 DEF vars
<1>2. ASSUME NEW c \in Connection, Lock(c) PROVE AllDisciplined' /\ RollbackOwed' /\ WriterHolds'
  BY <1>2 DEF Lock
<1>3. ASSUME NEW c \in Connection, Releases(c) PROVE AllDisciplined' /\ RollbackOwed' /\ WriterHolds'
  BY <1>3 DEF Releases, Unbegin, UnlockCommitted, UnlockRolledBack, NotBegun, AfterRollback,
              Disciplined, Write, FetchContactChanges
<1>4. ASSUME NEW c \in Connection, Keeps(c) PROVE AllDisciplined' /\ RollbackOwed' /\ WriterHolds'
  <2> USE DEF Disciplined, Write, FetchContactChanges, ClearCollectionFlags
  <2>1. AllDisciplined'
    BY <1>4 DEF Keeps, Start, LockFails, Begin, BeginFails, BodyFails, Commit, CommitFails,
                CheckCommitted, Rollback, CheckRolledBack
  <2>2. RollbackOwed'
    BY <1>4 DEF Keeps, Start, LockFails, NotBegun, Begin, BeginFails, BodyFails, Commit, CommitFails,
                CheckCommitted, Rollback, CheckRolledBack, AfterRollback
  <2>3. WriterHolds'
    BY <1>4 DEF Keeps, Start, LockFails, NotBegun, Begin, BeginFails, BodyFails, Commit, CommitFails,
                CheckCommitted, Rollback, CheckRolledBack, AfterRollback
  <2> QED BY <2>1, <2>2, <2>3
<1>5. ASSUME NEW p \in Process, Crash(p) PROVE AllDisciplined' /\ RollbackOwed' /\ WriterHolds'
  BY <1>5 DEF Crash
<1> QED BY <1>1, <1>2, <1>3, <1>4, <1>5, StepKinds

LEMMA LockPartsPreserved ==
  ASSUME IInv, [Next]_vars, Operations \subseteq Disciplined
  PROVE  LockExcludes' /\ LockAccounted'
<1> USE ProcessAssumption
<1>1. CASE UNCHANGED vars
  BY <1>1 DEF IInv, vars, LockExcludes, LockAccounted, Holders, Holds
<1>2. ASSUME NEW c \in Connection, Lock(c) PROVE LockExcludes' /\ LockAccounted'
  <2>1. Holders = {} /\ Holders' = {c}
    BY <1>2, LockStep
  <2>2. LockExcludes'
    BY <2>1 DEF LockExcludes, Holders
  <2>3. LockAccounted'
    BY <1>2, <2>1 DEF IInv, TypeOK, LockAccounted, Lock, MutexLock
  <2> QED BY <2>2, <2>3
<1>3. ASSUME NEW c \in Connection, Releases(c) PROVE LockExcludes' /\ LockAccounted'
  <2>1. Holders = {c} /\ Holders' = {}
    BY <1>3, ReleaseStep
  <2>2. LockExcludes'
    BY <2>1 DEF LockExcludes, Holders
  <2>3. MutexUnlock(c)
    BY <1>3 DEF Releases, Unbegin, UnlockCommitted, UnlockRolledBack
  <2>4. LockAccounted'
    BY <2>1, <2>3 DEF IInv, TypeOK, LockAccounted, MutexUnlock
  <2> QED BY <2>2, <2>4
<1>4. ASSUME NEW c \in Connection, Keeps(c) PROVE LockExcludes' /\ LockAccounted'
  <2>1. Holders' = Holders /\ semaphore' = semaphore /\ undo' = undo
    BY <1>4, KeepStep
  <2> QED BY <2>1 DEF IInv, LockExcludes, LockAccounted, Holders
<1>5. ASSUME NEW p \in Process, Crash(p) PROVE LockExcludes' /\ LockAccounted'
  <2>1. Holders' = {c \in Holders : processOf[c] # p}
    BY <1>5, CrashStep
  <2>2. LockExcludes'
    BY <2>1 DEF IInv, LockExcludes, Holders
  <2>3. \A c, d \in Holders : c = d
    BY DEF IInv, LockExcludes, Holders
  <2>4. semaphore' = IF Holders' = {} THEN 1 ELSE 0
    BY <1>5, <2>1, <2>3 DEF IInv, LockAccounted, Crash, SemUndo, Holders
  <2>5. \A q \in Process : undo'[q] = IF \E c \in Holders' : processOf[c] = q THEN 1 ELSE 0
    BY <1>5, <2>1, <2>3 DEF IInv, TypeOK, LockAccounted, Crash, SemUndo
  <2> QED BY <2>2, <2>4, <2>5 DEF LockAccounted
<1> QED BY <1>1, <1>2, <1>3, <1>4, <1>5, StepKinds

LEMMA Inductive ==
  ASSUME Operations \subseteq Disciplined
  PROVE  IInv /\ [Next]_vars => IInv'
<1> SUFFICES ASSUME IInv, [Next]_vars PROVE IInv'
  OBVIOUS
<1>1. TypeOK'
  BY TypeCorrect DEF IInv, RollbackOwed, RollbackDue
<1> QED BY <1>1, LocalPartsPreserved, LockPartsPreserved DEF IInv

LEMMA IInvHolds ==
  ASSUME Operations \subseteq Disciplined
  PROVE  Spec => []IInv
BY Initially, Inductive, PTL DEF Spec

(***************************************************************************)
(* The theorems.                                                           *)
(***************************************************************************)

\* Every variable keeps its type, whatever the operations.
THEOREM TypeInvariant == Spec => []TypeOK
<1>1. Init => TypeOK /\ RollbackDue
  BY Initially DEF IInv, RollbackOwed, RollbackDue
<1>2. TypeOK /\ RollbackDue /\ [Next]_vars => TypeOK' /\ RollbackDue'
  BY TypeCorrect
<1> QED BY <1>1, <1>2, PTL DEF Spec

\* "a cross-process mutex to ensure only one process can write to the DB at
\* once": no two connections are between lock and unlock.
THEOREM LockSafety ==
  ASSUME Operations \subseteq Disciplined
  PROVE  Spec => []LockExcludes
<1>1. IInv => LockExcludes
  BY DEF IInv
<1> QED BY <1>1, IInvHolds, PTL

\* No error path and no crash leaks the lock or hands out a second one: the
\* semaphore and the kernel's undo adjustments name the holder exactly.
THEOREM LockAccounting ==
  ASSUME Operations \subseteq Disciplined
  PROVE  Spec => []LockAccounted
<1>1. IInv => LockAccounted
  BY DEF IInv
<1> QED BY <1>1, IInvHolds, PTL

\* "there will be no lock contention with other writing processes": BEGIN
\* IMMEDIATE never finds another writer.
THEOREM BeginNeverContends ==
  ASSUME Operations \subseteq Disciplined
  PROVE  Spec => []NoContention
<1>1. IInv => NoContention
  BY DEF IInv, NoContention, WriterHolds, LockExcludes, Holds, AllDisciplined
<1> QED BY <1>1, IInvHolds, PTL

\* The semaphore with its undo adjustments implements the abstract lock.
THEOREM Refinement ==
  ASSUME Operations \subseteq Disciplined
  PROVE  Spec => ImplementsWriteLock
<1>1. Init => Abstract!AbstractInit
  BY DEF Init, Abstract!AbstractInit, Holders, Holds
<1>2. IInv /\ [Next]_vars => [Abstract!AbstractNext]_Holders
  <2> SUFFICES ASSUME IInv, [Next]_vars PROVE [Abstract!AbstractNext]_Holders
    OBVIOUS
  <2>1. CASE UNCHANGED vars
    BY <2>1 DEF vars, Holders, Holds
  <2>2. ASSUME NEW c \in Connection, Lock(c) PROVE Abstract!Acquire(c)
    BY <2>2, LockStep DEF Abstract!Acquire
  <2>3. ASSUME NEW c \in Connection, Releases(c) PROVE Abstract!Release(c)
    BY <2>3, ReleaseStep DEF Abstract!Release
  <2>4. ASSUME NEW c \in Connection, Keeps(c) PROVE Holders' = Holders
    BY <2>4, KeepStep
  <2>5. ASSUME NEW p \in Process, Crash(p) PROVE Abstract!Die(p) \/ Holders' = Holders
    <3>1. Holders' = {c \in Holders : processOf[c] # p}
      BY <2>5, CrashStep
    <3> QED BY <3>1 DEF Abstract!Die
  <2> QED BY <2>1, <2>2, <2>3, <2>4, <2>5, StepKinds DEF Abstract!AbstractNext
<1> QED BY <1>1, <1>2, IInvHolds, PTL DEF Spec, ImplementsWriteLock, Abstract!AbstractSpec
=============================================================================
