----------------------------- MODULE Transactions -----------------------------
(***************************************************************************)
(* The transaction layer: ContactsDatabase::beginTransaction, commit and   *)
(* rollback around the System V semaphore that ProcessMutex wraps, for any *)
(* number of connections in any number of processes, any of which may die  *)
(* at any step.  The SQLite writer lock (BEGIN IMMEDIATE) is external.     *)
(***************************************************************************)
EXTENDS Integers

CONSTANTS Connection,   \* every ContactsDatabase object
          Process,      \* the processes they live in
          processOf,    \* the process of each connection
          Operations,   \* the kinds of operation the connections perform
          None          \* no connection

ASSUME ProcessAssumption == processOf \in [Connection -> Process]
ASSUME NoneAssumption == None \notin Connection

\* The kinds of operation, by what they do on their error paths.  Whoever clears
\* the flags of a collection is of the last kind: clearChangeFlags of it, and
\* storeChanges that is to clear them, as the two-way sync asks it to.  Write is
\* all that remains: save, remove, storeChanges that is not to clear flags ...
Write == "write"
FetchContactChanges == "fetchContactChanges"
ClearCollectionFlags == "clearCollectionFlags"
OperationKinds == {Write, FetchContactChanges, ClearCollectionFlags}

ASSUME OperationsAssumption == Operations \subseteq OperationKinds

\* The kinds whose every rollback is made with the lock held: they roll back at
\* most once, and only after beginTransaction has returned true.  The syncs that
\* fetch changes and clear flags are not among them.
Disciplined == {Write}

VARIABLES
  pc,           \* where each connection is in its operation
  operation,    \* the operation each connection performs
  rollbacks,    \* how many times its error path still calls rollbackTransaction
  semaphore,    \* value of the semaphore at writeAccessIndex
  undo,         \* the kernel's SEM_UNDO adjustment for each process
  writer        \* the connection inside a SQLite write transaction, or None

vars == <<pc, operation, rollbacks, semaphore, undo, writer>>

Locations == {"idle", "lock", "begin", "unbegin", "body",
              "committed", "unlockCommitted",
              "rollback", "rolledBack", "unlockRolledBack"}

TypeOK ==
  /\ pc \in [Connection -> Locations]
  /\ operation \in [Connection -> OperationKinds]
  /\ rollbacks \in [Connection -> 0..2]
  /\ semaphore \in Nat
  /\ undo \in [Process -> Int]
  /\ writer \in Connection \cup {None}

Init ==
  /\ pc = [c \in Connection |-> "idle"]
  /\ operation = [c \in Connection |-> Write]
  /\ rollbacks = [c \in Connection |-> 0]
  /\ semaphore = 1
  /\ undo = [p \in Process |-> 0]
  /\ writer = None

Goto(c, l) == pc' = [pc EXCEPT ![c] = l]

(***************************************************************************)
(* The semaphore: semop with SEM_UNDO records the opposite of every change *)
(* against the calling process.                                            *)
(***************************************************************************)
\* Mutant: the decrement does not wait for a positive value.
MutexLockWithoutWaiting(c) ==
  /\ semaphore' = semaphore - 1
  /\ undo' = [undo EXCEPT ![processOf[c]] = @ + 1]

\* Mutant: the operation forgets SEM_UNDO.
MutexLockWithoutUndo(c) ==
  /\ semaphore > 0
  /\ semaphore' = semaphore - 1
  /\ UNCHANGED undo

MutexLock(c) ==
  /\ semaphore > 0
  /\ semaphore' = semaphore - 1
  /\ undo' = [undo EXCEPT ![processOf[c]] = @ + 1]

MutexUnlock(c) ==
  /\ semaphore' = semaphore + 1
  /\ undo' = [undo EXCEPT ![processOf[c]] = @ - 1]

IsLocked == semaphore = 0

(***************************************************************************)
(* beginTransaction                                                        *)
(***************************************************************************)
Start(c, o) ==
  /\ pc[c] = "idle"
  /\ operation' = [operation EXCEPT ![c] = o]
  /\ Goto(c, "lock")
  /\ UNCHANGED <<rollbacks, semaphore, undo, writer>>

Lock(c) ==
  /\ pc[c] = "lock"
  /\ MutexLock(c)
  /\ Goto(c, "begin")
  /\ UNCHANGED <<operation, rollbacks, writer>>

\* Where an operation goes when beginTransaction returns false: every caller
\* returns at once, except fetchContactChanges, which falls through to its
\* common exit and rolls back.
NotBegun(c) ==
  IF operation[c] = FetchContactChanges
  THEN /\ Goto(c, "rollback")
       /\ rollbacks' = [rollbacks EXCEPT ![c] = 1]
  ELSE /\ Goto(c, "idle")
       /\ UNCHANGED rollbacks

\* Mutant: the mutex is released after a lock that failed, too.
LockFailsAndUnlocks(c) ==
  /\ pc[c] = "lock"
  /\ MutexUnlock(c)
  /\ NotBegun(c)
  /\ UNCHANGED <<operation, writer>>

LockFails(c) ==
  /\ pc[c] = "lock"
  /\ NotBegun(c)
  /\ UNCHANGED <<operation, semaphore, undo, writer>>

Begin(c) ==
  /\ pc[c] = "begin"
  /\ writer = None
  /\ writer' = c
  /\ Goto(c, "body")
  /\ UNCHANGED <<operation, rollbacks, semaphore, undo>>

\* BEGIN IMMEDIATE fails (busy beyond the timeout, or an I/O error).
BeginFails(c) ==
  /\ pc[c] = "begin"
  /\ Goto(c, "unbegin")
  /\ UNCHANGED <<operation, rollbacks, semaphore, undo, writer>>

\* Mutant: a failed BEGIN returns without releasing the mutex.
UnbeginWithoutUnlock(c) ==
  /\ pc[c] = "unbegin"
  /\ NotBegun(c)
  /\ UNCHANGED <<operation, semaphore, undo, writer>>

Unbegin(c) ==
  /\ pc[c] = "unbegin"
  /\ MutexUnlock(c)
  /\ NotBegun(c)
  /\ UNCHANGED <<operation, writer>>

(***************************************************************************)
(* The body of the operation ends in an error and is rolled back, or in    *)
(* commitTransaction.  When the purge of the contacts of a collection      *)
(* fails, whoever clears its flags rolls back twice: once in               *)
(* clearChangeFlags of the contacts, which does not ask whether it is      *)
(* within a transaction, and once in the call that began it, which is      *)
(* clearChangeFlags of the collection or storeChanges.                     *)
(***************************************************************************)
BodyFails(c) ==
  /\ pc[c] = "body"
  /\ \E n \in IF operation[c] = ClearCollectionFlags THEN {1, 2} ELSE {1} :
        rollbacks' = [rollbacks EXCEPT ![c] = n]
  /\ Goto(c, "rollback")
  /\ UNCHANGED <<operation, semaphore, undo, writer>>

Commit(c) ==
  /\ pc[c] = "body"
  /\ writer' = None
  /\ Goto(c, "committed")
  /\ UNCHANGED <<operation, rollbacks, semaphore, undo>>

\* Mutant: a failed COMMIT releases the mutex and keeps the transaction.
CommitFailsAndUnlocks(c) ==
  /\ pc[c] = "body"
  /\ Goto(c, "committed")
  /\ UNCHANGED <<operation, rollbacks, semaphore, undo, writer>>

\* COMMIT fails; SQLite keeps the transaction or has already rolled it back.
\* ContactWriter::commitTransaction rolls back.
CommitFails(c) ==
  /\ pc[c] = "body"
  /\ writer' \in {writer, None}
  /\ rollbacks' = [rollbacks EXCEPT ![c] = 1]
  /\ Goto(c, "rollback")
  /\ UNCHANGED <<operation, semaphore, undo>>

CheckCommitted(c) ==
  /\ pc[c] = "committed"
  /\ Goto(c, IF IsLocked THEN "unlockCommitted" ELSE "idle")
  /\ UNCHANGED <<operation, rollbacks, semaphore, undo, writer>>

UnlockCommitted(c) ==
  /\ pc[c] = "unlockCommitted"
  /\ MutexUnlock(c)
  /\ Goto(c, "idle")
  /\ UNCHANGED <<operation, rollbacks, writer>>

(***************************************************************************)
(* rollbackTransaction: ROLLBACK, then release the semaphore if somebody,  *)
(* not necessarily this connection, has it.                                *)
(***************************************************************************)
Rollback(c) ==
  /\ pc[c] = "rollback"
  /\ writer' = IF writer = c THEN None ELSE writer
  /\ rollbacks' = [rollbacks EXCEPT ![c] = @ - 1]
  /\ Goto(c, "rolledBack")
  /\ UNCHANGED <<operation, semaphore, undo>>

AfterRollback(c) == IF rollbacks[c] > 0 THEN "rollback" ELSE "idle"

CheckRolledBack(c) ==
  /\ pc[c] = "rolledBack"
  /\ Goto(c, IF IsLocked THEN "unlockRolledBack" ELSE AfterRollback(c))
  /\ UNCHANGED <<operation, rollbacks, semaphore, undo, writer>>

UnlockRolledBack(c) ==
  /\ pc[c] = "unlockRolledBack"
  /\ MutexUnlock(c)
  /\ Goto(c, AfterRollback(c))
  /\ UNCHANGED <<operation, rollbacks, writer>>

(***************************************************************************)
(* A process dies: SQLite recovers its journal and drops its locks, the    *)
(* kernel applies its undo adjustment, never taking the value below zero.  *)
(* The process may start again.                                            *)
(***************************************************************************)
\* Mutant: the adjustment is applied but never cleared.
SemUndoTwice(p) ==
  /\ semaphore' = IF semaphore + undo[p] < 0 THEN 0 ELSE semaphore + undo[p]
  /\ UNCHANGED undo

SemUndo(p) ==
  /\ semaphore' = IF semaphore + undo[p] < 0 THEN 0 ELSE semaphore + undo[p]
  /\ undo' = [undo EXCEPT ![p] = 0]

Crash(p) ==
  /\ \E c \in Connection : processOf[c] = p /\ pc[c] # "idle"
  /\ SemUndo(p)
  /\ pc' = [c \in Connection |-> IF processOf[c] = p THEN "idle" ELSE pc[c]]
  /\ rollbacks' = [c \in Connection |-> IF processOf[c] = p THEN 0 ELSE rollbacks[c]]
  /\ writer' = IF writer # None /\ processOf[writer] = p THEN None ELSE writer
  /\ UNCHANGED operation

\* The steps of one connection once an operation has been asked for.
Proceed(c) ==
  \/ Lock(c) \/ LockFails(c)
  \/ Begin(c) \/ BeginFails(c) \/ Unbegin(c)
  \/ BodyFails(c) \/ Commit(c) \/ CommitFails(c)
  \/ CheckCommitted(c) \/ UnlockCommitted(c)
  \/ Rollback(c) \/ CheckRolledBack(c) \/ UnlockRolledBack(c)

Next ==
  \/ \E c \in Connection : Proceed(c) \/ \E o \in Operations : Start(c, o)
  \/ \E p \in Process : Crash(p)

Spec == Init /\ [][Next]_vars

(***************************************************************************)
(* A connection that is not blocked keeps running, and the kernel serves   *)
(* the processes that sleep on a semaphore in order of arrival, so one     *)
(* that could be woken again and again is.                                 *)
(***************************************************************************)
Fairness ==
  \A c \in Connection : WF_vars(pc[c] # "lock" /\ Proceed(c)) /\ SF_vars(Lock(c))

FairSpec == Spec /\ Fairness

-----------------------------------------------------------------------------
(***************************************************************************)
(* Properties                                                              *)
(***************************************************************************)
\* c is between a successful MutexLock and the matching MutexUnlock.
Holds(c) ==
  \/ pc[c] \in {"begin", "unbegin", "body", "committed", "unlockCommitted"}
  \/ pc[c] \in {"rollback", "rolledBack", "unlockRolledBack"} /\ operation[c] \in Disciplined

Holders == {c \in Connection : Holds(c)}

\* "a cross-process mutex to ensure only one process can write to the DB at
\* once" (contactsdatabase.cpp:3534): no two connections are between lock and
\* unlock, whatever fails and whoever dies.
LockExcludes == \A c, d \in Connection : Holds(c) /\ Holds(d) => c = d

\* "there will be no lock contention with other writing processes"
\* (contactsdatabase.cpp:2234): a connection that has the semaphore never
\* finds another one inside a SQLite write transaction.
NoContention == \A c \in Connection : pc[c] = "begin" => writer = None

\* The semaphore and the undo adjustments account for the holder exactly: no
\* error path and no crash leaks the lock or hands out a second one.
LockAccounted ==
  /\ semaphore = IF Holders = {} THEN 1 ELSE 0
  /\ \A p \in Process : undo[p] = IF \E c \in Holders : processOf[c] = p THEN 1 ELSE 0

\* No operation stays in the middle for ever, least of all waiting for the
\* lock, which is what the mutex is there to prevent (contactsdatabase.cpp:3535):
\* the connection is idle again after every path through errors, rollbacks and
\* crashes, its own and those of whoever holds the lock.
OperationEnds == \A c \in Connection : (pc[c] # "idle") ~> (pc[c] = "idle")

\* The semaphore implements the abstract lock.
Abstract == INSTANCE WriteLock WITH holders <- Holders
ImplementsWriteLock == Abstract!AbstractSpec
=============================================================================
