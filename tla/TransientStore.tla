---------------------------- MODULE TransientStore ----------------------------
(***************************************************************************)
(* Presence and other transient details, in shared memory: SharedMemory-   *)
(* Manager of every process, with its threads.  A key region names the     *)
(* generation of the data region; a data region that is full is replaced   *)
(* by that of the next generation.  One semaphore guards the key region,   *)
(* one the data, a mutex each manager.  A data region is here the set of   *)
(* keys it has values for, with a capacity; MemoryTable is what is in it.  *)
(* QSharedMemory destroys a region when the last process detaches from it, *)
(* but not when that process dies.                                         *)
(***************************************************************************)
EXTENDS Integers, FiniteSets

CONSTANTS Process, Thread,
          Key,            \* the ids of contacts
          MaxSemaphore,   \* bound on the data semaphore; iterations leave it too high
          InitialSize,    \* the capacity of the first region
          MaxAttempts,    \* 50: how often the data lock is tried
          MaxGeneration,  \* bound on the generations
          None            \* no thread, no process

ASSUME StoreAssumption ==
  /\ IsFiniteSet(Key)
  /\ MaxSemaphore \in Nat
  /\ InitialSize \in Nat \ {0} /\ MaxAttempts \in Nat \ {0} /\ MaxGeneration \in Nat \ {0}
  /\ None \notin Thread \cup Process

VARIABLES
  keySemaphore, dataSemaphore,
  keyUndo, dataUndo,  \* the kernel's SEM_UNDO adjustments for each process
  mutex,        \* m_mutex of each process: the thread that has it
  generation,   \* in the key region; 0 if there is no such region
  region,       \* the data region of each generation
  tableData,    \* m_tables of each process
  thread,       \* what each thread is doing, and of which process it is
  stored,       \* history: the keys that were set and not removed since
  revived,      \* history: other keys, found in regions of the dead
  iterated      \* history: somebody has iterated over a table

semaphores == <<keySemaphore, dataSemaphore, keyUndo, dataUndo>>
shared == <<generation, region>>
history == <<stored, revived, iterated>>
vars == <<semaphores, mutex, shared, tableData, thread, history>>

Generations == 1..MaxGeneration
NoRegion == [size |-> 0, keys |-> {}]
NotOpen == [open |-> FALSE, generation |-> 0, region |-> 0]
Idle == [pc |-> "idle", process |-> None, opening |-> FALSE, key |-> 0, attempts |-> 0, handle |-> 0, next |-> 0]

TypeOK ==
  /\ keySemaphore \in Nat /\ dataSemaphore \in Nat
  /\ keyUndo \in [Process -> Int] /\ dataUndo \in [Process -> Int]
  /\ mutex \in [Process -> Thread \cup {None}]
  /\ generation \in 0..MaxGeneration
  /\ region \in [Generations -> [size : Nat, keys : SUBSET Key]]
  /\ \A g \in Generations : Cardinality(region[g].keys) <= region[g].size
  /\ tableData \in [Process -> [open : BOOLEAN, generation : 0..MaxGeneration,
                                region : 0..MaxGeneration]]
  /\ thread \in [Thread -> [pc : {"idle", "mutex", "key", "data", "use", "iterating", "reallocMutex",
                                  "reallocKey", "migrate", "publish", "insert"},
                            process : Process \cup {None}, opening : BOOLEAN, key : Key \cup {0}, attempts : 0..MaxAttempts,
                            handle : 0..MaxGeneration, next : 0..MaxGeneration]]
  /\ stored \in SUBSET Key /\ revived \in SUBSET Key /\ iterated \in BOOLEAN

Init ==
  /\ keySemaphore = 1 /\ dataSemaphore = 1
  /\ keyUndo = [p \in Process |-> 0] /\ dataUndo = [p \in Process |-> 0]
  /\ mutex = [p \in Process |-> None]
  /\ generation = 0
  /\ region = [g \in Generations |-> NoRegion]
  /\ tableData = [p \in Process |-> NotOpen]
  /\ thread = [t \in Thread |-> Idle]
  /\ stored = {} /\ revived = {} /\ iterated = FALSE

At(t, l) == thread[t].pc = l
P(t) == thread[t].process
Data(t) == tableData[P(t)]

(***************************************************************************)
(* The semaphores: acquire and release, n of them at once.                 *)
(***************************************************************************)
AcquireKey(t) ==
  /\ keySemaphore > 0
  /\ keySemaphore' = keySemaphore - 1
  /\ keyUndo' = [keyUndo EXCEPT ![P(t)] = @ + 1]

ReleaseKey(t) ==
  /\ keySemaphore' = keySemaphore + 1
  /\ keyUndo' = [keyUndo EXCEPT ![P(t)] = @ - 1]

AcquireData(t) ==
  /\ dataSemaphore > 0
  /\ dataSemaphore' = dataSemaphore - 1
  /\ dataUndo' = [dataUndo EXCEPT ![P(t)] = @ + 1]

ReleaseData(t, n) ==
  /\ dataSemaphore' = dataSemaphore + n
  /\ dataUndo' = [dataUndo EXCEPT ![P(t)] = @ - n]

Undone(value, adjustment) == IF value + adjustment < 0 THEN 0 ELSE value + adjustment

KeepKey == UNCHANGED <<keySemaphore, keyUndo>>
KeepData == UNCHANGED <<dataSemaphore, dataUndo>>
UnlockMutex(t) == mutex' = [mutex EXCEPT ![P(t)] = None]

Goto(t, l) == thread' = [thread EXCEPT ![t].pc = l]
End(t) == thread' = [thread EXCEPT ![t] = Idle]

(***************************************************************************)
(* The regions.                                                            *)
(***************************************************************************)
Exists(r) == r.size > 0

\* Who is attached to the data region of g and to the key region.
Attached(g, tables, threads) ==
  \/ \E p \in Process : tables[p].region = g
  \/ \E t \in Thread : g \in {threads[t].handle, threads[t].next}
KeyAttached(tables, threads) ==
  \/ \E p \in Process : tables[p].open
  \/ \E t \in Thread : threads[t].opening /\ (threads[t].pc = "data" \/ threads[t].attempts > 0)

\* The regions without those from which the last one has detached.
Detached(regions, dropped, tables, threads) ==
  [g \in Generations |->
     IF g \in dropped /\ ~Attached(g, tables, threads) THEN NoRegion ELSE regions[g]]
KeyDetached(tables, threads) == IF KeyAttached(tables, threads) THEN generation ELSE 0

\* getDataRegion(g, createIfNecessary = false): the region it attaches to, 0 if
\* none.  "It's possible that the current generation has been destroyed, but the
\* previous generation is still active".
AttachableRegion(g) ==
  IF Exists(region[g]) THEN g
  ELSE IF g > 1 /\ Exists(region[g - 1]) THEN g - 1
  ELSE 0

\* getDataRegion(g, createIfNecessary = true, size): the region it returns.
DataRegion(g) == IF AttachableRegion(g) = 0 THEN g ELSE AttachableRegion(g)
WithDataRegion(g, size) ==
  IF AttachableRegion(g) = 0 THEN [region EXCEPT ![g] = [size |-> size, keys |-> {}]] ELSE region

\* The keys that come with region r when it is attached although nobody living
\* had it: processes that died have left it behind.
Revives(r) == IF Attached(r, tableData, thread) THEN {} ELSE region[r].keys \ stored

\* What was stored is gone with its region or with the key region, and what the
\* previous generation has kept takes its place.
StoreKept ==
  LET g == AttachableRegion(generation)
      gone == generation' = 0 \/ g = 0 \/ ~Exists(region'[g])
  IN  IF ~gone THEN UNCHANGED history
      ELSE /\ stored' = {}
           /\ revived' = IF generation' > 1 THEN region'[generation' - 1].keys ELSE {}
           /\ UNCHANGED iterated

\* Mutant: off by one.
FitsOneMore(r, k) == k \in r.keys \/ Cardinality(r.keys) <= r.size

Fits(r, k) == k \in r.keys \/ Cardinality(r.keys) < r.size

(***************************************************************************)
(* open() and table() take the mutex, the key lock and the data lock.      *)
(* What is done with the table is chosen once it is locked.                *)
(***************************************************************************)
\* A thread of p begins, but not with the data semaphore at its bound.
Begin(t, p) ==
  /\ At(t, "idle")
  /\ dataSemaphore < MaxSemaphore
  /\ thread' = [thread EXCEPT ![t] =
                  [Idle EXCEPT !.pc = "mutex", !.process = p, !.opening = ~tableData[p].open]]
  /\ UNCHANGED <<semaphores, mutex, shared, tableData, history>>

LockMutex(t) ==
  /\ At(t, "mutex")
  /\ mutex[P(t)] = None
  /\ IF thread[t].opening /\ Data(t).open
     THEN End(t) /\ UNCHANGED mutex
     ELSE Goto(t, "key") /\ mutex' = [mutex EXCEPT ![P(t)] = t]
  /\ UNCHANGED <<semaphores, shared, tableData, history>>

\* open() creates the key region if there is none.
LockKey(t) ==
  /\ At(t, "key")
  /\ AcquireKey(t)
  /\ Goto(t, "data")
  /\ generation' = IF generation = 0 THEN 1 ELSE generation
  /\ KeepData
  /\ UNCHANGED <<mutex, region, tableData, history>>

LockKeyTimesOut(t) ==
  /\ At(t, "key")
  /\ keySemaphore = 0
  /\ End(t)
  /\ UnlockMutex(t)
  /\ generation' = KeyDetached(tableData, thread')
  /\ UNCHANGED <<semaphores, region, tableData>>
  /\ StoreKept

\* Mutant: the attempts are not counted.
LockDataTimesOutForEver(t) ==
  /\ At(t, "data")
  /\ dataSemaphore = 0
  /\ ReleaseKey(t)
  /\ KeepData
  /\ Goto(t, "key")
  /\ UNCHANGED <<mutex, generation, region, tableData, history>>

\* It lets go of the key lock, "to avoid potential deadlock", but keeps the mutex.
LockDataTimesOut(t) ==
  /\ At(t, "data")
  /\ dataSemaphore = 0
  /\ ReleaseKey(t)
  /\ KeepData
  /\ IF thread[t].attempts + 1 < MaxAttempts
     THEN /\ thread' = [thread EXCEPT ![t].pc = "key", ![t].attempts = @ + 1]
          /\ UNCHANGED <<mutex, generation>>
     ELSE /\ End(t)
          /\ UnlockMutex(t)
          /\ generation' = KeyDetached(tableData, thread')
  /\ UNCHANGED <<region, tableData>>
  /\ StoreKept

\* The end of open(): a region of the current generation is attached, or
\* created; the process that creates the database reinitialises it.
LockDataToOpen(t, reinitialize) ==
  LET r == DataRegion(generation)
      regions == WithDataRegion(generation, InitialSize)
  IN  /\ At(t, "data")
      /\ thread[t].opening
      /\ dataSemaphore > 0
      /\ ReleaseKey(t)
      /\ UnlockMutex(t)
      /\ End(t)
      /\ tableData' = [tableData EXCEPT ![P(t)] =
                         [open |-> TRUE, generation |-> generation, region |-> r]]
      /\ IF reinitialize \/ regions # region
         THEN region' = [regions EXCEPT ![r].keys = {}] /\ stored' = {} /\ revived' = {}
         ELSE revived' = revived \cup Revives(r) /\ UNCHANGED <<region, stored>>
      /\ KeepData
      /\ UNCHANGED <<generation, iterated>>

\* Mutant: the generation is not compared.
NeedsAttachNever(t) == FALSE

NeedsAttach(t) == generation # Data(t).generation

\* The end of table(): the region of a newer generation is attached in place of
\* the old one, and the data lock is kept.
LockDataToUse(t) ==
  LET r == IF NeedsAttach(t) THEN AttachableRegion(generation) ELSE Data(t).region
  IN  /\ At(t, "data")
      /\ ~thread[t].opening
      /\ r # 0
      /\ AcquireData(t)
      /\ ReleaseKey(t)
      /\ UnlockMutex(t)
      /\ tableData' = [tableData EXCEPT ![P(t)].region = r,
                         ![P(t)].generation = IF NeedsAttach(t) THEN generation ELSE @]
      /\ thread' = [thread EXCEPT ![t].pc = "use", ![t].handle = r]
      /\ region' = Detached(region, {Data(t).region}, tableData', thread')
      /\ revived' = revived \cup Revives(r)
      /\ UNCHANGED <<generation, stored, iterated>>

\* The newer region is gone, or open() cannot create one: both locks are released.
LockDataCannotAttach(t) ==
  /\ At(t, "data")
  /\ dataSemaphore > 0
  /\ thread[t].opening \/ NeedsAttach(t)
  /\ AttachableRegion(generation) = 0
  /\ ReleaseKey(t)
  /\ UnlockMutex(t)
  /\ End(t)
  /\ generation' = KeyDetached(tableData, thread')
  /\ KeepData
  /\ UNCHANGED <<region, tableData>>
  /\ StoreKept

(***************************************************************************)
(* What is done with the table, and the release of the data lock.          *)
(***************************************************************************)
\* Mutant: a copy of the handle releases the lock, too.
FinishTwice(t, regions) ==
  /\ ReleaseData(t, 2)
  /\ End(t)
  /\ region' = Detached(regions, {thread[t].handle, thread[t].next}, tableData, thread')
  /\ KeepKey
  /\ UNCHANGED <<mutex, generation, tableData>>

\* The access ends: its handles are destroyed.
Finish(t, regions) ==
  /\ ReleaseData(t, 1)
  /\ End(t)
  /\ region' = Detached(regions, {thread[t].handle, thread[t].next}, tableData, thread')
  /\ KeepKey
  /\ UNCHANGED <<mutex, generation, tableData>>

ContactDetails(t) ==
  /\ At(t, "use")
  /\ Finish(t, region)
  /\ UNCHANGED history

RemoveDetails(t, k) ==
  /\ At(t, "use")
  /\ Finish(t, [region EXCEPT ![thread[t].handle].keys = @ \ {k}])
  /\ stored' = stored \ {k}
  /\ revived' = revived \ {k}
  /\ UNCHANGED iterated

Inserted(t, g, k) ==
  /\ Finish(t, [region EXCEPT ![g].keys = @ \cup {k}])
  /\ stored' = stored \cup {k}
  /\ revived' = revived \ {k}
  /\ UNCHANGED iterated

SetContactDetails(t, k) ==
  /\ At(t, "use")
  /\ Fits(region[thread[t].handle], k)
  /\ Inserted(t, thread[t].handle, k)

\* dataLock() copies its handle twice, and each copy releases the data lock
\* when it goes: two do so before the iteration and one after it.
DataLock(t) ==
  /\ At(t, "use")
  /\ dataSemaphore + 2 <= MaxSemaphore
  /\ ReleaseData(t, 2)
  /\ Goto(t, "iterating")
  /\ iterated' = TRUE
  /\ KeepKey
  /\ UNCHANGED <<mutex, shared, tableData, stored, revived>>

EndIteration(t) ==
  /\ At(t, "iterating")
  /\ Finish(t, region)
  /\ UNCHANGED history

(***************************************************************************)
(* reallocateTable(), with the data lock held.                             *)
(***************************************************************************)
BeginReallocation(t, k) ==
  /\ At(t, "use")
  /\ ~Fits(region[thread[t].handle], k)
  /\ thread' = [thread EXCEPT ![t].pc = "reallocMutex", ![t].key = k]
  /\ UNCHANGED <<semaphores, mutex, shared, tableData, history>>

ReallocationLocksMutex(t) ==
  /\ At(t, "reallocMutex")
  /\ mutex[P(t)] = None
  /\ mutex' = [mutex EXCEPT ![P(t)] = t]
  /\ Goto(t, "reallocKey")
  /\ UNCHANGED <<semaphores, shared, tableData, history>>

ReallocationLocksKey(t) ==
  /\ At(t, "reallocKey")
  /\ AcquireKey(t)
  /\ Goto(t, "migrate")
  /\ KeepData
  /\ UNCHANGED <<mutex, shared, tableData, history>>

ReallocationTimesOut(t) ==
  /\ At(t, "reallocKey")
  /\ keySemaphore = 0
  /\ ReleaseData(t, 1)
  /\ End(t)
  /\ UnlockMutex(t)
  /\ region' = Detached(region, {thread[t].handle}, tableData, thread')
  /\ KeepKey
  /\ UNCHANGED <<generation, tableData, history>>

NextGeneration(t) == Data(t).generation + 1
NextRegions(t) == WithDataRegion(NextGeneration(t), 2 * region[Data(t).region].size)
NextRegion(t) == DataRegion(NextGeneration(t))

Migrated(t) == region[Data(t).region].keys
Migrates(t) == Cardinality(Migrated(t) \cup NextRegions(t)[NextRegion(t)].keys) <= NextRegions(t)[NextRegion(t)].size

\* There is no memory for a region, or its generation is beyond the bound.
RegionNotCreated(t) ==
  /\ At(t, "migrate")
  /\ NextGeneration(t) \in Generations => AttachableRegion(NextGeneration(t)) = 0
  /\ ReleaseData(t, 1) /\ ReleaseKey(t)
  /\ End(t)
  /\ UnlockMutex(t)
  /\ region' = Detached(region, {thread[t].handle}, tableData, thread')
  /\ UNCHANGED <<generation, tableData, history>>

Migrate(t) ==
  /\ At(t, "migrate")
  /\ NextGeneration(t) \in Generations
  /\ Migrates(t)
  /\ region' = [NextRegions(t) EXCEPT ![NextRegion(t)].keys = @ \cup Migrated(t)]
  /\ revived' = revived \cup Revives(NextRegion(t))
  /\ thread' = [thread EXCEPT ![t].pc = "publish", ![t].next = NextRegion(t)]
  /\ UNCHANGED <<semaphores, mutex, generation, tableData, stored, iterated>>

\* What was migrated before the error stays in a region that others have.
MigrationFails(t) ==
  /\ At(t, "migrate")
  /\ NextGeneration(t) \in Generations
  /\ ~Migrates(t)
  /\ ReleaseData(t, 1) /\ ReleaseKey(t)
  /\ End(t)
  /\ UnlockMutex(t)
  /\ region' = Detached(NextRegions(t), {NextRegion(t), thread[t].handle}, tableData, thread')
  /\ UNCHANGED <<generation, tableData, history>>

Publish(t) ==
  /\ At(t, "publish")
  /\ generation' = NextGeneration(t)
  /\ tableData' = [tableData EXCEPT ![P(t)].generation = NextGeneration(t),
                                    ![P(t)].region = thread[t].next]
  /\ ReleaseKey(t)
  /\ UnlockMutex(t)
  /\ Goto(t, "insert")
  /\ KeepData
  /\ UNCHANGED <<region, history>>

\* setContactDetails goes on with the new table.
SetInNewTable(t) ==
  /\ At(t, "insert")
  /\ Fits(region[thread[t].next], thread[t].key)
  /\ Inserted(t, thread[t].next, thread[t].key)

SetFails(t) ==
  /\ At(t, "insert")
  /\ ~Fits(region[thread[t].next], thread[t].key)
  /\ Finish(t, region)
  /\ UNCHANGED history

(***************************************************************************)
(* A process exits, detaching from its regions, or dies, and leaves them.  *)
(* Either way, the kernel undoes what it did to the semaphores.            *)
(***************************************************************************)
Undo(p) ==
  /\ keySemaphore' = Undone(keySemaphore, keyUndo[p])
  /\ dataSemaphore' = Undone(dataSemaphore, dataUndo[p])
  /\ keyUndo' = [keyUndo EXCEPT ![p] = 0]
  /\ dataUndo' = [dataUndo EXCEPT ![p] = 0]

Exit(p) ==
  /\ tableData[p].open
  /\ \A t \in Thread : P(t) # p
  /\ tableData' = [tableData EXCEPT ![p] = NotOpen]
  /\ region' = Detached(region, {tableData[p].region}, tableData', thread)
  /\ generation' = KeyDetached(tableData', thread)
  /\ StoreKept
  /\ Undo(p)
  /\ UNCHANGED <<mutex, thread>>

Crash(p) ==
  /\ tableData[p].open \/ \E t \in Thread : P(t) = p
  /\ Undo(p)
  /\ mutex' = [mutex EXCEPT ![p] = None]
  /\ tableData' = [tableData EXCEPT ![p] = NotOpen]
  /\ thread' = [t \in Thread |-> IF P(t) = p THEN Idle ELSE thread[t]]
  /\ UNCHANGED <<shared, history>>

Proceed(t) ==
  \/ LockMutex(t) \/ LockKey(t) \/ LockKeyTimesOut(t)
  \/ LockDataTimesOut(t) \/ LockDataToUse(t) \/ LockDataCannotAttach(t)
  \/ \E reinitialize \in BOOLEAN : LockDataToOpen(t, reinitialize)
  \/ ContactDetails(t) \/ DataLock(t) \/ EndIteration(t)
  \/ \E k \in Key : RemoveDetails(t, k) \/ SetContactDetails(t, k) \/ BeginReallocation(t, k)
  \/ ReallocationLocksMutex(t) \/ ReallocationLocksKey(t) \/ ReallocationTimesOut(t)
  \/ RegionNotCreated(t) \/ Migrate(t) \/ MigrationFails(t) \/ Publish(t)
  \/ SetInNewTable(t) \/ SetFails(t)

Next ==
  \/ \E t \in Thread : Proceed(t)
  \/ \E p \in Process : Exit(p) \/ Crash(p) \/ \E t \in Thread : Begin(t, p)

Spec == Init /\ [][Next]_vars

\* Threads run; one that waits for the mutex while others take and release it
\* gets it in the end.
Fairness == \A t \in Thread : SF_vars(Proceed(t))

FairSpec == Spec /\ Fairness

-----------------------------------------------------------------------------
(***************************************************************************)
(* Properties                                                              *)
(***************************************************************************)
\* t has the data lock.
Holds(t) ==
  thread[t].pc \in {"use", "iterating", "reallocMutex", "reallocKey", "migrate", "publish", "insert"}

\* The data lock is what its name says: one thread of one process is in the
\* data at a time, a handle "unlocks it on closure, if required"
\* (contactstransientstore.cpp:83), once, and a process that dies neither
\* keeps the lock nor frees another's.  Only an iteration breaks it: the copies
\* of its handle release the lock each (DataLock), for good.
DataExcludes == ~iterated => \A t, u \in Thread : Holds(t) /\ Holds(u) => t = u

\* The region t is in.
InUse(t) == IF At(t, "insert") THEN thread[t].next ELSE thread[t].handle

\* Who is in the data is in the region that the key region names, directly or
\* as the previous generation, so nobody writes to a table that others have
\* migrated away from.
NewestInUse ==
  \A t \in Thread : Holds(t) => InUse(t) # 0 /\ InUse(t) = AttachableRegion(generation)

\* What was stored is in the table in use until it is removed, however often
\* other processes migrate the table, exit or die, until the last one that had
\* its region exits; and nothing else is there, except what came with a region
\* that processes have left behind when they died, or with the previous
\* generation when the current one is gone.
NothingElseStored ==
  \A t \in Thread : Holds(t) /\ ~At(t, "publish") =>
    stored \subseteq region[InUse(t)].keys /\ region[InUse(t)].keys \subseteq stored \cup revived

\* Who reads or writes the data sees the table that everybody uses, and in it
\* all that was stored, as long as the lock excludes.
StoreShared == ~iterated => NewestInUse /\ NothingElseStored

\* "To avoid potential deadlock, give up and try again" (contactstransientstore.cpp:304):
\* every access ends, although a thread that has the data lock waits for the
\* mutex and the key lock of one that has those and waits for the data lock.
AccessEnds == \A t \in Thread : (~At(t, "idle")) ~> At(t, "idle")
=============================================================================
