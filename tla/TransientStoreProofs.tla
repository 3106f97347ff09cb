------------------------- MODULE TransientStoreProofs -------------------------
(***************************************************************************)
(* The locks of the transient store and what they protect, for any number  *)
(* of processes, threads, contacts and generations.  LInv says that each   *)
(* semaphore is a lock and that the kernel's adjustments name its holder,  *)
(* so that a process that dies frees what it had and nothing else.  SInv   *)
(* says that all are in the region that the key region names, and what is  *)
(* in it.                                                                  *)
(***************************************************************************)
EXTENDS TransientStore, FiniteSetTheorems, TLAPS

(***************************************************************************)
(* The inductive invariant, part by part.                                  *)
(***************************************************************************)
HasMutex(t) == thread[t].pc \in {"key", "data", "reallocKey", "migrate", "publish"}
HasKey(t) == thread[t].pc \in {"data", "migrate", "publish"}

Access ==
  [pc : {"idle", "mutex", "key", "data", "use", "iterating", "reallocMutex", "reallocKey",
         "migrate", "publish", "insert"},
   process : Process \cup {None}, opening : BOOLEAN, key : Key \cup {0},
   attempts : 0..MaxAttempts, handle : 0..MaxGeneration, next : 0..MaxGeneration]

Opened == [open : BOOLEAN, generation : 0..MaxGeneration, region : 0..MaxGeneration]

LockTypes ==
  /\ keySemaphore \in Nat /\ dataSemaphore \in Nat
  /\ keyUndo \in [Process -> Int] /\ dataUndo \in [Process -> Int]
  /\ mutex \in [Process -> Thread \cup {None}]

IsRegions(r) ==
  /\ r \in [Generations -> [size : Nat, keys : SUBSET Key]]
  /\ \A g \in Generations : Cardinality(r[g].keys) <= r[g].size

RegionTypes == generation \in 0..MaxGeneration /\ IsRegions(region)

HistoryTypes == stored \in SUBSET Key /\ revived \in SUBSET Key /\ iterated \in BOOLEAN

LEMMA Types ==
  TypeOK <=> /\ LockTypes /\ RegionTypes /\ HistoryTypes
             /\ tableData \in [Process -> Opened] /\ thread \in [Thread -> Access]
BY DEF TypeOK, LockTypes, RegionTypes, IsRegions, HistoryTypes, Opened, Access

\* A thread is one of a process while it does something, a process has the
\* store open while a thread uses it, and a thread that is in the data knows
\* its region, and in a migration the next one.
ThreadSound(t) ==
  /\ At(t, "idle") => thread[t] = Idle
  /\ ~At(t, "idle") => P(t) \in Process /\ (thread[t].opening \/ Data(t).open)
  /\ thread[t].pc \notin {"mutex", "key", "data"} => ~thread[t].opening
  /\ Holds(t) <=> thread[t].handle # 0
  /\ thread[t].pc \in {"reallocMutex", "reallocKey", "migrate", "publish", "insert"} => thread[t].key \in Key
  /\ thread[t].pc \in {"publish", "insert"} <=> thread[t].next # 0
  /\ At(t, "publish") => NextGeneration(t) \in Generations

Threads == \A t \in Thread : ThreadSound(t)

Mutexes == \A t \in Thread : HasMutex(t) => mutex[P(t)] = t

\* The key semaphore is one lock, and the kernel knows whose.
KeyLock ==
  /\ \A t, u \in Thread : HasKey(t) /\ HasKey(u) => t = u
  /\ keySemaphore = IF \E t \in Thread : HasKey(t) THEN 0 ELSE 1
  /\ \A p \in Process : keyUndo[p] = IF \E t \in Thread : HasKey(t) /\ P(t) = p THEN 1 ELSE 0

\* So is the data semaphore, as long as nobody iterates.
OneDataLock ==
  /\ \A t, u \in Thread : Holds(t) /\ Holds(u) => t = u
  /\ dataSemaphore = IF \E t \in Thread : Holds(t) THEN 0 ELSE 1
  /\ \A p \in Process : dataUndo[p] = IF \E t \in Thread : Holds(t) /\ P(t) = p THEN 1 ELSE 0

TableSound(d) == IF d.open THEN d.region # 0 /\ d.generation # 0 ELSE d = NotOpen

\* What is attached exists.
Tables ==
  /\ \A p \in Process : TableSound(tableData[p])
  /\ KeyAttached(tableData, thread) => generation # 0
  /\ \A g \in Generations : Attached(g, tableData, thread) => Exists(region[g])

LInv == TypeOK /\ Threads /\ Mutexes /\ KeyLock /\ (~iterated => OneDataLock) /\ Tables

(***************************************************************************)
(* What a step of a thread does to the locks.                              *)
(***************************************************************************)
OnlyThread(t) ==
  /\ thread' \in [Thread -> Access]
  /\ \A u \in Thread \ {t} : thread'[u] = thread[u]

KeyEffect(t) ==
  \/ KeepKey /\ (HasKey(t)' <=> HasKey(t)) /\ (HasKey(t) => P(t)' = P(t))
  \/ AcquireKey(t) /\ ~HasKey(t) /\ HasKey(t)' /\ P(t)' = P(t) /\ P(t) \in Process
  \/ ReleaseKey(t) /\ HasKey(t) /\ ~HasKey(t)' /\ P(t) \in Process

DataEffect(t) ==
  \/ KeepData /\ (Holds(t)' <=> Holds(t)) /\ (Holds(t) => P(t)' = P(t))
  \/ AcquireData(t) /\ ~Holds(t) /\ Holds(t)' /\ P(t)' = P(t) /\ P(t) \in Process
  \/ ReleaseData(t, 1) /\ Holds(t) /\ ~Holds(t)' /\ P(t) \in Process

MutexEffect(t) ==
  \/ UNCHANGED mutex /\ (HasMutex(t)' => HasMutex(t) /\ P(t)' = P(t))
  \/ mutex[P(t)] = None /\ mutex' = [mutex EXCEPT ![P(t)] = t] /\ HasMutex(t)' /\ P(t)' = P(t) /\ P(t) \in Process
  \/ UnlockMutex(t) /\ HasMutex(t) /\ ~HasMutex(t)'

\* The store of a process changes only while one of its threads has the mutex and the key lock,
\* and stays open.
TableEffect(t) ==
  \/ UNCHANGED tableData
  \/ /\ HasKey(t)
     /\ DOMAIN tableData' = DOMAIN tableData
     /\ \A p \in Process \ {P(t)} : tableData'[p] = tableData[p]
     /\ tableData'[P(t)].open

Effect(t) ==
  /\ OnlyThread(t) /\ KeyEffect(t) /\ MutexEffect(t) /\ TableEffect(t)
  /\ \/ DataEffect(t) /\ UNCHANGED iterated
     \/ ReleaseData(t, 2) /\ P(t) \in Process /\ iterated'

LEMMA ThreadOf ==
  ASSUME LInv, NEW t \in Thread, ~At(t, "idle")
  PROVE  /\ thread \in [Thread -> Access] /\ thread[t] \in Access
         /\ P(t) \in Process /\ Data(t) \in Opened
         /\ DOMAIN tableData = Process
         /\ thread[t].opening \/ Data(t).open
         /\ thread[t].pc \notin {"mutex", "key", "data"} => ~thread[t].opening /\ Data(t).open
BY Types DEF LInv, Threads, ThreadSound, At, P, Data

LEMMA IdleAccess == Idle \in Access
BY StoreAssumption DEF Idle, Access

LEMMA Changed ==
  ASSUME LInv, NEW t \in Thread, ~At(t, "idle"), NEW x \in Access, thread' = [thread EXCEPT ![t] = x]
  PROVE  OnlyThread(t) /\ thread'[t] = x
BY ThreadOf DEF OnlyThread

LEMMA Ended ==
  ASSUME LInv, NEW t \in Thread, ~At(t, "idle"), End(t)
  PROVE  OnlyThread(t) /\ thread'[t] = Idle /\ thread'[t].pc = "idle"
<1>1. OnlyThread(t) /\ thread'[t] = Idle
  BY Changed, IdleAccess DEF End
<1> QED BY <1>1 DEF Idle

LEMMA Moved ==
  ASSUME LInv, NEW t \in Thread, ~At(t, "idle"), NEW x \in Access, x.process = P(t),
         thread' = [thread EXCEPT ![t] = x]
  PROVE  /\ OnlyThread(t) /\ thread'[t] = x /\ thread'[t].pc = x.pc /\ P(t)' = P(t)
BY Changed DEF P

LEMMA Gone ==
  ASSUME LInv, NEW t \in Thread, ~At(t, "idle"), NEW l, Goto(t, l),
         l \in {"mutex", "key", "data", "use", "iterating", "reallocMutex", "reallocKey", "migrate",
                "publish", "insert"}
  PROVE  /\ OnlyThread(t) /\ thread'[t] = [thread[t] EXCEPT !.pc = l]
         /\ thread'[t].pc = l /\ P(t)' = P(t)
<1> DEFINE x == [thread[t] EXCEPT !.pc = l]
<1>1. x \in Access /\ x.process = P(t) /\ x.pc = l
  BY ThreadOf DEF Access, P
<1>2. thread' = [thread EXCEPT ![t] = x]
  BY ThreadOf DEF Goto
<1> HIDE DEF x
<1>3. /\ OnlyThread(t) /\ thread'[t] = x /\ thread'[t].pc = l /\ P(t)' = P(t)
  BY <1>1, <1>2, Moved
<1> QED BY <1>3 DEF x

LEMMA StillIterated == StoreKept => UNCHANGED iterated
BY DEF StoreKept, history

\* An access ends, and lets go of what locks it has.
LEMMA EndEffect ==
  ASSUME LInv, NEW t \in Thread, ~At(t, "idle"), End(t)
  PROVE  OnlyThread(t) /\ ~HasKey(t)' /\ ~HasMutex(t)' /\ ~Holds(t)'
BY Ended DEF HasKey, HasMutex, Holds

\* Which locks a thread has where it is.
LEMMA Places ==
  ASSUME NEW t
  PROVE  /\ At(t, "mutex") => ~At(t, "idle") /\ ~HasMutex(t) /\ ~HasKey(t) /\ ~Holds(t)
         /\ At(t, "key") => ~At(t, "idle") /\ HasMutex(t) /\ ~HasKey(t) /\ ~Holds(t)
         /\ At(t, "data") => ~At(t, "idle") /\ HasMutex(t) /\ HasKey(t) /\ ~Holds(t)
         /\ At(t, "use") \/ At(t, "iterating") \/ At(t, "reallocMutex") \/ At(t, "insert")
              => ~At(t, "idle") /\ ~HasMutex(t) /\ ~HasKey(t) /\ Holds(t)
         /\ At(t, "reallocKey") => ~At(t, "idle") /\ HasMutex(t) /\ ~HasKey(t) /\ Holds(t)
         /\ At(t, "migrate") \/ At(t, "publish") => ~At(t, "idle") /\ HasMutex(t) /\ HasKey(t) /\ Holds(t)
BY DEF At, HasMutex, HasKey, Holds

\* A thread goes on with the process it is of.
LEMMA GoneEffect ==
  ASSUME LInv, NEW t \in Thread, ~At(t, "idle"),
         NEW l \in {"mutex", "key", "data", "use", "iterating", "reallocMutex", "reallocKey", "migrate",
                    "publish", "insert"},
         Goto(t, l)
  PROVE  OnlyThread(t) /\ At(t, l)' /\ P(t)' = P(t)
BY Gone DEF At

\* An access ends, and releases the locks that it has and no others.
LEMMA EndedEffect ==
  ASSUME LInv, NEW t \in Thread, ~At(t, "idle"), End(t),
         (KeepKey /\ ~HasKey(t)) \/ (ReleaseKey(t) /\ HasKey(t)),
         (KeepData /\ ~Holds(t)) \/ (ReleaseData(t, 1) /\ Holds(t)),
         (UNCHANGED mutex /\ ~HasMutex(t)) \/ (UnlockMutex(t) /\ HasMutex(t)),
         UNCHANGED <<tableData, iterated>>
  PROVE  Effect(t)
<1>1. OnlyThread(t) /\ ~HasKey(t)' /\ ~HasMutex(t)' /\ ~Holds(t)' /\ P(t) \in Process
  BY EndEffect, ThreadOf
<1> QED BY <1>1 DEF Effect, KeyEffect, DataEffect, MutexEffect, TableEffect

\* What a thread does to the locks and to the stores of the processes.
LEMMA LockEffects ==
  ASSUME LInv, NEW t \in Thread, Proceed(t)
  PROVE  Effect(t)
<1>1. CASE LockKeyTimesOut(t)
  <2>1. At(t, "key") /\ End(t) /\ KeepKey /\ KeepData /\ UnlockMutex(t) /\ UNCHANGED <<tableData, iterated>>
    BY <1>1, StillIterated DEF LockKeyTimesOut, semaphores, KeepKey, KeepData
  <2> QED BY <2>1, Places, EndedEffect
<1>2. CASE LockDataCannotAttach(t)
  <2>1. At(t, "data") /\ End(t) /\ ReleaseKey(t) /\ KeepData /\ UnlockMutex(t) /\ UNCHANGED <<tableData, iterated>>
    BY <1>2, StillIterated DEF LockDataCannotAttach, KeepData
  <2> QED BY <2>1, Places, EndedEffect
<1>3. ASSUME NEW R, Finish(t, R), UNCHANGED iterated, At(t, "use") \/ At(t, "iterating") \/ At(t, "insert")
      PROVE  Effect(t)
  <2>1. End(t) /\ KeepKey /\ ReleaseData(t, 1) /\ UNCHANGED <<mutex, tableData, iterated>>
    BY <1>3 DEF Finish
  <2> QED BY <1>3, <2>1, Places, EndedEffect
<1>4. CASE ContactDetails(t) \/ EndIteration(t) \/ SetInNewTable(t) \/ SetFails(t)
  BY <1>3, <1>4 DEF ContactDetails, EndIteration, SetInNewTable, SetFails, Inserted, history
<1>5. ASSUME NEW k \in Key, RemoveDetails(t, k) \/ SetContactDetails(t, k) PROVE Effect(t)
  BY <1>3, <1>5 DEF RemoveDetails, SetContactDetails, Inserted
<1>6. CASE ReallocationTimesOut(t)
  <2>1. At(t, "reallocKey") /\ End(t) /\ KeepKey /\ ReleaseData(t, 1) /\ UnlockMutex(t)
        /\ UNCHANGED <<tableData, iterated>>
    BY <1>6 DEF ReallocationTimesOut, history
  <2> QED BY <2>1, Places, EndedEffect
<1>7. CASE RegionNotCreated(t) \/ MigrationFails(t)
  <2>1. At(t, "migrate") /\ End(t) /\ ReleaseKey(t) /\ ReleaseData(t, 1) /\ UnlockMutex(t)
        /\ UNCHANGED <<tableData, iterated>>
    BY <1>7 DEF RegionNotCreated, MigrationFails, history
  <2> QED BY <2>1, Places, EndedEffect
<1> USE DEF Effect, KeyEffect, DataEffect, MutexEffect, TableEffect
<1>8. ASSUME LockKey(t) PROVE Effect(t)
  <2>1. At(t, "key") /\ ~At(t, "idle") /\ Goto(t, "data")
    BY <1>8, Places DEF LockKey
  <2>2. OnlyThread(t) /\ At(t, "data")' /\ P(t)' = P(t) /\ P(t) \in Process
    BY <2>1, GoneEffect, ThreadOf
  <2> QED BY <1>8, <2>1, <2>2, Places DEF LockKey, semaphores, history, KeepKey, KeepData, At, HasKey, HasMutex, Holds
<1>9. ASSUME DataLock(t) PROVE Effect(t)
  <2>1. At(t, "use") /\ ~At(t, "idle") /\ Goto(t, "iterating")
    BY <1>9, Places DEF DataLock
  <2>2. OnlyThread(t) /\ At(t, "iterating")' /\ P(t)' = P(t) /\ P(t) \in Process
    BY <2>1, GoneEffect, ThreadOf
  <2> QED BY <1>9, <2>1, <2>2, Places DEF DataLock, semaphores, history, KeepKey, KeepData, At, HasKey, HasMutex, Holds
<1>10. ASSUME ReallocationLocksMutex(t) PROVE Effect(t)
  <2>1. At(t, "reallocMutex") /\ ~At(t, "idle") /\ Goto(t, "reallocKey")
    BY <1>10, Places DEF ReallocationLocksMutex
  <2>2. OnlyThread(t) /\ At(t, "reallocKey")' /\ P(t)' = P(t) /\ P(t) \in Process
    BY <2>1, GoneEffect, ThreadOf
  <2> QED BY <1>10, <2>1, <2>2, Places DEF ReallocationLocksMutex, semaphores, history, KeepKey, KeepData, At, HasKey, HasMutex, Holds
<1>11. ASSUME ReallocationLocksKey(t) PROVE Effect(t)
  <2>1. At(t, "reallocKey") /\ ~At(t, "idle") /\ Goto(t, "migrate")
    BY <1>11, Places DEF ReallocationLocksKey
  <2>2. OnlyThread(t) /\ At(t, "migrate")' /\ P(t)' = P(t) /\ P(t) \in Process
    BY <2>1, GoneEffect, ThreadOf
  <2> QED BY <1>11, <2>1, <2>2, Places DEF ReallocationLocksKey, semaphores, history, KeepKey, KeepData, At, HasKey, HasMutex, Holds
<1>12. ASSUME LockMutex(t) PROVE Effect(t)
  <2>1. At(t, "mutex") /\ ~At(t, "idle")
    BY <1>12, Places DEF LockMutex
  <2>2. CASE End(t) /\ UNCHANGED mutex
    <3>1. OnlyThread(t) /\ ~HasKey(t)' /\ ~HasMutex(t)' /\ ~Holds(t)'
      BY <2>1, <2>2, EndEffect
    <3> QED BY <1>12, <2>1, <2>2, <3>1, Places DEF LockMutex, semaphores, history, KeepKey, KeepData
  <2>3. CASE Goto(t, "key") /\ mutex' = [mutex EXCEPT ![P(t)] = t]
    <3>1. OnlyThread(t) /\ At(t, "key")' /\ P(t)' = P(t) /\ P(t) \in Process
      BY <2>1, <2>3, GoneEffect, ThreadOf
    <3> QED BY <1>12, <2>1, <2>3, <3>1, Places
            DEF LockMutex, semaphores, history, KeepKey, KeepData, At, HasKey, HasMutex, Holds
  <2> QED BY <1>12, <2>2, <2>3 DEF LockMutex
<1>13. ASSUME LockDataTimesOut(t) PROVE Effect(t)
  <2>1. At(t, "data") /\ ~At(t, "idle") /\ P(t) \in Process
    BY <1>13, Places, ThreadOf DEF LockDataTimesOut
  <2>2. CASE End(t) /\ UnlockMutex(t)
    <3>1. OnlyThread(t) /\ ~HasKey(t)' /\ ~HasMutex(t)' /\ ~Holds(t)'
      BY <2>1, <2>2, EndEffect
    <3> QED BY <1>13, <2>1, <2>2, <3>1, Places, StillIterated DEF LockDataTimesOut
  <2>3. CASE /\ thread' = [thread EXCEPT ![t].pc = "key", ![t].attempts = @ + 1]
             /\ UNCHANGED mutex /\ thread[t].attempts + 1 < MaxAttempts
    <3> DEFINE x == [thread[t] EXCEPT !.pc = "key", !.attempts = @ + 1]
    <3>1. x \in Access /\ x.process = P(t) /\ x.pc = "key"
      BY <2>1, <2>3, ThreadOf, StoreAssumption DEF Access, P
    <3>2. thread' = [thread EXCEPT ![t] = x]
      BY <2>1, <2>3, ThreadOf DEF Access
    <3> HIDE DEF x
    <3>3. OnlyThread(t) /\ thread'[t].pc = "key" /\ P(t)' = P(t)
      BY <2>1, <3>1, <3>2, Moved
    <3> QED BY <1>13, <2>1, <2>3, <3>3, Places, StillIterated
            DEF LockDataTimesOut, At, HasKey, HasMutex, Holds
  <2> QED BY <1>13, <2>2, <2>3 DEF LockDataTimesOut
<1>14. ASSUME NEW reinitialize \in BOOLEAN, LockDataToOpen(t, reinitialize) PROVE Effect(t)
  <2>1. At(t, "data") /\ ~At(t, "idle") /\ End(t)
    BY <1>14, Places DEF LockDataToOpen
  <2>2. OnlyThread(t) /\ ~HasKey(t)' /\ ~HasMutex(t)' /\ ~Holds(t)'
    BY <2>1, EndEffect
  <2>3. P(t) \in Process /\ DOMAIN tableData = Process
    BY <2>1, ThreadOf
  <2>4. TableEffect(t)
    BY <1>14, <2>1, <2>3, Places DEF LockDataToOpen
  <2> HIDE DEF TableEffect
  <2> QED BY <1>14, <2>1, <2>2, <2>3, <2>4, Places DEF LockDataToOpen
<1>15. ASSUME LockDataToUse(t) PROVE Effect(t)
  <2> DEFINE r == IF NeedsAttach(t) THEN AttachableRegion(generation) ELSE Data(t).region
  <2>1. At(t, "data") /\ ~At(t, "idle") /\ ~thread[t].opening
    BY <1>15, Places DEF LockDataToUse
  <2>2. /\ P(t) \in Process /\ DOMAIN tableData = Process /\ Data(t).open
        /\ thread \in [Thread -> Access] /\ thread[t] \in Access /\ Data(t) \in Opened
    BY <2>1, ThreadOf
  <2>3. r \in 0..MaxGeneration
    <3>1. generation \in 0..MaxGeneration /\ MaxGeneration \in Nat
      BY Types, StoreAssumption DEF LInv, RegionTypes
    <3>2. AttachableRegion(generation) \in 0..MaxGeneration
      BY <3>1 DEF AttachableRegion
    <3> QED BY <2>2, <3>2 DEF Opened
  <2>4. thread' = [thread EXCEPT ![t].pc = "use", ![t].handle = r]
    BY <1>15 DEF LockDataToUse
  <2>5. tableData' = [tableData EXCEPT ![P(t)].region = r,
                        ![P(t)].generation = IF NeedsAttach(t) THEN generation ELSE @]
    BY <1>15 DEF LockDataToUse
  <2> HIDE DEF r
  <2>6. TableEffect(t)
    BY <2>1, <2>2, <2>5, Places DEF Data, Opened
  <2>7. OnlyThread(t) /\ thread'[t].pc = "use" /\ P(t)' = P(t)
    <3> DEFINE x == [thread[t] EXCEPT !.pc = "use", !.handle = r]
    <3>1. x \in Access /\ x.process = P(t) /\ x.pc = "use"
      BY <2>2, <2>3 DEF Access, P
    <3>2. thread' = [thread EXCEPT ![t] = x]
      BY <2>2, <2>4 DEF Access
    <3> HIDE DEF x
    <3> QED BY <2>1, <3>1, <3>2, Moved
  <2> HIDE DEF TableEffect
  <2> QED BY <1>15, <2>1, <2>2, <2>6, <2>7, Places DEF LockDataToUse, At, HasKey, HasMutex, Holds
<1>16. ASSUME NEW k \in Key, BeginReallocation(t, k) PROVE Effect(t)
  <2>1. At(t, "use") /\ ~At(t, "idle")
    BY <1>16, Places DEF BeginReallocation
  <2>2. OnlyThread(t) /\ thread'[t].pc = "reallocMutex" /\ P(t)' = P(t)
    <3> DEFINE x == [thread[t] EXCEPT !.pc = "reallocMutex", !.key = k]
    <3>1. thread \in [Thread -> Access] /\ thread[t] \in Access
      BY <2>1, ThreadOf
    <3>2. x \in Access /\ x.process = P(t) /\ x.pc = "reallocMutex"
      BY <3>1 DEF Access, P
    <3>3. thread' = [thread EXCEPT ![t] = x]
      BY <1>16, <3>1 DEF BeginReallocation, Access
    <3> HIDE DEF x
    <3> QED BY <2>1, <3>2, <3>3, Moved
  <2> QED BY <1>16, <2>1, <2>2, Places
          DEF BeginReallocation, semaphores, history, KeepKey, KeepData, At, HasKey, HasMutex, Holds
<1>17. ASSUME Migrate(t) PROVE Effect(t)
  <2>1. At(t, "migrate") /\ ~At(t, "idle")
    BY <1>17, Places DEF Migrate
  <2>2. OnlyThread(t) /\ thread'[t].pc = "publish" /\ P(t)' = P(t)
    <3> DEFINE x == [thread[t] EXCEPT !.pc = "publish", !.next = NextRegion(t)]
    <3>1. thread \in [Thread -> Access] /\ thread[t] \in Access
      BY <2>1, ThreadOf
    <3>2. NextRegion(t) \in 0..MaxGeneration
      BY <1>17, StoreAssumption DEF Migrate, NextRegion, DataRegion, AttachableRegion, Generations
    <3>3. x \in Access /\ x.process = P(t) /\ x.pc = "publish"
      BY <3>1, <3>2 DEF Access, P
    <3>4. thread' = [thread EXCEPT ![t] = x]
      BY <1>17, <3>1 DEF Migrate, Access
    <3> HIDE DEF x
    <3> QED BY <2>1, <3>3, <3>4, Moved
  <2> QED BY <1>17, <2>1, <2>2, Places
          DEF Migrate, semaphores, KeepKey, KeepData, At, HasKey, HasMutex, Holds
<1>18. ASSUME Publish(t) PROVE Effect(t)
  <2>1. At(t, "publish") /\ ~At(t, "idle") /\ Goto(t, "insert")
    BY <1>18, Places DEF Publish
  <2>2. OnlyThread(t) /\ At(t, "insert")' /\ P(t)' = P(t)
    BY <2>1, GoneEffect
  <2>3. P(t) \in Process /\ DOMAIN tableData = Process /\ Data(t).open /\ Data(t) \in Opened
    BY <2>1, ThreadOf DEF At
  <2>4. tableData' = [tableData EXCEPT ![P(t)].generation = NextGeneration(t), ![P(t)].region = thread[t].next]
    BY <1>18 DEF Publish
  <2>5. TableEffect(t)
    BY <2>1, <2>3, <2>4, Places DEF Data, Opened
  <2> HIDE DEF TableEffect
  <2> QED BY <1>18, <2>1, <2>2, <2>3, <2>5, Places DEF Publish, history, KeepData, At, HasKey, HasMutex, Holds
<1> QED BY <1>1, <1>2, <1>4, <1>5, <1>6, <1>7, <1>8, <1>9, <1>10, <1>11, <1>12, <1>13, <1>14, <1>15, <1>16, <1>17, <1>18 DEF Proceed

(***************************************************************************)
(* The locks stay sound.                                                   *)
(***************************************************************************)
LEMMA OthersStay ==
  ASSUME NEW t \in Thread, OnlyThread(t)
  PROVE  \A u \in Thread \ {t} :
           /\ HasKey(u)' <=> HasKey(u)
           /\ HasMutex(u)' <=> HasMutex(u)
           /\ Holds(u)' <=> Holds(u)
           /\ P(u)' = P(u)
BY DEF OnlyThread, HasKey, HasMutex, Holds, P

LEMMA LockTypesKept ==
  ASSUME LInv, NEW t \in Thread, Effect(t)
  PROVE  LockTypes'
<1>1. LockTypes /\ mutex \in [Process -> Thread \cup {None}]
  BY Types DEF LInv, LockTypes
<1>2. keySemaphore' \in Nat /\ keyUndo' \in [Process -> Int]
  BY <1>1 DEF LockTypes, Effect, KeyEffect, KeepKey, AcquireKey, ReleaseKey
<1>3. dataSemaphore' \in Nat /\ dataUndo' \in [Process -> Int]
  BY <1>1 DEF LockTypes, Effect, DataEffect, KeepData, AcquireData, ReleaseData
<1>4. mutex' \in [Process -> Thread \cup {None}]
  BY <1>1 DEF Effect, MutexEffect, UnlockMutex
<1> QED BY <1>2, <1>3, <1>4 DEF LockTypes

LEMMA MutexesKept ==
  ASSUME LInv, NEW t \in Thread, Effect(t)
  PROVE  Mutexes'
<1>1. \A u \in Thread \ {t} : (HasMutex(u)' <=> HasMutex(u)) /\ P(u)' = P(u)
  BY OthersStay DEF Effect
<1>2. /\ Mutexes /\ DOMAIN mutex = Process
      /\ \A u \in Thread : HasMutex(u) => P(u) \in Process /\ mutex[P(u)] # None
  BY Types, StoreAssumption DEF LInv, LockTypes, Mutexes, Threads, ThreadSound, HasMutex, At
<1>3. CASE UNCHANGED mutex /\ (HasMutex(t)' => HasMutex(t) /\ P(t)' = P(t))
  BY <1>1, <1>2, <1>3 DEF Mutexes
<1>4. CASE /\ mutex[P(t)] = None /\ mutex' = [mutex EXCEPT ![P(t)] = t]
           /\ HasMutex(t)' /\ P(t)' = P(t) /\ P(t) \in Process
  BY <1>1, <1>2, <1>4 DEF Mutexes
<1>5. CASE UnlockMutex(t) /\ HasMutex(t) /\ ~HasMutex(t)'
  BY <1>1, <1>2, <1>5 DEF Mutexes, UnlockMutex
<1> QED BY <1>3, <1>4, <1>5 DEF Effect, MutexEffect

LEMMA KeyLockKept ==
  ASSUME LInv, NEW t \in Thread, Effect(t)
  PROVE  KeyLock'
<1>1. \A u \in Thread \ {t} : (HasKey(u)' <=> HasKey(u)) /\ P(u)' = P(u)
  BY OthersStay DEF Effect
<1>2. KeyLock /\ DOMAIN keyUndo = Process
  BY Types DEF LInv, LockTypes
<1>3. CASE KeepKey /\ (HasKey(t)' <=> HasKey(t)) /\ (HasKey(t) => P(t)' = P(t))
  BY <1>1, <1>2, <1>3 DEF KeyLock, KeepKey
<1>4. CASE AcquireKey(t) /\ ~HasKey(t) /\ HasKey(t)' /\ P(t)' = P(t) /\ P(t) \in Process
  <2>1. \A u \in Thread : ~HasKey(u) /\ (HasKey(u)' <=> u = t)
    BY <1>1, <1>2, <1>4 DEF KeyLock, AcquireKey
  <2>2. keySemaphore' = 0
    BY <1>2, <1>4, <2>1 DEF KeyLock, AcquireKey
  <2>3. \A p \in Process : keyUndo'[p] = IF p = P(t) THEN 1 ELSE 0
    BY <1>2, <1>4, <2>1 DEF KeyLock, AcquireKey
  <2> QED BY <1>4, <2>1, <2>2, <2>3 DEF KeyLock
<1>5. CASE ReleaseKey(t) /\ HasKey(t) /\ ~HasKey(t)' /\ P(t) \in Process
  <2>1. \A u \in Thread : ~HasKey(u)' /\ (HasKey(u) <=> u = t)
    BY <1>1, <1>2, <1>5 DEF KeyLock
  <2>2. keySemaphore' = 1
    BY <1>2, <1>5, <2>1 DEF KeyLock, ReleaseKey
  <2>3. \A p \in Process : keyUndo'[p] = 0
    BY <1>2, <1>5, <2>1 DEF KeyLock, ReleaseKey
  <2> QED BY <2>1, <2>2, <2>3 DEF KeyLock
<1> QED BY <1>3, <1>4, <1>5 DEF Effect, KeyEffect

LEMMA DataLockKept ==
  ASSUME LInv, NEW t \in Thread, Effect(t), ~iterated'
  PROVE  OneDataLock'
<1>1. \A u \in Thread \ {t} : (Holds(u)' <=> Holds(u)) /\ P(u)' = P(u)
  BY OthersStay DEF Effect
<1>2. OneDataLock /\ DOMAIN dataUndo = Process
  BY Types DEF LInv, LockTypes, Effect
<1>3. CASE KeepData /\ (Holds(t)' <=> Holds(t)) /\ (Holds(t) => P(t)' = P(t))
  BY <1>1, <1>2, <1>3 DEF OneDataLock, KeepData
<1>4. CASE AcquireData(t) /\ ~Holds(t) /\ Holds(t)' /\ P(t)' = P(t) /\ P(t) \in Process
  <2>1. \A u \in Thread : ~Holds(u) /\ (Holds(u)' <=> u = t)
    BY <1>1, <1>2, <1>4 DEF OneDataLock, AcquireData
  <2>2. dataSemaphore' = 0
    BY <1>2, <1>4, <2>1 DEF OneDataLock, AcquireData
  <2>3. \A p \in Process : dataUndo'[p] = IF p = P(t) THEN 1 ELSE 0
    BY <1>2, <1>4, <2>1 DEF OneDataLock, AcquireData
  <2> QED BY <1>4, <2>1, <2>2, <2>3 DEF OneDataLock
<1>5. CASE ReleaseData(t, 1) /\ Holds(t) /\ ~Holds(t)' /\ P(t) \in Process
  <2>1. \A u \in Thread : ~Holds(u)' /\ (Holds(u) <=> u = t)
    BY <1>1, <1>2, <1>5 DEF OneDataLock
  <2>2. dataSemaphore' = 1
    BY <1>2, <1>5, <2>1 DEF OneDataLock, ReleaseData
  <2>3. \A p \in Process : dataUndo'[p] = 0
    BY <1>2, <1>5, <2>1 DEF OneDataLock, ReleaseData
  <2> QED BY <2>1, <2>2, <2>3 DEF OneDataLock
<1> QED BY <1>3, <1>4, <1>5 DEF Effect, DataEffect

(***************************************************************************)
(* The threads stay sound.                                                 *)
(***************************************************************************)
LEMMA OtherThreads ==
  ASSUME LInv, NEW t \in Thread, Effect(t), NEW u \in Thread \ {t}
  PROVE  ThreadSound(u)'
<1>1. thread'[u] = thread[u] /\ ThreadSound(u)
  BY DEF Effect, OnlyThread, LInv, Threads
<1>2. CASE At(u, "idle")
  BY <1>1, <1>2 DEF ThreadSound, At, Holds, P, Data
<1>3. CASE ~At(u, "idle")
  <2>1. P(u) \in Process /\ P(u)' = P(u)
    BY <1>1, <1>3 DEF ThreadSound, P
  <2>2. Data(u).open => Data(u)'.open
    BY <2>1 DEF Effect, TableEffect, Data
  <2>3. At(u, "publish") => Data(u)' = Data(u)
    <3>1. CASE UNCHANGED tableData
      BY <2>1, <3>1 DEF Data
    <3>2. CASE HasKey(t) /\ \A p \in Process \ {P(t)} : tableData'[p] = tableData[p]
      <4>1. At(u, "publish") => HasMutex(u) /\ HasMutex(t)
        BY <3>2 DEF At, HasMutex, HasKey
      <4>2. At(u, "publish") => P(u) # P(t)
        BY <4>1 DEF LInv, Mutexes
      <4> QED BY <2>1, <3>2, <4>2 DEF Data
    <3> QED BY <3>1, <3>2 DEF Effect, TableEffect
  <2> QED BY <1>1, <1>3, <2>1, <2>2, <2>3 DEF ThreadSound, At, Holds, NextGeneration
<1> QED BY <1>2, <1>3

LEMMA IdleSound ==
  ASSUME NEW t, thread'[t] = Idle
  PROVE  ThreadSound(t)'
BY DEF ThreadSound, Idle, At, Holds

LEMMA StaysOpen ==
  ASSUME LInv, NEW t \in Thread, ~At(t, "idle"), Effect(t), P(t)' = P(t)
  PROVE  /\ P(t)' \in Process
         /\ Data(t).open => Data(t)'.open
         /\ thread[t].opening \/ Data(t).open
         /\ thread[t].pc \notin {"mutex", "key", "data"} => ~thread[t].opening /\ Data(t)'.open
BY ThreadOf DEF Effect, TableEffect, Data

LEMMA ThreadKept ==
  ASSUME LInv, NEW t \in Thread, Proceed(t), Effect(t)
  PROVE  ThreadSound(t)'
<1>1. ASSUME ~At(t, "idle"), End(t) PROVE ThreadSound(t)'
  BY <1>1, Ended, IdleSound
<1>2. ThreadSound(t)
  BY DEF LInv, Threads
<1>3. CASE LockMutex(t)
  <2>1. At(t, "mutex") /\ ~At(t, "idle")
    BY <1>3 DEF LockMutex, At
  <2>2. CASE Goto(t, "key")
    <3>1. thread'[t] = [thread[t] EXCEPT !.pc = "key"] /\ P(t)' = P(t) /\ thread[t] \in Access
      BY <2>1, <2>2, Gone, ThreadOf
    <3> QED BY <1>2, <2>1, <3>1, StaysOpen DEF ThreadSound, At, Holds, Access
  <2> QED BY <1>1, <1>3, <2>1, <2>2 DEF LockMutex
<1>4. CASE LockKey(t)
  <2>1. At(t, "key") /\ ~At(t, "idle") /\ Goto(t, "data")
    BY <1>4 DEF LockKey, At
  <2>2. thread'[t] = [thread[t] EXCEPT !.pc = "data"] /\ P(t)' = P(t) /\ thread[t] \in Access
    BY <2>1, Gone, ThreadOf
  <2> QED BY <1>2, <2>1, <2>2, StaysOpen DEF ThreadSound, At, Holds, Access
<1>5. CASE DataLock(t)
  <2>1. At(t, "use") /\ ~At(t, "idle") /\ Goto(t, "iterating")
    BY <1>5 DEF DataLock, At
  <2>2. thread'[t] = [thread[t] EXCEPT !.pc = "iterating"] /\ P(t)' = P(t) /\ thread[t] \in Access
    BY <2>1, Gone, ThreadOf
  <2> QED BY <1>2, <2>1, <2>2, StaysOpen DEF ThreadSound, At, Holds, Access
<1>6. CASE ReallocationLocksMutex(t)
  <2>1. At(t, "reallocMutex") /\ ~At(t, "idle") /\ Goto(t, "reallocKey")
    BY <1>6 DEF ReallocationLocksMutex, At
  <2>2. thread'[t] = [thread[t] EXCEPT !.pc = "reallocKey"] /\ P(t)' = P(t) /\ thread[t] \in Access
    BY <2>1, Gone, ThreadOf
  <2> QED BY <1>2, <2>1, <2>2, StaysOpen DEF ThreadSound, At, Holds, Access
<1>7. CASE ReallocationLocksKey(t)
  <2>1. At(t, "reallocKey") /\ ~At(t, "idle") /\ Goto(t, "migrate")
    BY <1>7 DEF ReallocationLocksKey, At
  <2>2. thread'[t] = [thread[t] EXCEPT !.pc = "migrate"] /\ P(t)' = P(t) /\ thread[t] \in Access
    BY <2>1, Gone, ThreadOf
  <2> QED BY <1>2, <2>1, <2>2, StaysOpen DEF ThreadSound, At, Holds, Access
<1>8. CASE Publish(t)
  <2>1. At(t, "publish") /\ ~At(t, "idle") /\ Goto(t, "insert")
    BY <1>8 DEF Publish, At
  <2>2. thread'[t] = [thread[t] EXCEPT !.pc = "insert"] /\ P(t)' = P(t) /\ thread[t] \in Access
    BY <2>1, Gone, ThreadOf
  <2> QED BY <1>2, <2>1, <2>2, StaysOpen DEF ThreadSound, At, Holds, Access
<1>9. CASE LockDataTimesOut(t)
  <2>1. At(t, "data") /\ ~At(t, "idle") /\ thread \in [Thread -> Access] /\ thread[t] \in Access
    BY <1>9, ThreadOf DEF LockDataTimesOut, At
  <2>2. CASE thread' = [thread EXCEPT ![t].pc = "key", ![t].attempts = @ + 1]
    <3>1. thread'[t] = [thread[t] EXCEPT !.pc = "key", !.attempts = @ + 1] /\ P(t)' = P(t)
      BY <2>1, <2>2 DEF Access, P
    <3> QED BY <1>2, <2>1, <3>1, StaysOpen DEF ThreadSound, At, Holds, Access
  <2> QED BY <1>1, <1>9, <2>1, <2>2 DEF LockDataTimesOut
<1>10. CASE LockDataToUse(t)
  <2>1. /\ At(t, "data") /\ ~At(t, "idle") /\ ~thread[t].opening
        /\ thread \in [Thread -> Access] /\ thread[t] \in Access
    BY <1>10, ThreadOf DEF LockDataToUse, At
  <2>2. PICK r : r # 0 /\ thread' = [thread EXCEPT ![t].pc = "use", ![t].handle = r]
    BY <1>10 DEF LockDataToUse
  <2>3. thread'[t] = [thread[t] EXCEPT !.pc = "use", !.handle = r] /\ P(t)' = P(t)
    BY <2>1, <2>2 DEF Access, P
  <2> QED BY <1>2, <2>1, <2>2, <2>3, StaysOpen DEF ThreadSound, At, Holds, Access
<1>11. ASSUME NEW k \in Key, BeginReallocation(t, k) PROVE ThreadSound(t)'
  <2>1. At(t, "use") /\ ~At(t, "idle") /\ thread \in [Thread -> Access] /\ thread[t] \in Access
    BY <1>11, ThreadOf DEF BeginReallocation, At
  <2>2. thread'[t] = [thread[t] EXCEPT !.pc = "reallocMutex", !.key = k] /\ P(t)' = P(t)
    BY <1>11, <2>1 DEF BeginReallocation, Access, P
  <2> QED BY <1>2, <2>1, <2>2, StaysOpen DEF ThreadSound, At, Holds, Access
<1>12. CASE Migrate(t)
  <2>1. At(t, "migrate") /\ ~At(t, "idle") /\ thread \in [Thread -> Access] /\ thread[t] \in Access
    BY <1>12, ThreadOf DEF Migrate, At
  <2>2. thread'[t] = [thread[t] EXCEPT !.pc = "publish", !.next = NextRegion(t)] /\ P(t)' = P(t)
    BY <1>12, <2>1 DEF Migrate, Access, P
  <2>3. NextGeneration(t) \in Generations /\ tableData' = tableData
    BY <1>12 DEF Migrate
  <2>4. NextRegion(t) # 0 /\ NextGeneration(t)' = NextGeneration(t)
    BY <2>2, <2>3 DEF NextRegion, DataRegion, Generations, NextGeneration, Data
  <2> QED BY <1>2, <2>1, <2>2, <2>3, <2>4, StaysOpen DEF ThreadSound, At, Holds, Access
<1>13. ASSUME /\ ~LockMutex(t) /\ ~LockKey(t) /\ ~DataLock(t) /\ ~ReallocationLocksMutex(t)
              /\ ~ReallocationLocksKey(t) /\ ~Publish(t) /\ ~LockDataTimesOut(t) /\ ~LockDataToUse(t)
              /\ ~Migrate(t) /\ \A k \in Key : ~BeginReallocation(t, k)
       PROVE  ~At(t, "idle") /\ End(t)
  BY <1>13 DEF Proceed, At, LockKeyTimesOut, LockDataCannotAttach, LockDataToOpen, ContactDetails, EndIteration,
     RemoveDetails, SetContactDetails, ReallocationTimesOut, RegionNotCreated, MigrationFails,
     SetInNewTable, SetFails, Inserted, Finish
<1> QED BY <1>1, <1>3, <1>4, <1>5, <1>6, <1>7, <1>8, <1>9, <1>10, <1>11, <1>12, <1>13

(***************************************************************************)
(* What is attached still exists.                                          *)
(***************************************************************************)
LEMMA Generation ==
  ASSUME LInv
  PROVE  /\ generation \in 0..MaxGeneration /\ MaxGeneration \in Nat
         /\ KeyAttached(tableData, thread) => generation \in Generations
BY Types, StoreAssumption DEF LInv, RegionTypes, Tables, Generations

LEMMA KeyHolderAttached ==
  ASSUME LInv, NEW t \in Thread, HasKey(t) \/ Data(t).open, ~At(t, "idle")
  PROVE  KeyAttached(tableData, thread) /\ generation \in Generations
<1>1. P(t) \in Process /\ (thread[t].opening \/ Data(t).open)
      /\ (thread[t].pc \notin {"mutex", "key", "data"} => Data(t).open)
  BY ThreadOf
<1>2. CASE Data(t).open
  BY <1>1, <1>2, Generation DEF KeyAttached, Data
<1>3. CASE HasKey(t) /\ ~Data(t).open
  <2>1. thread[t].opening /\ thread[t].pc = "data"
    BY <1>1, <1>3 DEF HasKey
  <2> QED BY <2>1, Generation DEF KeyAttached
<1> QED BY <1>2, <1>3

LEMMA OpeningStep ==
  ASSUME LInv, NEW t \in Thread, Proceed(t), ThreadSound(t)', thread'[t].opening
  PROVE  LockMutex(t) \/ LockKey(t) \/ LockDataTimesOut(t)
<1>1. ASSUME ~At(t, "idle"), End(t) PROVE FALSE
  BY <1>1, Ended DEF Idle
<1>2. thread'[t].pc \in {"mutex", "key", "data"}
  BY DEF ThreadSound
<1>3. ASSUME ~At(t, "idle"), NEW l \in {"use", "iterating", "reallocMutex", "reallocKey", "migrate", "publish", "insert"},
             Goto(t, l)
      PROVE  FALSE
  BY <1>2, <1>3, Gone
<1>4. ~DataLock(t) /\ ~ReallocationLocksMutex(t) /\ ~ReallocationLocksKey(t) /\ ~Publish(t)
  BY <1>3 DEF DataLock, ReallocationLocksMutex, ReallocationLocksKey, Publish, At
<1>5. ASSUME LockDataToUse(t) \/ Migrate(t) \/ \E k \in Key : BeginReallocation(t, k) PROVE FALSE
  <2>1. ~At(t, "idle") /\ thread \in [Thread -> Access] /\ thread[t] \in Access
    BY <1>5, ThreadOf DEF LockDataToUse, Migrate, BeginReallocation, At
  <2> QED BY <1>2, <1>5, <2>1 DEF LockDataToUse, Migrate, BeginReallocation, Access
<1> QED BY <1>1, <1>4, <1>5
        DEF Proceed, At, LockKeyTimesOut, LockDataCannotAttach, LockDataToOpen, ContactDetails, EndIteration,
            RemoveDetails, SetContactDetails, ReallocationTimesOut, RegionNotCreated, MigrationFails,
            SetInNewTable, SetFails, Inserted, Finish

LEMMA KeyAttachedBefore ==
  ASSUME LInv, NEW t \in Thread, Proceed(t), Effect(t), ThreadSound(t)', ~LockKey(t),
         KeyAttached(tableData', thread')
  PROVE  KeyAttached(tableData, thread)
<1>1. CASE \E p \in Process : tableData'[p].open
  <2>1. CASE HasKey(t) /\ ~At(t, "idle")
    BY <2>1, KeyHolderAttached
  <2>2. CASE UNCHANGED tableData
    BY <1>1, <2>2 DEF KeyAttached
  <2> QED BY <2>1, <2>2 DEF Effect, TableEffect, HasKey, At
<1>2. CASE \E u \in Thread \ {t} : thread'[u].opening /\ (thread'[u].pc = "data" \/ thread'[u].attempts > 0)
  BY <1>2 DEF KeyAttached, Effect, OnlyThread
<1>3. CASE thread'[t].opening /\ (thread'[t].pc = "data" \/ thread'[t].attempts > 0)
  <2>1. LockMutex(t) \/ LockDataTimesOut(t)
    BY <1>3, OpeningStep
  <2>2. CASE LockMutex(t)
    <3>1. ~At(t, "idle") /\ ~End(t)
      BY <1>3, <2>2, Ended DEF LockMutex, At, Idle
    <3>2. thread'[t] = [thread[t] EXCEPT !.pc = "key"] /\ thread[t] \in Access
      BY <2>2, <3>1, Gone, ThreadOf DEF LockMutex
    <3> QED BY <1>3, <3>2 DEF KeyAttached, Access
  <2>3. CASE LockDataTimesOut(t)
    BY <2>3, KeyHolderAttached DEF LockDataTimesOut, At, HasKey
  <2> QED BY <2>1, <2>2, <2>3
<1> QED BY <1>1, <1>2, <1>3 DEF KeyAttached

LEMMA GenerationKept ==
  ASSUME LInv, NEW t \in Thread, Proceed(t), Effect(t), ThreadSound(t)'
  PROVE  /\ generation' \in 0..MaxGeneration
         /\ KeyAttached(tableData', thread') => generation' # 0
<1>1. CASE LockKey(t)
  <2>1. MaxGeneration \in Nat \ {0}
    BY StoreAssumption
  <2> QED BY <1>1, <2>1, Generation DEF LockKey
<1>2. CASE Publish(t)
  <2>1. NextGeneration(t) \in Generations /\ generation' = NextGeneration(t)
    BY <1>2 DEF Publish, LInv, Threads, ThreadSound
  <2> QED BY <2>1, Generation DEF Generations
<1>3. CASE generation' = KeyDetached(tableData', thread') /\ ~LockKey(t)
  BY <1>3, KeyAttachedBefore, Generation DEF KeyDetached, LInv, Tables
<1>4. CASE generation' = generation /\ ~LockKey(t)
  BY <1>4, KeyAttachedBefore, Generation DEF LInv, Tables
<1>5. LockKey(t) \/ Publish(t) \/ generation' = generation \/ generation' = KeyDetached(tableData', thread')
  <2>1. ASSUME LockKeyTimesOut(t) \/ LockDataTimesOut(t) \/ LockDataCannotAttach(t)
        PROVE  generation' = generation \/ generation' = KeyDetached(tableData', thread')
    BY <2>1 DEF LockKeyTimesOut, LockDataTimesOut, LockDataCannotAttach, KeyDetached
  <2> QED BY <2>1 DEF Proceed, shared, LockMutex, LockDataToUse, LockDataToOpen, ContactDetails, DataLock,
             EndIteration, RemoveDetails, SetContactDetails, BeginReallocation, ReallocationLocksMutex,
             ReallocationLocksKey, ReallocationTimesOut, RegionNotCreated, Migrate, MigrationFails,
             SetInNewTable, SetFails, Inserted, Finish
<1> QED BY <1>1, <1>2, <1>3, <1>4, <1>5

LEMMA TablesTyped ==
  ASSUME LInv, NEW t \in Thread, Proceed(t)
  PROVE  tableData' \in [Process -> Opened] /\ \A p \in Process : TableSound(tableData'[p])
<1>1. tableData \in [Process -> Opened] /\ \A p \in Process : TableSound(tableData[p])
  BY Types DEF LInv, Tables
<1>2. CASE UNCHANGED tableData
  BY <1>1, <1>2
<1>3. ASSUME ~At(t, "idle"), NEW d \in Opened, TableSound(d), tableData' = [tableData EXCEPT ![P(t)] = d]
      PROVE  tableData' \in [Process -> Opened] /\ \A p \in Process : TableSound(tableData'[p])
  BY <1>1, <1>3, ThreadOf
<1>4. ASSUME NEW reinitialize \in BOOLEAN, LockDataToOpen(t, reinitialize)
      PROVE  \E d \in Opened : TableSound(d) /\ tableData' = [tableData EXCEPT ![P(t)] = d]
  <2> DEFINE d == [open |-> TRUE, generation |-> generation, region |-> DataRegion(generation)]
  <2>1. generation \in Generations
    BY <1>4, KeyHolderAttached DEF LockDataToOpen, At, HasKey
  <2>2. DataRegion(generation) \in Generations /\ Generations \subseteq 0..MaxGeneration /\ 0 \notin Generations
    BY <2>1, Generation DEF DataRegion, AttachableRegion, Generations
  <2>3. d \in Opened /\ TableSound(d)
    BY <2>1, <2>2 DEF Opened, TableSound
  <2>4. tableData' = [tableData EXCEPT ![P(t)] = d]
    BY <1>4 DEF LockDataToOpen
  <2> HIDE DEF d
  <2> QED BY <2>3, <2>4
<1>5. CASE LockDataToUse(t)
  <2>1. ~At(t, "idle") /\ HasKey(t) /\ ~thread[t].opening
    BY <1>5 DEF LockDataToUse, At, HasKey
  <2>2. P(t) \in Process /\ Data(t).open /\ Data(t) \in Opened /\ generation \in Generations
    BY <2>1, ThreadOf, KeyHolderAttached
  <2>3. PICK r : /\ r = (IF NeedsAttach(t) THEN AttachableRegion(generation) ELSE Data(t).region) /\ r # 0
                 /\ tableData' = [tableData EXCEPT ![P(t)].region = r,
                                    ![P(t)].generation = IF NeedsAttach(t) THEN generation ELSE @]
    BY <1>5 DEF LockDataToUse
  <2> DEFINE d == [Data(t) EXCEPT !.region = r, !.generation = IF NeedsAttach(t) THEN generation ELSE @]
  <2>4. r \in 0..MaxGeneration
    BY <2>2, <2>3, Generation DEF AttachableRegion, Opened, Generations
  <2>5. TableSound(Data(t)) /\ generation # 0
    BY <1>1, <2>2, Generation DEF Data, Generations
  <2>6. d \in Opened /\ TableSound(d)
    BY <2>2, <2>3, <2>4, <2>5, Generation DEF Opened, TableSound
  <2>7. tableData' = [tableData EXCEPT ![P(t)] = d]
    BY <1>1, <2>2, <2>3 DEF Data, Opened
  <2> HIDE DEF d
  <2> QED BY <1>3, <2>1, <2>6, <2>7
<1>6. CASE Publish(t)
  <2>1. ~At(t, "idle") /\ thread[t].pc = "publish"
    BY <1>6 DEF Publish, At
  <2>2. P(t) \in Process /\ Data(t).open /\ Data(t) \in Opened /\ thread[t] \in Access
    BY <2>1, ThreadOf
  <2>3. NextGeneration(t) \in Generations /\ thread[t].next # 0
    BY <2>1 DEF LInv, Threads, ThreadSound, At
  <2> DEFINE d == [Data(t) EXCEPT !.generation = NextGeneration(t), !.region = thread[t].next]
  <2>4. d \in Opened /\ TableSound(d)
    <3>1. thread[t].next \in 0..MaxGeneration /\ NextGeneration(t) \in 0..MaxGeneration /\ NextGeneration(t) # 0
      BY <2>2, <2>3, Generation DEF Access, Generations
    <3> QED BY <2>2, <2>3, <3>1 DEF Opened, TableSound
  <2>5. tableData' = [tableData EXCEPT ![P(t)] = d]
    BY <1>1, <1>6, <2>2 DEF Publish, Data, Opened
  <2> HIDE DEF d
  <2> QED BY <1>3, <2>1, <2>4, <2>5
<1>7. UNCHANGED tableData \/ LockDataToUse(t) \/ Publish(t) \/ \E reinitialize \in BOOLEAN : LockDataToOpen(t, reinitialize)
  BY DEF Proceed, LockMutex, LockKey, LockKeyTimesOut, LockDataTimesOut, LockDataCannotAttach, ContactDetails, DataLock,
     EndIteration, RemoveDetails, SetContactDetails, BeginReallocation, ReallocationLocksMutex,
     ReallocationLocksKey, ReallocationTimesOut, RegionNotCreated, Migrate, MigrationFails,
     SetInNewTable, SetFails, Inserted, Finish
<1>8. ASSUME NEW reinitialize \in BOOLEAN, LockDataToOpen(t, reinitialize) PROVE ~At(t, "idle")
  BY <1>8 DEF LockDataToOpen, At
<1> QED BY <1>2, <1>3, <1>4, <1>5, <1>6, <1>7, <1>8

(***************************************************************************)
(* The regions.                                                            *)
(***************************************************************************)
LEMMA DetachedRegions ==
  ASSUME NEW R, IsRegions(R), NEW dropped, NEW tables, NEW threads,
         NEW D, D = Detached(R, dropped, tables, threads)
  PROVE  /\ IsRegions(D)
         /\ \A g \in Generations : D[g] = R[g] \/ D[g] = NoRegion
         /\ \A g \in Generations : g \notin dropped \/ Attached(g, tables, threads) => D[g] = R[g]
<1>1. /\ NoRegion \in [size : Nat, keys : SUBSET Key]
      /\ Cardinality(NoRegion.keys) <= NoRegion.size
  BY FS_EmptySet DEF NoRegion
<1>2. /\ DOMAIN D = Generations /\ D \in [Generations -> [size : Nat, keys : SUBSET Key]]
      /\ \A g \in Generations :
           D[g] = IF g \in dropped /\ ~Attached(g, tables, threads) THEN NoRegion ELSE R[g]
  BY <1>1 DEF Detached, IsRegions
<1> QED BY <1>1, <1>2 DEF IsRegions

Rekeyed(R, g, K) == [R EXCEPT ![g].keys = K]

LEMMA KeysSet ==
  ASSUME NEW R, IsRegions(R), NEW g \in Generations, NEW K \in SUBSET Key, Cardinality(K) <= R[g].size,
         NEW D, D = Rekeyed(R, g, K)
  PROVE  /\ IsRegions(D) /\ D[g].keys = K /\ D[g].size = R[g].size
         /\ \A i \in Generations \ {g} : D[i] = R[i]
<1>1. R \in [Generations -> [size : Nat, keys : SUBSET Key]]
  BY DEF IsRegions
<1>2. /\ D \in [Generations -> [size : Nat, keys : SUBSET Key]]
      /\ D[g] = [R[g] EXCEPT !.keys = K]
      /\ \A i \in Generations \ {g} : D[i] = R[i]
  BY <1>1 DEF Rekeyed
<1>3. D[g].keys = K /\ D[g].size = R[g].size
  BY <1>1, <1>2
<1> QED BY <1>2, <1>3 DEF IsRegions

LEMMA FiniteKeys ==
  ASSUME NEW K \in SUBSET Key
  PROVE  IsFiniteSet(K) /\ Cardinality(K) \in Nat
BY StoreAssumption, FS_Subset, FS_CardinalityType

LEMMA KeyRemoved ==
  ASSUME NEW R, IsRegions(R), NEW g \in Generations, NEW k
  PROVE  R[g].keys \ {k} \in SUBSET Key /\ Cardinality(R[g].keys \ {k}) <= R[g].size
<1>1. R[g].keys \in SUBSET Key /\ R[g].size \in Nat /\ Cardinality(R[g].keys) <= R[g].size
  BY DEF IsRegions
<1>2. /\ IsFiniteSet(R[g].keys) /\ Cardinality(R[g].keys) \in Nat
      /\ R[g].keys \ {k} \in SUBSET R[g].keys /\ R[g].keys \ {k} \in SUBSET Key
  BY <1>1, FiniteKeys
<1>3. Cardinality(R[g].keys \ {k}) <= Cardinality(R[g].keys) /\ Cardinality(R[g].keys \ {k}) \in Nat
  BY <1>2, FS_Subset, FiniteKeys
<1> QED BY <1>1, <1>2, <1>3

LEMMA KeyInserted ==
  ASSUME NEW R, IsRegions(R), NEW g \in Generations, NEW k \in Key, Fits(R[g], k)
  PROVE  R[g].keys \cup {k} \in SUBSET Key /\ Cardinality(R[g].keys \cup {k}) <= R[g].size
<1>1. R[g].keys \in SUBSET Key /\ R[g].size \in Nat /\ Cardinality(R[g].keys) <= R[g].size
  BY DEF IsRegions
<1>2. IsFiniteSet(R[g].keys) /\ Cardinality(R[g].keys) \in Nat
  BY <1>1, FiniteKeys
<1>3. Cardinality(R[g].keys \cup {k}) = IF k \in R[g].keys THEN Cardinality(R[g].keys) ELSE Cardinality(R[g].keys) + 1
  BY <1>2, FS_AddElement
<1> QED BY <1>1, <1>2, <1>3 DEF Fits

LEMMA NewRegion ==
  ASSUME IsRegions(region), NEW g \in Generations, NEW size \in Nat \ {0},
         NEW R, R = WithDataRegion(g, size), NEW r, r = DataRegion(g)
  PROVE  /\ r \in Generations /\ IsRegions(R) /\ Exists(R[r])
         /\ \A i \in Generations : Exists(region[i]) => R[i] = region[i]
         /\ \A i \in Generations \ {r} : R[i] = region[i]
         /\ R[r] = region[r] \/ (r = g /\ AttachableRegion(g) = 0 /\ R[r].keys = {} /\ R # region)
         /\ r = g \/ (r = g - 1 /\ ~Exists(region[g]))
<1>1. region \in [Generations -> [size : Nat, keys : SUBSET Key]]
      /\ Generations \subseteq Nat /\ 0 \notin Generations
  BY DEF IsRegions, Generations
<1>2. CASE AttachableRegion(g) = 0
  <2>1. r = g /\ ~Exists(region[g]) /\ R = [region EXCEPT ![g] = [size |-> size, keys |-> {}]]
    BY <1>1, <1>2 DEF DataRegion, WithDataRegion, AttachableRegion
  <2>2. Cardinality({}) = 0
    BY FS_EmptySet
  <2>3. /\ R \in [Generations -> [size : Nat, keys : SUBSET Key]]
        /\ R[g] = [size |-> size, keys |-> {}]
        /\ \A i \in Generations \ {g} : R[i] = region[i]
    BY <1>1, <2>1
  <2>4. Exists(R[g]) /\ R # region
    BY <2>1, <2>3 DEF Exists
  <2>5. IsRegions(R)
    BY <2>2, <2>3 DEF IsRegions
  <2> QED BY <1>2, <2>1, <2>3, <2>4, <2>5
<1>3. CASE AttachableRegion(g) # 0
  <2>1. r = AttachableRegion(g) /\ R = region
    BY <1>3 DEF DataRegion, WithDataRegion
  <2>2. /\ r \in Generations /\ Exists(region[r])
        /\ r = g \/ (r = g - 1 /\ ~Exists(region[g]))
    BY <1>1, <1>3, <2>1, StoreAssumption DEF AttachableRegion, Generations
  <2> QED BY <2>1, <2>2
<1> QED BY <1>2, <1>3

RegionsSound ==
  /\ IsRegions(region)
  /\ \A g \in Generations : Attached(g, tableData, thread) => Exists(region[g])

LEMMA RegionsOf ==
  ASSUME LInv
  PROVE  RegionsSound
BY Types DEF LInv, RegionTypes, Tables, RegionsSound

LEMMA HandleOf ==
  ASSUME LInv, NEW t \in Thread, Holds(t)
  PROVE  /\ thread[t].handle \in Generations /\ Exists(region[thread[t].handle])
         /\ Data(t).region \in Generations /\ Exists(region[Data(t).region]) /\ Data(t).open
         /\ P(t) \in Process /\ ~At(t, "idle")
         /\ thread[t].pc \in {"publish", "insert"} =>
              thread[t].next \in Generations /\ Exists(region[thread[t].next])
<1>1. /\ ~At(t, "idle") /\ P(t) \in Process /\ thread[t] \in Access /\ Data(t) \in Opened /\ Data(t).open
  BY ThreadOf DEF Holds, At
<1>2. thread[t].handle # 0 /\ (thread[t].pc \in {"publish", "insert"} => thread[t].next # 0)
  BY DEF LInv, Threads, ThreadSound
<1>3. Data(t).region # 0
  BY <1>1 DEF LInv, Tables, TableSound, Data
<1>4. \A g \in 0..MaxGeneration : g # 0 => g \in Generations
  BY StoreAssumption DEF Generations
<1>5. /\ thread[t].handle \in Generations /\ Data(t).region \in Generations
      /\ thread[t].pc \in {"publish", "insert"} => thread[t].next \in Generations
  BY <1>1, <1>2, <1>3, <1>4 DEF Access, Opened
<1>6. \A g \in Generations : g \in {thread[t].handle, thread[t].next, Data(t).region} => Exists(region[g])
  BY <1>1, RegionsOf DEF RegionsSound, Attached, Data
<1> QED BY <1>1, <1>5, <1>6

LEMMA NextRegionOf ==
  ASSUME LInv, NEW t \in Thread, At(t, "migrate"), NextGeneration(t) \in Generations,
         NEW R, R = NextRegions(t), NEW r, r = NextRegion(t), NEW g, g = NextGeneration(t)
  PROVE  /\ r \in Generations /\ IsRegions(R) /\ Exists(R[r])
         /\ \A i \in Generations : Exists(region[i]) => R[i] = region[i]
         /\ \A i \in Generations \ {r} : R[i] = region[i]
         /\ R[r] = region[r] \/ (r = g /\ AttachableRegion(g) = 0 /\ R[r].keys = {})
         /\ r = g \/ (r = g - 1 /\ ~Exists(region[g]))
         /\ Migrated(t) \in SUBSET Key
<1>1. Data(t).region \in Generations /\ Exists(region[Data(t).region])
  BY HandleOf DEF At, Holds
<1>2. IsRegions(region)
  BY RegionsOf DEF RegionsSound
<1>3. 2 * region[Data(t).region].size \in Nat \ {0} /\ Migrated(t) \in SUBSET Key
  BY <1>1, <1>2 DEF IsRegions, Exists, Migrated
<1>4. R = WithDataRegion(g, 2 * region[Data(t).region].size) /\ r = DataRegion(g)
  BY DEF NextRegions, NextRegion
<1> QED BY <1>2, <1>3, <1>4, NewRegion

LEMMA KeptAttached ==
  ASSUME NEW t \in Thread, OnlyThread(t), UNCHANGED tableData,
         thread'[t].handle \in {0, thread[t].handle}, thread'[t].next \in {0, thread[t].next}
  PROVE  \A g \in Generations : Attached(g, tableData', thread') => Attached(g, tableData, thread)
BY DEF Attached, OnlyThread, Generations

LEMMA EndAttached ==
  ASSUME LInv, NEW t \in Thread, ~At(t, "idle"), End(t), UNCHANGED tableData
  PROVE  \A g \in Generations : Attached(g, tableData', thread') => Attached(g, tableData, thread)
<1>1. OnlyThread(t) /\ thread'[t].handle = 0 /\ thread'[t].next = 0
  BY Ended DEF Idle
<1> QED BY <1>1, KeptAttached

\* An access ends and drops its handles.
LEMMA EndRegions ==
  ASSUME LInv, NEW t \in Thread, ~At(t, "idle"), End(t), UNCHANGED tableData,
         NEW R, IsRegions(R), \A g \in Generations : Exists(region[g]) => Exists(R[g]),
         NEW dropped, region' = Detached(R, dropped, tableData, thread')
  PROVE  RegionsSound'
<1>1. \A g \in Generations : Attached(g, tableData', thread') => Exists(R[g])
  BY EndAttached, RegionsOf DEF RegionsSound
<1>2. /\ IsRegions(region')
      /\ \A g \in Generations : Attached(g, tableData', thread') => region'[g] = R[g]
  BY DetachedRegions
<1> QED BY <1>1, <1>2 DEF RegionsSound

\* The keys of a region are replaced.
LEMMA WithKeys ==
  ASSUME LInv, NEW g \in Generations, NEW K \in SUBSET Key, Cardinality(K) <= region[g].size,
         NEW R, R = Rekeyed(region, g, K)
  PROVE  /\ IsRegions(R) /\ R[g].keys = K
         /\ \A i \in Generations : Exists(R[i]) <=> Exists(region[i])
         /\ \A i \in Generations \ {g} : R[i] = region[i]
<1>1. IsRegions(region)
  BY RegionsOf DEF RegionsSound
<1>2. /\ IsRegions(R) /\ R[g].keys = K /\ R[g].size = region[g].size
      /\ \A i \in Generations \ {g} : R[i] = region[i]
  BY <1>1, KeysSet
<1> QED BY <1>2 DEF Exists

LEMMA RegionsKept ==
  ASSUME LInv, NEW t \in Thread, Proceed(t), Effect(t)
  PROVE  RegionsSound'
<1>1. RegionsSound /\ IsRegions(region) /\ OnlyThread(t)
  BY RegionsOf DEF RegionsSound, Effect
<1>2. ASSUME UNCHANGED <<region, tableData>>, thread'[t].handle \in {0, thread[t].handle},
             thread'[t].next \in {0, thread[t].next}
      PROVE  RegionsSound'
  BY <1>1, <1>2, KeptAttached DEF RegionsSound
<1>3. ASSUME UNCHANGED <<region, tableData>>, ~At(t, "idle"), End(t)
      PROVE  RegionsSound'
  BY <1>1, <1>3, EndAttached DEF RegionsSound
<1>4. ASSUME UNCHANGED <<region, tableData>>, ~At(t, "idle"), NEW l, Goto(t, l)
      PROVE  RegionsSound'
  <2>1. thread[t] \in Access /\ thread'[t] = [thread[t] EXCEPT !.pc = l]
    BY <1>4, ThreadOf DEF Goto
  <2> QED BY <1>2, <1>4, <2>1 DEF Access
<1>5. CASE LockMutex(t) \/ LockKey(t) \/ LockKeyTimesOut(t) \/ LockDataCannotAttach(t) \/ DataLock(t)
           \/ ReallocationLocksMutex(t) \/ ReallocationLocksKey(t)
  BY <1>3, <1>4, <1>5 DEF LockMutex, LockKey, LockKeyTimesOut, LockDataCannotAttach, DataLock,
     ReallocationLocksMutex, ReallocationLocksKey, shared, At
<1>6. CASE LockDataTimesOut(t)
  <2>1. ~At(t, "idle") /\ UNCHANGED <<region, tableData>>
    BY <1>6 DEF LockDataTimesOut, At
  <2>2. CASE thread' = [thread EXCEPT ![t].pc = "key", ![t].attempts = @ + 1]
    <3>1. thread'[t].handle = thread[t].handle /\ thread'[t].next = thread[t].next
      BY <2>1, <2>2, ThreadOf DEF Access
    <3> QED BY <1>2, <2>1, <3>1
  <2> QED BY <1>3, <1>6, <2>1, <2>2 DEF LockDataTimesOut
<1>7. ASSUME NEW k \in Key, BeginReallocation(t, k) PROVE RegionsSound'
  <2>1. ~At(t, "idle") /\ UNCHANGED <<region, tableData>>
    BY <1>7 DEF BeginReallocation, At, shared
  <2>2. thread'[t].handle = thread[t].handle /\ thread'[t].next = thread[t].next
    BY <1>7, <2>1, ThreadOf DEF BeginReallocation, Access
  <2> QED BY <1>2, <2>1, <2>2
<1>8. CASE ContactDetails(t) \/ EndIteration(t) \/ SetFails(t) \/ ReallocationTimesOut(t) \/ RegionNotCreated(t)
  <2>1. ~At(t, "idle") /\ End(t) /\ UNCHANGED tableData
    BY <1>8 DEF ContactDetails, EndIteration, SetFails, ReallocationTimesOut, RegionNotCreated, Finish, At
  <2>2. PICK dropped : region' = Detached(region, dropped, tableData, thread')
    BY <1>8 DEF ContactDetails, EndIteration, SetFails, ReallocationTimesOut, RegionNotCreated, Finish
  <2> QED BY <1>1, <2>1, <2>2, EndRegions
<1>9. ASSUME NEW g \in Generations, NEW K \in SUBSET Key, Cardinality(K) <= region[g].size, ~At(t, "idle"),
             Finish(t, Rekeyed(region, g, K))
      PROVE  RegionsSound'
  <2> DEFINE R == Rekeyed(region, g, K)
  <2>1. IsRegions(R) /\ \A i \in Generations : Exists(region[i]) => Exists(R[i])
    BY <1>9, WithKeys
  <2>2. End(t) /\ UNCHANGED tableData
        /\ region' = Detached(R, {thread[t].handle, thread[t].next}, tableData, thread')
    BY <1>9 DEF Finish
  <2> HIDE DEF R
  <2> QED BY <1>9, <2>1, <2>2, EndRegions
<1>10. ASSUME NEW k \in Key, RemoveDetails(t, k) PROVE RegionsSound'
  <2>1. At(t, "use") /\ ~At(t, "idle") /\ thread[t].handle \in Generations
    BY <1>10, HandleOf DEF RemoveDetails, At, Holds
  <2> DEFINE g == thread[t].handle
             K == region[g].keys \ {k}
  <2>2. Finish(t, Rekeyed(region, g, K))
    BY <1>10, <2>1, <1>1 DEF RemoveDetails, IsRegions, Rekeyed
  <2>3. K \in SUBSET Key /\ Cardinality(K) <= region[g].size /\ g \in Generations
    BY <1>1, <2>1, KeyRemoved
  <2> HIDE DEF g, K
  <2> QED BY <1>9, <2>1, <2>2, <2>3
<1>11. ASSUME NEW g \in Generations, NEW k \in Key, Fits(region[g], k), ~At(t, "idle"), Inserted(t, g, k)
       PROVE  RegionsSound'
  <2> DEFINE K == region[g].keys \cup {k}
  <2>1. Finish(t, Rekeyed(region, g, K))
    BY <1>1, <1>11 DEF Inserted, IsRegions, Rekeyed
  <2>2. K \in SUBSET Key /\ Cardinality(K) <= region[g].size
    BY <1>1, <1>11, KeyInserted
  <2> HIDE DEF K
  <2> QED BY <1>9, <1>11, <2>1, <2>2
<1>12. ASSUME NEW k \in Key, SetContactDetails(t, k) PROVE RegionsSound'
  <2>1. ~At(t, "idle") /\ thread[t].handle \in Generations
    BY <1>12, HandleOf DEF SetContactDetails, At, Holds
  <2> QED BY <1>11, <1>12, <2>1 DEF SetContactDetails
<1>13. CASE SetInNewTable(t)
  <2>1. ~At(t, "idle") /\ thread[t].next \in Generations
    BY <1>13, HandleOf DEF SetInNewTable, At, Holds
  <2>2. thread[t].key \in Key
    BY <1>13 DEF SetInNewTable, At, LInv, Threads, ThreadSound
  <2> QED BY <1>11, <1>13, <2>1, <2>2 DEF SetInNewTable
<1>14. CASE MigrationFails(t)
  <2> DEFINE R == NextRegions(t)
  <2>1. At(t, "migrate") /\ ~At(t, "idle") /\ End(t) /\ UNCHANGED tableData /\ NextGeneration(t) \in Generations
    BY <1>14 DEF MigrationFails, At
  <2>2. region' = Detached(R, {NextRegion(t), thread[t].handle}, tableData, thread')
    BY <1>14 DEF MigrationFails
  <2>3. IsRegions(R) /\ \A g \in Generations : Exists(region[g]) => R[g] = region[g]
    BY <2>1, NextRegionOf
  <2>4. \A g \in Generations : Exists(region[g]) => Exists(R[g])
    BY <2>3
  <2> HIDE DEF R
  <2> QED BY <2>1, <2>2, <2>3, <2>4, EndRegions
<1>15. CASE Migrate(t)
  <2> DEFINE R == NextRegions(t)
             r == NextRegion(t)
             K == R[r].keys \cup Migrated(t)
  <2>1. /\ At(t, "migrate") /\ ~At(t, "idle") /\ NextGeneration(t) \in Generations /\ UNCHANGED tableData
        /\ region' = Rekeyed(R, r, K) /\ Cardinality(K) <= R[r].size
        /\ thread' = [thread EXCEPT ![t].pc = "publish", ![t].next = r]
    <3>1. /\ At(t, "migrate") /\ ~At(t, "idle") /\ NextGeneration(t) \in Generations /\ UNCHANGED tableData
          /\ region' = [R EXCEPT ![r].keys = @ \cup Migrated(t)] /\ Migrates(t)
          /\ thread' = [thread EXCEPT ![t].pc = "publish", ![t].next = r]
      BY <1>15 DEF Migrate, At
    <3>2. r \in Generations /\ IsRegions(R)
      BY <3>1, NextRegionOf
    <3> HIDE DEF R, r
    <3>3. region' = Rekeyed(R, r, K)
      BY <3>1, <3>2 DEF Rekeyed, IsRegions
    <3>4. Cardinality(K) <= R[r].size
      <4>1. Cardinality(Migrated(t) \cup R[r].keys) <= R[r].size
        BY <3>1 DEF Migrates, R, r
      <4>2. K = Migrated(t) \cup R[r].keys
        OBVIOUS
      <4> QED BY <4>1, <4>2
    <3> QED BY <3>1, <3>3, <3>4
  <2>2. /\ r \in Generations /\ IsRegions(R) /\ Exists(R[r]) /\ Migrated(t) \in SUBSET Key
        /\ \A g \in Generations : Exists(region[g]) => R[g] = region[g]
    BY <2>1, NextRegionOf
  <2>3. thread'[t].handle = thread[t].handle /\ thread'[t].next = r
    BY <2>1, ThreadOf DEF Access
  <2> HIDE DEF R, r
  <2>4. K \in SUBSET Key
    BY <2>2 DEF IsRegions
  <2> HIDE DEF K
  <2>5. /\ IsRegions(region') /\ region'[r].size = R[r].size
        /\ \A i \in Generations \ {r} : region'[i] = R[i]
    BY <2>1, <2>2, <2>4, KeysSet
  <2>6. \A g \in Generations : Attached(g, tableData', thread') => Attached(g, tableData, thread) \/ g = r
    BY <1>1, <2>1, <2>3 DEF Attached, OnlyThread, Generations
  <2>7. \A g \in Generations : Exists(region[g]) \/ g = r => Exists(region'[g])
    BY <2>2, <2>5 DEF Exists
  <2> QED BY <1>1, <2>5, <2>6, <2>7 DEF RegionsSound
<1>16. CASE Publish(t)
  <2>1. At(t, "publish") /\ ~At(t, "idle") /\ Goto(t, "insert") /\ UNCHANGED region /\ thread[t] \in Access
    BY <1>16, ThreadOf DEF Publish, At
  <2>2. P(t) \in Process /\ Data(t) \in Opened /\ tableData \in [Process -> Opened]
    BY <2>1, ThreadOf, Types DEF LInv
  <2>3. thread'[t].handle = thread[t].handle /\ thread'[t].next = thread[t].next
    <3>1. thread'[t] = [thread[t] EXCEPT !.pc = "insert"]
      BY <2>1, Gone
    <3> QED BY <2>1, <3>1 DEF Access
  <2>4. /\ tableData'[P(t)].region = thread[t].next
        /\ \A p \in Process \ {P(t)} : tableData'[p] = tableData[p]
    BY <1>16, <2>2 DEF Publish, Opened
  <2>5. \A g \in Generations : Attached(g, tableData', thread') => Attached(g, tableData, thread)
    BY <1>1, <2>3, <2>4 DEF Attached, OnlyThread
  <2> QED BY <1>1, <2>1, <2>5 DEF RegionsSound
<1>17. ASSUME NEW reinitialize \in BOOLEAN, LockDataToOpen(t, reinitialize) PROVE RegionsSound'
  <2> DEFINE r == DataRegion(generation)
             R == WithDataRegion(generation, InitialSize)
  <2>1. At(t, "data") /\ ~At(t, "idle") /\ End(t) /\ P(t) \in Process
    BY <1>17, ThreadOf DEF LockDataToOpen, At
  <2>2. generation \in Generations
    BY <2>1, KeyHolderAttached DEF HasKey, At
  <2>3. /\ r \in Generations /\ IsRegions(R) /\ Exists(R[r])
        /\ \A g \in Generations : Exists(region[g]) => R[g] = region[g]
    BY <1>1, <2>2, StoreAssumption, NewRegion
  <2>4. region' = Rekeyed(R, r, {}) \/ (region' = region /\ R = region)
    BY <1>17 DEF LockDataToOpen, Rekeyed
  <2>5. /\ tableData'[P(t)].region = r
        /\ \A p \in Process \ {P(t)} : tableData'[p] = tableData[p]
    BY <1>17, <2>1, ThreadOf DEF LockDataToOpen
  <2> HIDE DEF r, R
  <2>6. thread'[t].handle = 0 /\ thread'[t].next = 0
    BY <2>1, Ended DEF Idle
  <2>7. \A g \in Generations : Attached(g, tableData', thread') => Attached(g, tableData, thread) \/ g = r
    BY <1>1, <2>5, <2>6 DEF Attached, OnlyThread, Generations
  <2>8. IsRegions(region') /\ \A g \in Generations : Exists(region[g]) \/ g = r => Exists(region'[g])
    <3>1. CASE region' = region /\ R = region
      BY <2>3, <3>1
    <3>2. CASE region' = Rekeyed(R, r, {})
      <4>1. {} \in SUBSET Key /\ Cardinality({}) <= R[r].size
        BY <2>3, FS_EmptySet DEF IsRegions
      <4>2. /\ IsRegions(region') /\ region'[r].size = R[r].size
            /\ \A i \in Generations \ {r} : region'[i] = R[i]
        BY <2>3, <3>2, <4>1, KeysSet
      <4> QED BY <2>3, <4>2 DEF Exists
    <3> QED BY <2>4, <3>1, <3>2
  <2> QED BY <1>1, <2>7, <2>8 DEF RegionsSound
<1>18. CASE LockDataToUse(t)
  <2>1. At(t, "data") /\ ~At(t, "idle") /\ ~thread[t].opening /\ HasKey(t)
    BY <1>18 DEF LockDataToUse, At, HasKey
  <2>2. /\ P(t) \in Process /\ Data(t).open /\ Data(t) \in Opened /\ generation \in Generations
        /\ tableData \in [Process -> Opened] /\ thread \in [Thread -> Access] /\ thread[t] \in Access
    BY <2>1, ThreadOf, KeyHolderAttached, Types DEF LInv
  <2>3. PICK r : /\ r = (IF NeedsAttach(t) THEN AttachableRegion(generation) ELSE Data(t).region) /\ r # 0
                 /\ tableData' = [tableData EXCEPT ![P(t)].region = r,
                                    ![P(t)].generation = IF NeedsAttach(t) THEN generation ELSE @]
                 /\ thread' = [thread EXCEPT ![t].pc = "use", ![t].handle = r]
                 /\ region' = Detached(region, {Data(t).region}, tableData', thread')
    BY <1>18 DEF LockDataToUse
  <2>4. thread'[t].handle = r /\ thread'[t].next = thread[t].next
    BY <2>2, <2>3 DEF Access
  <2>5. /\ tableData'[P(t)].region = r
        /\ \A p \in Process \ {P(t)} : tableData'[p] = tableData[p]
    BY <2>2, <2>3 DEF Opened
  <2>6. \A g \in Generations : Attached(g, tableData', thread') => Attached(g, tableData, thread) \/ g = r
    BY <1>1, <2>4, <2>5 DEF Attached, OnlyThread
  <2>7. r \in Generations => Exists(region[r])
    <3>1. CASE NeedsAttach(t)
      BY <2>3, <3>1 DEF AttachableRegion
    <3>2. CASE ~NeedsAttach(t)
      <4>1. r = tableData[P(t)].region
        BY <2>3, <3>2 DEF Data
      <4> QED BY <1>1, <2>2, <4>1 DEF RegionsSound, Attached
    <3> QED BY <3>1, <3>2
  <2>8. /\ IsRegions(region')
        /\ \A g \in Generations : Attached(g, tableData', thread') => region'[g] = region[g]
    BY <1>1, <2>3, DetachedRegions
  <2> QED BY <1>1, <2>6, <2>7, <2>8 DEF RegionsSound
<1> QED BY <1>5, <1>6, <1>7, <1>8, <1>10, <1>12, <1>13, <1>14, <1>15, <1>16, <1>17, <1>18 DEF Proceed

(***************************************************************************)
(* The history, and the steps of a thread together.                        *)
(***************************************************************************)
LEMMA StoreKeptTyped ==
  ASSUME HistoryTypes, StoreKept, IsRegions(region'), generation' \in 0..MaxGeneration
  PROVE  HistoryTypes'
<1>1. generation' > 1 => generation' - 1 \in Generations
  <2>1. \A m \in Nat : \A g \in 0..m : g > 1 => g - 1 \in 1..m
    OBVIOUS
  <2>2. MaxGeneration \in Nat /\ generation' \in 0..MaxGeneration
    BY StoreAssumption
  <2> QED BY <2>1, <2>2 DEF Generations
<1>2. generation' > 1 => region'[generation' - 1].keys \in SUBSET Key
  BY <1>1 DEF IsRegions
<1> QED BY <1>2 DEF StoreKept, HistoryTypes, history

LEMMA HistoryKept ==
  ASSUME LInv, NEW t \in Thread, Proceed(t), IsRegions(region'), generation' \in 0..MaxGeneration
  PROVE  HistoryTypes'
<1>1. HistoryTypes /\ IsRegions(region)
  BY Types DEF LInv, RegionTypes
<1>2. ASSUME NEW r \in Generations PROVE Revives(r) \in SUBSET Key
  BY <1>1, <1>2 DEF Revives, IsRegions
<1>3. CASE StoreKept
  BY <1>1, <1>3, StoreKeptTyped
<1>4. CASE UNCHANGED history
  BY <1>1, <1>4 DEF HistoryTypes, history
<1>5. ASSUME NEW reinitialize \in BOOLEAN, LockDataToOpen(t, reinitialize) PROVE HistoryTypes'
  <2>1. generation \in Generations
    BY <1>5, KeyHolderAttached DEF LockDataToOpen, HasKey, At
  <2>2. DataRegion(generation) \in Generations
    BY <1>1, <2>1, StoreAssumption, NewRegion
  <2> QED BY <1>1, <1>2, <1>5, <2>2 DEF LockDataToOpen, HistoryTypes
<1>6. CASE LockDataToUse(t)
  <2>1. PICK r : r = (IF NeedsAttach(t) THEN AttachableRegion(generation) ELSE Data(t).region) /\ r # 0
                 /\ revived' = revived \cup Revives(r)
    BY <1>6 DEF LockDataToUse
  <2>2. Data(t) \in Opened /\ generation \in Generations
    BY <1>6, ThreadOf, KeyHolderAttached DEF LockDataToUse, At, HasKey
  <2>3. r \in Generations
    BY <2>1, <2>2, StoreAssumption DEF AttachableRegion, Opened, Generations
  <2> QED BY <1>1, <1>2, <1>6, <2>1, <2>3 DEF LockDataToUse, HistoryTypes
<1>7. CASE Migrate(t)
  <2>1. NextRegion(t) \in Generations
    BY <1>7, NextRegionOf DEF Migrate
  <2> QED BY <1>1, <1>2, <1>7, <2>1 DEF Migrate, HistoryTypes
<1>8. CASE DataLock(t)
  BY <1>1, <1>8 DEF DataLock, HistoryTypes
<1>9. ASSUME NEW k \in Key, RemoveDetails(t, k) \/ SetContactDetails(t, k) PROVE HistoryTypes'
  BY <1>1, <1>9 DEF RemoveDetails, SetContactDetails, Inserted, HistoryTypes
<1>10. CASE SetInNewTable(t)
  <2>1. thread[t].key \in Key
    BY <1>10 DEF SetInNewTable, At, LInv, Threads, ThreadSound
  <2> QED BY <1>1, <1>10, <2>1 DEF SetInNewTable, Inserted, HistoryTypes
<1> QED BY <1>3, <1>4, <1>5, <1>6, <1>7, <1>8, <1>9, <1>10
        DEF Proceed, LockMutex, LockKey, LockKeyTimesOut, LockDataTimesOut, LockDataCannotAttach, ContactDetails,
            EndIteration, BeginReallocation, ReallocationLocksMutex, ReallocationLocksKey, ReallocationTimesOut,
            RegionNotCreated, MigrationFails, Publish, SetFails

LEMMA LockInvariant ==
  ASSUME LInv, NEW t \in Thread, Effect(t), ThreadSound(t)',
         tableData' \in [Process -> Opened], \A p \in Process : TableSound(tableData'[p]),
         generation' \in 0..MaxGeneration, KeyAttached(tableData', thread') => generation' # 0,
         RegionsSound', HistoryTypes'
  PROVE  LInv'
<1>1. Threads'
  BY OtherThreads DEF Threads
<1>2. LockTypes' /\ thread' \in [Thread -> Access]
  BY LockTypesKept DEF Effect, OnlyThread
<1>3. TypeOK' <=> /\ LockTypes' /\ RegionTypes' /\ HistoryTypes'
                  /\ tableData' \in [Process -> Opened] /\ thread' \in [Thread -> Access]
  BY Types DEF TypeOK, LockTypes, RegionTypes, IsRegions, HistoryTypes, Opened, Access
<1>4. RegionTypes'
  BY DEF RegionTypes, RegionsSound
<1>5. Tables'
  BY DEF Tables, RegionsSound
<1>6. TypeOK'
  BY <1>2, <1>3, <1>4
<1> QED BY <1>1, <1>5, <1>6, MutexesKept, KeyLockKept, DataLockKept DEF LInv

LEMMA ProceedStep ==
  ASSUME LInv, NEW t \in Thread, Proceed(t)
  PROVE  LInv'
<1>1. Effect(t)
  BY LockEffects
<1>2. ThreadSound(t)'
  BY <1>1, ThreadKept
<1>3. tableData' \in [Process -> Opened] /\ \A p \in Process : TableSound(tableData'[p])
  BY TablesTyped
<1>4. generation' \in 0..MaxGeneration /\ (KeyAttached(tableData', thread') => generation' # 0)
  BY <1>1, <1>2, GenerationKept
<1>5. RegionsSound' /\ IsRegions(region')
  BY <1>1, RegionsKept DEF RegionsSound
<1>6. HistoryTypes'
  BY <1>4, <1>5, HistoryKept
<1> QED BY <1>1, <1>2, <1>3, <1>4, <1>5, <1>6, LockInvariant

LEMMA BeginStep ==
  ASSUME LInv, NEW t \in Thread, NEW p \in Process, Begin(t, p)
  PROVE  LInv'
<1> DEFINE x == [Idle EXCEPT !.pc = "mutex", !.process = p, !.opening = ~tableData[p].open]
<1>1. /\ thread \in [Thread -> Access] /\ tableData \in [Process -> Opened] /\ HistoryTypes /\ LockTypes
      /\ generation \in 0..MaxGeneration /\ RegionsSound /\ thread[t].pc = "idle"
      /\ thread' = [thread EXCEPT ![t] = x]
      /\ UNCHANGED <<semaphores, mutex, shared, tableData, history>>
  BY Types, RegionsOf DEF LInv, Begin, At, RegionTypes
<1>2. x \in Access /\ x.pc = "mutex" /\ x.process = p /\ x.opening = ~tableData[p].open
      /\ x.attempts = 0 /\ x.handle = 0 /\ x.next = 0
  <2>1. tableData[p].open \in BOOLEAN
    BY <1>1 DEF Opened
  <2>2. Idle \in Access
    BY IdleAccess
  <2>3. x \in Access
    BY <2>1, <2>2 DEF Access
  <2> QED BY <2>3 DEF Idle
<1> HIDE DEF x
<1>3. OnlyThread(t) /\ thread'[t] = x
  BY <1>1, <1>2 DEF OnlyThread
<1>4. Effect(t)
  BY <1>1, <1>2, <1>3 DEF Effect, KeyEffect, DataEffect, MutexEffect, TableEffect, HasKey, HasMutex, Holds,
     KeepKey, KeepData, semaphores, history
<1>5. ThreadSound(t)'
  BY <1>1, <1>2, <1>3 DEF ThreadSound, At, Holds, P, Data
<1>6. RegionsSound'
  <2>1. \A g \in Generations : Attached(g, tableData', thread') => Attached(g, tableData, thread)
    BY <1>1, <1>2, <1>3, KeptAttached
  <2> QED BY <1>1, <2>1 DEF RegionsSound, shared
<1>7. KeyAttached(tableData', thread') => generation' # 0
  BY <1>1, <1>2, <1>3 DEF KeyAttached, OnlyThread, shared, LInv, Tables
<1>8. HistoryTypes'
  BY <1>1 DEF HistoryTypes, history
<1>9. tableData' \in [Process -> Opened] /\ \A q \in Process : TableSound(tableData'[q])
  BY <1>1 DEF LInv, Tables
<1> QED BY <1>1, <1>4, <1>5, <1>6, <1>7, <1>8, <1>9, LockInvariant DEF shared


(***************************************************************************)
(* The end of a process.                                                   *)
(***************************************************************************)
LEMMA UndoneLock ==
  ASSUME NEW value \in Nat, NEW adjustment \in Int
  PROVE  /\ Undone(value, adjustment) \in Nat
         /\ value = 0 /\ adjustment = 1 => Undone(value, adjustment) = 1
         /\ adjustment = 0 => Undone(value, adjustment) = value
BY DEF Undone

LEMMA ProcessGone ==
  ASSUME LInv, NEW p \in Process, Undo(p),
         thread' \in [Thread -> Access],
         \A t \in Thread : thread'[t] = IF P(t) = p THEN Idle ELSE thread[t],
         mutex' \in [Process -> Thread \cup {None}],
         \A q \in Process \ {p} : mutex'[q] = mutex[q],
         tableData' = [tableData EXCEPT ![p] = NotOpen],
         generation' \in 0..MaxGeneration,
         KeyAttached(tableData', thread') => generation' = generation,
         IsRegions(region'),
         \A g \in Generations : Attached(g, tableData', thread') => region'[g] = region[g],
         HistoryTypes', UNCHANGED iterated
  PROVE  LInv'
<1>1. /\ LockTypes /\ RegionTypes /\ tableData \in [Process -> Opened] /\ thread \in [Thread -> Access]
      /\ Threads /\ Mutexes /\ KeyLock /\ (~iterated => OneDataLock) /\ Tables
  BY Types DEF LInv
<1>2. \A t \in Thread : ~At(t, "idle") => P(t) \in Process
  BY <1>1 DEF Threads, ThreadSound
<1>3. \A t \in Thread : /\ P(t) = p => thread'[t] = Idle /\ ~HasMutex(t)' /\ ~HasKey(t)' /\ ~Holds(t)'
                        /\ P(t) # p => /\ thread'[t] = thread[t] /\ P(t)' = P(t)
                                       /\ (HasMutex(t)' <=> HasMutex(t)) /\ (HasKey(t)' <=> HasKey(t))
                                       /\ (Holds(t)' <=> Holds(t))
  BY DEF Idle, HasMutex, HasKey, Holds, P
<1>4. LockTypes'
  <2>1. /\ keySemaphore \in Nat /\ keyUndo[p] \in Int /\ keyUndo \in [Process -> Int]
        /\ dataSemaphore \in Nat /\ dataUndo[p] \in Int /\ dataUndo \in [Process -> Int]
    BY <1>1 DEF LockTypes
  <2>2. Undone(keySemaphore, keyUndo[p]) \in Nat /\ Undone(dataSemaphore, dataUndo[p]) \in Nat
    BY <2>1, UndoneLock
  <2> QED BY <2>1, <2>2 DEF LockTypes, Undo
<1>5. NotOpen \in Opened /\ TableSound(NotOpen)
  <2>1. 0 \in 0..MaxGeneration
    BY StoreAssumption
  <2> QED BY <2>1 DEF Opened, NotOpen, TableSound
<1>6. /\ tableData' \in [Process -> Opened] /\ tableData'[p] = NotOpen
      /\ \A q \in Process \ {p} : tableData'[q] = tableData[q]
  BY <1>1, <1>5
<1>7. Threads'
  <2> SUFFICES ASSUME NEW t \in Thread PROVE ThreadSound(t)'
    BY DEF Threads
  <2>1. CASE P(t) = p
    BY <1>3, <2>1, IdleSound
  <2>2. CASE P(t) # p
    <3>1. ThreadSound(t) /\ thread'[t] = thread[t] /\ (~At(t, "idle") => P(t) \in Process \ {p})
      BY <1>1, <1>2, <1>3, <2>2 DEF Threads
    <3>2. ~At(t, "idle") => Data(t)' = Data(t)
      BY <1>6, <3>1 DEF Data, P
    <3> QED BY <3>1, <3>2 DEF ThreadSound, At, P, Holds, NextGeneration
  <2> QED BY <2>1, <2>2
<1>8. Mutexes'
  <2>1. \A t \in Thread : HasMutex(t)' => P(t) \in Process \ {p} /\ P(t)' = P(t) /\ HasMutex(t)
    BY <1>2, <1>3 DEF HasMutex, At
  <2> QED BY <1>1, <2>1 DEF Mutexes
<1>9. KeyLock'
  <2>1. keySemaphore' = Undone(keySemaphore, keyUndo[p]) /\ keyUndo' = [keyUndo EXCEPT ![p] = 0]
    BY DEF Undo
  <2>2. keyUndo \in [Process -> Int] /\ keySemaphore \in Nat
    BY <1>1 DEF LockTypes
  <2>3. CASE \E t \in Thread : HasKey(t) /\ P(t) = p
    <3>1. keyUndo[p] = 1 /\ keySemaphore = 0 /\ \A u \in Thread : HasKey(u) => P(u) = p
      BY <1>1, <2>3 DEF KeyLock
    <3>2. keySemaphore' = 1 /\ \A u \in Thread : ~HasKey(u)'
      BY <1>3, <2>1, <2>2, <3>1, UndoneLock
    <3>3. \A q \in Process : keyUndo'[q] = 0
      BY <1>1, <2>1, <2>2, <3>1 DEF KeyLock
    <3> QED BY <3>2, <3>3 DEF KeyLock
  <2>4. CASE ~\E t \in Thread : HasKey(t) /\ P(t) = p
    <3>1. keyUndo[p] = 0 /\ \A u \in Thread : (HasKey(u)' <=> HasKey(u)) /\ (HasKey(u) => P(u)' = P(u))
      BY <1>1, <1>3, <2>4 DEF KeyLock
    <3>2. keySemaphore' = keySemaphore /\ keyUndo' = keyUndo
      BY <2>1, <2>2, <3>1, UndoneLock
    <3> QED BY <1>1, <3>1, <3>2 DEF KeyLock
  <2> QED BY <2>3, <2>4
<1>10. ASSUME ~iterated PROVE OneDataLock'
  <2>1. dataSemaphore' = Undone(dataSemaphore, dataUndo[p]) /\ dataUndo' = [dataUndo EXCEPT ![p] = 0]
    BY DEF Undo
  <2>2. dataUndo \in [Process -> Int] /\ dataSemaphore \in Nat
    BY <1>1 DEF LockTypes
  <2>3. CASE \E t \in Thread : Holds(t) /\ P(t) = p
    <3>1. dataUndo[p] = 1 /\ dataSemaphore = 0 /\ \A u \in Thread : Holds(u) => P(u) = p
      BY <1>1, <1>10, <2>3 DEF OneDataLock
    <3>2. dataSemaphore' = 1 /\ \A u \in Thread : ~Holds(u)'
      BY <1>3, <2>1, <2>2, <3>1, UndoneLock
    <3>3. \A q \in Process : dataUndo'[q] = 0
      BY <1>1, <1>10, <2>1, <2>2, <3>1 DEF OneDataLock
    <3> QED BY <3>2, <3>3 DEF OneDataLock
  <2>4. CASE ~\E t \in Thread : Holds(t) /\ P(t) = p
    <3>1. dataUndo[p] = 0 /\ \A u \in Thread : (Holds(u)' <=> Holds(u)) /\ (Holds(u) => P(u)' = P(u))
      BY <1>1, <1>3, <1>10, <2>4 DEF OneDataLock
    <3>2. dataSemaphore' = dataSemaphore /\ dataUndo' = dataUndo
      BY <2>1, <2>2, <3>1, UndoneLock
    <3> QED BY <1>1, <1>10, <3>1, <3>2 DEF OneDataLock
  <2> QED BY <2>3, <2>4
<1>11. KeyAttached(tableData', thread') => KeyAttached(tableData, thread)
  <2>1. \A q \in Process : tableData'[q].open => tableData[q].open
    BY <1>6 DEF NotOpen
  <2>2. \A t \in Thread : thread'[t].opening => thread'[t] = thread[t]
    BY <1>3 DEF Idle
  <2> QED BY <2>1, <2>2 DEF KeyAttached
<1>12. \A g \in Generations : Attached(g, tableData', thread') => Attached(g, tableData, thread)
  <2>1. \A g \in Generations : g # 0
    BY DEF Generations
  <2>2. \A q \in Process : tableData'[q].region \in {0, tableData[q].region}
    BY <1>6 DEF NotOpen
  <2>3. \A t \in Thread : thread'[t].handle \in {0, thread[t].handle} /\ thread'[t].next \in {0, thread[t].next}
    BY <1>3 DEF Idle
  <2> QED BY <2>1, <2>2, <2>3 DEF Attached
<1>13. Tables'
  <2>1. \A q \in Process : TableSound(tableData'[q])
    BY <1>1, <1>5, <1>6 DEF Tables
  <2>2. KeyAttached(tableData', thread') => generation' # 0
    BY <1>1, <1>11 DEF Tables
  <2>3. \A g \in Generations : Attached(g, tableData', thread') => Exists(region'[g])
    BY <1>1, <1>12 DEF Tables
  <2> QED BY <2>1, <2>2, <2>3 DEF Tables
<1>14. TypeOK' <=> /\ LockTypes' /\ RegionTypes' /\ HistoryTypes'
                  /\ tableData' \in [Process -> Opened] /\ thread' \in [Thread -> Access]
  BY Types DEF TypeOK, LockTypes, RegionTypes, IsRegions, HistoryTypes, Opened, Access
<1>15. TypeOK'
  BY <1>4, <1>6, <1>14 DEF RegionTypes
<1> QED BY <1>7, <1>8, <1>9, <1>10, <1>13, <1>15 DEF LInv

LEMMA ExitStep ==
  ASSUME LInv, NEW p \in Process, Exit(p)
  PROVE  LInv'
<1>1. /\ thread \in [Thread -> Access] /\ HistoryTypes /\ IsRegions(region) /\ generation \in 0..MaxGeneration
      /\ mutex \in [Process -> Thread \cup {None}]
  BY Types DEF LInv, RegionTypes, LockTypes
<1>2. /\ UNCHANGED <<thread, mutex>> /\ \A t \in Thread : P(t) # p
      /\ tableData' = [tableData EXCEPT ![p] = NotOpen] /\ Undo(p)
      /\ region' = Detached(region, {tableData[p].region}, tableData', thread')
      /\ generation' = KeyDetached(tableData', thread') /\ StoreKept
  BY DEF Exit
<1>3. IsRegions(region') /\ \A g \in Generations : Attached(g, tableData', thread') => region'[g] = region[g]
  BY <1>1, <1>2, DetachedRegions
<1>4. generation' \in 0..MaxGeneration /\ (KeyAttached(tableData', thread') => generation' = generation)
  BY <1>1, <1>2, StoreAssumption DEF KeyDetached
<1>5. HistoryTypes' /\ UNCHANGED iterated
  BY <1>1, <1>2, <1>3, <1>4, StoreKeptTyped, StillIterated
<1> QED BY <1>1, <1>2, <1>3, <1>4, <1>5, ProcessGone

LEMMA CrashStep ==
  ASSUME LInv, NEW p \in Process, Crash(p)
  PROVE  LInv'
<1>1. /\ thread \in [Thread -> Access] /\ HistoryTypes /\ IsRegions(region) /\ generation \in 0..MaxGeneration
      /\ mutex \in [Process -> Thread \cup {None}]
  BY Types DEF LInv, RegionTypes, LockTypes
<1>2. /\ thread' = [t \in Thread |-> IF P(t) = p THEN Idle ELSE thread[t]]
      /\ mutex' = [mutex EXCEPT ![p] = None] /\ tableData' = [tableData EXCEPT ![p] = NotOpen] /\ Undo(p)
      /\ UNCHANGED <<generation, region, stored, revived, iterated>>
  BY DEF Crash, shared, history
<1>3. thread' \in [Thread -> Access] /\ \A t \in Thread : thread'[t] = IF P(t) = p THEN Idle ELSE thread[t]
  BY <1>1, <1>2, IdleAccess
<1>4. mutex' \in [Process -> Thread \cup {None}] /\ \A q \in Process \ {p} : mutex'[q] = mutex[q]
  BY <1>1, <1>2
<1>5. HistoryTypes' /\ IsRegions(region')
  BY <1>1, <1>2 DEF HistoryTypes
<1> QED BY <1>1, <1>2, <1>3, <1>4, <1>5, ProcessGone

\* LInv holds at the beginning and is kept by every step.
LEMMA Initially == Init => LInv
<1> SUFFICES ASSUME Init PROVE LInv
  OBVIOUS
<1>1. /\ \A t \in Thread : thread[t] = Idle
      /\ \A p \in Process : tableData[p] = NotOpen /\ keyUndo[p] = 0 /\ dataUndo[p] = 0
      /\ generation = 0 /\ keySemaphore = 1 /\ dataSemaphore = 1
  BY DEF Init
<1>2. \A t \in Thread : ~Holds(t) /\ ~HasKey(t) /\ ~HasMutex(t)
  BY <1>1 DEF Holds, HasKey, HasMutex, Idle
<1>3. Threads
  <2> SUFFICES ASSUME NEW t \in Thread PROVE ThreadSound(t)
    BY DEF Threads
  <2>1. thread[t] = Idle
    BY <1>1
  <2>2. Idle.pc = "idle" /\ ~Idle.opening /\ Idle.handle = 0 /\ Idle.next = 0
    BY DEF Idle
  <2> QED BY <2>1, <2>2 DEF ThreadSound, At, Holds
<1>4. Mutexes /\ KeyLock /\ OneDataLock
  BY <1>1, <1>2 DEF Mutexes, KeyLock, OneDataLock
<1>5. Tables
  BY <1>1 DEF Tables, TableSound, KeyAttached, Attached, Idle, NotOpen, Generations
<1>6. TypeOK
  <2>1. LockTypes /\ HistoryTypes
    <3>1. mutex \in [Process -> Thread \cup {None}]
      BY DEF Init
    <3>2. keyUndo \in [Process -> Int] /\ dataUndo \in [Process -> Int]
      BY DEF Init
    <3>3. HistoryTypes
      BY Zenon DEF Init, HistoryTypes
    <3> QED BY <1>1, <3>1, <3>2, <3>3 DEF LockTypes
  <2>2. RegionTypes
    <3>1. NoRegion \in [size : Nat, keys : SUBSET Key] /\ Cardinality(NoRegion.keys) <= NoRegion.size
      BY FS_EmptySet DEF NoRegion
    <3> QED BY <3>1, StoreAssumption DEF Init, RegionTypes, IsRegions
  <2>3. tableData \in [Process -> Opened] /\ thread \in [Thread -> Access]
    BY IdleAccess, StoreAssumption DEF Init, Opened, NotOpen
  <2> QED BY <2>1, <2>2, <2>3, Types
<1> QED BY <1>3, <1>4, <1>5, <1>6 DEF LInv

LEMMA Stutter == LInv /\ UNCHANGED vars => LInv'
<1> SUFFICES ASSUME LInv, UNCHANGED vars PROVE LInv'
  OBVIOUS
<1>1. /\ UNCHANGED <<keySemaphore, dataSemaphore, keyUndo, dataUndo, mutex, generation, region, tableData, thread>>
      /\ UNCHANGED <<stored, revived, iterated>>
  BY DEF vars, semaphores, shared, history
<1>2. TypeOK' /\ Tables'
  BY <1>1 DEF LInv, TypeOK, Tables
<1>3. Threads' /\ Mutexes'
  BY <1>1 DEF LInv, Threads, ThreadSound, Mutexes, At, P, Data, Holds, HasMutex, NextGeneration
<1>4. KeyLock' /\ (~iterated' => OneDataLock')
  BY <1>1 DEF LInv, KeyLock, OneDataLock, HasKey, Holds, P
<1> QED BY <1>2, <1>3, <1>4 DEF LInv

LEMMA NextStep == LInv /\ [Next]_vars => LInv'
<1> SUFFICES ASSUME LInv, Next PROVE LInv'
  BY Stutter
<1>1. ASSUME NEW t \in Thread, Proceed(t) PROVE LInv'
  BY <1>1, ProceedStep
<1>2. ASSUME NEW p \in Process, Exit(p) \/ Crash(p) PROVE LInv'
  BY <1>2, ExitStep, CrashStep
<1>3. ASSUME NEW p \in Process, NEW t \in Thread, Begin(t, p) PROVE LInv'
  BY <1>3, BeginStep
<1> QED BY <1>1, <1>2, <1>3 DEF Next

\* The inductive invariant of the locks, the threads and the regions.
THEOREM Invariance == Spec => []LInv
<1>1. Init => LInv
  BY Initially
<1>2. LInv /\ [Next]_vars => LInv'
  BY NextStep
<1> QED BY <1>1, <1>2, PTL DEF Spec

\* Every variable has its type, and no region has more keys than it has room for
\* (contactstransientstore.cpp, SharedMemoryManager).
THEOREM TypeInvariant == Spec => []TypeOK
<1>1. LInv => TypeOK
  BY DEF LInv
<1> QED BY <1>1, Invariance, PTL

\* One thread of one process is in the data at a time, whoever times out, exits or dies, as
\* long as nobody has iterated over a table: acquire and release of the data semaphore
\* (contactstransientstore.cpp:83) match, and the kernel undoes those of the dead.
THEOREM DataLockExcludes == Spec => []DataExcludes
<1>1. LInv => DataExcludes
  BY DEF LInv, OneDataLock, DataExcludes
<1> QED BY <1>1, Invariance, PTL

(***************************************************************************)
(* The store that all share.  Current is the region that the key region    *)
(* names, directly or as the previous generation.                          *)
(***************************************************************************)
Current == IF generation = 0 THEN 0 ELSE AttachableRegion(generation)

\* What a process has open is no newer than the store, and the current region
\* if it is as new.
TableNewest(p) ==
  tableData[p].open =>
    /\ tableData[p].generation <= generation /\ tableData[p].region <= generation
    /\ tableData[p].generation = generation => tableData[p].region = Current

\* Who is in the data is in the current region, and migrates it to the next.
HolderNewest(t) ==
  Holds(t) =>
    /\ Data(t).generation = generation /\ Data(t).region = Current /\ InUse(t) = Current
    /\ thread[t].handle <= generation
    /\ At(t, "publish") => thread[t].next = AttachableRegion(generation + 1)

Newest == (\A p \in Process : TableNewest(p)) /\ (\A t \in Thread : HolderNewest(t))

\* What was stored is in the current region, and what is there was stored or is revived; a
\* migration copies all of it.
Contents ==
  IF Current = 0 THEN stored = {}
  ELSE /\ stored \subseteq region[Current].keys
       /\ Attached(Current, tableData, thread) => region[Current].keys \subseteq stored \cup revived
       /\ \A t \in Thread : At(t, "publish") =>
            /\ region[Current].keys \subseteq region[thread[t].next].keys
            /\ region[thread[t].next].keys \subseteq stored \cup revived

SInv == LInv /\ (~iterated => Newest /\ Contents)

LEMMA CurrentOf ==
  ASSUME LInv
  PROVE  /\ Current \in 0..MaxGeneration
         /\ Current # 0 =>
              /\ Current \in Generations /\ generation \in Generations /\ Exists(region[Current])
              /\ Current = generation \/ (Current = generation - 1 /\ ~Exists(region[generation]))
         /\ generation # 0 => Current = AttachableRegion(generation)
BY Generation, StoreAssumption DEF Current, AttachableRegion, Generations

LEMMA CurrentKept ==
  ASSUME LInv, generation' = generation, Current # 0 => Exists(region'[Current]),
         \A g \in Generations : g <= generation /\ Exists(region'[g]) => Exists(region[g])
  PROVE  Current' = Current
<1>1. CASE generation = 0
  BY <1>1 DEF Current
<1>2. CASE generation # 0
  <2>1. generation \in Generations /\ (generation > 1 => generation - 1 \in Generations)
    BY <1>2, Generation DEF Generations
  <2>2. generation \in Nat
    BY Generation
  <2>3. (Exists(region'[generation]) => Exists(region[generation]))
        /\ (generation > 1 /\ Exists(region'[generation - 1]) => Exists(region[generation - 1]))
    BY <2>1, <2>2
  <2>4. Current # 0 => Exists(region'[Current])
    OBVIOUS
  <2> QED BY <1>2, <2>2, <2>3, <2>4 DEF Current, AttachableRegion
<1> QED BY <1>1, <1>2

LEMMA Alone ==
  ASSUME LInv, ~iterated, NEW t \in Thread, Holds(t)
  PROVE  \A u \in Thread \ {t} : ~Holds(u)
BY DEF LInv, OneDataLock

LEMMA Nobody ==
  ASSUME LInv, ~iterated, dataSemaphore > 0
  PROVE  \A u \in Thread : ~Holds(u)
BY DEF LInv, OneDataLock

\* Who is in the data is in the current region.
LEMMA InData ==
  ASSUME LInv, Newest, NEW t \in Thread, Holds(t)
  PROVE  /\ generation \in Generations /\ Current \in Generations /\ InUse(t) = Current
         /\ Data(t).region = Current /\ Data(t).generation = generation /\ thread[t].handle <= generation
         /\ P(t) \in Process /\ ~At(t, "idle")
         /\ Attached(Current, tableData, thread)
<1>1. Data(t).region \in Generations /\ Data(t).open /\ P(t) \in Process /\ ~At(t, "idle")
  BY HandleOf
<1>2. generation \in Generations
  BY <1>1, KeyHolderAttached
<1>3. /\ Data(t).generation = generation /\ Data(t).region = Current /\ InUse(t) = Current
      /\ thread[t].handle <= generation
  BY DEF Newest, HolderNewest
<1>4. Attached(Current, tableData, thread)
  BY <1>1, <1>3 DEF Attached, Data
<1> QED BY <1>1, <1>2, <1>3, <1>4

LEMMA StoreKeptCurrent ==
  ASSUME LInv, StoreKept, generation' = generation, Current # 0 => Exists(region'[Current]),
         Contents
  PROVE  IF Current = 0 THEN stored' = {} ELSE UNCHANGED <<stored, revived>>
<1>1. CASE Current = 0
  <2>1. stored = {}
    BY <1>1 DEF Contents
  <2> QED BY <1>1, <2>1 DEF StoreKept, history
<1>2. CASE Current # 0
  <2>1. generation # 0 /\ Current = AttachableRegion(generation)
    BY <1>2 DEF Current
  <2> QED BY <1>2, <2>1 DEF StoreKept, history
<1> QED BY <1>1, <1>2

\* A thread goes on or ends, but the data, the stores and the generation stay.
LEMMA Quiet ==
  ASSUME LInv, Newest, Contents, NEW t \in Thread, OnlyThread(t),
         UNCHANGED <<region, tableData, generation>>,
         UNCHANGED <<stored, revived>> \/ StoreKept,
         thread'[t].handle \in {0, thread[t].handle}, thread'[t].next \in {0, thread[t].next},
         thread'[t].pc # "publish",
         Holds(t)' => /\ Holds(t) /\ P(t)' = P(t) /\ thread'[t].handle = thread[t].handle
                      /\ ~At(t, "insert") /\ thread'[t].pc # "insert"
  PROVE  Newest' /\ Contents'
<1>1. Current' = Current
  BY DEF Current, AttachableRegion
<1>2. /\ \A p \in Process : TableNewest(p)
      /\ \A u \in Thread : HolderNewest(u)
  BY DEF Newest
<1>3. \A p \in Process : TableNewest(p)'
  BY <1>1, <1>2 DEF TableNewest
<1>4. ASSUME NEW u \in Thread \ {t} PROVE HolderNewest(u)'
  <2>1. thread'[u] = thread[u] /\ HolderNewest(u)
    BY <1>2 DEF OnlyThread
  <2> QED BY <1>1, <2>1 DEF HolderNewest, Holds, Data, P, InUse, At, AttachableRegion
<1>5. HolderNewest(t)'
  BY <1>1, <1>2 DEF HolderNewest, Data, InUse, At, P
<1>6. Newest'
  BY <1>3, <1>4, <1>5 DEF Newest
<1>7. Current # 0 => Current \in Generations /\ Exists(region'[Current])
  BY CurrentOf
<1>8. IF Current = 0 THEN stored' = {} ELSE UNCHANGED <<stored, revived>>
  BY <1>7, StoreKeptCurrent DEF Contents
<1>9. \A g \in Generations : Attached(g, tableData', thread') => Attached(g, tableData, thread)
  BY KeptAttached
<1>10. \A u \in Thread : At(u, "publish")' => At(u, "publish") /\ thread'[u].next = thread[u].next
  BY DEF OnlyThread, At
<1>11. Contents'
  <2>1. CASE Current = 0
    BY <1>1, <1>8, <2>1 DEF Contents
  <2>2. CASE Current # 0
    <3>1. stored' = stored /\ revived' = revived /\ region' = region
      BY <1>8, <2>2
    <3>2. stored' \subseteq region'[Current].keys
      BY <2>2, <3>1 DEF Contents
    <3>3. Attached(Current, tableData', thread') => region'[Current].keys \subseteq stored' \cup revived'
      BY <1>7, <1>9, <2>2, <3>1 DEF Contents
    <3>4. \A u \in Thread : At(u, "publish")' =>
            /\ region'[Current].keys \subseteq region'[thread'[u].next].keys
            /\ region'[thread'[u].next].keys \subseteq stored' \cup revived'
      BY <1>10, <2>2, <3>1 DEF Contents
    <3> QED BY <1>1, <2>2, <3>2, <3>3, <3>4 DEF Contents
  <2> QED BY <2>1, <2>2
<1> QED BY <1>6, <1>11

\* The access that has the data lock ends.
LEMMA Leaves ==
  ASSUME LInv, Newest, ~iterated, NEW t \in Thread, Holds(t), End(t), UNCHANGED <<generation, tableData>>,
         NEW R, IsRegions(R), Exists(R[Current]),
         \A g \in Generations : g <= generation /\ Exists(R[g]) => Exists(region[g]),
         NEW dropped, region' = Detached(R, dropped, tableData', thread'),
         stored' \subseteq R[Current].keys, R[Current].keys \subseteq stored' \cup revived'
  PROVE  Newest' /\ Contents'
<1>1. /\ Current \in Generations /\ generation \in Generations /\ ~At(t, "idle")
      /\ P(t) \in Process /\ Data(t).region = Current
  BY InData
<1>2. /\ \A g \in Generations : region'[g] = R[g] \/ region'[g] = NoRegion
      /\ \A g \in Generations : Attached(g, tableData', thread') => region'[g] = R[g]
  BY DetachedRegions
<1>3. region'[Current] = R[Current]
  BY <1>1, <1>2 DEF Attached, Data
<1>4. ~Exists(NoRegion)
  BY DEF Exists, NoRegion
<1>5. \A g \in Generations : g <= generation /\ Exists(region'[g]) => Exists(region[g])
  BY <1>2, <1>4
<1>6. Current' = Current
  BY <1>3, <1>5, CurrentKept
<1>7. \A u \in Thread : ~Holds(u)'
  <2>1. OnlyThread(t) /\ ~Holds(t)'
    BY <1>1, EndEffect
  <2>2. \A u \in Thread \ {t} : ~Holds(u)
    BY Alone
  <2> QED BY <2>1, <2>2, OthersStay
<1>8. \A u \in Thread : ~At(u, "publish")'
  BY <1>7 DEF Holds, At
<1>9. Newest'
  BY <1>6, <1>7 DEF Newest, TableNewest, HolderNewest
<1>10. Contents'
  <2>1. /\ stored' \subseteq region'[Current'].keys
        /\ region'[Current'].keys \subseteq stored' \cup revived'
    BY <1>3, <1>6
  <2>2. Current' # 0
    BY <1>1, <1>6 DEF Generations
  <2> QED BY <1>8, <2>1, <2>2 DEF Contents
<1> QED BY <1>9, <1>10

\* The key region is gone.
LEMMA KeyGone ==
  ASSUME LInv', generation' = 0, ~KeyAttached(tableData', thread'), StoreKept
  PROVE  Newest' /\ Contents'
<1>1. \A p \in Process : ~tableData'[p].open
  BY DEF KeyAttached
<1>2. \A u \in Thread : ~Holds(u)'
  BY <1>1 DEF LInv, Threads, ThreadSound, Holds, At, Data
<1>3. Current' = 0 /\ stored' = {}
  BY DEF Current, StoreKept
<1> QED BY <1>1, <1>2, <1>3 DEF Newest, TableNewest, HolderNewest, Contents

\* A region is emptied or one of the new generation is created when nobody is in the data.
LEMMA SharedOpen ==
  ASSUME LInv, Newest, Contents, ~iterated, NEW t \in Thread, NEW reinitialize \in BOOLEAN,
         LockDataToOpen(t, reinitialize)
  PROVE  Newest' /\ Contents'
<1> DEFINE r == DataRegion(generation)
           R == WithDataRegion(generation, InitialSize)
<1>1. /\ At(t, "data") /\ ~At(t, "idle") /\ End(t) /\ dataSemaphore > 0
      /\ generation' = generation
      /\ tableData' = [tableData EXCEPT ![P(t)] = [open |-> TRUE, generation |-> generation, region |-> r]]
      /\ \/ region' = Rekeyed(R, r, {}) /\ stored' = {} /\ revived' = {}
         \/ region' = R /\ R = region /\ stored' = stored /\ revived' = revived \cup Revives(r)
  BY DEF LockDataToOpen, At, Rekeyed
<1>2. /\ generation \in Generations /\ P(t) \in Process /\ DOMAIN tableData = Process
      /\ IsRegions(region) /\ \A p \in Process : TableSound(tableData[p])
  BY <1>1, KeyHolderAttached, ThreadOf, RegionsOf DEF HasKey, At, RegionsSound, LInv, Tables
<1>3. /\ r \in Generations /\ IsRegions(R) /\ Exists(R[r])
      /\ \A g \in Generations : Exists(region[g]) => R[g] = region[g]
      /\ \A g \in Generations \ {r} : R[g] = region[g]
      /\ Current = 0 => r = generation /\ R # region
      /\ Current # 0 => r = Current
  <2>1. Current = AttachableRegion(generation)
    BY <1>2, CurrentOf DEF Generations
  <2>2. /\ r \in Generations /\ IsRegions(R) /\ Exists(R[r])
        /\ \A g \in Generations : Exists(region[g]) => R[g] = region[g]
        /\ \A g \in Generations \ {r} : R[g] = region[g]
        /\ R[r] = region[r] \/ (r = generation /\ AttachableRegion(generation) = 0 /\ R[r].keys = {} /\ R # region)
    BY <1>2, StoreAssumption, NewRegion
  <2>3. Current # 0 => r = Current
    BY <2>1 DEF DataRegion
  <2>4. Current = 0 => r = generation /\ ~Exists(region[r])
    BY <1>2, <2>1, StoreAssumption DEF DataRegion, AttachableRegion, Generations
  <2>5. Current = 0 => R # region
    BY <2>2, <2>4
  <2> QED BY <2>2, <2>3, <2>4, <2>5
<1>4. r <= generation
  BY <1>2, <1>3, CurrentOf DEF Generations
<1> HIDE DEF r, R
<1>5. /\ Exists(region'[r]) /\ (region' = R \/ region'[r].keys = {})
      /\ \A g \in Generations \ {r} : region'[g] = region[g]
  <2>1. {} \in SUBSET Key /\ Cardinality({}) <= R[r].size
    BY <1>3, FS_EmptySet DEF IsRegions
  <2>2. CASE region' = Rekeyed(R, r, {})
    <3>1. /\ region'[r].keys = {} /\ region'[r].size = R[r].size
          /\ \A g \in Generations \ {r} : region'[g] = R[g]
      BY <1>3, <2>1, <2>2, KeysSet
    <3> QED BY <1>3, <3>1 DEF Exists
  <2> QED BY <1>1, <1>3, <2>2
<1>6. Current' = r
  <2>1. CASE Current = 0
    <3>1. generation # 0 /\ Exists(region'[generation])
      BY <1>2, <1>3, <1>5, <2>1 DEF Generations
    <3> QED BY <1>1, <1>3, <2>1, <3>1 DEF Current, AttachableRegion
  <2>2. CASE Current # 0
    <3>1. Exists(region[r]) /\ Exists(region'[Current])
      BY <1>3, <1>5, <2>2, CurrentOf
    <3>2. \A g \in Generations : Exists(region'[g]) => Exists(region[g])
      BY <1>5, <3>1
    <3> QED BY <1>1, <1>3, <2>2, <3>1, <3>2, CurrentKept
  <2> QED BY <2>1, <2>2
<1>7. \A u \in Thread : ~Holds(u) /\ ~Holds(u)' /\ ~At(u, "publish")'
  <2>1. \A u \in Thread : ~Holds(u)
    BY <1>1, Nobody
  <2>2. OnlyThread(t) /\ ~Holds(t)'
    BY <1>1, EndEffect
  <2>3. \A u \in Thread : ~Holds(u)'
    BY <2>1, <2>2, OthersStay
  <2> QED BY <2>1, <2>3 DEF Holds, At
<1>8. ASSUME NEW p \in Process PROVE TableNewest(p)'
  <2>1. CASE p = P(t)
    BY <1>1, <1>2, <1>4, <1>6, <2>1, CurrentOf DEF TableNewest, Generations
  <2>2. CASE p # P(t)
    <3>1. tableData'[p] = tableData[p] /\ TableNewest(p) /\ TableSound(tableData[p])
      BY <1>1, <1>2, <2>2 DEF Newest
    <3>2. tableData[p].open /\ tableData[p].generation = generation => tableData[p].region = r
      BY <1>3, <3>1 DEF TableNewest, TableSound
    <3> QED BY <1>1, <1>6, <3>1, <3>2 DEF TableNewest
  <2> QED BY <2>1, <2>2
<1>9. Newest'
  BY <1>7, <1>8 DEF Newest, HolderNewest
<1>10. Contents'
  <2>1. stored' \subseteq region'[r].keys /\ region'[r].keys \subseteq stored' \cup revived'
    <3>1. CASE region'[r].keys = {} /\ stored' = {}
      BY <3>1
    <3>2. CASE region' = R /\ R = region /\ stored' = stored /\ revived' = revived \cup Revives(r)
      <4>1. Current = r /\ r # 0
        BY <1>3, <3>2 DEF Generations
      <4>2. /\ stored \subseteq region[r].keys
            /\ Attached(r, tableData, thread) => region[r].keys \subseteq stored \cup revived
        BY <4>1 DEF Contents
      <4>3. ~Attached(r, tableData, thread) => Revives(r) = region[r].keys \ stored
        BY DEF Revives
      <4> QED BY <3>2, <4>2, <4>3
    <3>3. region' = Rekeyed(R, r, {}) => region'[r].keys = {}
      <4>1. {} \in SUBSET Key /\ Cardinality({}) <= R[r].size
        BY <1>3, FS_EmptySet DEF IsRegions
      <4> QED BY <1>3, <4>1, KeysSet
    <3> QED BY <1>1, <3>1, <3>2, <3>3
  <2> QED BY <1>3, <1>6, <1>7, <2>1 DEF Contents, Generations
<1> QED BY <1>9, <1>10

LEMMA SharedUse ==
  ASSUME LInv, Newest, Contents, ~iterated, NEW t \in Thread, LockDataToUse(t)
  PROVE  Newest' /\ Contents'
<1>1. /\ At(t, "data") /\ ~At(t, "idle") /\ ~thread[t].opening /\ dataSemaphore > 0 /\ HasKey(t)
      /\ generation' = generation /\ stored' = stored
  BY DEF LockDataToUse, AcquireData, At, HasKey
<1>2. /\ P(t) \in Process /\ Data(t).open /\ Data(t) \in Opened /\ generation \in Generations
      /\ tableData \in [Process -> Opened] /\ thread \in [Thread -> Access] /\ thread[t] \in Access
      /\ IsRegions(region)
  BY <1>1, ThreadOf, KeyHolderAttached, Types, RegionsOf DEF LInv, RegionsSound
<1>3. PICK r : /\ r = (IF NeedsAttach(t) THEN AttachableRegion(generation) ELSE Data(t).region) /\ r # 0
               /\ tableData' = [tableData EXCEPT ![P(t)].region = r,
                                  ![P(t)].generation = IF NeedsAttach(t) THEN generation ELSE @]
               /\ thread' = [thread EXCEPT ![t].pc = "use", ![t].handle = r]
               /\ region' = Detached(region, {Data(t).region}, tableData', thread')
               /\ revived' = revived \cup Revives(r)
  BY DEF LockDataToUse
<1>4. r = Current
  <2>1. CASE NeedsAttach(t)
    BY <1>2, <1>3, <2>1, CurrentOf DEF Generations
  <2>2. CASE ~NeedsAttach(t)
    <3>1. TableNewest(P(t))
      BY <1>2 DEF Newest
    <3> QED BY <1>2, <1>3, <2>2, <3>1 DEF TableNewest, NeedsAttach, Data
  <2> QED BY <2>1, <2>2
<1>5. r \in Generations /\ r <= generation /\ Exists(region[r])
  BY <1>2, <1>3, <1>4, CurrentOf DEF Generations
<1>6. /\ tableData'[P(t)].region = r /\ tableData'[P(t)].generation = generation
      /\ \A p \in Process \ {P(t)} : tableData'[p] = tableData[p]
  BY <1>2, <1>3 DEF Opened, NeedsAttach, Data
<1>7. /\ OnlyThread(t) /\ P(t)' = P(t) /\ thread'[t].pc = "use" /\ thread'[t].handle = r
  <2>1. thread'[t] = [thread[t] EXCEPT !.pc = "use", !.handle = r] /\ \A u \in Thread \ {t} : thread'[u] = thread[u]
    BY <1>2, <1>3 DEF Access
  <2>2. thread'[t] \in Access
    <3>1. r \in 0..MaxGeneration
      BY <1>4, CurrentOf
    <3> QED BY <1>2, <2>1, <3>1 DEF Access
  <2>3. thread' \in [Thread -> Access]
    BY <1>2, <1>3, <2>1, <2>2
  <2> QED BY <1>2, <2>1, <2>3 DEF OnlyThread, Access, P
<1>8. /\ \A g \in Generations : region'[g] = region[g] \/ region'[g] = NoRegion
      /\ \A g \in Generations : Attached(g, tableData', thread') => region'[g] = region[g]
  BY <1>2, <1>3, DetachedRegions
<1>9. region'[r] = region[r]
  BY <1>2, <1>5, <1>6, <1>8 DEF Attached
<1>10. Current' = r
  <2>1. ~Exists(NoRegion)
    BY DEF Exists, NoRegion
  <2>2. \A g \in Generations : Exists(region'[g]) => Exists(region[g])
    BY <1>8, <2>1
  <2> QED BY <1>1, <1>4, <1>5, <1>9, <2>2, CurrentKept
<1>11. \A u \in Thread \ {t} : ~Holds(u)'
  BY <1>1, <1>7, Nobody, OthersStay
<1>12. HolderNewest(t)'
  BY <1>1, <1>5, <1>6, <1>7, <1>10 DEF HolderNewest, Data, InUse, At
<1>13. \A p \in Process : TableNewest(p)'
  BY <1>1, <1>4, <1>5, <1>6, <1>10, Generation DEF Newest, TableNewest
<1>14. Newest'
  BY <1>11, <1>12, <1>13 DEF Newest, HolderNewest
<1>15. \A u \in Thread : ~At(u, "publish")'
  BY <1>7, <1>11 DEF Holds, At
<1>16. /\ stored \subseteq region[r].keys
       /\ Attached(r, tableData, thread) => region[r].keys \subseteq stored \cup revived
       /\ ~Attached(r, tableData, thread) => Revives(r) = region[r].keys \ stored
  BY <1>3, <1>4 DEF Contents, Revives
<1>17. stored' \subseteq region'[r].keys /\ region'[r].keys \subseteq stored' \cup revived'
  BY <1>1, <1>3, <1>9, <1>16
<1>18. Contents'
  BY <1>3, <1>10, <1>15, <1>17 DEF Contents
<1> QED BY <1>14, <1>18

\* Nobody has the region of the next generation before it is published.
LEMMA NextNotAttached ==
  ASSUME LInv, Newest, ~iterated, NEW t \in Thread, At(t, "migrate"), NextGeneration(t) \in Generations
  PROVE  ~Attached(NextGeneration(t), tableData, thread)
<1>1. Holds(t) /\ ~At(t, "idle")
  BY DEF Holds, At
<1>2. /\ generation \in Generations /\ generation \in Nat /\ NextGeneration(t) = generation + 1
      /\ thread[t].handle <= generation
  BY <1>1, InData DEF NextGeneration, Generations
<1>3. \A p \in Process : tableData[p].region \in Nat /\ tableData[p].region <= generation
  <2> SUFFICES ASSUME NEW p \in Process PROVE tableData[p].region \in Nat /\ tableData[p].region <= generation
    OBVIOUS
  <2>1. tableData[p] \in Opened /\ TableSound(tableData[p]) /\ TableNewest(p)
    BY Types DEF LInv, Tables, Newest
  <2> QED BY <1>2, <2>1 DEF Opened, TableSound, TableNewest, NotOpen
<1>4. \A u \in Thread : /\ thread[u].handle \in Nat /\ thread[u].handle <= generation
                        /\ thread[u].next = 0
  <2> SUFFICES ASSUME NEW u \in Thread
               PROVE  thread[u].handle \in Nat /\ thread[u].handle <= generation /\ thread[u].next = 0
    OBVIOUS
  <2>1. thread[u] \in Access /\ ThreadSound(u)
    BY Types DEF LInv, Threads
  <2>2. CASE u = t
    BY <1>2, <2>1, <2>2 DEF Access, ThreadSound, At
  <2>3. CASE u # t
    <3>1. ~Holds(u)
      BY <1>1, <2>3, Alone
    <3> QED BY <1>2, <2>1, <3>1 DEF ThreadSound, Holds
  <2> QED BY <2>2, <2>3
<1> QED BY <1>2, <1>3, <1>4 DEF Attached

LEMMA SharedMigrate ==
  ASSUME LInv, Newest, Contents, ~iterated, NEW t \in Thread, Migrate(t)
  PROVE  Newest' /\ Contents'
<1> DEFINE R == NextRegions(t)
           r == NextRegion(t)
           g == NextGeneration(t)
           K == R[r].keys \cup Migrated(t)
<1>1. /\ At(t, "migrate") /\ ~At(t, "idle") /\ Holds(t) /\ g \in Generations
      /\ UNCHANGED <<tableData, generation, stored>>
      /\ region' = [R EXCEPT ![r].keys = @ \cup Migrated(t)] /\ Migrates(t)
      /\ revived' = revived \cup Revives(r)
      /\ thread' = [thread EXCEPT ![t].pc = "publish", ![t].next = r]
  BY DEF Migrate, At, Holds
<1>2. /\ generation \in Generations /\ generation \in Nat /\ Current \in Generations /\ g = generation + 1
      /\ InUse(t) = Current /\ thread[t].handle = Current /\ Data(t).region = Current
      /\ Data(t).generation = generation /\ thread[t].handle <= generation
      /\ Attached(Current, tableData, thread) /\ Migrated(t) = region[Current].keys /\ Exists(region[Current])
  BY <1>1, InData, CurrentOf DEF NextGeneration, Generations, InUse, At, Migrated
<1>3. /\ r \in Generations /\ IsRegions(R) /\ Exists(R[r])
      /\ \A i \in Generations : Exists(region[i]) => R[i] = region[i]
      /\ \A i \in Generations \ {r} : R[i] = region[i]
      /\ R[r] = region[r] \/ (r = g /\ R[r].keys = {})
      /\ r = g \/ (r = generation /\ ~Exists(region[g]))
      /\ Migrated(t) \in SUBSET Key
  BY <1>1, <1>2, NextRegionOf
<1>4. Cardinality(K) <= R[r].size
  <2>1. Cardinality(Migrated(t) \cup R[r].keys) <= R[r].size
    BY <1>1 DEF Migrates
  <2>2. K = Migrated(t) \cup R[r].keys
    OBVIOUS
  <2> QED BY <2>1, <2>2
<1>5. r = generation => r = Current
  <2>1. r = generation => Exists(region[generation])
    BY <1>2, <1>3
  <2> QED BY <1>2, <2>1, CurrentOf DEF Generations
<1>6. thread \in [Thread -> Access] /\ thread[t] \in Access
  BY <1>1, ThreadOf
<1> HIDE DEF R, r, g
<1>7. /\ thread'[t].pc = "publish" /\ thread'[t].next = r /\ thread'[t].handle = thread[t].handle
      /\ P(t)' = P(t) /\ \A u \in Thread \ {t} : thread'[u] = thread[u]
  BY <1>1, <1>6 DEF Access, P
<1>8. region' = Rekeyed(R, r, K)
  BY <1>1, <1>3 DEF Rekeyed, IsRegions
<1>9. K \in SUBSET Key
  BY <1>3 DEF IsRegions
<1> HIDE DEF K
<1>10. /\ region'[r].keys = K /\ region'[r].size = R[r].size
       /\ \A i \in Generations \ {r} : region'[i] = R[i]
  BY <1>3, <1>4, <1>8, <1>9, KeysSet
<1>11. /\ K = R[r].keys \cup region[Current].keys /\ region[Current].keys \subseteq K
       /\ r = Current => R[r] = region[Current] /\ K = region[Current].keys
  BY <1>2, <1>3 DEF K
<1>12. Exists(region'[r]) /\ Exists(region'[Current]) /\ region'[Current].keys = region[Current].keys
  <2>1. Exists(region'[r])
    BY <1>3, <1>10 DEF Exists
  <2>2. CASE r = Current
    BY <1>10, <1>11, <2>1, <2>2
  <2>3. CASE r # Current
    BY <1>2, <1>3, <1>10, <2>1, <2>3
  <2> QED BY <2>2, <2>3
<1>13. Current' = Current
  <2>1. \A i \in Generations : i <= generation /\ Exists(region'[i]) => Exists(region[i])
    <3> SUFFICES ASSUME NEW i \in Generations, i <= generation, Exists(region'[i]) PROVE Exists(region[i])
      OBVIOUS
    <3>1. CASE i = r
      <4>1. r # g
        BY <1>2, <3>1
      <4> QED BY <1>2, <1>3, <1>5, <3>1, <4>1
    <3>2. CASE i # r
      BY <1>3, <1>10, <3>2
    <3> QED BY <3>1, <3>2
  <2> QED BY <1>1, <1>12, <2>1, CurrentKept
<1>14. r = AttachableRegion(generation + 1)'
  <2>1. CASE r = g
    BY <1>1, <1>2, <1>12, <2>1 DEF AttachableRegion
  <2>2. CASE r = generation /\ r # g /\ ~Exists(region[g])
    <3>1. ~Exists(region'[g])
      BY <1>1, <1>3, <1>10, <2>2
    <3>2. generation + 1 > 1 /\ (generation + 1) - 1 = generation
      BY <1>2 DEF Generations
    <3> QED BY <1>1, <1>2, <1>12, <2>2, <3>1, <3>2 DEF AttachableRegion
  <2> QED BY <1>2, <1>3, <2>1, <2>2
<1>15. \A u \in Thread \ {t} : ~Holds(u) /\ ~Holds(u)' /\ ~At(u, "publish")'
  <2>1. \A u \in Thread \ {t} : ~Holds(u)
    BY <1>1, Alone
  <2> QED BY <1>7, <2>1 DEF Holds, At
<1>16. HolderNewest(t)'
  <2>1. Data(t)' = Data(t) /\ InUse(t)' = thread[t].handle /\ (generation + 1)' = generation + 1
    BY <1>1, <1>7 DEF Data, InUse, At
  <2>2. thread'[t].next = AttachableRegion(generation + 1)'
    BY <1>7, <1>14
  <2> QED BY <1>1, <1>2, <1>7, <1>13, <2>1, <2>2 DEF HolderNewest
<1>17. \A p \in Process : TableNewest(p)'
  BY <1>1, <1>13 DEF Newest, TableNewest
<1>18. Newest'
  BY <1>15, <1>16, <1>17 DEF Newest, HolderNewest
<1>19. /\ stored \subseteq region[Current].keys /\ region[Current].keys \subseteq stored \cup revived
  BY <1>2 DEF Contents, Generations
<1>20. K \subseteq stored' \cup revived'
  <2>1. R[r].keys \subseteq stored \cup revived \cup Revives(r)
    <3>1. CASE R[r].keys = {}
      BY <3>1
    <3>2. CASE r = Current
      BY <1>11, <1>19, <3>2
    <3>3. CASE r = g /\ R[r] = region[r]
      <4>1. ~Attached(r, tableData, thread)
        BY <1>1, <3>3, NextNotAttached DEF g
      <4> QED BY <3>3, <4>1 DEF Revives
    <3> QED BY <1>3, <1>5, <3>1, <3>2, <3>3
  <2> QED BY <1>1, <1>11, <1>19, <2>1
<1>21. Contents'
  <2>1. Current' # 0 /\ stored' \subseteq region'[Current'].keys
        /\ region'[Current'].keys \subseteq stored' \cup revived'
    BY <1>1, <1>2, <1>12, <1>13, <1>19 DEF Generations
  <2>2. \A u \in Thread : At(u, "publish")' => thread'[u].next = r
    BY <1>7, <1>15
  <2>3. region'[Current'].keys \subseteq region'[r].keys /\ region'[r].keys \subseteq stored' \cup revived'
    BY <1>10, <1>11, <1>12, <1>13, <1>20
  <2> QED BY <2>1, <2>2, <2>3 DEF Contents
<1> QED BY <1>18, <1>21

LEMMA SharedPublish ==
  ASSUME LInv, Newest, Contents, ~iterated, NEW t \in Thread, Publish(t)
  PROVE  Newest' /\ Contents'
<1> DEFINE next == thread[t].next
<1>1. /\ At(t, "publish") /\ ~At(t, "idle") /\ Holds(t) /\ Goto(t, "insert")
      /\ generation' = NextGeneration(t) /\ UNCHANGED <<region, stored, revived>>
      /\ tableData' = [tableData EXCEPT ![P(t)].generation = NextGeneration(t), ![P(t)].region = next]
  BY DEF Publish, At, Holds, history
<1>2. /\ generation \in Generations /\ generation \in Nat /\ Current \in Generations
      /\ generation' = generation + 1
      /\ thread[t].handle <= generation /\ P(t) \in Process
      /\ Attached(Current, tableData, thread)
  BY <1>1, InData DEF NextGeneration, Generations
<1>3. next = AttachableRegion(generation + 1) /\ next \in Generations /\ thread[t].handle \in Generations
  BY <1>1, HandleOf DEF Newest, HolderNewest, At
<1>4. /\ thread'[t] = [thread[t] EXCEPT !.pc = "insert"] /\ OnlyThread(t) /\ thread[t] \in Access
      /\ tableData \in [Process -> Opened]
  BY <1>1, Gone, ThreadOf, Types DEF LInv
<1>5. /\ thread'[t].pc = "insert" /\ thread'[t].next = next /\ thread'[t].handle = thread[t].handle
      /\ P(t)' = P(t)
  BY <1>4 DEF Access, P
<1> HIDE DEF next
<1>6. Current' = next
  BY <1>1, <1>2, <1>3 DEF Current, AttachableRegion
<1>7. next <= generation + 1
  BY <1>2, <1>3 DEF AttachableRegion
<1>8. /\ tableData'[P(t)].generation = generation + 1 /\ tableData'[P(t)].region = next
      /\ \A p \in Process \ {P(t)} : tableData'[p] = tableData[p]
  BY <1>1, <1>2, <1>4 DEF Opened
<1>9. \A u \in Thread \ {t} : ~Holds(u)'
  BY <1>1, <1>4, Alone, OthersStay
<1>10. HolderNewest(t)'
  BY <1>2, <1>3, <1>5, <1>6, <1>8 DEF HolderNewest, Data, InUse, At, Generations
<1>11. ASSUME NEW p \in Process PROVE TableNewest(p)'
  <2>1. CASE p = P(t)
    BY <1>2, <1>6, <1>7, <1>8, <2>1 DEF TableNewest
  <2>2. CASE p # P(t)
    <3>1. tableData'[p] = tableData[p] /\ tableData[p] \in Opened /\ TableNewest(p)
      BY <1>4, <1>8, <2>2 DEF Newest
    <3> QED BY <1>2, <3>1 DEF TableNewest, Opened
  <2> QED BY <2>1, <2>2
<1>12. Newest'
  BY <1>9, <1>10, <1>11 DEF Newest, HolderNewest
<1>13. \A u \in Thread : ~At(u, "publish")'
  BY <1>5, <1>9 DEF Holds, At
<1>14. stored \subseteq region[next].keys /\ region[next].keys \subseteq stored \cup revived
  BY <1>1, <1>2 DEF Contents, Generations, next
<1>15. Current' # 0 /\ stored' \subseteq region'[Current'].keys /\ region'[Current'].keys \subseteq stored' \cup revived'
  BY <1>1, <1>3, <1>6, <1>14 DEF Generations
<1>16. Contents'
  BY <1>13, <1>15 DEF Contents
<1> QED BY <1>12, <1>16

LEMMA SharedWrite ==
  ASSUME LInv, Newest, Contents, ~iterated, NEW t \in Thread, Holds(t),
         NEW K \in SUBSET Key, Cardinality(K) <= region[Current].size, Finish(t, Rekeyed(region, Current, K)),
         stored' \subseteq K, K \subseteq stored' \cup revived'
  PROVE  Newest' /\ Contents'
<1> DEFINE R == Rekeyed(region, Current, K)
           dropped == {thread[t].handle, thread[t].next}
<1>1. Current \in Generations /\ Exists(region[Current])
  BY InData, CurrentOf DEF Generations
<1>2. /\ IsRegions(R) /\ R[Current].keys = K
      /\ \A i \in Generations : Exists(R[i]) <=> Exists(region[i])
  BY <1>1, WithKeys
<1>3. End(t) /\ UNCHANGED <<generation, tableData>> /\ region' = Detached(R, dropped, tableData', thread')
  BY DEF Finish
<1> HIDE DEF R, dropped
<1>4. Exists(R[Current]) /\ \A i \in Generations : i <= generation /\ Exists(R[i]) => Exists(region[i])
  BY <1>1, <1>2
<1>5. stored' \subseteq R[Current].keys /\ R[Current].keys \subseteq stored' \cup revived'
  BY <1>2
<1> QED BY <1>2, <1>3, <1>4, <1>5, Leaves

\* What a thread sees that is in the data, but not between migration and publication.
LEMMA DataSeen ==
  ASSUME LInv, Newest, Contents, NEW t \in Thread, Holds(t)
  PROVE  /\ stored \subseteq region[Current].keys /\ region[Current].keys \subseteq stored \cup revived
         /\ Current \in Generations /\ IsRegions(region) /\ ~At(t, "idle")
         /\ ~At(t, "insert") => thread[t].handle = Current
         /\ At(t, "insert") => thread[t].next = Current
BY InData, RegionsOf DEF Contents, Generations, InUse, RegionsSound

LEMMA SharedInsert ==
  ASSUME LInv, Newest, Contents, ~iterated, NEW t \in Thread, Holds(t), NEW k \in Key,
         Fits(region[Current], k), Inserted(t, Current, k)
  PROVE  Newest' /\ Contents'
<1> DEFINE K == region[Current].keys \cup {k}
<1>1. /\ stored \subseteq region[Current].keys /\ region[Current].keys \subseteq stored \cup revived
      /\ Current \in Generations /\ IsRegions(region)
  BY DataSeen
<1>2. K \in SUBSET Key /\ Cardinality(K) <= region[Current].size
  BY <1>1, KeyInserted
<1>3. stored' \subseteq K /\ K \subseteq stored' \cup revived'
  BY <1>1 DEF Inserted
<1>4. Finish(t, Rekeyed(region, Current, K))
  BY <1>1 DEF Inserted, IsRegions, Rekeyed
<1> HIDE DEF K
<1> QED BY <1>2, <1>3, <1>4, SharedWrite

LEMMA SharedRemove ==
  ASSUME LInv, Newest, Contents, ~iterated, NEW t \in Thread, NEW k \in Key, RemoveDetails(t, k)
  PROVE  Newest' /\ Contents'
<1> DEFINE K == region[Current].keys \ {k}
<1>1. At(t, "use") /\ Holds(t) /\ ~At(t, "insert")
  BY DEF RemoveDetails, At, Holds
<1>2. /\ stored \subseteq region[Current].keys /\ region[Current].keys \subseteq stored \cup revived
      /\ Current \in Generations /\ IsRegions(region) /\ thread[t].handle = Current
  BY <1>1, DataSeen
<1>3. K \in SUBSET Key /\ Cardinality(K) <= region[Current].size
  BY <1>2, KeyRemoved
<1>4. stored' \subseteq K /\ K \subseteq stored' \cup revived'
  BY <1>2 DEF RemoveDetails
<1>5. Finish(t, Rekeyed(region, Current, K))
  BY <1>2 DEF RemoveDetails, IsRegions, Rekeyed
<1> HIDE DEF K
<1> QED BY <1>1, <1>3, <1>4, <1>5, SharedWrite

\* An access ends without a change of the current region.
LEMMA SharedEnd ==
  ASSUME LInv, Newest, Contents, ~iterated, NEW t \in Thread, Holds(t), End(t),
         UNCHANGED <<generation, tableData, stored, revived>>,
         NEW R, IsRegions(R), \A g \in Generations : Exists(region[g]) => R[g] = region[g],
         \A g \in Generations : g <= generation /\ Exists(R[g]) => Exists(region[g]),
         NEW dropped, region' = Detached(R, dropped, tableData', thread')
  PROVE  Newest' /\ Contents'
<1>1. /\ stored \subseteq region[Current].keys /\ region[Current].keys \subseteq stored \cup revived
      /\ Current \in Generations
  BY DataSeen
<1>2. Exists(region[Current]) /\ R[Current] = region[Current]
  BY <1>1, CurrentOf DEF Generations
<1>3. stored' \subseteq R[Current].keys /\ R[Current].keys \subseteq stored' \cup revived'
  BY <1>1, <1>2
<1> QED BY <1>2, <1>3, Leaves

LEMMA SharedMigrationFails ==
  ASSUME LInv, Newest, Contents, ~iterated, NEW t \in Thread, MigrationFails(t)
  PROVE  Newest' /\ Contents'
<1> DEFINE R == NextRegions(t)
           r == NextRegion(t)
           g == NextGeneration(t)
           dropped == {r, thread[t].handle}
<1>1. /\ At(t, "migrate") /\ Holds(t) /\ g \in Generations /\ End(t)
      /\ UNCHANGED <<generation, tableData, stored, revived>>
      /\ region' = Detached(R, dropped, tableData', thread')
  BY DEF MigrationFails, At, Holds, history
<1>2. generation \in Nat /\ g = generation + 1
  BY <1>1, InData DEF NextGeneration, Generations
<1>3. /\ r \in Generations /\ IsRegions(R)
      /\ \A i \in Generations : Exists(region[i]) => R[i] = region[i]
      /\ \A i \in Generations \ {r} : R[i] = region[i]
      /\ R[r] = region[r] \/ (r = g /\ R[r].keys = {})
  BY <1>1, NextRegionOf
<1> HIDE DEF R, r, g, dropped
<1>4. \A i \in Generations : i <= generation /\ Exists(R[i]) => Exists(region[i])
  <2> SUFFICES ASSUME NEW i \in Generations, i <= generation, Exists(R[i]) PROVE Exists(region[i])
    OBVIOUS
  <2>1. i # g
    BY <1>2
  <2> QED BY <1>3, <2>1
<1> QED BY <1>1, <1>3, <1>4, SharedEnd

LEMMA SharedProceed ==
  ASSUME LInv, Newest, Contents, ~iterated, ~iterated', LInv', NEW t \in Thread, Proceed(t), Effect(t)
  PROVE  Newest' /\ Contents'
<1>1. IsRegions(region) /\ OnlyThread(t)
  BY RegionsOf DEF RegionsSound, Effect
<1>2. CASE ContactDetails(t) \/ EndIteration(t) \/ SetFails(t) \/ ReallocationTimesOut(t) \/ RegionNotCreated(t)
  <2>1. Holds(t) /\ End(t) /\ UNCHANGED <<generation, tableData, stored, revived>>
    BY <1>2 DEF ContactDetails, EndIteration, SetFails, ReallocationTimesOut, RegionNotCreated, Finish, At, Holds,
       history
  <2>2. PICK dropped : region' = Detached(region, dropped, tableData, thread')
    BY <1>2 DEF ContactDetails, EndIteration, SetFails, ReallocationTimesOut, RegionNotCreated, Finish
  <2>3. region' = Detached(region, dropped, tableData', thread')
    BY <2>1, <2>2
  <2> QED BY <1>1, <2>1, <2>3, SharedEnd
<1>3. ASSUME NEW k \in Key, SetContactDetails(t, k) PROVE Newest' /\ Contents'
  <2>1. At(t, "use") /\ Holds(t) /\ ~At(t, "insert")
    BY <1>3 DEF SetContactDetails, At, Holds
  <2>2. thread[t].handle = Current
    BY <2>1, DataSeen
  <2> QED BY <1>3, <2>1, <2>2, SharedInsert DEF SetContactDetails
<1>4. CASE SetInNewTable(t)
  <2>1. At(t, "insert") /\ Holds(t) /\ thread[t].key \in Key
    BY <1>4 DEF SetInNewTable, At, Holds, LInv, Threads, ThreadSound
  <2>2. thread[t].next = Current
    BY <2>1, DataSeen
  <2> QED BY <1>4, <2>1, <2>2, SharedInsert DEF SetInNewTable
<1>5. ASSUME UNCHANGED <<region, tableData, generation>>, ~At(t, "idle"), End(t), ~Holds(t),
             UNCHANGED <<stored, revived>> \/ StoreKept
      PROVE  Newest' /\ Contents'
  <2>1. thread'[t].handle = 0 /\ thread'[t].next = 0 /\ thread'[t].pc = "idle"
    BY <1>5, Ended DEF Idle
  <2>2. ~Holds(t)'
    BY <2>1 DEF Holds
  <2> QED BY <1>1, <1>5, <2>1, <2>2, Quiet
<1>6. ASSUME UNCHANGED <<region, tableData, generation, stored, revived>>, ~At(t, "idle"), ~At(t, "insert"),
             NEW l \in {"key", "data", "reallocMutex", "reallocKey", "migrate"}, Goto(t, l),
             l \in {"key", "data"} \/ Holds(t)
      PROVE  Newest' /\ Contents'
  <2>1. /\ thread'[t] = [thread[t] EXCEPT !.pc = l] /\ thread'[t].pc = l /\ P(t)' = P(t) /\ thread[t] \in Access
    BY <1>6, Gone, ThreadOf
  <2>2. thread'[t].handle = thread[t].handle /\ thread'[t].next = thread[t].next
    BY <2>1 DEF Access
  <2>3. Holds(t)' => Holds(t)
    BY <1>6, <2>1 DEF Holds
  <2>4. thread'[t].pc # "publish" /\ thread'[t].pc # "insert"
    BY <2>1
  <2> QED BY <1>1, <1>6, <2>1, <2>2, <2>3, <2>4, Quiet
<1>7. CASE LockMutex(t)
  <2>1. /\ UNCHANGED <<region, tableData, generation, stored, revived>> /\ ~At(t, "idle") /\ ~Holds(t)
        /\ ~At(t, "insert") /\ (End(t) \/ Goto(t, "key"))
    BY <1>7 DEF LockMutex, At, Holds, shared, history
  <2> QED BY <1>5, <1>6, <2>1
<1>8. CASE ReallocationLocksMutex(t) \/ ReallocationLocksKey(t)
  <2>1. /\ UNCHANGED <<region, tableData, generation, stored, revived>> /\ ~At(t, "idle") /\ Holds(t)
        /\ ~At(t, "insert") /\ (Goto(t, "reallocKey") \/ Goto(t, "migrate"))
    BY <1>8 DEF ReallocationLocksMutex, ReallocationLocksKey, At, Holds, shared, history
  <2> QED BY <1>6, <2>1
<1>9. ASSUME NEW k \in Key, BeginReallocation(t, k) PROVE Newest' /\ Contents'
  <2>1. /\ UNCHANGED <<region, tableData, generation, stored, revived>> /\ ~At(t, "idle") /\ Holds(t)
        /\ ~At(t, "insert") /\ thread' = [thread EXCEPT ![t].pc = "reallocMutex", ![t].key = k]
    BY <1>9 DEF BeginReallocation, At, Holds, shared, history
  <2>2. /\ thread'[t].pc = "reallocMutex" /\ thread'[t].handle = thread[t].handle
        /\ thread'[t].next = thread[t].next /\ P(t)' = P(t)
    BY <2>1, ThreadOf DEF Access, P
  <2> QED BY <1>1, <2>1, <2>2, Quiet
<1>10. CASE LockKey(t)
  <2>1. /\ UNCHANGED <<region, tableData, stored, revived>> /\ ~At(t, "idle") /\ ~At(t, "insert") /\ ~Holds(t)
        /\ Goto(t, "data") /\ generation' = IF generation = 0 THEN 1 ELSE generation
    BY <1>10 DEF LockKey, At, Holds, history
  <2>2. CASE generation # 0
    BY <1>6, <2>1, <2>2
  <2>3. CASE generation = 0
    <3>1. \A p \in Process : tableData[p] = NotOpen
      BY <2>3 DEF LInv, Tables, TableSound, KeyAttached
    <3>2. \A u \in Thread : ~Holds(u)'
      BY <2>1, <3>1 DEF LInv, Threads, ThreadSound, Holds, At, Data, NotOpen
    <3>3. \A u \in Thread : thread'[u].handle = 0 /\ thread'[u].next = 0 /\ ~At(u, "publish")'
      BY <3>2 DEF LInv, Threads, ThreadSound, Holds, At
    <3>4. stored' = {}
      BY <2>1, <2>3 DEF Contents, Current
    <3>5. Current' # 0 => ~Attached(Current', tableData', thread')
      BY <2>1, <3>1, <3>3 DEF Attached, NotOpen
    <3> QED BY <2>1, <3>1, <3>2, <3>3, <3>4, <3>5 DEF Newest, TableNewest, HolderNewest, Contents, NotOpen
  <2> QED BY <2>2, <2>3
<1>11. ASSUME ~At(t, "idle"), End(t), ~Holds(t), UNCHANGED <<region, tableData>>, StoreKept,
              generation' = KeyDetached(tableData', thread')
       PROVE  Newest' /\ Contents'
  <2>1. CASE KeyAttached(tableData', thread')
    BY <1>5, <1>11, <2>1 DEF KeyDetached
  <2>2. CASE ~KeyAttached(tableData', thread')
    BY <1>11, <2>2, KeyGone DEF KeyDetached
  <2> QED BY <2>1, <2>2
<1>12. CASE LockKeyTimesOut(t) \/ LockDataCannotAttach(t)
  <2>1. /\ ~At(t, "idle") /\ ~Holds(t) /\ End(t) /\ UNCHANGED <<region, tableData>> /\ StoreKept
        /\ generation' = KeyDetached(tableData', thread')
    BY <1>12 DEF LockKeyTimesOut, LockDataCannotAttach, At, Holds, KeyDetached
  <2> QED BY <1>11, <2>1
<1>13. CASE LockDataTimesOut(t)
  <2>1. ~At(t, "idle") /\ ~Holds(t) /\ UNCHANGED <<region, tableData>> /\ StoreKept
    BY <1>13 DEF LockDataTimesOut, At, Holds
  <2>2. CASE thread' = [thread EXCEPT ![t].pc = "key", ![t].attempts = @ + 1] /\ UNCHANGED generation
    <3>1. thread'[t].pc = "key" /\ thread'[t].handle = thread[t].handle /\ thread'[t].next = thread[t].next
      BY <2>1, <2>2, ThreadOf DEF Access
    <3>2. ~Holds(t)'
      BY <3>1 DEF Holds
    <3> QED BY <1>1, <2>1, <2>2, <3>1, <3>2, Quiet
  <2>3. CASE End(t) /\ generation' = KeyDetached(tableData', thread')
    BY <1>11, <2>1, <2>3
  <2> QED BY <1>13, <2>1, <2>2, <2>3 DEF LockDataTimesOut, KeyDetached
<1>14. CASE DataLock(t)
  BY <1>14 DEF DataLock
<1> QED BY <1>2, <1>3, <1>4, <1>7, <1>8, <1>9, <1>10, <1>12, <1>13, <1>14,
           SharedOpen, SharedUse, SharedMigrate, SharedPublish, SharedRemove, SharedMigrationFails DEF Proceed

LEMMA SharedBegin ==
  ASSUME LInv, Newest, Contents, NEW t \in Thread, NEW p \in Process, Begin(t, p)
  PROVE  Newest' /\ Contents'
<1>1. thread \in [Thread -> Access] /\ tableData \in [Process -> Opened]
  BY Types DEF LInv
<1>2. /\ thread' = [thread EXCEPT ![t] = [Idle EXCEPT !.pc = "mutex", !.process = p, !.opening = ~tableData[p].open]]
      /\ UNCHANGED <<region, tableData, generation, stored, revived>>
  BY DEF Begin, shared, history
<1>3. /\ thread'[t].pc = "mutex" /\ thread'[t].handle = 0 /\ thread'[t].next = 0
      /\ \A u \in Thread \ {t} : thread'[u] = thread[u]
  BY <1>1, <1>2 DEF Idle
<1>4. [Idle EXCEPT !.pc = "mutex", !.process = p, !.opening = ~tableData[p].open] \in Access
  <2>1. tableData[p].open \in BOOLEAN /\ Idle \in Access
    BY <1>1, IdleAccess DEF Opened
  <2> QED BY <2>1 DEF Access
<1>5. OnlyThread(t)
  BY <1>1, <1>2, <1>3, <1>4 DEF OnlyThread
<1>6. ~Holds(t)'
  BY <1>3 DEF Holds
<1> QED BY <1>2, <1>3, <1>5, <1>6, Quiet

\* A process goes, and the current region stays.
LEMMA SharedGone ==
  ASSUME LInv, Newest, Contents, NEW p \in Process,
         \A t \in Thread : thread'[t] = IF P(t) = p THEN Idle ELSE thread[t],
         tableData' = [tableData EXCEPT ![p] = NotOpen],
         generation' = generation, Current # 0 => region'[Current] = region[Current],
         Current' = Current,
         \A g \in Generations : Attached(g, tableData', thread') => region'[g] = region[g],
         \A g \in Generations : Exists(region'[g]) => Exists(region[g]),
         IF Current = 0 THEN stored' = {} ELSE UNCHANGED <<stored, revived>>
  PROVE  Newest' /\ Contents'
<1>1. /\ \A q \in Process : TableNewest(q)
      /\ \A t \in Thread : HolderNewest(t) /\ ThreadSound(t)
      /\ tableData \in [Process -> Opened]
  BY Types DEF Newest, LInv, Threads
<1>2. tableData'[p] = NotOpen /\ \A q \in Process \ {p} : tableData'[q] = tableData[q]
  BY <1>1
<1>3. \A t \in Thread : P(t) = p => ~Holds(t)' /\ ~At(t, "publish")'
  BY DEF Holds, At, Idle
<1>4. ASSUME NEW q \in Process PROVE TableNewest(q)'
  BY <1>1, <1>2 DEF TableNewest, NotOpen
<1>5. ASSUME NEW t \in Thread PROVE HolderNewest(t)'
  <2>1. CASE P(t) = p
    BY <1>3, <2>1 DEF HolderNewest
  <2>2. CASE P(t) # p /\ Holds(t)'
    <3>1. thread'[t] = thread[t] /\ Holds(t) /\ P(t)' = P(t)
      BY <2>2 DEF Holds, P
    <3>2. P(t) \in Process
      BY <1>1, <3>1 DEF ThreadSound, Holds, At
    <3>3. Data(t)' = Data(t) /\ InUse(t)' = InUse(t) /\ (At(t, "publish")' <=> At(t, "publish"))
      BY <1>2, <2>2, <3>1, <3>2 DEF Data, InUse, At
    <3>4. /\ Data(t).generation = generation /\ Data(t).region = Current /\ InUse(t) = Current
          /\ thread[t].handle <= generation
          /\ At(t, "publish") => thread[t].next = AttachableRegion(generation + 1)
      BY <1>1, <3>1 DEF HolderNewest
    <3>5. At(t, "publish") => AttachableRegion(generation + 1)' = AttachableRegion(generation + 1)
      <4> SUFFICES ASSUME At(t, "publish") PROVE AttachableRegion(generation + 1)' = AttachableRegion(generation + 1)
        OBVIOUS
      <4>1. /\ generation \in Generations /\ Current \in Generations /\ generation + 1 \in Generations
        BY <1>1, <3>1, InData DEF ThreadSound, NextGeneration
      <4>2. /\ thread[t].next \in Generations /\ Exists(region[thread[t].next])
            /\ region'[thread[t].next] = region[thread[t].next]
        <5>1. thread[t].next \in Generations /\ Exists(region[thread[t].next])
          BY <3>1, HandleOf DEF At
        <5>2. Attached(thread[t].next, tableData', thread')
          BY <3>1 DEF Attached
        <5> QED BY <5>1, <5>2
      <4>3. thread[t].next = generation + 1 \/ (thread[t].next = generation /\ ~Exists(region[generation + 1]))
        BY <3>4, <4>1, <4>2 DEF AttachableRegion, Generations
      <4>4. generation \in Nat /\ generation >= 1 /\ (generation + 1) - 1 = generation
        BY <4>1, Generation DEF Generations
      <4>5. CASE thread[t].next = generation + 1
        BY <4>2, <4>5 DEF AttachableRegion
      <4>6. CASE thread[t].next = generation /\ ~Exists(region[generation + 1])
        <5>1. ~Exists(region'[generation + 1]) /\ Exists(region'[generation]) /\ Exists(region[generation])
          BY <4>1, <4>2, <4>6
        <5>2. AttachableRegion(generation + 1) = generation /\ AttachableRegion(generation + 1)' = generation
          BY <4>4, <4>6, <5>1 DEF AttachableRegion
        <5> QED BY <5>2
      <4> QED BY <4>3, <4>5, <4>6
    <3> QED BY <3>1, <3>3, <3>4, <3>5 DEF HolderNewest
  <2> QED BY <2>1, <2>2 DEF HolderNewest
<1>6. Newest'
  BY <1>4, <1>5 DEF Newest
<1>7. \A g \in Generations : Attached(g, tableData', thread') => Attached(g, tableData, thread)
  <2>1. \A q \in Process : tableData'[q].region \in {0, tableData[q].region}
    BY <1>2 DEF NotOpen
  <2>2. \A t \in Thread : thread'[t].handle \in {0, thread[t].handle} /\ thread'[t].next \in {0, thread[t].next}
    BY DEF Idle
  <2>3. \A g \in Generations : g # 0
    BY DEF Generations
  <2> QED BY <2>1, <2>2, <2>3 DEF Attached
<1>8. ASSUME Current # 0 PROVE Contents'
  <2>1. stored' = stored /\ revived' = revived /\ Current \in Generations /\ region'[Current] = region[Current]
    BY <1>8, CurrentOf
  <2>2. stored' \subseteq region'[Current].keys
    BY <1>8, <2>1 DEF Contents
  <2>3. Attached(Current, tableData', thread') => region'[Current].keys \subseteq stored' \cup revived'
    BY <1>7, <1>8, <2>1 DEF Contents
  <2>4. ASSUME NEW t \in Thread, At(t, "publish")'
        PROVE  /\ region'[Current].keys \subseteq region'[thread'[t].next].keys
               /\ region'[thread'[t].next].keys \subseteq stored' \cup revived'
    <3>1. thread'[t] = thread[t] /\ At(t, "publish") /\ Holds(t)
      BY <1>3, <2>4 DEF At, Holds
    <3>2. thread[t].next \in Generations /\ Attached(thread[t].next, tableData', thread')
      BY <3>1, HandleOf DEF At, Attached
    <3> QED BY <1>8, <2>1, <3>1, <3>2 DEF Contents
  <2> QED BY <1>8, <2>2, <2>3, <2>4 DEF Contents
<1>9. ASSUME Current = 0 PROVE Contents'
  BY <1>9 DEF Contents
<1> QED BY <1>6, <1>8, <1>9

LEMMA SharedCrash ==
  ASSUME LInv, Newest, Contents, NEW p \in Process, Crash(p)
  PROVE  Newest' /\ Contents'
<1>1. /\ thread' = [t \in Thread |-> IF P(t) = p THEN Idle ELSE thread[t]]
      /\ tableData' = [tableData EXCEPT ![p] = NotOpen]
      /\ UNCHANGED <<generation, region, stored, revived>>
  BY DEF Crash, shared, history
<1>2. Current' = Current
  BY <1>1 DEF Current, AttachableRegion
<1>3. IF Current = 0 THEN stored' = {} ELSE UNCHANGED <<stored, revived>>
  BY <1>1 DEF Contents
<1>4. \A t \in Thread : thread'[t] = IF P(t) = p THEN Idle ELSE thread[t]
  BY <1>1
<1> QED BY <1>1, <1>2, <1>3, <1>4, SharedGone

\* The last process to have the current region exits: nothing that is stored is left.
LEMMA SharedLast ==
  ASSUME LInv, LInv', Newest, StoreKept, generation' = generation, Current # 0, ~Exists(region'[Current]),
         ~Attached(Current, tableData', thread'), UNCHANGED thread,
         \A g \in Generations : Exists(region'[g]) => Exists(region[g]),
         \A p \in Process : tableData'[p] = tableData[p] \/ tableData'[p] = NotOpen
  PROVE  Newest' /\ Contents'
<1>1. /\ generation \in Generations /\ Current \in Generations /\ Current = AttachableRegion(generation)
      /\ Current = generation \/ (Current = generation - 1 /\ ~Exists(region[generation]))
  BY CurrentOf DEF Generations
<1>2. stored' = {} /\ revived' = IF generation > 1 THEN region'[generation - 1].keys ELSE {}
  BY <1>1 DEF StoreKept
<1>3. Current' # 0 => generation > 1 /\ Current' = generation - 1
  BY <1>1 DEF Current, AttachableRegion
<1>4. ASSUME NEW p \in Process, tableData'[p].open PROVE tableData'[p] = tableData[p] /\ tableData[p].generation # generation
  <2>1. tableData'[p] = tableData[p]
    BY <1>4 DEF NotOpen
  <2>2. tableData[p].region # Current
    BY <2>1 DEF Attached
  <2> QED BY <1>4, <2>1, <2>2 DEF Newest, TableNewest
<1>5. \A p \in Process : TableNewest(p)'
  BY <1>4 DEF Newest, TableNewest
<1>6. \A t \in Thread : ~Holds(t)'
  <2> SUFFICES ASSUME NEW t \in Thread, Holds(t) PROVE FALSE
    BY DEF Holds
  <2>1. P(t) \in Process /\ Data(t).region = Current
    BY InData
  <2>2. tableData'[P(t)].open
    BY DEF LInv, Threads, ThreadSound, Holds, At, Data, P
  <2>3. tableData'[P(t)] = tableData[P(t)]
    BY <1>4, <2>1, <2>2
  <2> QED BY <2>1, <2>3 DEF Attached, Data
<1>7. \A t \in Thread : ~At(t, "publish")'
  BY <1>6 DEF Holds, At
<1>8. Contents'
  BY <1>2, <1>3, <1>7 DEF Contents
<1> QED BY <1>5, <1>6, <1>8 DEF Newest, HolderNewest

LEMMA SharedExit ==
  ASSUME LInv, LInv', Newest, Contents, NEW p \in Process, Exit(p)
  PROVE  Newest' /\ Contents'
<1>1. /\ tableData[p].open /\ \A t \in Thread : P(t) # p
      /\ tableData' = [tableData EXCEPT ![p] = NotOpen] /\ UNCHANGED thread
      /\ region' = Detached(region, {tableData[p].region}, tableData', thread')
      /\ generation' = KeyDetached(tableData', thread') /\ StoreKept
  BY DEF Exit
<1>2. IsRegions(region) /\ tableData \in [Process -> Opened]
  BY RegionsOf, Types DEF RegionsSound, LInv
<1>3. /\ \A g \in Generations : region'[g] = region[g] \/ region'[g] = NoRegion
      /\ \A g \in Generations : Attached(g, tableData', thread') => region'[g] = region[g]
  BY <1>1, <1>2, DetachedRegions
<1>4. ~Exists(NoRegion) /\ \A g \in Generations : Exists(region'[g]) => region'[g] = region[g]
  BY <1>3 DEF Exists, NoRegion
<1>5. \A q \in Process : tableData'[q] = tableData[q] \/ tableData'[q] = NotOpen
  BY <1>1, <1>2
<1>6. CASE ~KeyAttached(tableData', thread')
  BY <1>1, <1>6, KeyGone DEF KeyDetached
<1>7. CASE KeyAttached(tableData', thread') /\ Current # 0 /\ ~Exists(region'[Current])
  <2>1. Current \in Generations /\ Exists(region[Current])
    BY <1>7, CurrentOf
  <2>2. ~Attached(Current, tableData', thread')
    BY <1>3, <1>7, <2>1
  <2> QED BY <1>1, <1>4, <1>5, <1>7, <2>2, SharedLast DEF KeyDetached
<1>8. CASE KeyAttached(tableData', thread') /\ (Current # 0 => Exists(region'[Current]))
  <2>1. generation' = generation
    BY <1>1, <1>8 DEF KeyDetached
  <2>2. Current' = Current
    BY <1>4, <1>8, <2>1, CurrentKept
  <2>3. Current # 0 => region'[Current] = region[Current]
    BY <1>4, <1>8, CurrentOf
  <2>4. IF Current = 0 THEN stored' = {} ELSE UNCHANGED <<stored, revived>>
    BY <1>1, <1>8, <2>1, StoreKeptCurrent
  <2>5. \A t \in Thread : thread'[t] = IF P(t) = p THEN Idle ELSE thread[t]
    BY <1>1
  <2> QED BY <1>1, <1>3, <1>4, <2>1, <2>2, <2>3, <2>4, <2>5, SharedGone
<1> QED BY <1>6, <1>7, <1>8

LEMMA IteratedStays ==
  ASSUME LInv, NEW t \in Thread, Proceed(t), iterated
  PROVE  iterated'
BY LockEffects DEF Effect

LEMMA SharedNext == SInv /\ [Next]_vars => SInv'
<1> SUFFICES ASSUME SInv, [Next]_vars PROVE SInv'
  OBVIOUS
<1>1. LInv /\ LInv' /\ (~iterated => Newest /\ Contents)
  BY NextStep DEF SInv
<1> SUFFICES ASSUME ~iterated' PROVE Newest' /\ Contents'
  BY <1>1 DEF SInv
<1>2. ASSUME NEW t \in Thread, Proceed(t) PROVE Newest' /\ Contents'
  <2>1. ~iterated
    BY <1>1, <1>2, IteratedStays
  <2> QED BY <1>1, <1>2, <2>1, LockEffects, SharedProceed
<1>3. ASSUME NEW p \in Process, Exit(p) PROVE Newest' /\ Contents'
  <2>1. ~iterated
    BY <1>3, StillIterated DEF Exit
  <2> QED BY <1>1, <1>3, <2>1, SharedExit
<1>4. ASSUME NEW p \in Process, Crash(p) PROVE Newest' /\ Contents'
  <2>1. ~iterated
    BY <1>4 DEF Crash, history
  <2> QED BY <1>1, <1>4, <2>1, SharedCrash
<1>5. ASSUME NEW p \in Process, NEW t \in Thread, Begin(t, p) PROVE Newest' /\ Contents'
  <2>1. ~iterated
    BY <1>5 DEF Begin, history
  <2> QED BY <1>1, <1>5, <2>1, SharedBegin
<1>6. CASE UNCHANGED vars
  <2>1. UNCHANGED <<generation, region, tableData, thread, stored, revived, iterated>>
    BY <1>6 DEF vars, shared, history
  <2>2. Current' = Current
    BY <2>1 DEF Current, AttachableRegion
  <2>3. Newest'
    BY <1>1, <2>1, <2>2 DEF Newest, TableNewest, HolderNewest, Holds, Data, P, InUse, At, AttachableRegion
  <2>4. Contents'
    BY <1>1, <2>1, <2>2 DEF Contents, At
  <2> QED BY <2>3, <2>4
<1> QED BY <1>2, <1>3, <1>4, <1>5, <1>6 DEF Next

\* The inductive invariant of what the data lock protects.
THEOREM SharedInvariance == Spec => []SInv
<1>1. Init => SInv
  <2> SUFFICES ASSUME Init PROVE SInv
    OBVIOUS
  <2>1. /\ \A t \in Thread : thread[t] = Idle
        /\ \A p \in Process : tableData[p] = NotOpen
        /\ generation = 0 /\ stored = {}
    BY DEF Init
  <2>2. Newest
    BY <2>1 DEF Newest, TableNewest, HolderNewest, Holds, Idle, NotOpen
  <2>3. Contents
    BY <2>1 DEF Contents, Current
  <2> QED BY <2>2, <2>3, Initially DEF SInv
<1>2. SInv /\ [Next]_vars => SInv'
  BY SharedNext
<1> QED BY <1>1, <1>2, PTL DEF Spec

\* All who are in the data are in the region that the key region names, and find there what
\* was stored and nothing else, however often the table is reallocated (reallocateTable),
\* newer regions are attached in place of old ones (table) and processes exit or die.
THEOREM StoreIsShared == Spec => []StoreShared
<1>1. SInv => StoreShared
  <2> SUFFICES ASSUME LInv, ~iterated, Newest, Contents PROVE NewestInUse /\ NothingElseStored
    BY DEF SInv, StoreShared
  <2> SUFFICES ASSUME NEW t \in Thread, Holds(t)
               PROVE  /\ InUse(t) # 0 /\ InUse(t) = AttachableRegion(generation)
                      /\ stored \subseteq region[InUse(t)].keys /\ region[InUse(t)].keys \subseteq stored \cup revived
    BY DEF NewestInUse, NothingElseStored
  <2>1. InUse(t) = Current /\ generation \in Generations /\ Current \in Generations
    BY InData
  <2> QED BY <2>1, DataSeen, CurrentOf DEF Generations
<1> QED BY <1>1, SharedInvariance, PTL
===============================================================================
